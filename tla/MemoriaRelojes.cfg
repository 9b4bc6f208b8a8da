CONSTANTS
  p1 = p1
  p2 = p2
  NULL = NULL
  Procesos = {p1, p2}
  Configuraciones <- UnoYDos
  ENTRADAS_POR_TABLA = 2
  CANTIDAD_MARCOS = 2
  Valores = {0, 1}
  BASURA = 1
  Escritos = {1}
  GRADO = 2
SPECIFICATION Spec
INVARIANTS
  TypeOK
  LimpiasEnSwap
  VictimaMinima
  MarcosEnRegla
  HayMarco
  TLBCoherente
  EscrituraEncuentra
PROPERTIES
  ImplementaMemoria
CHECK_DEADLOCK FALSE
