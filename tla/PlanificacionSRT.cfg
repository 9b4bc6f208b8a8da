CONSTANTS
  p1 = p1
  p2 = p2
  p3 = p3
  NULL = NULL
  Procesos <- Dos
  GRADO = 2
  ALGORITMO = "SRT"
  TIEMPO_MAXIMO = 4
  MS_BETWEEN_IO_CHECK = 2
  MODULO = 8
  TiemposIO = {2, 4}
  MaxIO = 1
  Estimaciones = {1, 2}
  Grandes = {}
SPECIFICATION Spec
INVARIANTS
  SemaforosEnBalance
  UnoEnEjecucion
  UnSoloLugar
PROPERTIES
  ImplementaCiclo
SYMMETRY Simetria
CHECK_DEADLOCK FALSE
