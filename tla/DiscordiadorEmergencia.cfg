SPECIFICATION SpecJusta
CONSTANTS
  t1 = t1
  t2 = t2
  NULL = NULL
  Tripulantes = {t1}
  Patotas <- UnTripulante
  Escenarios <- PausaYSabotaje
  GRADO_MULTITAREA = 1
  ALGORITMO = "FIFO"
  QUANTUM = 1
PROPERTY SabotajeTermina
CHECK_DEADLOCK FALSE
