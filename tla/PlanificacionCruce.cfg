CONSTANTS
  p1 = p1
  p2 = p2
  p3 = p3
  NULL = NULL
  Procesos <- Dos
  GRADO = 2
  ALGORITMO = "FIFO"
  TIEMPO_MAXIMO = 2
  MS_BETWEEN_IO_CHECK = 2
  MODULO = 8
  TiemposIO = {2}
  MaxIO = 0
  Estimaciones = {1}
  Grandes = {}
SPECIFICATION Spec
INVARIANTS
  TablaPropia
CHECK_DEADLOCK FALSE
