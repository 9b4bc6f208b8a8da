CONSTANTS
  p1 = p1
  p2 = p2
  p3 = p3
  NULL = NULL
  Procesos <- Dos
  GRADO = 1
  ALGORITMO = "FIFO"
  TIEMPO_MAXIMO = 2
  MS_BETWEEN_IO_CHECK = 2
  MODULO = 8
  TiemposIO = {2}
  MaxIO = 0
  Estimaciones = {1}
  Grandes = {p1}
SPECIFICATION SpecJusta
PROPERTIES
  TablaRecibida
CHECK_DEADLOCK FALSE
