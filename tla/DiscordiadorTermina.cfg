SPECIFICATION SpecJusta
CONSTANTS
  t1 = t1
  t2 = t2
  NULL = NULL
  Tripulantes = {t1, t2}
  Patotas <- UnaPatota
  Escenarios <- Tranquilo
  GRADO_MULTITAREA = 2
  ALGORITMO = "RR"
  QUANTUM = 1
INVARIANT ReadyContados
PROPERTY Terminan
