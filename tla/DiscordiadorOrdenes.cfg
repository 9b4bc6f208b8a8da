SPECIFICATION Spec
CONSTANTS
  t1 = t1
  t2 = t2
  NULL = NULL
  Tripulantes = {t1, t2}
  Patotas <- UnaPatota
  Escenarios <- ExpulsionOSabotaje
  GRADO_MULTITAREA = 1
  ALGORITMO = "FIFO"
  QUANTUM = 1
INVARIANT TypeOK
INVARIANT CpusConservadas
INVARIANT DispositivoEnBlocked
INVARIANT PlanificacionPausada
INVARIANT EnSuCola
INVARIANT NadieQuedaEnNew
CHECK_DEADLOCK FALSE
