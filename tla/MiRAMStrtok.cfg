SPECIFICATION Spec
CONSTANTS
  TRIPULANTES <- DosPatotas
  TAREAS <- DosTareas
  Estados = {"N", "R"}
  Posiciones = {0, 1}
  Configuraciones <- Segmentada
  MaxSeparando = 2
  MaxCambios = 0
INVARIANT TareasPropias
CHECK_DEADLOCK FALSE
