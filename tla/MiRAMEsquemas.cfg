SPECIFICATION Spec
CONSTANTS
  TRIPULANTES <- DosPatotas
  TAREAS <- DosTareas
  Estados = {"N", "R"}
  Posiciones = {0, 1}
  Configuraciones <- Todas
  MaxSeparando = 1
  MaxCambios = 1
INVARIANT TypeOK
INVARIANT ParticionMemoria
INVARIANT FramesPropios
INVARIANT PaginasVivas
PROPERTY ImplementaTripulacion
CHECK_DEADLOCK FALSE
