SPECIFICATION Spec
CONSTANTS
  c1 = c1
  c2 = c2
  c3 = c3
  x = x
  y = y
  CERO = CERO
  Pids = {c1, c2, c3}
  Contenidos = {x, y}
  Configuraciones <- DosArchivosOUno
  MARCOS_MAXIMOS = 2
  MaxPagina = 2
SYMMETRY Simetria
INVARIANT TypeOK
INVARIANT MarcosPropios
INVARIANT MarcosLimpios
PROPERTY OtrosQuietos
PROPERTY ImplementaSwap
CHECK_DEADLOCK FALSE
