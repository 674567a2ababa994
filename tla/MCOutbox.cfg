CONSTANTS
  c1 = c1 c2 = c2 e1 = e1 e2 = e2
  Trabajos = {c1, c2}
  Ejecutores = {e1, e2}
  MaxIntentos = 2
  MaxAtascos = 1
  MaxCaidas = 1
  LoteCorreos = 2
  CreadoEn <- UnoTrasOtro
  Nulo = Nulo
SPECIFICATION SpecCorreosViva
INVARIANTS
  CorreosAcotados
PROPERTIES
  TodoCorreoAvanza
CHECK_DEADLOCK FALSE
