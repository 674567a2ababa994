CONSTANTS
  t1 = t1 t2 = t2 e1 = e1 e2 = e2
  Trabajos = {t1, t2}
  Ejecutores = {e1, e2}
  MaxIntentos = 2
  MaxAtascos = 2
  MaxCaidas = 1
  Lote = 2
  CreadoEn <- UnaTransaccion
  Nulo = Nulo
SPECIFICATION SpecViva
INVARIANTS
  EmisionCompleta
  UnaGeneracion
PROPERTIES
  TodaActaAvanza
  EstadoFinal
CHECK_DEADLOCK FALSE
