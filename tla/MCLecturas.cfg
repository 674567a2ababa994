CONSTANTS
  t1 = t1 e1 = e1 e2 = e2 h1 = h1 h2 = h2 d1 = d1 d2 = d2 a1 = a1 a2 = a2
  Trabajos = {t1}
  Ejecutores = {e1, e2}
  Lectores = {h1, h2}
  Derechos = {d1, d2}
  Aulas = {a1, a2}
  AulaDe <- UnAulaCadaUno
  MaxIntentos = 1
  MaxAtascos = 1
  MaxCaidas = 1
  Lote = 2
  CreadoEn <- UnInstante
  Dimension <- DeResultados
  Agendas <- AgendasDeLectura
  Nulo = Nulo
SPECIFICATION Spec
INVARIANTS
  LecturaCuadra
  SinFuga
PROPERTIES
  CacheFinal
CHECK_DEADLOCK FALSE
