CONSTANTS
  p1 = p1 p2 = p2 p3 = p3
  u1 = u1 u2 = u2
  d1 = d1 d2 = d2
  a1 = a1 a2 = a2
  l1 = l1 c1 = c1
  Comite = {p1, p2, p3}
  Operaciones = {"editar", "eliminar", "abrir", "cerrar", "recordatorio"}
  Usuarios = {u1, u2}
  Derechos = {d1, d2}
  Aulas = {a1, a2}
  Listas = {l1, c1}
  Contables = {l1}
  Blanco = Blanco
  Nulo = Nulo
  MaxReloj = 1
  DuenoDe <- MCDuenoDe
  AulaDe <- MCAulaDe
SPECIFICATION Spec
SYMMETRY Simetria
INVARIANTS
  RastroCompleto
  EscrutinioCuadra
  AvisosDelPadron
PROPERTIES
  UnaSolaVida
  ConflictoSinPerdida
CHECK_DEADLOCK FALSE
