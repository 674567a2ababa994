CONSTANTS
  r1 = r1 r2 = r2 p1 = p1 p2 = p2
  u1 = u1 d1 = d1 d2 = d2 a1 = a1 a2 = a2
  k1 = k1 k2 = k2 l1 = l1
  Peticiones = {r1}
  Comite = {p1, p2}
  Operaciones = {"abrir", "cerrar"}
  Usuarios = {u1}
  Derechos = {d1, d2}
  Aulas = {a1, a2}
  Claves = {k1, k2}
  Listas = {l1}
  Contables = {l1}
  Blanco = Blanco
  Nulo = Nulo
  MaxReloj = 2
  DuenoDe <- MCDuenoDe
  AulaDe <- MCAulaDe
  Entradas <- MCEntradas
SPECIFICATION Spec
INVARIANT SinVotosTrasCierre
CHECK_DEADLOCK FALSE
