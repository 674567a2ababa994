CONSTANTS
  r1 = r1 r2 = r2
  u1 = u1 u2 = u2
  d1 = d1 d2 = d2
  k1 = k1 k2 = k2
  l1 = l1
  a1 = a1 a2 = a2
  Peticiones = {r1, r2}
  Usuarios = {u1, u2}
  Derechos = {d1, d2}
  Claves = {k1, k2}
  Listas = {l1}
  Aulas = {a1, a2}
  Blanco = Blanco
  Nulo = Nulo
  MaxReloj = 1
  DuenoDe <- MCDuenoDe
  AulaDe <- MCAulaDe
  Entradas <- MCEntradas
SPECIFICATION Spec
SYMMETRY Simetria
INVARIANTS
  TypeOK
  VotoUnico
  VotoLegitimo
  VotoConRastro
  ComprobanteVeraz
  RechazoVeraz
  ReferenciaViva
PROPERTY ImplementaUrna
CHECK_DEADLOCK FALSE
