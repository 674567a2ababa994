CONSTANTS
  d1 = d1  d2 = d2  e1 = e1  e2 = e2  u1 = u1  u2 = u2
  a1 = a1  a2 = a2  a3 = a3  g1 = g1  n1 = n1  r1 = r1  r2 = r2  r3 = r3
  Nulo = Nulo
  Derechos = {d1, d2}
  Elecciones = {e1, e2}
  MaxMontajes = 3
  MaxLlamadas = 2
  Alumnos = {u1, u2}
  Aulas = {a1, a2, a3}
  AulasDelAnio = {a1, a2}
  Grados = {g1}
  Niveles = {n1}
  GradoDe <- MCGradoDe
  NivelDe <- MCNivelDe
  Tipos = {"municipio", "representante_aula"}
  Publicos = {"comunidad"}
  Escuelas <- MCEscuelas
  Visibles = {n1, a1, a3}
  MaxPeticiones = 2
  MaxBorradores = 1
  Ids = {r1, r2, r3}
  Personas = {u1}
  Grupos = {a1, a2}
  Inicial <- MCInicial
  Abiertos <- MCAbiertos
  MaxAperturas = 2
  MaxPedidos = 2
SPECIFICATION Spec
INVARIANTS BoletaVeraz PadronVeraz PanelSinDanio
SYMMETRY Simetria
CHECK_DEADLOCK FALSE
