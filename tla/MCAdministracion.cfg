CONSTANTS
  h1 = h1 h2 = h2 h3 = h3
  a1 = a1 a2 = a2 a3 = a3 n1 = n1 g1 = g1 s1 = s1 s2 = s2 x1 = x1 e1 = e1 p1 = p1
  v1 = v1 v2 = v2 l1 = l1 l2 = l2 l3 = l3 c1 = c1 o1 = o1 i1 = i1
  Peticiones = {h1, h2, h3}
  Agendas <- AgendasDeInicio
  Inicial <- FilasDeInicio
  Nulo = Nulo
SPECIFICATION Spec
SYMMETRY Simetria
INVARIANTS
  RastroDelRegistro
  ArbolCoherente
  AnioActivoUnico
  FilaAtomica
  CatalogoCoherente
  RastroDeEstado
CHECK_DEADLOCK FALSE
