CONSTANTS
  h1 = h1 h2 = h2 h3 = h3 h4 = h4
  u1 = u1 u2 = u2 k1 = k1 k2 = k2 g1 = g1
  Peticiones = {h1, h2, h3, h4}
  Usuarios = {u1, u2}
  Claves = {k1, k2}
  Subs = {g1}
  Cuerpos <- Pedidos
  Inicial <- Filas
  IntentosMax = 2
  Nulo = Nulo
SPECIFICATION Spec
SYMMETRY Simetria
INVARIANTS
  BloqueoAuditado
  SesionConRastro
  VinculoUnico
  TokenDeUnSoloUso
PROPERTIES
  SoloSeReactiva
CHECK_DEADLOCK FALSE
