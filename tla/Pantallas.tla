----------------------------- MODULE Pantallas ------------------------------
(***************************************************************************)
(* The tab of one account behind AuthGuard: the pages MENU_POR_ROL gives   *)
(* its role, each over its own calls.  A page is of one of the three       *)
(* modules that are composed here, and the variables of the others have no *)
(* value while it is on the screen.                                        *)
(***************************************************************************)
EXTENDS Asistente

CONSTANTS
  Derechos, Elecciones, MaxMontajes, MaxLlamadas,                        \* of Boleta
  Ids, Personas, Grupos, Inicial, MaxAperturas, MaxPedidos,              \* of Paneles
  Abiertos                                                               \* the panels each role opens

VARIABLES
  rol,
  urna, cerrado, pantalla, llamadas, montajes, privado,                  \* of Boleta
  tabla, panel, pedidos, aperturas                                       \* of Paneles

deBoleta  == <<urna, cerrado, pantalla, llamadas, montajes, privado>>
dePaneles == <<tabla, panel, pedidos, aperturas>>
vars      == <<rol, varsAsistente, deBoleta, dePaneles>>

Votante     == INSTANCE Boleta
Administrar == INSTANCE Paneles

\* The pieces a panel may have.
Piezas ==
  [filtro : {"ninguno", "opcional", "obligatorio"}, crear : BOOLEAN, editar : BOOLEAN, ficha : BOOLEAN, trasladar : BOOLEAN,
   dialogos : SUBSET {"eliminar", "activar", "desbloquear", "estado"}]

\* Nulo is none of the records of a vote nor the end of a row; the first rows have ids; a role opens panels of those pieces.
ASSUME ConstantesPantallas ==
  /\ Nulo \notin [eleccion : Elecciones \cup {Nulo}, clave : Derechos \cup Nat \cup {Nulo}]
  /\ Nulo \notin [derecho : Derechos, eleccion : Elecciones \cup {Nulo}]
  /\ Nulo \notin {"eliminar", "baja"}
  /\ DOMAIN Inicial \subseteq Ids /\ Inicial \in [DOMAIN Inicial -> [persona : Personas, grupo : Grupos]]
  /\ \A r \in DOMAIN Abiertos : Abiertos[r] \subseteq Piezas

SinVotante     == urna = Nulo /\ cerrado = Nulo /\ pantalla = Nulo /\ llamadas = Nulo /\ montajes = Nulo /\ privado = Nulo
SinPaneles     == tabla = Nulo /\ panel = Nulo /\ pedidos = Nulo /\ aperturas = Nulo
SinAsistente   == escuela = Nulo /\ asistente = Nulo /\ conteo = Nulo /\ peticiones = Nulo /\ envio = Nulo /\ borradores = Nulo

Init ==
  \/ rol = "estudiante" /\ Votante!InitBoleta /\ SinPaneles /\ SinAsistente
  \/ rol \in DOMAIN Abiertos /\ SinVotante /\ Administrar!InitPaneles(Abiertos[rol]) /\ SinAsistente
  \/ rol = "comite" /\ SinVotante /\ SinPaneles /\ InitAsistente

EnBoleta    == pantalla # Nulo /\ UNCHANGED <<rol, varsAsistente, dePaneles>> /\ Votante!NextBoleta
EnPaneles   == panel # Nulo /\ UNCHANGED <<rol, varsAsistente, deBoleta>> /\ Administrar!NextPaneles
EnAsistente == asistente # Nulo /\ UNCHANGED <<rol, deBoleta, dePaneles>> /\ NextAsistente

Next == EnBoleta \/ EnPaneles \/ EnAsistente

Spec == Init /\ [][Next]_vars
-----------------------------------------------------------------------------
(* Properties *)

\* The pages of the voter (VotacionPage, MisVotacionesPage, ComprobantePage) say of the vote what
\* the ballot box holds, whatever call was lost, delayed, repeated or left behind.
BoletaVeraz == pantalla # Nulo => Votante!PantallaVeraz

\* The live count and the drafts of the asistente (ProcesoWizardPage, usePadronEnVivo()) are of the
\* segmentation the committee chose, and the count is the padron abrir() materialises.
PadronVeraz == asistente # Nulo => AsistenteVeraz

\* A traslado (PanelMatriculas) leaves no student without matricula and a form saves only its own
\* row, however handlers that outlive their panel, lost calls and other forms are interleaved.
PanelSinDanio == panel # Nulo => Administrar!TrasladoSinHueco /\ Administrar!EdicionDeSuFila
=============================================================================
