----------------------------- MODULE Asistente -----------------------------
(***************************************************************************)
(* ProcesoWizardPage: the four steps of a new proceso (wizard-reducer),    *)
(* the live count of usePadronEnVivo() beside them (a timer of 300 ms and  *)
(* a POST /procesos/padron of each change of the segmentation) and the     *)
(* POST /procesos of the last step, over a network that loses and delays.  *)
(* The name and the dates of the first step are taken as given.            *)
(***************************************************************************)
EXTENDS Padron

CONSTANTS
  Escuelas,       \* the schools to count
  Visibles,       \* bound: the nivel, grados and aulas that are picked
  MaxPeticiones,  \* bound: counts in flight when a new one is asked for
  MaxBorradores   \* bound: drafts when one is asked for

\* A school has finitely many matriculas, each of a student and an aula.
ASSUME ConstantesAsistente ==
  \A e \in Escuelas : IsFiniteSet(e.matriculas) /\ e.matriculas \subseteq [alumno : Alumnos, aula : Aulas]

VARIABLES
  escuela,      \* the rows the counts are taken from
  asistente,    \* EstadoAsistente, and enviando and creadoId of the page
  conteo,       \* EstadoPadron, and the timer of the effect
  peticiones,   \* the counts in flight
  envio,        \* the POST /procesos in flight, or Nulo
  borradores    \* the ProcesoElectoral rows, with their ProcesoAula rows

varsAsistente == <<escuela, asistente, conteo, peticiones, envio, borradores>>

SegmentacionLimpia == [publico |-> Nulo, alcance |-> Nulo, ids |-> {}]
EstadoVacio == [cargando |-> FALSE, datos |-> Nulo, error |-> FALSE, temporizador |-> FALSE]

InitAsistente ==
  /\ escuela \in Escuelas
  /\ asistente = [paso |-> 1, tipo |-> Nulo, seg |-> SegmentacionLimpia, enviando |-> FALSE, creado |-> FALSE]
  /\ conteo = EstadoVacio
  /\ peticiones = {}
  /\ envio = Nulo
  /\ borradores = {}
-----------------------------------------------------------------------------
(* usePadronEnVivo() *)

\* Mutant: an incomplete segmentation keeps the count of the last one.
EfectoSinVaciar(s) ==
  IF s = asistente.seg THEN UNCHANGED <<conteo, peticiones>>
  ELSE /\ peticiones' = {[p EXCEPT !.cancelado = TRUE] : p \in peticiones}
       /\ conteo' = [conteo EXCEPT !.temporizador = Completa(s), !.cargando = Completa(s) /\ @]

\* The effect: the cleanup cancels the timer and the request of the previous segmentation; the data
\* on the screen stays until the new ones arrive.
Efecto(s) ==
  IF s = asistente.seg THEN UNCHANGED <<conteo, peticiones>>
  ELSE /\ peticiones' = {[p EXCEPT !.cancelado = TRUE] : p \in peticiones}
       /\ conteo' = IF Completa(s) THEN [conteo EXCEPT !.temporizador = TRUE] ELSE EstadoVacio


Disparar ==
  /\ conteo.temporizador /\ Cardinality(peticiones) < MaxPeticiones
  /\ conteo' = [conteo EXCEPT !.temporizador = FALSE, !.cargando = TRUE, !.error = FALSE]
  /\ peticiones' = peticiones \cup {[seg |-> asistente.seg, cancelado |-> FALSE, respuesta |-> Nulo]}
  /\ UNCHANGED <<escuela, asistente, envio, borradores>>

\* POST /procesos/padron sends no tipo.
Contar(p) ==
  /\ p.respuesta = Nulo
  /\ peticiones' = (peticiones \ {p}) \cup
       {[p EXCEPT !.respuesta = IF Rechazada(p.seg, Nulo) THEN [ok |-> FALSE]
                                ELSE [ok |-> TRUE, padron |-> Calcular(escuela, p.seg)]]}
  /\ UNCHANGED <<escuela, asistente, conteo, envio, borradores>>

\* Mutant: the answers are taken as they come.
DescartadaNunca(p) == FALSE

Descartada(p) == p.cancelado

Mostrar(p, bien) ==
  /\ peticiones' = peticiones \ {p}
  /\ conteo' = IF Descartada(p) THEN conteo
               ELSE [conteo EXCEPT !.cargando = FALSE, !.error = ~bien,
                       !.datos = IF bien THEN p.respuesta.padron ELSE Nulo]
  /\ UNCHANGED <<escuela, asistente, envio, borradores>>

Entregada(p) == p.respuesta # Nulo /\ Mostrar(p, p.respuesta.ok)
Perdida(p)   == Mostrar(p, FALSE)
-----------------------------------------------------------------------------
(* The steps *)

EnPasoDe(n) == asistente.paso = n /\ ~asistente.creado
Poner(s, a) == Efecto(s) /\ asistente' = [a EXCEPT !.seg = s] /\ UNCHANGED <<escuela, envio, borradores>>

\* CAMBIAR_TIPO_PROCESO clears the whole segmentation.
ElegirTipo(t) == EnPasoDe(1) /\ t # asistente.tipo /\ Poner(SegmentacionLimpia, [asistente EXCEPT !.tipo = t])

\* Mutant: the alcance is left to the user.
ForzadaNunca(s) == s

\* PasoPublico, once mounted, takes a representante_aula to the aulas; its radios are disabled.
Forzada(s) == IF asistente.tipo = "representante_aula" /\ s.alcance # "aulas" THEN [s EXCEPT !.alcance = "aulas", !.ids = {}] ELSE s

Cambiar(n) ==
  Poner(IF n = 2 THEN Forzada(asistente.seg) ELSE asistente.seg, [asistente EXCEPT !.paso = n])

\* paso2Completo asks for the publico and the alcance, not for the ids.
Siguiente ==
  /\ asistente.paso < 4 /\ EnPasoDe(asistente.paso)
  /\ asistente.paso = 1 => asistente.tipo # Nulo
  /\ asistente.paso = 2 => asistente.seg.publico # Nulo /\ asistente.seg.alcance # Nulo
  /\ Cambiar(asistente.paso + 1)
Anterior == asistente.paso > 1 /\ EnPasoDe(asistente.paso) /\ Cambiar(asistente.paso - 1)

ElegirPublico(p) == EnPasoDe(2) /\ Poner([asistente.seg EXCEPT !.publico = p], asistente)

\* CAMBIAR_ALCANCE clears the ids of the previous one.
ElegirAlcance(a) ==
  /\ EnPasoDe(2) /\ a # asistente.seg.alcance
  /\ Forzada([asistente.seg EXCEPT !.alcance = a]).alcance = a
  /\ Poner([asistente.seg EXCEPT !.alcance = a, !.ids = {}], asistente)

\* A <select> of one nivel; checkboxes of grados and aulas (alternarValor()).
Marcar(id) ==
  /\ EnPasoDe(2) /\ asistente.seg.alcance # Nulo /\ id \in Idos(asistente.seg.alcance)
  /\ Poner([asistente.seg EXCEPT !.ids = IF asistente.seg.alcance = "nivel" THEN {id}
                                         ELSE IF id \in @ THEN @ \ {id} ELSE @ \cup {id}], asistente)
-----------------------------------------------------------------------------
(* Finalizar: POST /procesos *)

Finalizar ==
  /\ EnPasoDe(4) /\ ~asistente.enviando /\ Cardinality(borradores) < MaxBorradores
  /\ asistente' = [asistente EXCEPT !.enviando = TRUE]
  /\ envio' = [tipo |-> asistente.tipo, seg |-> asistente.seg, fase |-> "ida"]
  /\ UNCHANGED <<escuela, conteo, peticiones, borradores>>

\* ProcesosService.crear(): every refusal is before the transaction.
Aceptable(d) ==
  /\ Completa(d.seg) /\ ~Rechazada(d.seg, d.tipo)
  /\ AulasConMatricula(escuela, Resueltas(d.seg)) # {}

CrearBorrador ==
  /\ envio # Nulo /\ envio.fase = "ida"
  /\ borradores' = borradores \cup
       (IF Aceptable(envio) THEN {[tipo |-> envio.tipo, seg |-> envio.seg,
                                   aulas |-> AulasConMatricula(escuela, Resueltas(envio.seg))]} ELSE {})
  /\ envio' = [envio EXCEPT !.fase = IF Aceptable(envio) THEN "creado" ELSE "rechazado"]
  /\ UNCHANGED <<escuela, asistente, conteo, peticiones>>

\* The answer, or the rejection of the fetch in any phase; a second Finalizar is a second draft.
Responder ==
  /\ envio # Nulo
  /\ \E perdida \in BOOLEAN :
       /\ envio.fase = "ida" => perdida
       /\ asistente' = [asistente EXCEPT !.enviando = FALSE, !.creado = ~perdida /\ envio.fase = "creado"]
  /\ envio' = Nulo
  /\ UNCHANGED <<escuela, conteo, peticiones, borradores>>
-----------------------------------------------------------------------------
NextAsistente ==
  \/ Disparar \/ Siguiente \/ Anterior \/ Finalizar \/ CrearBorrador \/ Responder
  \/ \E p \in peticiones : Contar(p) \/ Entregada(p) \/ Perdida(p)
  \/ \E t \in Tipos : ElegirTipo(t)
  \/ \E p \in Publicos : ElegirPublico(p)
  \/ \E a \in Alcances : ElegirAlcance(a)
  \/ \E id \in Visibles : Marcar(id)
-----------------------------------------------------------------------------
(* Properties *)

\* With no timer and no request of its own pending, the count on the screen is of the segmentation on
\* the screen, however late the counts of the discarded ones arrive (usePadronEnVivo()), and, without
\* the aviso of duplicated matriculas, it is exactly the rights abrir() would materialise.
ConteoVeraz ==
  ~conteo.temporizador /\ ~conteo.cargando /\ conteo.datos # Nulo =>
    LET s == asistente.seg IN
    /\ Completa(s) /\ ~Rechazada(s, Nulo)
    /\ conteo.datos.excluidas = Resueltas(s) \ AulasConMatricula(escuela, Resueltas(s))
    /\ conteo.datos.aviso \/ conteo.datos.derechos = Cardinality(Padron(escuela, s))
    /\ conteo.datos.aviso \/ SinRepetir(Padron(escuela, s))

\* Every borrador has aulas, all of the active year and with somebody to vote, and a
\* representante_aula is by aulas, which the server asks for only in part.
BorradorValido ==
  \A b \in borradores :
    /\ b.aulas # {} /\ b.aulas \subseteq AulasDelAnio
    /\ \A a \in b.aulas : Elegibles(escuela, {a}) # {}
    /\ b.tipo = "representante_aula" => b.seg.alcance = "aulas"

\* What the asistente shows and creates is what the committee chose, and the padron it previews is
\* the one that the opening materialises (ProcesoWizardPage, PadronService, ProcesosService).
AsistenteVeraz == ConteoVeraz /\ BorradorValido
=============================================================================
