-------------------------------- MODULE Actas -------------------------------
(***************************************************************************)
(* The worker of the queue 'actas': it renders the four Acta rows that     *)
(* cerrar() left in borrador and, with the last one, takes the proceso     *)
(* from cerrado to acta_emitida.  finalizar() is one transaction in READ   *)
(* COMMITTED that locks the proceso, writes the acta if it is still in     *)
(* borrador, audits, counts and moves the proceso.                         *)
(***************************************************************************)
EXTENDS Cola

CONSTANT Lote   \* ACTAS_BATCH

\* cerrar() leaves a proceso with its actas.
ASSUME ConstantesActas == Trabajos # {}

VARIABLES
  acta,       \* Acta.estado; Trabajos are the four actas
  proceso,    \* ProcesoElectoral.estado
  generadas,  \* how many ACTA_GENERADA events each acta has
  candado,    \* the execution that holds the row lock of the proceso
  contadas    \* what each open transaction counted

varsActas == <<acta, proceso, generadas, candado, contadas>>
vars == <<varsCola, varsActas>>

Fases == {"tomada", "leida", "renderizada", "marcada", "contada", "hecha"}

TypeOK ==
  /\ TipoCola(Fases)
  /\ acta \in [Trabajos -> {"borrador", "emitida", "fallido"}]
  /\ proceso \in {"cerrado", "acta_emitida"}
  /\ generadas \in [Trabajos -> Nat]
  /\ candado \in Ejecutores \cup {Nulo}
  /\ contadas \in [Ejecutores -> Nat]

\* The four rows, as cerrar() creates them.
Init ==
  /\ InitCola
  /\ acta = [t \in Trabajos |-> "borrador"]
  /\ proceso = "cerrado"
  /\ generadas = [t \in Trabajos |-> 0]
  /\ candado = Nulo
  /\ contadas = [e \in Ejecutores |-> 0]

Pendientes == {t \in Trabajos : acta[t] = "borrador"}
Emitidas   == {t \in Trabajos : acta[t] = "emitida"}

EnTransaccion(e) == obra[e].fase \in {"marcada", "contada"}
\* An open transaction has written the row of the acta.
Bloqueada(t) == \E e \in Ejecutores : EnTransaccion(e) /\ Mio(e) = t
-----------------------------------------------------------------------------
DespacharLote == Despachar(Pendientes, Lote) /\ UNCHANGED varsActas

\* A free execution takes the job ...
Tomar(e, t) == Recoger(e, t, "tomada") /\ UNCHANGED varsActas

\* ... and procesarActa() discards it if what leer() brings is no longer in borrador.
Leer(e) ==
  /\ En(e, "tomada")
  /\ Seguir(e, IF acta[Mio(e)] = "borrador" THEN "leida" ELSE "hecha")
  /\ UNCHANGED varsActas

Renderizar(e) == En(e, "leida") /\ Seguir(e, "renderizada") /\ UNCHANGED varsActas

\* Mutant: two transactions finish actas of the same proceso side by side.
SinSerializar(e) == TRUE

\* SELECT ... FOR UPDATE of the proceso.
PuedeBloquear(e) == candado = Nulo

\* Mutant: UPDATE ... WHERE id alone.
SinCas(e) == TRUE

\* UPDATE ... WHERE id AND estado = 'borrador' finds its row.
Gana(e) == acta[Mio(e)] = "borrador"

\* finalizar(): the lock and the compare-and-set; 0 rows is the end of it.
Marcar(e) ==
  /\ En(e, "renderizada")
  /\ PuedeBloquear(e)
  /\ ~Bloqueada(Mio(e))
  /\ IF Gana(e) THEN candado' = e /\ Seguir(e, "marcada")
                ELSE UNCHANGED candado /\ Seguir(e, "hecha")
  /\ UNCHANGED <<acta, proceso, generadas, contadas>>

\* The count sees the committed actas and the one this transaction wrote.
Contar(e) ==
  /\ En(e, "marcada")
  /\ contadas' = [contadas EXCEPT ![e] = Cardinality(Emitidas \cup {Mio(e)})]
  /\ Seguir(e, "contada")
  /\ UNCHANGED <<acta, proceso, generadas, candado>>

\* COMMIT: with the fourth acta the proceso moves, in the same one.
Comprometer(e) ==
  /\ En(e, "contada")
  /\ acta' = [acta EXCEPT ![Mio(e)] = "emitida"]
  /\ generadas' = [generadas EXCEPT ![Mio(e)] = @ + 1]
  /\ proceso' = IF contadas[e] = Cardinality(Trabajos) /\ proceso = "cerrado"
                THEN "acta_emitida" ELSE proceso
  /\ candado' = Nulo
  /\ contadas' = [contadas EXCEPT ![e] = 0]

Confirmar(e) == Comprometer(e) /\ Seguir(e, "hecha")

\* The COMMIT is done and its answer is lost: finalizar() throws, and the job is retried or failed.
ConfirmarSinRespuesta(e) == Comprometer(e) /\ Lanzar(e)

Terminar(e) == En(e, "hecha") /\ Completar(e) /\ UNCHANGED varsActas

Deshacer(e) ==
  /\ candado' = IF candado = e THEN Nulo ELSE candado
  /\ contadas' = [contadas EXCEPT ![e] = 0]
  /\ UNCHANGED <<acta, proceso, generadas>>

\* leer(), render() or a statement of finalizar() throws.
Fracasar(e) ==
  /\ obra[e].fase \in {"tomada", "leida", "renderizada", "marcada", "contada"}
  /\ Lanzar(e)
  /\ Deshacer(e)

\* Mutant: fallido is written whatever the row says.
MarcarSinCas(e, t) == acta' = [acta EXCEPT ![t] = "fallido"]

\* UPDATE ... SET estado = 'fallido' WHERE id AND estado = 'borrador'.
MarcarFila(e, t) == acta' = IF acta[t] = "borrador" THEN [acta EXCEPT ![t] = "fallido"] ELSE acta

\* marcarFallido(), from the listener.
MarcarFallido(e, t) ==
  /\ Marcado(e, t)
  /\ ~Bloqueada(t)
  /\ MarcarFila(e, t)
  /\ UNCHANGED <<proceso, generadas, candado, contadas>>

Reentregar(t) == Atascar(t) /\ UNCHANGED varsActas
Caer(e) == Morir(e) /\ Deshacer(e)

Avanzar(e) ==
  \/ \E t \in Trabajos : Tomar(e, t)
  \/ Leer(e) \/ Renderizar(e) \/ Marcar(e) \/ Contar(e) \/ Confirmar(e) \/ Terminar(e)

Next ==
  \/ DespacharLote
  \/ \E e \in Ejecutores : Avanzar(e) \/ ConfirmarSinRespuesta(e) \/ Fracasar(e) \/ Caer(e)
  \/ \E e \in Ejecutores, t \in Trabajos : MarcarFallido(e, t)
  \/ \E t \in Trabajos : Reentregar(t)

Spec == Init /\ [][Next]_vars

\* The poll, the executions, the listener and BullMQ's check of expired locks go on.
SpecViva ==
  /\ Spec
  /\ WF_vars(DespacharLote)
  /\ \A e \in Ejecutores : WF_vars(Avanzar(e))
  /\ \A e \in Ejecutores, t \in Trabajos : WF_vars(MarcarFallido(e, t))
  /\ \A t \in Trabajos : WF_vars(Abandonado(t) /\ Reentregar(t))
-----------------------------------------------------------------------------
(* Properties *)

\* The proceso is acta_emitida exactly when its four actas are emitida: two workers
\* that finish the third and the fourth in parallel do not leave it in cerrado.
EmisionCompleta == proceso = "acta_emitida" <=> Emitidas = Trabajos

\* Each acta is generated once, however often its job is delivered, and given up only
\* when every attempt configured was spent (with the types of what the counts range over).
UnaGeneracion ==
  /\ TypeOK
  /\ \A t \in Trabajos :
       /\ generadas[t] = IF acta[t] = "emitida" THEN 1 ELSE 0
       /\ acta[t] = "fallido" => cola[t].intentos = MaxIntentos

\* emitida and fallido are final: neither a late execution nor the listener undoes them.
EstadoFinal ==
  [][\A t \in Trabajos : acta[t] # "borrador" => acta'[t] = acta[t]]_vars

\* Every acta that BullMQ does not forget ends emitida or fallido, with forgotten ones
\* ahead of it in the poll that leave room in the batch.
TodaActaAvanza == \A t \in Trabajos : <>(acta[t] # "borrador" \/ Olvidado(t))
=============================================================================
