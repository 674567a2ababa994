------------------------------- MODULE Outbox -------------------------------
(***************************************************************************)
(* The outbox: JobCorreo rows that the backend wrote together with a vote  *)
(* or a notification, and procesarCorreoComprobante(), which both queues   *)
(* ('correo' and 'notificaciones') run: read the row, claim it, send the   *)
(* mail, mark it enviado.  Every call is a statement of its own.           *)
(***************************************************************************)
EXTENDS Cola

CONSTANT LoteCorreos   \* OUTBOX_BATCH

VARIABLES
  correo,      \* JobCorreo.estado; Trabajos are the rows
  intentos,    \* JobCorreo.intentos
  entregados   \* mails of each row that the SMTP server accepted

varsOutbox == <<correo, intentos, entregados>>
varsCorreos == <<varsCola, varsOutbox>>

FasesCorreo == {"tomada", "leida", "reclamada", "enviada", "hecha"}

TipoCorreos ==
  /\ TipoCola(FasesCorreo)
  /\ correo \in [Trabajos -> {"pendiente", "enviado", "fallido"}]
  /\ intentos \in [Trabajos -> Nat]
  /\ entregados \in [Trabajos -> Nat]

InitCorreos ==
  /\ InitCola
  /\ correo = [j \in Trabajos |-> "pendiente"]
  /\ intentos = [j \in Trabajos |-> 0]
  /\ entregados = [j \in Trabajos |-> 0]

CorreosPendientes == {j \in Trabajos : correo[j] = "pendiente"}
-----------------------------------------------------------------------------
DespacharCorreos == Despachar(CorreosPendientes, LoteCorreos) /\ UNCHANGED varsOutbox

\* A free execution takes the job ...
TomarCorreo(e, j) == Recoger(e, j, "tomada") /\ UNCHANGED varsOutbox

\* ... and discards it if what leer() brings is no longer pendiente.
LeerCorreo(e) ==
  /\ En(e, "tomada")
  /\ Seguir(e, IF correo[Mio(e)] = "pendiente" THEN "leida" ELSE "hecha")
  /\ UNCHANGED varsOutbox

\* reclamar() counts the attempt of a row that is still pendiente, and leaves it so.
Reclamar(e) ==
  /\ En(e, "leida")
  /\ IF correo[Mio(e)] = "pendiente"
     THEN /\ intentos' = [intentos EXCEPT ![Mio(e)] = @ + 1]
          /\ Seguir(e, "reclamada")
     ELSE Seguir(e, "hecha") /\ UNCHANGED intentos
  /\ UNCHANGED <<correo, entregados>>

Entregar(e) == entregados' = [entregados EXCEPT ![Mio(e)] = @ + 1]

Enviar(e) ==
  /\ En(e, "reclamada")
  /\ Entregar(e)
  /\ Seguir(e, "enviada")
  /\ UNCHANGED <<correo, intentos>>

\* The SMTP server accepted the mail and its answer was lost: send() throws.
EnviarSinRespuesta(e) ==
  /\ En(e, "reclamada")
  /\ Entregar(e)
  /\ Lanzar(e)
  /\ UNCHANGED <<correo, intentos>>

MarcarPendiente(e) ==
  correo' = IF correo[Mio(e)] = "pendiente" THEN [correo EXCEPT ![Mio(e)] = "enviado"] ELSE correo

MarcarEnviado(e) ==
  /\ En(e, "enviada")
  /\ MarcarPendiente(e)
  /\ Seguir(e, "hecha")
  /\ UNCHANGED <<intentos, entregados>>

\* marcarEnviado() took effect and its answer was lost.
MarcarSinRespuesta(e) ==
  /\ En(e, "enviada")
  /\ MarcarPendiente(e)
  /\ Lanzar(e)
  /\ UNCHANGED <<intentos, entregados>>

TerminarCorreo(e) == En(e, "hecha") /\ Completar(e) /\ UNCHANGED varsOutbox

\* The sender cannot be made, or a statement or the SMTP server fails without effect.
FracasarCorreo(e) ==
  /\ obra[e].fase \in {"tomada", "leida", "reclamada", "enviada"}
  /\ Lanzar(e)
  /\ UNCHANGED varsOutbox

\* marcarFallido(), from the listener: UPDATE ... WHERE id, whatever the estado.
MarcarCorreoFallido(e, j) ==
  /\ Marcado(e, j)
  /\ correo' = [correo EXCEPT ![j] = "fallido"]
  /\ UNCHANGED <<intentos, entregados>>

ReentregarCorreo(j) == Atascar(j) /\ UNCHANGED varsOutbox
CaerConCorreo(e) == Morir(e) /\ UNCHANGED varsOutbox

AvanzarCorreo(e) ==
  \/ \E j \in Trabajos : TomarCorreo(e, j)
  \/ LeerCorreo(e) \/ Reclamar(e) \/ Enviar(e) \/ MarcarEnviado(e) \/ TerminarCorreo(e)

Fallar(e) == EnviarSinRespuesta(e) \/ MarcarSinRespuesta(e) \/ FracasarCorreo(e)

NextCorreos ==
  \/ DespacharCorreos
  \/ \E e \in Ejecutores : AvanzarCorreo(e) \/ Fallar(e) \/ CaerConCorreo(e)
  \/ \E e \in Ejecutores, j \in Trabajos : MarcarCorreoFallido(e, j)
  \/ \E j \in Trabajos : ReentregarCorreo(j)

SpecCorreos == InitCorreos /\ [][NextCorreos]_varsCorreos

\* The poll, the executions, the listener and BullMQ's check of expired locks go on.
SpecCorreosViva ==
  /\ SpecCorreos
  /\ WF_varsCorreos(DespacharCorreos)
  /\ \A e \in Ejecutores : WF_varsCorreos(AvanzarCorreo(e))
  /\ \A e \in Ejecutores, j \in Trabajos : WF_varsCorreos(MarcarCorreoFallido(e, j))
  /\ \A j \in Trabajos : WF_varsCorreos(Abandonado(j) /\ ReentregarCorreo(j))
-----------------------------------------------------------------------------
(* Properties *)

\* The price of at least once is bounded: the column intentos counts every mail that
\* went out, and there is one attempt per failure or stall of the job, and one more; and
\* a row says enviado only if a mail of it went out.
CorreosAcotados ==
  /\ TipoCorreos
  /\ \A j \in Trabajos :
       /\ entregados[j] <= intentos[j]
       /\ intentos[j] <= cola[j].intentos + cola[j].atascos + 1
       /\ correo[j] = "enviado" => entregados[j] >= 1

\* Every mail that BullMQ does not forget ends enviado or fallido, with forgotten rows
\* ahead of it in the poll that leave room in the batch.
TodoCorreoAvanza == \A j \in Trabajos : <>(correo[j] # "pendiente" \/ Olvidado(j))
=============================================================================
