-------------------------------- MODULE Cola --------------------------------
(***************************************************************************)
(* What the worker's queues (actas, correo, notificaciones, reportes) have *)
(* in common: a dispatcher that polls PostgreSQL and adds one BullMQ job   *)
(* per pending row, executions of those jobs, and the 'failed' listener    *)
(* that writes the terminal state when BullMQ gives up.                    *)
(*                                                                         *)
(* BullMQ delivers at least once: a job whose worker dies, or is too slow  *)
(* to renew its lock, goes back to waiting while the first execution may   *)
(* still be running; the second time it fails, whatever attempts it has    *)
(* left (maxStalledCount, which the worker leaves at its default of 1).  A *)
(* job is kept after it completed or failed, so its jobId is never added   *)
(* twice.                                                                  *)
(***************************************************************************)
EXTENDS Integers, FiniteSets

CONSTANTS
  Trabajos,     \* rows with work to do; the jobId is derived from the row's id
  Ejecutores,   \* executions that can be under way at once
  MaxIntentos,  \* opts.attempts
  CreadoEn,     \* creado_en of each row: the poll takes the oldest first
  MaxAtascos,   \* bound: locks lost, per job, by an execution that is alive
  MaxCaidas,    \* bound: deaths of a worker process
  Nulo

ASSUME ConstantesCola ==
  /\ IsFiniteSet(Trabajos)
  /\ IsFiniteSet(Ejecutores)
  /\ MaxIntentos \in Nat \ {0}
  /\ CreadoEn \in [Trabajos -> Nat]
  /\ MaxAtascos \in Nat
  /\ MaxCaidas \in Nat
  /\ Nulo \notin Trabajos
  /\ Nulo \notin Ejecutores

VARIABLES
  cola,       \* the job of each row
  obra,       \* what each execution is doing
  porMarcar,  \* <<e, j>>: the listener of e's process has yet to write j's terminal state
  caidas

varsCola == <<cola, obra, porMarcar, caidas>>

Trabajo == [estado: {"ausente", "espera", "activa", "completada", "fallida"},
            intentos: 0 .. MaxIntentos, atascos: Nat, dueno: Ejecutores \cup {Nulo}]

TipoCola(fases) ==
  /\ cola \in [Trabajos -> Trabajo]
  /\ obra \in [Ejecutores -> [trabajo: Trabajos \cup {Nulo}, fase: fases \cup {"libre"}]]
  /\ porMarcar \subseteq Ejecutores \X Trabajos
  /\ caidas \in 0 .. MaxCaidas

InitCola ==
  /\ cola = [j \in Trabajos |-> [estado |-> "ausente", intentos |-> 0, atascos |-> 0, dueno |-> Nulo]]
  /\ obra = [e \in Ejecutores |-> [trabajo |-> Nulo, fase |-> "libre"]]
  /\ porMarcar = {}
  /\ caidas = 0
-----------------------------------------------------------------------------
En(e, fase) == obra[e].fase = fase
Mio(e) == obra[e].trabajo
Dueno(e) == cola[Mio(e)].estado = "activa" /\ cola[Mio(e)].dueno = e

\* Mutant: without a jobId every poll adds a job for what is still pending.
SinJobId(j) == cola[j].estado = "espera"

\* addBulk() with a jobId that the queue knows adds nothing.
YaEncolado(j) == cola[j].estado # "ausente"

\* ORDER BY creado_en LIMIT lote, ties in any order.
EsLote(S, pendientes, lote) ==
  /\ Cardinality(S) = IF Cardinality(pendientes) < lote THEN Cardinality(pendientes) ELSE lote
  /\ \A j \in S, k \in pendientes \ S : CreadoEn[j] <= CreadoEn[k]

\* despacharLote...(): the first rows of pendientes(), one job each.
Despachar(pendientes, lote) ==
  /\ \E S \in SUBSET pendientes :
       /\ EsLote(S, pendientes, lote)
       /\ \E j \in S : ~YaEncolado(j)
       /\ cola' = [j \in Trabajos |->
            IF j \in S /\ ~YaEncolado(j)
            THEN [cola[j] EXCEPT !.estado = "espera", !.dueno = Nulo] ELSE cola[j]]
  /\ UNCHANGED <<obra, porMarcar, caidas>>

\* BullMQ hands a waiting job to a free execution.
Recoger(e, j, fase) ==
  /\ En(e, "libre")
  /\ cola[j].estado = "espera"
  /\ cola' = [cola EXCEPT ![j].estado = "activa", ![j].dueno = e]
  /\ obra' = [obra EXCEPT ![e] = [trabajo |-> j, fase |-> fase]]
  /\ UNCHANGED <<porMarcar, caidas>>

Seguir(e, fase) ==
  /\ obra' = [obra EXCEPT ![e].fase = fase]
  /\ UNCHANGED <<cola, porMarcar, caidas>>

Soltar(e) == obra' = [obra EXCEPT ![e] = [trabajo |-> Nulo, fase |-> "libre"]]

\* The processor returns; only the execution that holds the job's lock completes it.
Completar(e) ==
  /\ Soltar(e)
  /\ cola' = IF Dueno(e) THEN [cola EXCEPT ![Mio(e)].estado = "completada"] ELSE cola
  /\ UNCHANGED <<porMarcar, caidas>>

\* Mutant: one attempt too many is asked for.
AgotadoDespues(n) == n > MaxIntentos

\* The listener's test, job.attemptsMade >= attempts.
Agotado(n) == n >= MaxIntentos

\* The processor throws: BullMQ retries until the attempts are used up, and the
\* listener is told of every failure.
Lanzar(e) ==
  /\ Soltar(e)
  /\ IF Dueno(e)
     THEN LET n == cola[Mio(e)].intentos + 1 IN
          /\ cola' = [cola EXCEPT ![Mio(e)].intentos = n, ![Mio(e)].dueno = Nulo,
                        ![Mio(e)].estado = IF n >= MaxIntentos THEN "fallida" ELSE "espera"]
          /\ porMarcar' = IF Agotado(n) THEN porMarcar \cup {<<e, Mio(e)>>} ELSE porMarcar
     ELSE UNCHANGED <<cola, porMarcar>>
  /\ UNCHANGED caidas

\* The execution that holds the lock of an active job is gone.
Abandonado(j) == cola[j].estado = "activa" /\ Mio(cola[j].dueno) # j

\* The lock of an active job expires, because its execution died or is slow.
Atascar(j) ==
  /\ cola[j].estado = "activa"
  /\ Abandonado(j) \/ cola[j].atascos < MaxAtascos
  /\ cola' = [cola EXCEPT ![j].atascos = @ + 1, ![j].dueno = Nulo,
                ![j].estado = IF cola[j].atascos = 0 THEN "espera" ELSE "fallida"]
  /\ UNCHANGED <<obra, porMarcar, caidas>>

\* BullMQ gave the job up and nothing will write it in the row: the process died before
\* its listener's write, or the job failed for having stalled twice, with attempts left.
Olvidado(j) == cola[j].estado = "fallida" /\ (caidas > 0 \/ cola[j].atascos > 1)

\* A worker process dies, with its execution and what its listener had to write.
Morir(e) ==
  /\ caidas < MaxCaidas
  /\ caidas' = caidas + 1
  /\ Soltar(e)
  /\ porMarcar' = {m \in porMarcar : m[1] # e}
  /\ UNCHANGED cola

\* The listener's write has been done.
Marcado(e, j) ==
  /\ <<e, j>> \in porMarcar
  /\ porMarcar' = porMarcar \ {<<e, j>>}
  /\ UNCHANGED <<cola, obra, caidas>>
=============================================================================
