-------------------------------- MODULE Votos -------------------------------
(***************************************************************************)
(* VotosService.emitir(): the handlers of POST /votos, one per request,    *)
(* running concurrently against one ProcesoElectoral.  A handler is an     *)
(* interactive transaction in READ COMMITTED: every statement reads the    *)
(* rows committed when the statement starts, a row lock taken afterwards   *)
(* does not refresh what was read (a DerechoVoto is never updated, so      *)
(* PostgreSQL does not re-evaluate the row), and now() is the time of      *)
(* BEGIN.                                                                  *)
(*                                                                         *)
(* The other operations on the proceso (abrir, editar, cerrar, the clock,   *)
(* the catalogue) appear as the effect of their commit; module Procesos    *)
(* has their handlers and module Jornada puts the two together.            *)
(***************************************************************************)
EXTENDS Integers, FiniteSets

CONSTANTS
  Peticiones,   \* requests; also the id (randomUUID) of the Voto a request inserts
  Usuarios,     \* authenticated accounts
  Derechos,     \* DerechoVoto ids
  DuenoDe,      \* DerechoVoto.usuario_id
  AulaDe,       \* DerechoVoto.aula_snapshot
  Aulas,
  Claves,       \* clave_idempotencia values
  Listas,       \* lista/candidato/opcion rows that a ballot can name
  Blanco,       \* the blank ballot
  Entradas,     \* request bodies with the session's user, see Entrada
  Nulo,
  MaxReloj      \* bound: last instant of the clock

Opciones == Listas \cup {Blanco}
Entrada  == [usuario: Usuarios, derecho: Derechos, clave: Claves, eleccion: Opciones]
Instantes == 0 .. MaxReloj

ASSUME ConstantesVotos ==
  /\ DuenoDe \in [Derechos -> Usuarios]
  /\ AulaDe \in [Derechos -> Aulas]
  /\ Entradas \subseteq Entrada
  /\ MaxReloj \in Nat
  /\ Blanco \notin Listas
  /\ Nulo \notin Peticiones
  /\ Nulo \notin Instantes

VARIABLES
  reloj,        \* the clock of PostgreSQL
  proceso,      \* the ProcesoElectoral row and its ProcesoAula rows
  derechos,     \* DerechoVoto rows of the proceso
  catalogo,     \* state of each row a ballot can name
  votos,        \* Voto rows
  auditoria,    \* VOTO and RECHAZO rows of EventoAuditoria
  correos,      \* JobCorreo rows of origin 'comprobante'
  pc,           \* where each handler is
  peticion,     \* the body each handler serves
  inicio,       \* now() of each handler's transaction
  fila,         \* the FilaValidacion each handler read
  respuesta     \* what each handler answered

compartidas == <<reloj, proceso, derechos, catalogo>>
tablas      == <<votos, auditoria, correos>>
locales     == <<pc, peticion, inicio, fila, respuesta>>
vars        == <<compartidas, tablas, locales>>
-----------------------------------------------------------------------------
(* Types *)

\* emitir() never reads ProcesoElectoral.estado; these are the columns it does read.
Proceso == [apertura_real: Instantes \cup {Nulo},
            cierre_previsto: Instantes,
            aulas: SUBSET Aulas]
Motivos == {"aula_no_corresponde", "proceso_cerrado", "proceso_no_abierto", "derecho_ya_ejercido"}
Voto == [id: Peticiones, derecho: Derechos, clave: Claves, eleccion: Opciones, inicio: Instantes]
Evento == [tipo: {"VOTO"}, peticion: Peticiones, actor: Usuarios, derecho: Derechos, motivo: {"ninguno"}]
            \cup [tipo: {"RECHAZO"}, peticion: Peticiones, actor: Usuarios,
                  derecho: Derechos, motivo: Motivos]
Correo == [voto: Peticiones, usuario: Usuarios]

\* FilaValidacion: what the one locking SELECT brings back.
FilaValidacion == [existe: BOOLEAN, aula_valida: BOOLEAN, cerrado_por_hora: BOOLEAN,
                   aun_no_abierto: BOOLEAN, voto: Peticiones \cup {Nulo},
                   por_clave: Peticiones \cup {Nulo}]

Respuesta == [tipo: {"creado", "existente"}, voto: Peticiones]
               \cup [tipo: {"prohibido", "rechazo", "invalida", "error"}, voto: {Nulo}]

Pasos == {"nueva", "iniciada", "esperando", "bloqueada", "validada", "insertada",
          "confirmada", "colision", "rechazada", "resuelta", "respondida", "caida"}
ConCandado == {"bloqueada", "validada", "insertada"}
EnTransaccion == ConCandado \cup {"iniciada", "esperando"}
EnMarcha      == EnTransaccion \cup {"confirmada", "colision", "rechazada", "resuelta"}

TypeOK ==
  /\ reloj \in Instantes
  /\ proceso \in Proceso
  /\ derechos \subseteq Derechos
  /\ catalogo \in [Listas -> {"activo", "baja", "ausente"}]
  /\ votos \subseteq Voto
  /\ auditoria \subseteq Evento
  /\ correos \subseteq Correo
  /\ pc \in [Peticiones -> Pasos]
  /\ peticion \in [Peticiones -> Entradas \cup {Nulo}]
  /\ inicio \in [Peticiones -> Instantes]
  /\ fila \in [Peticiones -> FilaValidacion \cup {Nulo}]
  /\ respuesta \in [Peticiones -> Respuesta \cup {Nulo}]
-----------------------------------------------------------------------------
(* What a handler reads *)

Derecho(r) == peticion[r].derecho
Clave(r)   == peticion[r].clave

\* The id of the row a scalar subquery selects, or NULL.
IdDe(filas) == IF filas = {} THEN Nulo ELSE (CHOOSE v \in filas : TRUE).id

\* The locking SELECT: flags and subqueries over the committed rows.
FilaDe(r) ==
  [existe           |-> Derecho(r) \in derechos,
   aula_valida      |-> AulaDe[Derecho(r)] \in proceso.aulas,
   cerrado_por_hora |-> inicio[r] >= proceso.cierre_previsto,
   aun_no_abierto   |-> proceso.apertura_real = Nulo \/ inicio[r] < proceso.apertura_real,
   voto             |-> IdDe({v \in votos : v.derecho = Derecho(r)}),
   por_clave        |-> IdDe({v \in votos : v.clave = Clave(r)})]

\* Mutant: a handler that has answered keeps its connection, and the lock with it.
CandadoPerdido(d) ==
  \A q \in Peticiones : pc[q] \notin {"nueva", "iniciada", "esperando"} => Derecho(q) # d

\* SELECT ... FOR UPDATE OF dv: nobody else holds the DerechoVoto row.
Libre(d) == \A q \in Peticiones : pc[q] \in ConCandado => Derecho(q) # d

\* Mutant: the window is only checked at its end.
MotivoSinApertura(f) ==
  IF ~f.aula_valida THEN "aula_no_corresponde"
  ELSE IF f.cerrado_por_hora THEN "proceso_cerrado"
  ELSE IF f.voto # Nulo THEN "derecho_ya_ejercido"
  ELSE "ninguno"

\* Mutant: the window is only checked at its start.
MotivoSinCierre(f) ==
  IF ~f.aula_valida THEN "aula_no_corresponde"
  ELSE IF f.aun_no_abierto THEN "proceso_no_abierto"
  ELSE IF f.voto # Nulo THEN "derecho_ya_ejercido"
  ELSE "ninguno"

\* The causes of rejection, in the order the code tests them.
MotivoDe(f) ==
  IF ~f.aula_valida THEN "aula_no_corresponde"
  ELSE IF f.cerrado_por_hora THEN "proceso_cerrado"
  ELSE IF f.aun_no_abierto THEN "proceso_no_abierto"
  ELSE IF f.voto # Nulo THEN "derecho_ya_ejercido"
  ELSE "ninguno"

EleccionValida(o) == o = Blanco \/ catalogo[o] = "activo"

\* UNIQUE(proceso_id, derecho_voto_id) and UNIQUE(proceso_id, clave_idempotencia).
Chocan(d, k, d2, k2) == d = d2 \/ k = k2

\* Mutant: the table lacks UNIQUE(proceso_id, derecho_voto_id).
ColisionSoloClave(r) == \E v \in votos : v.clave = Clave(r)

Colision(r) == \E v \in votos : Chocan(Derecho(r), Clave(r), v.derecho, v.clave)
EnVuelo(r)  == \E q \in Peticiones \ {r} :
                 pc[q] = "insertada" /\ Chocan(Derecho(r), Clave(r), Derecho(q), Clave(q))
-----------------------------------------------------------------------------
(* The handler *)

Ir(r, a) == pc' = [pc EXCEPT ![r] = a]

\* A handler that ends leaves no local state behind.
Olvidar(r) ==
  /\ inicio' = [inicio EXCEPT ![r] = 0]
  /\ fila' = [fila EXCEPT ![r] = Nulo]

Contestar(r, t, v) ==
  /\ Ir(r, "respondida")
  /\ respuesta' = [respuesta EXCEPT ![r] = [tipo |-> t, voto |-> v]]
  /\ Olvidar(r)

\* emitir() has found the vote whose receipt it owes; the receipt is still to be built.
Resolver(r, v) ==
  /\ Ir(r, "resuelta")
  /\ respuesta' = [respuesta EXCEPT ![r] = [tipo |-> "existente", voto |-> v]]
  /\ Olvidar(r)

\* The request arrives and BEGIN fixes now().
Comenzar(r) ==
  /\ pc[r] = "nueva"
  /\ \E e \in Entradas : peticion' = [peticion EXCEPT ![r] = e]
  /\ inicio' = [inicio EXCEPT ![r] = reloj]
  /\ Ir(r, "iniciada")
  /\ UNCHANGED <<compartidas, tablas, fila, respuesta>>

\* The SELECT takes its snapshot ...
Leer(r) ==
  /\ pc[r] = "iniciada"
  /\ fila' = [fila EXCEPT ![r] = FilaDe(r)]
  /\ Ir(r, "esperando")
  /\ UNCHANGED <<compartidas, tablas, peticion, inicio, respuesta>>

\* ... and then waits for the row lock, keeping what the snapshot said.
Bloquear(r) ==
  /\ pc[r] = "esperando"
  /\ fila[r].existe
  /\ Libre(Derecho(r))
  /\ Ir(r, "bloqueada")
  /\ UNCHANGED <<compartidas, tablas, peticion, inicio, fila, respuesta>>

\* Cause 1: no such DerechoVoto, or somebody else's.
Ajeno(r) == DuenoDe[Derecho(r)] # peticion[r].usuario

Prohibir(r) ==
  /\ \/ pc[r] = "esperando" /\ ~fila[r].existe
     \/ pc[r] = "bloqueada" /\ Ajeno(r)
  /\ Contestar(r, "prohibido", Nulo)
  /\ UNCHANGED <<compartidas, tablas, peticion>>

\* Mutant: answers a retry from the subquery on the right.
RepetirPorDerecho(r) ==
  /\ pc[r] = "bloqueada"
  /\ ~Ajeno(r)
  /\ fila[r].por_clave # Nulo
  /\ Resolver(r, fila[r].voto)
  /\ UNCHANGED <<compartidas, tablas, peticion>>

\* A retry with a key already used: the receipt of the row that holds the key.
Repetir(r) ==
  /\ pc[r] = "bloqueada"
  /\ ~Ajeno(r)
  /\ fila[r].por_clave # Nulo
  /\ Resolver(r, fila[r].por_clave)
  /\ UNCHANGED <<compartidas, tablas, peticion>>

\* Causes 2 to 4 abort the transaction and are audited outside of it.
Rechazar(r) ==
  /\ pc[r] = "bloqueada"
  /\ ~Ajeno(r)
  /\ fila[r].por_clave = Nulo
  /\ MotivoDe(fila[r]) # "ninguno"
  /\ Ir(r, "rechazada")
  /\ UNCHANGED <<compartidas, tablas, peticion, inicio, fila, respuesta>>

RegistrarRechazo(r) ==
  /\ pc[r] = "rechazada"
  /\ auditoria' = auditoria \cup
       {[tipo |-> "RECHAZO", peticion |-> r, actor |-> peticion[r].usuario,
         derecho |-> Derecho(r), motivo |-> MotivoDe(fila[r])]}
  /\ IF MotivoDe(fila[r]) = "derecho_ya_ejercido"
     THEN Resolver(r, fila[r].voto)
     ELSE Contestar(r, "rechazo", Nulo)
  /\ UNCHANGED <<compartidas, votos, correos, peticion>>

\* validarEleccionPerteneceAlProceso(): a statement, and a snapshot, of its own.
Validar(r) ==
  /\ pc[r] = "bloqueada"
  /\ ~Ajeno(r)
  /\ fila[r].por_clave = Nulo
  /\ MotivoDe(fila[r]) = "ninguno"
  /\ IF EleccionValida(peticion[r].eleccion)
     THEN Ir(r, "validada") /\ UNCHANGED <<inicio, fila, respuesta>>
     ELSE Contestar(r, "invalida", Nulo)
  /\ UNCHANGED <<compartidas, tablas, peticion>>

\* The foreign key of the ballot: the row it names is still there.
EleccionExiste(o) == o = Blanco \/ catalogo[o] # "ausente"

\* INSERT INTO "Voto": waits for an uncommitted row with the same right or key,
\* aborts on a committed one, fails on a dangling reference.
Insertar(r) ==
  /\ pc[r] = "validada"
  /\ ~EnVuelo(r)
  /\ IF Colision(r)
     THEN Ir(r, "colision") /\ UNCHANGED <<inicio, fila, respuesta>>
     ELSE IF EleccionExiste(peticion[r].eleccion)
          THEN Ir(r, "insertada") /\ UNCHANGED <<inicio, fila, respuesta>>
          ELSE Contestar(r, "error", Nulo)
  /\ UNCHANGED <<compartidas, tablas, peticion>>

\* Mutant: the mail job is left for a later transaction, which the crash prevents.
ConfirmarSinCorreo(r) ==
  /\ pc[r] = "insertada"
  /\ votos' = votos \cup
       {[id |-> r, derecho |-> Derecho(r), clave |-> Clave(r),
         eleccion |-> peticion[r].eleccion, inicio |-> inicio[r]]}
  /\ auditoria' = auditoria \cup
       {[tipo |-> "VOTO", peticion |-> r, actor |-> peticion[r].usuario,
         derecho |-> Derecho(r), motivo |-> "ninguno"]}
  /\ Ir(r, "confirmada")
  /\ UNCHANGED <<compartidas, correos, peticion, inicio, fila, respuesta>>

\* The VOTO event and the JobCorreo are inserted and the three rows commit together.
Confirmar(r) ==
  /\ pc[r] = "insertada"
  /\ votos' = votos \cup
       {[id |-> r, derecho |-> Derecho(r), clave |-> Clave(r),
         eleccion |-> peticion[r].eleccion, inicio |-> inicio[r]]}
  /\ auditoria' = auditoria \cup
       {[tipo |-> "VOTO", peticion |-> r, actor |-> peticion[r].usuario,
         derecho |-> Derecho(r), motivo |-> "ninguno"]}
  /\ correos' = correos \cup {[voto |-> r, usuario |-> DuenoDe[Derecho(r)]]}
  /\ Ir(r, "confirmada")
  /\ UNCHANGED <<compartidas, peticion, inicio, fila, respuesta>>

Responder(r) ==
  /\ pc[r] = "confirmada"
  /\ Contestar(r, "creado", r)
  /\ UNCHANGED <<compartidas, tablas, peticion>>

Votado(d) == \E v \in votos : v.derecho = d

\* construirComprobante() of a vote that was found: it reads the ballot of the right,
\* which need not exist when the key had been spent on another right.
Presentar(r) ==
  /\ pc[r] = "resuelta"
  /\ Ir(r, "respondida")
  /\ IF Votado(Derecho(r))
     THEN UNCHANGED respuesta
     ELSE respuesta' = [respuesta EXCEPT ![r] = [tipo |-> "error", voto |-> Nulo]]
  /\ UNCHANGED <<compartidas, tablas, peticion, inicio, fila>>

\* Mutant: after a collision, the receipt of the row that was rolled back.
RecuperarLoPropio(r) ==
  /\ pc[r] = "colision"
  /\ Resolver(r, r)
  /\ UNCHANGED <<compartidas, tablas, peticion>>

\* Mutant: every collision is audited as a right already exercised.
RecuperarConRechazo(r) ==
  /\ pc[r] = "colision"
  /\ auditoria' = auditoria \cup
       {[tipo |-> "RECHAZO", peticion |-> r, actor |-> peticion[r].usuario,
         derecho |-> Derecho(r), motivo |-> "derecho_ya_ejercido"]}
  /\ Contestar(r, "invalida", Nulo)
  /\ UNCHANGED <<compartidas, votos, correos, peticion>>

\* comprobanteExistente(): looks up the vote of the right, not of the key.
Recuperar(r) ==
  /\ pc[r] = "colision"
  /\ LET id == IdDe({v \in votos : v.derecho = Derecho(r)}) IN
       IF id = Nulo THEN Contestar(r, "invalida", Nulo)
                    ELSE Resolver(r, id)
  /\ UNCHANGED <<compartidas, tablas, peticion>>

\* A statement fails or Prisma's transaction timeout expires: the open transaction rolls back, be it the
\* one of the vote or of the audit of a rejection; what had committed stays, its answer an error.
Abortar(r) ==
  /\ pc[r] \in EnMarcha
  /\ Contestar(r, "error", Nulo)
  /\ UNCHANGED <<compartidas, tablas, peticion>>

\* The backend dies between two steps; what had not committed is gone.
Caer(r) ==
  /\ pc[r] \in EnMarcha
  /\ Ir(r, "caida")
  /\ respuesta' = [respuesta EXCEPT ![r] = Nulo]
  /\ Olvidar(r)
  /\ UNCHANGED <<compartidas, tablas, peticion>>

Avanzar(r) ==
  \/ Comenzar(r)  \/ Leer(r)      \/ Bloquear(r) \/ Prohibir(r) \/ Repetir(r)
  \/ Rechazar(r)  \/ RegistrarRechazo(r)
  \/ Validar(r)   \/ Insertar(r)  \/ Confirmar(r)
  \/ Responder(r) \/ Recuperar(r) \/ Presentar(r)

Emitir(r) == Avanzar(r) \/ Abortar(r) \/ Caer(r)
-----------------------------------------------------------------------------
(* The rest of the system, each operation as the effect of its commit *)

Tic ==
  /\ reloj < MaxReloj
  /\ reloj' = reloj + 1
  /\ UNCHANGED <<proceso, derechos, catalogo, tablas, locales>>

\* ProcesosService.abrir(): seals apertura_real, stamped before its commit, and
\* materialises the rights.
AbrirProceso ==
  /\ proceso.apertura_real = Nulo
  /\ \E t \in 0 .. reloj : proceso' = [proceso EXCEPT !.apertura_real = t]
  /\ derechos' \in (SUBSET {d \in Derechos : AulaDe[d] \in proceso.aulas}) \ {{}}
  /\ UNCHANGED <<reloj, catalogo, tablas, locales>>

\* ProcesosService.editar(): its transaction rewrites the row and its
\* ProcesoAula whatever the proceso has become since the check of estado.
EditarProceso ==
  /\ \E a \in (SUBSET Aulas) \ {{}}, c \in Instantes :
       proceso' = [proceso EXCEPT !.aulas = a, !.cierre_previsto = c]
  /\ UNCHANGED <<reloj, derechos, catalogo, tablas, locales>>

\* ProcesosService.eliminar(): ProcesoAula and the catalogue go with the row, which
\* the foreign key of DerechoVoto holds.
EliminarProceso ==
  /\ derechos = {}
  /\ proceso' = [proceso EXCEPT !.aulas = {}]
  /\ catalogo' = [l \in Listas |-> "ausente"]
  /\ UNCHANGED <<reloj, derechos, tablas, locales>>

\* cambiarEstado() of a lista or candidato, allowed in any estado of the proceso.
CambiarEstado(l) ==
  /\ catalogo[l] # "ausente"
  /\ \E e \in {"activo", "baja"} : catalogo' = [catalogo EXCEPT ![l] = e]
  /\ UNCHANGED <<reloj, proceso, derechos, tablas, locales>>

\* Mutant: eliminar() trusts its count of committed votes, there is no foreign key.
ReferenciadaSoloConteo(l) == \E v \in votos : v.eleccion = l

\* eliminar() of a lista or candidato: the foreign key of Voto restricts it, and a
\* row that an uncommitted Voto references is locked until that vote commits.
Referenciada(l) ==
  \/ \E v \in votos : v.eleccion = l
  \/ \E q \in Peticiones : pc[q] = "insertada" /\ peticion[q].eleccion = l

Eliminar(l) ==
  /\ catalogo[l] # "ausente"
  /\ ~Referenciada(l)
  /\ catalogo' = [catalogo EXCEPT ![l] = "ausente"]
  /\ UNCHANGED <<reloj, proceso, derechos, tablas, locales>>

Entorno ==
  \/ Tic \/ AbrirProceso \/ EditarProceso \/ EliminarProceso
  \/ \E l \in Listas : CambiarEstado(l) \/ Eliminar(l)
-----------------------------------------------------------------------------
Init ==
  /\ reloj = 0
  /\ proceso \in [apertura_real: {Nulo}, cierre_previsto: Instantes \ {0}, aulas: (SUBSET Aulas) \ {{}}]
  /\ derechos = {}
  /\ catalogo \in [Listas -> {"activo", "baja"}]
  /\ votos = {} /\ auditoria = {} /\ correos = {}
  /\ pc = [r \in Peticiones |-> "nueva"]
  /\ peticion = [r \in Peticiones |-> Nulo]
  /\ inicio = [r \in Peticiones |-> 0]
  /\ fila = [r \in Peticiones |-> Nulo]
  /\ respuesta = [r \in Peticiones |-> Nulo]

Next == (\E r \in Peticiones : Emitir(r)) \/ Entorno

Spec == Init /\ [][Next]_vars

\* A started handler keeps running; nobody has to send a request, and the rest
\* of the system owes nothing.
Terminar(r) == pc[r] # "nueva" /\ Avanzar(r)
Equidad == \A r \in Peticiones : WF_vars(Terminar(r))
SpecViva == Spec /\ Equidad
-----------------------------------------------------------------------------
(* Properties *)

\* "0 votos duplicados": no two Voto rows share a right or an idempotency key,
\* however many tabs, retries and stale snapshots race in emitir().
VotoUnico ==
  \A v, w \in votos : (v.derecho = w.derecho \/ v.clave = w.clave) => v = w

\* A vote is cast by its owner with a materialised right, in a transaction that
\* began after the proceso opened, whatever was edited meanwhile.
VotoLegitimo ==
  \A v \in votos :
    /\ v.derecho \in derechos
    /\ DuenoDe[v.derecho] = peticion[v.id].usuario
    /\ proceso.apertura_real # Nulo
    /\ v.inicio >= proceso.apertura_real

\* Votes, VOTO events and comprobante jobs are in one-to-one correspondence, the
\* job goes to the owner of the right, and no request that failed leaves a trace.
VotoConRastro ==
  /\ correos = {[voto |-> v.id, usuario |-> DuenoDe[v.derecho]] : v \in votos}
  /\ {e.peticion : e \in {x \in auditoria : x.tipo = "VOTO"}} = {v.id : v \in votos}

\* A receipt always stands for a vote that is in the table: the request's own if
\* it says "creado", else the vote that holds its right or its key; and the right
\* whose ballot it describes has been exercised.
ComprobanteVeraz ==
  \A r \in Peticiones :
    (pc[r] = "respondida" /\ respuesta[r].tipo \in {"creado", "existente"}) =>
      \E v \in votos :
        /\ v.id = respuesta[r].voto
        /\ v.derecho = Derecho(r) \/ v.clave = Clave(r)
        /\ Votado(Derecho(r))
        /\ respuesta[r].tipo = "creado" <=> v.id = r

\* A RECHAZO is never audited for a request that voted, and "already exercised" is
\* only said when another request's vote of that right is in the table.
RechazoVeraz ==
  \A e \in auditoria :
    e.tipo = "RECHAZO" =>
      /\ \A v \in votos : v.id # e.peticion
      /\ e.motivo = "derecho_ya_ejercido" =>
           \E v \in votos : v.derecho = e.derecho

\* No ballot ever names a lista or candidato that eliminar() has removed, although
\* validation and insertion are two statements and eliminar() may run in between.
ReferenciaViva == \A v \in votos : EleccionExiste(v.eleccion)

\* Every request that started is answered, or its backend died: no two handlers
\* wait for each other on row locks and unique indexes.
TodaPeticionTermina ==
  \A r \in Peticiones : pc[r] # "nueva" ~> pc[r] \in {"respondida", "caida"}

\* emitir() implements the ballot box of module Urna.
ConRecibo == {q \in Peticiones : pc[q] = "respondida" /\ respuesta[q].voto # Nulo}
Acusados == {Derecho(respuesta[r].voto) : r \in ConRecibo}
Papeletas == {<<v.derecho, v.eleccion>> : v \in votos}
UrnaAbstracta == INSTANCE Urna WITH padron <- derechos, urna <- Papeletas, acuses <- Acusados
ImplementaUrna == UrnaAbstracta!Spec
=============================================================================
