# SEEI: a verification project for the school electoral system

SEEI runs elections in a school: the committee prepares a *proceso electoral*, opens it
(which freezes the electoral roll), voters cast one ballot per right to vote, the committee
closes it, the count is frozen into four *actas*, and a worker renders them and sends the
mails. The backend (`src/apps/backend`, NestJS + Prisma on PostgreSQL, sessions in Redis)
handles each HTTP request concurrently with the others; the worker (`src/apps/worker`, BullMQ
on Redis) consumes rows that the backend leaves in PostgreSQL. This directory holds TLA+
models of the parts where concurrency, crashes and retries decide whether the election is
right, the TLC runs that check them and the TLAPS proofs about them.

Names in the modules are the code's (Spanish) wherever TLA+ allows it.

## How to run

    tlc -workers 2 -config MCVotos.cfg MCVotos      # any other cfg: the module is its longest
                                                    # MC module prefix (MCVotosViva -> MCVotos)
    tlapm VotosProofs.tla                           # and every other *Proofs.tla

The runs under "Disagreements with the documents" end in a counterexample on purpose.

## Inventory

Paths are under `src/apps/`; `backend/src` is left out of those of the backend.

| Component | State it keeps | Operations | What makes it correct | What is hard | Modules |
|---|---|---|---|---|---|
| Vote casting, `votos/votos.service.ts` | `Voto`, `EventoAuditoria`, `JobCorreo` rows; the row lock on `DerechoVoto` | `emitir` | one vote per right and per idempotency key; vote, audit and mail commit together; a receipt stands for a stored vote; only the owner votes, inside the window | the snapshot is taken before the row lock is granted and not refreshed; unique indexes; retries; lost answers; the audit of a rejection in another transaction | Urna, Votos |
| Electoral processes, `procesos/procesos.service.ts`, `escrutinio.ts` | `ProcesoElectoral`, `ProcesoAula`, `DerechoVoto`, `Acta`, `Notificacion` rows | `crear`, `editar`, `eliminar`, `abrir`, `cerrar` | estado moves forward once; roll, instants and actas are sealed; actas balance; audit and notifications match the estado | check and write in different statements (`editar`, `eliminar`); `UPDATE ... WHERE estado` re-evaluated behind a lock (`abrir`); REPEATABLE READ and 40001 (`cerrar`) | Procesos, Jornada |
| Emission of notifications and sweep, `notificaciones/emitir-notificaciones.ts`, `worker/src/notificaciones/sweep-*` | `Notificacion` rows, unique by (proceso, evento, usuario) | `emitirNotificaciones`, `barrerNotificaciones` | everybody of the roll is told, nobody else | the sweep lists, then emits; sweeps overlap | Procesos |
| Actas worker, `worker/src/actas`, `processors/actas.processor.ts` | `Acta.estado`, `ProcesoElectoral.estado`, BullMQ job | poll, `procesarActa`, `finalizar`, failure listener | four emitidas if and only if acta_emitida; each acta generated once; fallido only when attempts are spent | at-least-once delivery, stalls, the two last actas in parallel, a listener outside of the job | Cola, Actas |
| Mail workers, `worker/src/outbox`, `worker/src/notificaciones` | `JobCorreo.estado`, `intentos`, BullMQ job | poll, `reclamar`, send, `marcarEnviado`, failure listener | enviado only if sent; duplicates bounded; every mail ends | lost SMTP answer, lost write, a poll of bounded size | Cola, Outbox |
| Accounts, `auth/`, `users.service.ts` (`cambiarEstado`) | `Usuario` rows in PostgreSQL; counters, sessions and their index, recovery tokens in Redis | login, Google login and link, logout, lockout, unlock, change of estado, recovery | every lock and session is audited; one account per Google identity; a token changes one password; a deactivation stands | two stores written one after the other; every key has a TTL; read then update by id | Cuentas |
| School, `academico/`, `users/`, `configuracion/` | a table per resource, foreign keys and unique indexes | `crear`, `actualizar`, `eliminar` of each, `activar`, `actualizarLogo` | a coherent tree under independent foreign keys; one active year; an audit row per row written | the checks read before the write; two statements under a unique partial index | Registro, Escuela |
| Import of the padron, `importacion/` | the same rows | `importar` | a row is imported whole or reported; the summary adds up | partial failure row by row; two imports of one file | Importacion |
| Catalogue, `candidatos/` | `Lista`, `Candidato`, `OpcionConsulta` rows | `crear`, `actualizar`, `cambiarEstado`, `eliminar`, plan de trabajo | a ballot never loses its row; candidato and lista of one proceso; changes audited in order | count then delete; read then update by id; the proceso opens in between | Catalogo |
| Results and panel of the day, `procesos/resultados.service.ts`, `panel-jornada/` | Redis cache entries | read through cache | a result adds up, and is not shown before it may be | stale fill of a cache; a policy that changes late | Lecturas |
| Reports, `reportes/`, `worker/src/reportes` | `Reporte` rows, file | request, execute, download | hidden results stay hidden | a gate evaluated at three moments | Cola, Lecturas |
| Padron and segmentation, `procesos/padron.service.ts` | none (derives) | `calcular`, `resolverAulas`, `materializarDerechosVoto` | the roll is exactly what was counted | two pieces of code, one meaning | Padron |
| Voter pages, `frontend/src/votos` | one tab: page, fetches, `sessionStorage` | pages, steps, `confirmar`, retry, reload, history | the screen says of the vote what was registered | lost and late answers, retry with the same key, a page left with its call in flight | Boleta |
| Wizard of a proceso, `frontend/src/procesos` | reducer, timer, counts in flight | steps, live count, creation | the count is of the segmentation on the screen | debounce, answers out of order | Asistente, Padron |
| Administration panels, `frontend/src/academico`, `usuarios`, `cuentas` | filter, rows, form, dialog | list, edit, delete, traslado | a student is never left without matricula; a form saves its own row | handlers outlive their panel | Paneles |
| Bandeja, email senders, health, papeleta contents, the other pages, packages, infra, docs | | | | | see "Not modelled" |

How they interact. Everything goes through PostgreSQL rows: `abrir` writes the `DerechoVoto`
that `emitir` locks; `emitir` writes the `Voto` that `cerrar` counts and the `JobCorreo` that
the outbox worker polls; `cerrar` writes the `Acta` that the actas worker polls, and that
worker moves the proceso to `acta_emitida`. There is no direct call between the requests,
and none between backend and worker. Redis holds the BullMQ jobs, the sessions and the caches.
The frontend reaches all of it by HTTP calls that may be lost, late or repeated.

## The modules

    Urna  <---- refined by ----  Votos ----\
                                             Jornada    (INSTANCE of both over the same tables)
                                 Procesos --/
    Cola  <---- EXTENDS ----  Actas,  Outbox,  Lecturas
    Cuentas
    Registro  <---- EXTENDS ----  Escuela  <---- Importacion --\
                                  Catalogo  ------------------- Administracion
    Padron  <---- Asistente --\
    Boleta,  Paneles  --------- Pantallas               (INSTANCE, one page on the screen)
    VotosProofs  EXTENDS Votos;   JornadaProofs  EXTENDS Jornada  (INSTANCE of VotosProofs and ProcesosProofs)
    WorkerProofs  EXTENDS Actas and Outbox, over the Cola of both
    ProcesosProofs, CuentasProofs, AdministracionProofs, LecturasProofs, PantallasProofs  EXTEND their module

Each `MC<module>` instantiates the module of that name for TLC.

**Urna** is the abstract specification of the ballot box: rights enter the register, a right
is exercised at most once and for good, a receipt is handed out only for a ballot in the box.
It knows nothing of handlers, locks or indexes.

**Votos** models `emitir()`. A handler is a `pc` and what it has read. The steps are the
statements, because each is a snapshot of its own in READ COMMITTED:

| Action | Code (`votos.service.ts`) |
|---|---|
| `Comenzar` | the request; BEGIN fixes `now()`, which is what every later test of the window uses |
| `Leer`, `Bloquear` | the one `SELECT ... FOR UPDATE OF dv`, in two steps: it takes its snapshot and then waits. `DerechoVoto` is never updated, so PostgreSQL does not re-evaluate the row and the handler continues with the flags of the old snapshot |
| `Prohibir`, `Repetir`, `Rechazar` | cause 1; the retry with a known key; causes 2 to 4 in the code's order |
| `RegistrarRechazo` | the audit of a rejection, in its own transaction after the rollback |
| `Validar` | `validarEleccionPerteneceAlProceso()`, a separate statement |
| `Insertar` | INSERT under the two unique indexes: waits for a conflicting uncommitted row, fails on a committed one, checks the foreign key |
| `Confirmar` | `Voto`, VOTO event and `JobCorreo` commit together |
| `Responder`, `Recuperar`, `Presentar` | the answers: own vote; after a collision, the vote of the right; and `construirComprobante()` of a vote that was found, which reads by right |
| `Abortar`, `Caer` | a statement fails or times out, that of the audit of a rejection or of a read after the commit included; the backend dies |

The row lock is not a variable: `Libre(d)` says nobody whose handler is between lock and
commit holds the right. Nor is the uncommitted row: a handler in `insertada` has one. The
rest of the system is the `Entorno` of the module, each operation as the effect of its
commit, and **Jornada** checks that this description covers the real handlers.

**Procesos** models the committee: `editar`/`eliminar` check `borrador` in one step
(`Validar`) and write by id in another; `abrir` writes first (`Abrir` takes the lock with its
WHERE re-evaluated, `AbrirConfirmar` materialises rights, audits, notifies and commits);
`cerrar` takes its snapshot (`Fotografiar`), then gets the row (`Cerrar`), or 0 rows, or
40001 and the clean read afterwards (`CerrarConflicto`, `Releer`); `CerrarConfirmar` computes
`Escrutinio` from the snapshot. `version` stands for the row version that PostgreSQL compares
under REPEATABLE READ. `candado` is the row lock across statements. A pass of the sweep is
another request: `Listar` the open procesos, `ContarEmitidas` (the shortcut that skips a
proceso already reminded), `LeerPendientes` (who has not voted) and `Recordar`.

**Jornada** composes the two over the same tables with `INSTANCE ... WITH` (the `proceso` of
Votos is the three columns `emitir()` reads; the `votos` of Procesos are the two columns
`calcularEscrutinio()` groups). `MundoDeVotos` and `MundoDeProcesos` say that every behaviour
of the composition is a behaviour of each module with its own environment: what `Votos`
assumes of the committee, and `Procesos` of the voters, is what the other one really does.

**Cola** has what the worker's queues share: the poll (oldest first, bounded batch), the
`jobId` that makes adding idempotent, attempts, stalls (BullMQ's `maxStalledCount` at its
default of 1: a second stall fails the job), deaths of a process, and the `failed` listener
as a separate pending write `porMarcar`. BullMQ is not in `src/`: what is modelled of it is
how `main.ts`, the dispatchers and the listeners use it.

**Actas** is that queue with `finalizar()` as a transaction of four steps (lock, compare and
set, count, commit); **Outbox** is the queue with `reclamar`, SMTP delivery and
`marcarEnviado`. In both, a write may take effect and its answer be lost, so that the execution
throws what it has done and the job is run again or given up (`ConfirmarSinRespuesta`,
`EnviarSinRespuesta`, `MarcarSinRespuesta`).

**Lecturas** is everything that is read of a proceso while it runs. A client asks again and again:
a request of the tablero or of the panel reads the proceso (`Pedir`), looks in the cache
(`Buscar`, whose miss begins the transaction), takes its snapshot with the count of the votes
(`Contar`), reads the lists in the same snapshot (`Agrupar`) and writes the payload with its TTL
(`Guardar`). A report is requested, executed over **Cola** (`Leer` the row, `LeerGate` the policy)
and downloaded, with the gate on hidden results evaluated at each of the three. A payload is
abstracted to its total and to the sum of each of its lists, `Agrupados`, and the lists do not
look at the same votes:

| List | Which votes are in its rows | Code |
|---|---|---|
| `desglose` | the ballots of the dimension of the proceso and the blancos | `escrutinio.ts:82-88` |
| `aulas` | those of the aulas that are in `ProcesoAula` now | `panel-jornada.service.ts:226,249-257` |
| `franjas` | those of an hour from the opening to the close, or to now | `panel-jornada.service.ts:213,288-305` |

A vote may be in none of them: its ballot may be of another dimension, as `emitir()` allows; a
late `editar()` may have taken its aula out of the proceso; and it may be of an hour after the
close, for `emitir()` looks at `fecha_cierre_prevista` and never at `estado`, or of an hour that
began while the payload was being computed. `Votar` and `Editar` have all of these; `hora` is that
of the BEGIN of the vote, which may be earlier than that of its commit. `versiones` is the history
of what `editar()` wrote, so that a property can ask whether the results were visible, or an aula
of the proceso, at some moment between the start of a request and its answer.

**Cuentas** models the handlers of accounts step by step over the two stores: a step is one
transaction or one Redis command. `Manejador` lists them: the login (`LeerLogin`,
`RegistrarFallo`, `BloquearSiUmbralAlcanzado`, `ConfirmarLogin`, `ResetearIntentos`,
`CrearSesion`), the Google login and link (`LeerGoogle`, `ComprobarSub`, `ConfirmarGoogle`,
`Vincular`), the revocation of every session in the three commands it is (`RevocarLeer`,
`RevocarBorrar`, `RevocarOlvidar`), `Logout` with the three of its own session (`RevocarBuscar`,
`Revocar`, `RevocarQuitar`),
`DesbloquearManual`, `LeerEstado`/`CambiarEstado`, and the recovery (`Solicitar`,
`EmitirToken`, `ConsumirToken`, `GuardarClave` with its lost acknowledgement, `Compensar`).
`Fallar` ends any of them between two steps, and every TTL is an action (`Vence...`).

**Registro** is the pattern all CRUD services share: `Leer` is the transaction of checks,
`Insertar`, `Modificar`, `Borrar` the write with its audit, under the unique indexes
(`Indices`) and the foreign keys (`Foraneas`) of the migrations; P2002, P2003 and P2025
roll back. The tables are one function from ids to rows, each with the columns of its table
(`Columnas`, `BienFormada`); `Integra` is what the schema guarantees of them. What a particular service checks
before it writes is a predicate of the body: **Escuela** has them for the school
(`CrearAula(b)`, `EliminarGrado(b)`...) and `Activar`, the two statements of
`AniosEscolaresService.activar()`; **Catalogo** for the ballot, with the two-step
`CambiarEstado`, the plan de trabajo, and what reaches it from outside (votes, `Abrir`,
`EliminarProceso`). **Importacion** has `importar()`, row by row: the account found or
created, the references resolved, the matrícula found or created, each error with its
reason. **Administracion** is their union over one data base.

**Padron** has no state: what `calcular()` counts, what `crear()` freezes as `ProcesoAula`
and what `abrir()` materialises, as three operators of a school and a segmentation.

The frontend is one tab. A fetch is a record that goes from "ida" (sent) to "vuelta"
(answered by the server) and is delivered, cut, or left "huerfana" by its page. **Boleta** is
the voter: the three pages, the steps of the ballot, the idempotency key in `sessionStorage`
or, in private mode, in memory; its server is `emitir()` as one atomic step, which `Votos`
justifies. **Asistente** is the wizard with its reducer, the timer and the counts of
`usePadronEnVivo()`. **Paneles** is the administration: all panels are the same component
with other pieces, so a panel is the record of the pieces it has (filter, form, dialogs,
ficha, traslado) and a handler is a continuation that outlives its panel. **Pantallas**
puts one of the pages of a role on the screen (`AuthGuard`, `MENU_POR_ROL`); there the
variables of the other pages have no value, and each property is guarded by its page.

Abstractions: names, texts, PDF, hashes and receipts are not modelled; a vote is identified
by the request that inserts it (the code uses `randomUUID()`), and so are sessions and
recovery tokens. `Votos`, `Procesos` and `Lecturas` have one proceso: every statement they
model is keyed by its proceso, whose rows no other proceso shares. Audit rows are kept for
the events the properties name. A password, a Google token or a mail is its outcome.

## Runs

The runs that must pass, with the distinct states TLC finds. The type invariant of a module
is a conjunct of the property marked with an asterisk. With two workers each takes between a few seconds and two minutes.

| Run | Instance | States | What it shows |
|---|---|---|---|
| `votos` | 2 requests, 2 rights of one account and a second account, 2 keys, 1 lista, 2 instants | 826,374 | `TypeOK`, `VotoUnico`, `VotoLegitimo`, `VotoConRastro`, `ComprobanteVeraz`, `RechazoVeraz`, `ReferenciaViva`, and `ImplementaUrna`: `emitir()` implements the abstract box |
| `votos_viva` | the same rights and keys, one account, no symmetry | 169,434 | `TodaPeticionTermina`: no two handlers wait for each other on a row lock and an index |
| `procesos` | 3 requests of any kind, passes of the sweep among them, 2 rights in 2 aulas, 2 catalogue rows, 2 instants | 1,064,755 | `RastroCompleto`*, `EscrutinioCuadra`, `AvisosDelPadron` (who is told, and that the shortcut of the sweep forgets nobody), and the action properties `UnaSolaVida`, `ConflictoSinPerdida` |
| `jornada` | 1 vote and 2 committee requests on shared tables | 165,177 | `VotoEnPlazo`, and both environment assumptions |
| `actas` | 2 actas, 2 executions, 2 attempts, 2 stalls, 1 death | 93,512 | `EmisionCompleta`, `UnaGeneracion`*, `EstadoFinal`, and that every acta ends (`TodaActaAvanza`) |
| `outbox` | 2 mails, 2 executions, 2 attempts, 1 stall, 1 death | 762,249 | `CorreosAcotados`*, and that every mail ends (`TodoCorreoAvanza`) |
| `cuentas` | 2 accounts, 4 requests of any kind, a lock after 2 failures, every TTL | 617,041 | `BloqueoAuditado`*: as many locks as unlocks and the present estado in the audit, however failures and unlocks overlap; `SesionConRastro`; `VinculoUnico`; `TokenDeUnSoloUso`; `SoloSeReactiva`: no unlock or expiry takes a deactivated account back |
| `administracion` | 3 requests over 18 rows: 26 operations of the school and 3 files, or 21 of the ballot, its votes and the opening | 426,991 | `RastroDelRegistro`*: the audit accounts for every row; `ArbolCoherente`, `CatalogoCoherente`: relations that no foreign key states; `AnioActivoUnico`; `FilaAtomica`; `RastroDeEstado` |
| `lecturas` | 2 clients without end of requests, 2 rights in 2 aulas, 2 contents of the edits of which 1 or 2 are late, ballots of every dimension, 2 hours, 2 executions, 1 report, 1 stall, 1 death | 1,248,472 | `LecturaCuadra`: no list adds up to more than its total, and to less only for the votes that the code leaves out of it; `SinFuga`: no result is shown that was hidden all along; `CacheFinal`: once nothing moves any more the caches end up telling the proceso as it is, however they are filled |
| `pantallas` | a voter with 2 rights, 2 options, 3 mounted pages; a wizard over 2 schools of 3 aulas; every panel with 3 ids, 2 groups; 2 calls in flight | 1,574,243 | `BoletaVeraz`, `PadronVeraz`, `PanelSinDanio` |

Why the bounds are enough. Two votes conflict pairwise, on a right or on a key, and the input set
has every pair: a retry, a second tab with another key, one key on two rights, and somebody else's
right. Two instants put the opening, the close and a vote at the same instant or on different
sides. Three committee requests are what it takes for a late `editar()`, an `abrir()` and a
`cerrar()` to cross, or for two sweeps and a vote. Two actas stand for four: `finalizar()`
serialises them on one row, and what goes wrong is that the last two count each other's absence;
`Cardinality(Trabajos)` plays the constant 4. With 2 attempts a failure is followed by a retry and
then by the end; with 2 stalls a job fails for having stalled twice. Four requests on accounts are
two failures that reach the threshold together, an unlock and a login between them; with a
threshold of 2 both failures may pass it. Three requests on the registry are a handler between its
reads and its write and the two others that take away and recreate what it read. The requests are
split in two agendas, the school and the ballot, which share no table. Two clients of a cache are
a slow filler and whoever reads or fills meanwhile; an agenda has one endpoint, for none reads
what another one cached, and of the ballots, hours and late edits those its lists depend on. One
late edit, of the policy and the aulas at once, is enough for a snapshot to be older or newer than
it; the file of a report has two, to hide the results and show them again. Two calls in flight are
one that was left behind and its successor; three mounted pages are a jump away and back. Every
bound is a CONSTANT (`MaxReloj`, `MaxIntentos`, `MaxAtascos`, `MaxCaidas`, `MaxVotos`,
`MaxEdiciones`, `MaxMontajes`, `MaxLlamadas`, `MaxPeticiones`, `MaxBorradores`, `MaxAperturas`,
`MaxPedidos`) or a field of an element of `Agendas` (`votantes`, `papeletas`, `horas`, `ediciones`,
`cambios`); no other variable grows without one of the finite sets of requests or jobs.
Symmetry is used only in runs without liveness.

`MCAbiertos` gives each panel with the pieces that can meet: two pieces of one panel are put
together where the handler of one can disturb the other (the traslado with the filter, the
form with the dialogs of a ficha), and apart where they only multiply the states.

`CHECK_DEADLOCK FALSE` everywhere: requests are finite, so the system ends. What a deadlock
would be is checked where it matters by `TodaPeticionTermina`.

### Disagreements with the documents

Each of these runs checks one property that a document of the repository states, and TLC
shows a behaviour of the code in which it is false.

| Run | Property | What happens |
|---|---|---|
| `procesos_tardia` | `DatosCongelados` | `editar()` reads borrador, `abrir()` commits, `editar()` then rewrites the window and the aulas of an open proceso |
| `jornada_cierre` | `SinVotosTrasCierre` | `emitir()` looks at `fecha_cierre_prevista` and never at `estado` or `cierre_real`: after an early close votes are still inserted, and no acta counts them |

The properties of the passing runs that are affected say so: `VotoEnPlazo` and
`ConflictoSinPerdida` have the escape `EdicionTardia`, `SinFuga` reckons with an
`ocultar_resultados` that changes after the opening, `EscrutinioCuadra` demands equality
only when every ballot is of the dimension, `LecturaCuadra` only when no vote is outside of
what a list counts (`Cubre`), and the liveness of the worker excludes `Olvidado` jobs.

The repository contradicts itself on the active school year. `construirComprobante()` orders its
`findFirst({ activo: true })` because "`activo` no tiene restricción de unicidad" and there may be
"dos filas activas" (`votos.service.ts:406-408`); but the migration creates
`anio_escolar_activo_unico_idx`, unique where `activo`
(`migrations/20260807033309_identity_and_academic_tree/migration.sql:149-152`), and `activar()`
(the comment over it, and its catch of P2002) and `configuracion-lectura.service.ts:52` count on
it. The model has the index, as the data base does, and `AnioActivoUnico` shows what follows: never
two active rows, whatever activations cross, so the tie that the comment prepares for cannot
happen and its `orderBy` decides nothing. The mutant of that property, `ActivarSinIndice`, is the
world of the comment: without the index two activations that cross leave two active years. It is
no run of its own: what the comment says is missing is a constraint of the schema, not a property
of the program that a behaviour could violate.

### Other behaviours of the code that contradict or surprise

Met while modelling; none of them has a run of its own.

Votes, processes and worker:

- a process that dies between the last failure of a job and the listener's write leaves the
  acta in borrador for ever, its jobId known to BullMQ
  (`worker/src/actas/actas-fallido-listener.ts:30`; the spec of the cierre promises fallido);
- such forgotten rows fill the batch of the poll, which takes the oldest rows first
  (`outbox-correo.repo.ts:68`); the liveness is checked with fewer of them than the batch;
- the last attempt may mark enviado, lose its answer, and the listener then writes fallido by
  id (`outbox-correo.repo.ts:54`). `reclamar()` leaves the row `pendiente`, so its claim does
  not exclude a second execution: `CorreosAcotados` bounds what follows;
- a ballot for an active row outside of the dimension of the proceso is accepted
  (`votos.service.ts:184`, `papeleta.service.ts:51`); the acta then does not balance;
- a key reused on another right answers with the code of the vote that holds the key and the
  ballot of the right, or with an error if that right has not voted;
- in the panel such a ballot is in `votos_emitidos` and in no row of the desglose; a vote after an
  early close is in no franja when its hour is later (`panel-jornada.service.ts:213`); one of an aula
  that a late `editar()` took out is in no row of the avance (line 226);
- `construirComprobante()` runs after the commit: a 500 there tells the voter "No se pudo
  registrar el voto" of a registered vote (the retry repairs it);
- "at most 4 rows per proceso" of NOTIFICACIONES_EMITIDAS (`emitir-notificaciones.ts:136`) is
  exceeded by two overlapping sweeps; a reminder may come after `cerrar()` or to somebody who
  has just voted;
- `PadronService.calcular()` is three statements with a snapshot each: a spurious aviso is
  possible. A student with two matrículas of the year makes `abrir()` collide with the unique
  index of the rights; the aviso of the preview warns of it;
- the desglose of the resumen is computed under the `ocultar_resultados` that was read outside
  of the transaction: `SinFuga` therefore allows whatever was visible at some moment of the
  request.

Accounts:

- a session created between SMEMBERS and DEL of `revokeAllForUser()` survives outside the
  index (`session.service.ts:86`), against `openspec/specs/auth-server-sessions`; that no
  session survives a lock holds in neither order of the two steps of the lock either
  (`bloqueo.service.ts:111`);
- an inactive account counts failures (`auth.service.ts:302`), against the comment at line 70;
- two concurrent `cambiarEstado('inactivo')` audit twice; an unlock does not reset the counter;
  of two concurrent Google links of one account the last wins; a commit whose acknowledgement
  was lost gives a used recovery token back.

School and catalogue:

- `matriculas.crearIdempotente()` looks for the aula without the year
  (`matriculas.service.ts:276`), against `openspec/specs/student-enrollment`; and its catch of
  P2002 (line 341) reads inside of the aborted transaction, so the row is reported as
  "formato" instead of existing;
- `candidatos.actualizar()` has no catch of P2003 (line 500): a lista deleted in between
  answers 500.

Frontend:

- after a jump in the history from right A to B the page stays mounted: "Reintentar" of A
  sends the selection of A to B, with another key, and a late 201 of A replaces the screen of
  B (`VotacionPage.tsx:81`). In private mode both share the key in memory, and the POST of B
  finds the vote of A;
- "cerrada" precedes "ya votaste" in the answer to another key; the dialog of consent has no
  focus trap, so the selection can change behind it with the box ticked; during the 300 ms of
  the debounce the old count is shown as current;
- a retry of the wizard after a lost answer creates a second borrador; `PasoPublico` offers
  aulas of other years, and then 409; only the frontend forces aulas for representante_aula;
- a traslado whose create answer is lost, or whose page is reloaded halfway, leaves two
  matrículas without an alert; one whose DELETE answer is lost says there are two where one
  remains (`PanelMatriculas.tsx:222`). Rows of an old filter may overwrite those of the new one
  (line 160); the form of a matrícula stays open when its year filter is cleared;
- a late answer of one ficha closes another, and the error of one row shows in the dialog of
  another;
- `RegistroCandidatoPage.tsx:88` has no key: a jump between two candidates saves the values of
  one in the other; `GestionCandidatosPage` ignores the failure of `subirPlanTrabajo()` and of
  `cambiarEstado()`; password and Google login may overlap; `alRecibir401` is never called.

## Fairness

`SpecViva` of Votos: a handler that has started goes on (WF of `pc # "nueva" /\ Avanzar`):
Node keeps running it and PostgreSQL grants a free lock. Weak fairness is enough because
locks are released for good by the handlers that hold them, each being at most once in the
queue. Clients owe nothing (no fairness on sending), and neither do failures, deaths or the
rest of the system. An answer is `respondida` or `caida`.

`SpecViva` of Actas and Outbox: the poll runs on a timer (WF of `DespacharLote`), executions
go on, the listener's write goes on, and BullMQ's check returns a job whose execution is gone
(WF of `Abandonado /\ Reentregar`). A live execution losing its lock, a failure and a death
owe nothing. The conclusions exclude jobs that BullMQ gave up and nobody will write in the
row (`Olvidado`: the process died before its listener wrote, or a second stall), and the
batch of these instances has room for them.

`Spec` of Lecturas: a key of Redis expires (WF of `Expirar`), which its TTL guarantees.
Nobody has to ask, to vote, or to finish a request, and nobody stops asking: a cache may be
filled for ever, so `CacheFinal` is about what it is filled with. It is true because an expired
key is computed again from the rows, and false of a key that does not expire (`VenceNunca`), or
is computed with the wrong hours (`HastaAhora`). That a stale payload may overwrite a newer one,
and stay for a TTL, is in the model and not excluded: the code does it.

The other modules state safety only and assume no fairness.

## Proofs

Every theorem is for any value of the constants: any numbers of requests, accounts, rights,
jobs, executions and rows, any roll, catalogue, files and bounds. Each follows from one
inductive invariant per component, which is itself a theorem (`Invariante...`).

| Module | Theorem | States |
|---|---|---|
| `VotosProofs` | `Tipos`, `UnVotoPorDerecho`, `VotosLegitimos` | `[]TypeOK`, `[]VotoUnico`, `[]VotoLegitimo` |
| | `RastroDelVoto`, `RechazosVeraces`, `ReferenciasVivas` | `[]VotoConRastro`, `[]RechazoVeraz`, `[]ReferenciaViva` |
| | `Refina` | `ImplementaUrna`: `Votos` refines `Urna` |
| | `ComprobantesVeraces` | `[]ComprobanteVeraz` |
| `ProcesosProofs` | `RastroSiempreCompleto`, `EscrutinioSiempreCuadra`, `AvisosSiempreDelPadron` | `[]RastroCompleto`, `[]EscrutinioCuadra`, `[]AvisosDelPadron` |
| | `VidaUnica`, `ConflictoBienContestado` | the action properties `UnaSolaVida`, `ConflictoSinPerdida` |
| `JornadaProofs` | `VotosEnPlazo` | `[]VotoEnPlazo`, over the real handlers of both services |
| | `VotosEnSuMundo`, `ProcesosEnSuMundo` | `MundoDeVotos`: the day refines `Votos`; `MundoDeProcesos`: it refines `Procesos` |
| `WorkerProofs` | `EmisionCompletaSiempre`, `UnaGeneracionPorActa`, `EstadosFinales` | `[]EmisionCompleta`, `[]UnaGeneracion`, and the action property `EstadoFinal` |
| | `CorreosAcotadosSiempre` | `[]CorreosAcotados`, of the comprobante worker |
| `CuentasProofs` | `BloqueosAuditados`, `SesionesConRastro`, `VinculosUnicos`, `TokensDeUnSoloUso` | `[]BloqueoAuditado`, `[]SesionConRastro`, `[]VinculoUnico`, `[]TokenDeUnSoloUso` |
| | `SoloCambiarEstadoReactiva` | the action property `SoloSeReactiva` |
| `AdministracionProofs` | `RastroDelRegistroSiempre`, `ArbolSiempreCoherente`, `AnioSiempreUnico` | `[]RastroDelRegistro`, `[]ArbolCoherente`, `[]AnioActivoUnico` |
| | `CatalogoSiempreCoherente`, `EstadoSiempreAuditado`, `FilaSiempreAtomica` | `[]CatalogoCoherente`, `[]RastroDeEstado`, `[]FilaAtomica` |
| `LecturasProofs` | `LecturaSiempreCuadra`, `NadaSeFuga` | `[]LecturaCuadra`, `[]SinFuga` |
| `PantallasProofs` | `PantallaDiceVerdad`, `PanelNoDania`, `ConteoDiceVerdad` | `[]BoletaVeraz`, `[]PanelSinDanio`, `[]PadronVeraz` |

### What is assumed of the constants

`ConstantesVotos`, `ConstantesProcesos`, `ConstantesCola`, `ConstantesActas`,
`ConstantesCuentas`, `ConstantesRegistro`, `ConstantesLecturas`, `ConstantesPadron`,
`ConstantesAsistente`, `ConstantesPantallas`: types; `Nulo` is nothing else; the blank ballot is
no lista. Beyond that:

- the roll, the jobs, the executions and the matriculas of a school are finite, and a proceso
  has at least one acta;
- a body has the fields that its handler reads (`BienFormado` in Cuentas, `PeticionValida` in
  Registro: an INSERT brings the columns of its table, a PATCH only what its DTO has, a year is
  born inactive);
- Cuentas starts with no account locked and no Google identity shared; Administracion starts
  from rows that satisfy the schema and the checks of the services (`InicialSana`);
- the ids PostgreSQL will give to new rows are not in use.

TLC evaluates all of them on the instances of the runs.

### The arguments

**Votos** (`Inv`, and `InvUrna` for what a receipt says). `IndicesUnicos`: a row in flight
(`insertada`) shares no right or key with a stored vote or with another row in flight.
`VotoUnico` alone is not inductive: the row about to commit has to be excluded before it
commits. Only the unique indexes keep it; the row lock and the flags of the SELECT are not used
in this part, because they may be stale and the indexes decide. `LecturaVigente`: what a
handler read is still true in the one direction that matters: a right, an ownership, an
opening or a vote that it saw is still there, though what it did not see may have appeared.
`VotoDeSuPeticion` makes the commit add a new row, and with it each event and mail belong to
one vote (`RastroDelVoto`). `PadronAlAbrir`: rights exist only once the proceso was opened.
`RecibosFundados` (an answer with a vote, given or being built, names a vote in the table) is
what `Refina` and `ComprobantesVeraces` add. The mapping takes `padron` to the `DerechoVoto`
rows, `urna` to the pairs of right and choice, and `acuses` to the rights of the votes that
were acknowledged; `AbrirProceso` maps to `Inscribir`, `Confirmar` to `Votar`, `Responder` and
`Presentar` to `Acusar`, and everything else, crashes and late edits included, to a stutter.

**Procesos** (`InvProcesos`). `Candados`: the row lock is held exactly by whoever is between
its UPDATE and its commit. `VidaDeLaFila`: which columns, rights and actas go with each
estado. `Situacion` says of each handler what its snapshot still means: that of `abrir()` is
the row as it will leave it; the one of `cerrar()` before its lock is either the row of now
(same `version`) or overtaken by the end of the proceso or by a late `editar()`; behind the
lock it is a subset of the votes over the same rights; the one of a pass of the sweep
contains everybody who has not voted. The properties are conjuncts of the invariant or follow
from it. That the acta balances rests on `SumaDelDesglose` and the lemmas on finite sets around
it: `Total` counts the ballots of each row as the cardinality of a set of pairs, so that its sum
needs no induction over data.

**Jornada** (`InvJornada`). It holds the invariants of Votos and of Procesos over the shared
tables, and two parts that only the composition can state. `AperturasPasadas`: the
`apertura_real` that `abrir()` has stamped and not committed is not in the future, so its commit
is the `AbrirProceso` that Votos assumes. `EnVentana`: what a handler of `emitir()` found of the
window and of the scope of an open proceso is still so, and so is that of every vote, until a
late `editar()` commits; before the opening nobody has found the proceso open
(`LecturaVigente`). The step to a world is a case on who moves. A step of the committee
either writes nothing that a vote reads (the commit of `cerrar()` included), or is `EditarProceso`,
`EliminarProceso` or `AbrirProceso`; `VidaDeLaFila` excludes an `eliminar()` or a second
`abrir()` of an open proceso. The commit of a vote is the `Votar` that Procesos assumes: the
right exists (`LecturaVigente`), has no vote (`IndicesUnicos`) and the row it names is there
(`EleccionFirme`). With the refinements, every theorem about Votos or Procesos by itself holds
of the two services together. `JornadaProofs` takes the lemmas of the two other modules through
`INSTANCE`; the lemmas `Mismo...` say that the actions of its instances and of theirs are the
same ones.

**Cola** (`ColaSana`, one lemma per operation): a job that may still run has attempts left, and
the listener only gives up jobs that spent them. **Actas** adds `CandadoDeLaTransaccion` (only
the holder of the row lock is inside `finalizar()`, on an acta in borrador) and `CuentaVigente`
(what it counted is still the count when it commits), which is why the last two actas cannot
count each other's absence. **Outbox** is an account: deliveries bound claims, claims bound
mails (`ReclamosAcotados`, `EnviosAcotados`), where the executions that are between the two
steps are counted as owed. `CorreosAcotados` is not inductive without them.

**Cuentas** (`InvCuentas`). `UnLugar`: a recovery token is alive, in the hands of one handler,
or spent, never two of them; so the compensation gives back only what it holds. `SinEventos`:
a handler before its transaction has audited nothing, so its event is new and locks and unlocks
can be counted. `LoginAntes`: the login is audited before the session exists. `VinculoUnico` is
kept by the unique index at the commit, not by the read before it.

**Administracion** (`InvAdministracion`). The database by itself is `Bien`: `Sana` (the schema,
the tree of the school and the ballot) and an audit that accounts for it. `Leido` is what each
handler read before its write and still holds although others committed meanwhile: a parent it
read has the same grado, year or proceso *if it is still there*, and if it is not, the foreign
key stops the write. That is why coherence that no foreign key states survives checks made in
another statement. The step is proved in three layers: what a write does to rows and audit
(`Avance`, one lemma per write: insert, update, delete, activation, change of estado, opening,
deletion of a proceso, imported row), what any such write leaves of the handlers that did not
take it (`Conserva`), and each action as its write plus its own handler. `Nacimientos` says an
id is given once, which makes the audit of a row countable; `Cuenta` and `Anuncios` are the
account of an import.

**Lecturas** (`InvLecturas`). A payload is `Buena` if its lists agree with its total (`Cuadra`,
which is `LecturaCuadra` of one payload) and the policy showed what it shows at some version from
the start of the request that computed it. `Veraz` says it of every request by its phase, half a
computation included (`agrupar`: the total is the one of the snapshot; the snapshot has votes that
are still there, and a version between the one of the request and the one of now; the close it
read is none or the one of now). `CacheVeraz` says it of the cache as of now and `RespuestaVeraz`
of each answer as of when it was given. It is inductive because of `Crece`: votes and versions are
only added, and the close is written once; so `Cubre` only becomes false, what was visible was
visible, and a payload that is late in the cache, or written over a newer one, is still `Buena`.
The work is in `AgrupadosCubren`: a list is a subset of the snapshot, hence at most the total, and
if `Cubre` holds it is the whole of it: each list for the reason of its own filter. Nothing is
said of a payload being recent (that is `CacheFinal`, a liveness). `ReporteVeraz` follows a report
through its three gates: a file has sensitive sections only if the execution read the gate open.

**Pantallas** (`InvPantallas`): one invariant per page, while it is on the screen; the three
never change what is of another.

- The pages of the voter (`InvBoleta`). `Cierta` says that what a call brings back was true when
  the server said it, and `Perduran` that it remains so: the box only grows, and not at all after
  the close. `Propia`: a read in flight is of the page on the screen, while a vote goes on
  without its page (`huerfana`) and then changes no screen. `PaginaCierta` is the same of what is
  shown; after a jump in the history "ya votaste" may still be of the right before, but only while
  the papeleta of this one is in flight.
- The panels (`InvPaneles`). `SinHueco`: a student has a matricula that no traslado deletes *or is
  going to* (`Condenada`: a DELETE in flight, or an accepted alta whose handler will send one).
  Without the second half `TrasladoSinHueco` is not inductive: the handler goes on after its
  panel is gone, and two traslados of one row may both send the DELETE, each after an alta of its
  own. The form of `EdicionDeSuFila` remembers the row its values come from (`origen`), and a
  call carries both.
- The asistente (`InvAsistente`). A count in flight is of the segmentation on the screen or
  cancelled (`PeticionSana`), and one on the screen is of it unless the timer of another is
  running (`ConteoSano`). That the number is the padron needs no step: `CuentaExacta` compares
  two pieces of code, `calcular()`, which adds rights aula by aula, and the rows that `abrir()`
  materialises, which repeat no right unless the count carries its warning. The sum is `MapThenSumSet` of the community modules, a
  recursion over subsets in the order that CHOOSE takes. No theorem of the library says what it
  adds, but one is not needed: the cardinality of the union satisfies the same recursive
  equation, and over a finite set the equation has one solution (`SumaUnica`, by the minimal
  counterexample of a well-founded order).

### Model-checked only

- `TodaPeticionTermina`, `TodaActaAvanza`, `TodoCorreoAvanza`, `CacheFinal`: liveness under
  fairness, out of the prover's reach;
- the two disagreements, which are false.

## Not modelled

- the contents of the actas beyond the count (texts, empates, percentages), of the papeleta
  (options and files), of the mails, and the layout of the reports: data, not control;
- the bandeja of notifications: paging, and a mark `leido_en` that two requests may both make;
- email senders, health, system-ping: I/O. `Outbox` has what a delivery may answer;
- the queries of the audit log: there are none in this code;
- parsing of the padron file and the csv of its errors: `Importacion` starts from rows;
- the poll of the second mail queue: it filters the same rows by `origen` and its executions
  are those of `Outbox`;
- the remaining pages of the frontend (session, candidatos, import, configuration,
  dashboards): forms over calls whose server side is modelled;
- packages/contracts (types), infra, openspec and docs (no behaviour).

## Plan

Done, in the order in which a fault would hurt the election: Urna and Votos, Procesos with the
sweep, Jornada, Cola with Actas, Outbox and the reports of Lecturas, Cuentas, Registro with
Escuela, Importacion and Catalogo, Padron, and the pages of the frontend that act over
unreliable calls; and the proofs of every invariant, action property and refinement that the
runs check.

Next, in the model: a composition of Boleta with Votos (the tab over the real handlers)
and of Cuentas with the other handlers (a session revoked while a request runs).
