------------------------------ MODULE Procesos ------------------------------
(***************************************************************************)
(* ProcesosService: the requests of the committee that edit, delete, open  *)
(* and close one ProcesoElectoral, each in its own handler.                *)
(*                                                                         *)
(* editar() and eliminar() check the estado in a statement of their own    *)
(* and write later, by id.  abrir() writes first: its UPDATE waits for the *)
(* row lock and re-evaluates its WHERE.  cerrar() runs in REPEATABLE READ: *)
(* everything it reads comes from the snapshot of its UPDATE, which fails  *)
(* with 40001 when somebody wrote the row after that snapshot.             *)
(*                                                                         *)
(* The worker's sweep of reminders is one more handler here: it reads the  *)
(* open procesos, then what was emitted, then who has not voted, and emits.*)
(*                                                                         *)
(* The proceso is born by crear(); a vote, the catalogue and the worker's  *)
(* acta_emitida appear as the effect of their commit.                      *)
(***************************************************************************)
EXTENDS Integers, FiniteSets, Sequences

CONSTANTS
  Comite,       \* requests of the committee, and sweeps of the worker
  Operaciones,  \* what they may ask for
  Usuarios, Derechos, DuenoDe, AulaDe, Aulas, Listas, Blanco, Nulo, MaxReloj,
  Contables     \* rows of the dimension that calcularEscrutinio() counts

Opciones  == Listas \cup {Blanco}
Instantes == 0 .. MaxReloj

\* EventoSweep: a sweep inside both thresholds is two handlers here.
EventosSweep == {"recordatorio", "cierre_proximo"}

ASSUME ConstantesProcesos ==
  /\ Operaciones \subseteq {"editar", "eliminar", "abrir", "cerrar"} \cup EventosSweep
  /\ DuenoDe \in [Derechos -> Usuarios]
  /\ AulaDe \in [Derechos -> Aulas]
  /\ IsFiniteSet(Derechos)
  /\ Contables \subseteq Listas
  /\ Blanco \notin Listas
  /\ MaxReloj \in Nat
  /\ Nulo \notin Instantes
  /\ Nulo \notin Comite

VARIABLES
  reloj,        \* clock_timestamp()
  proceso,      \* the ProcesoElectoral row and its ProcesoAula rows
  version,      \* how many times the row has been written
  derechos,     \* DerechoVoto rows
  catalogo,     \* state of each row a ballot can name
  votos,        \* Voto rows
  actas,        \* what cerrar() froze in the four Acta rows
  bitacora,     \* PROCESO_* rows of EventoAuditoria, in order of commit
  avisos,       \* Notificacion rows, unique by (evento, usuario)
  candado,      \* who holds the row lock of the proceso across statements
  paso,         \* where each handler is
  pedido,       \* the operation each handler serves
  foto,         \* the snapshot of each cerrar()
  contestado    \* what each handler answered

compartidas == <<reloj, proceso, derechos, catalogo, votos>>
propias     == <<version, actas, bitacora, avisos, candado, paso, pedido, foto, contestado>>
vars        == <<compartidas, propias>>
-----------------------------------------------------------------------------
(* Types *)

Estados == {"borrador", "abierto", "cerrado", "acta_emitida", "eliminado"}
Fila == [estado: Estados,
         apertura_real: Instantes \cup {Nulo},
         cierre_real: Instantes \cup {Nulo},
         cierre_previsto: Instantes,
         aulas: SUBSET Aulas]
Boleta == [derecho: Derechos, eleccion: Opciones]

Foto == [proceso: Fila, version: Nat, derechos: SUBSET Derechos,
         catalogo: SUBSET Listas, votos: SUBSET Boleta]
Actas == [padron: Nat, emitidos: Nat, blancos: Nat, desglose: [Contables -> Nat]]

Pasos == {"nuevo", "pedido", "validado", "abriendo", "fotografiado", "cerrando",
          "conflicto", "listado", "contado", "avisando", "terminado", "caido"}
Respuestas == {"editado", "eliminado", "abierto", "cerrado", "no_editable", "no_abrible",
               "no_cerrable", "no_encontrado", "sin_elegibles", "barrido", "error"}
Suceso == [tipo: {"PROCESO_EDITADO", "PROCESO_ELIMINADO", "PROCESO_ABIERTO", "PROCESO_CERRADO"},
           pedido: Comite]
Aviso == [evento: {"inicio_votacion", "resultados"} \cup EventosSweep, usuario: Usuarios]

ASSUME NuloAparte == Nulo \notin Actas /\ Nulo \notin Respuestas

TypeOK ==
  /\ reloj \in Instantes
  /\ proceso \in Fila
  /\ version \in Nat
  /\ derechos \subseteq Derechos
  /\ catalogo \in [Listas -> {"activo", "baja", "ausente"}]
  /\ votos \subseteq Boleta
  /\ actas \in Actas \cup {Nulo}
  /\ bitacora \in Seq(Suceso)
  /\ avisos \subseteq Aviso
  /\ candado \in Comite \cup {Nulo}
  /\ paso \in [Comite -> Pasos]
  /\ pedido \in [Comite -> Operaciones \cup {Nulo}]
  /\ foto \in [Comite -> Foto \cup {Nulo}]
  /\ contestado \in [Comite -> Respuestas \cup {Nulo}]
-----------------------------------------------------------------------------
(* Steps shared by the handlers *)

Ir(p, a) == paso' = [paso EXCEPT ![p] = a]

\* The handler ends: its transaction, lock and snapshot end with it.
Contestar(p, c) ==
  /\ Ir(p, "terminado")
  /\ contestado' = [contestado EXCEPT ![p] = c]
  /\ foto' = [foto EXCEPT ![p] = Nulo]
  /\ candado' = IF candado = p THEN Nulo ELSE candado

\* Writing the row needs its lock, and leaves every older snapshot behind.
Escribir(p, fila) ==
  /\ candado \in {Nulo, p}
  /\ proceso' = fila
  /\ version' = version + 1

Auditar(p, t) == bitacora' = Append(bitacora, [tipo |-> t, pedido |-> p])

\* Mutant: the unique index lacks the evento.
AvisarUnaVez(e, ds) ==
  avisos' = avisos \cup {[evento |-> e, usuario |-> DuenoDe[d]] : d \in
              {x \in ds : \A a \in avisos : a.usuario # DuenoDe[x]}}

\* emitirNotificaciones(): ON CONFLICT (proceso, evento, usuario) DO NOTHING.
Avisar(e, ds) == avisos' = avisos \cup {[evento |-> e, usuario |-> DuenoDe[d]] : d \in ds}

SinEscribir == UNCHANGED <<compartidas, version, actas, bitacora, avisos>>

\* The request arrives.
Pedir(p) ==
  /\ paso[p] = "nuevo"
  /\ \E o \in Operaciones : pedido' = [pedido EXCEPT ![p] = o]
  /\ Ir(p, "pedido")
  /\ SinEscribir /\ UNCHANGED <<candado, foto, contestado>>
-----------------------------------------------------------------------------
(* editar() and eliminar() *)

\* findUnique() and the check of the estado, in no transaction.
Validar(p) ==
  /\ paso[p] = "pedido"
  /\ pedido[p] \in {"editar", "eliminar"}
  /\ CASE proceso.estado = "eliminado" -> Contestar(p, "no_encontrado")
       [] proceso.estado = "borrador"  -> Ir(p, "validado") /\ UNCHANGED <<candado, foto, contestado>>
       [] OTHER                        -> Contestar(p, "no_editable")
  /\ SinEscribir /\ UNCHANGED pedido

\* The transaction of editar(): UPDATE by id, ProcesoAula rewritten, audit.  It
\* holds the row lock from its first statement, so it shows as one step.
Editar(p) ==
  /\ paso[p] = "validado"
  /\ pedido[p] = "editar"
  /\ proceso.estado # "eliminado"
  /\ \E a \in (SUBSET Aulas) \ {{}}, c \in Instantes :
       Escribir(p, [proceso EXCEPT !.aulas = a, !.cierre_previsto = c])
  /\ Auditar(p, "PROCESO_EDITADO")
  /\ Contestar(p, "editado")
  /\ UNCHANGED <<reloj, derechos, catalogo, votos, actas, avisos, pedido>>

\* DELETE of the row: DerechoVoto restricts it, ProcesoAula and the catalogue go with it.
SinHijosRestrictivos == derechos = {}

Eliminar(p) ==
  /\ paso[p] = "validado"
  /\ pedido[p] = "eliminar"
  /\ proceso.estado # "eliminado"
  /\ SinHijosRestrictivos
  /\ Escribir(p, [proceso EXCEPT !.estado = "eliminado", !.aulas = {}])
  /\ catalogo' = [l \in Listas |-> "ausente"]
  /\ Auditar(p, "PROCESO_ELIMINADO")
  /\ Contestar(p, "eliminado")
  /\ UNCHANGED <<reloj, derechos, votos, actas, avisos, pedido>>

\* update() or delete() of a row that is gone, or that the foreign key holds.
Fracasar(p) ==
  /\ paso[p] = "validado"
  /\ \/ proceso.estado = "eliminado"
     \/ pedido[p] = "eliminar" /\ ~SinHijosRestrictivos
  /\ Contestar(p, "error")
  /\ SinEscribir /\ UNCHANGED pedido
-----------------------------------------------------------------------------
(* abrir() *)

\* Mutant: the WHERE is evaluated on the row read before waiting for the lock.
AbribleSinReevaluar == proceso.estado \in {"borrador", "abierto"}

\* WHERE estado = 'borrador', re-evaluated once the lock is granted.
Abrible == proceso.estado = "borrador"

\* UPDATE ... SET apertura_real = clock_timestamp(): the row is locked, nothing
\* is visible yet.
Abrir(p) ==
  /\ paso[p] = "pedido"
  /\ pedido[p] = "abrir"
  /\ candado = Nulo
  /\ Abrible
  /\ candado' = p
  /\ foto' = [foto EXCEPT ![p] =
       [proceso |-> [proceso EXCEPT !.estado = "abierto", !.apertura_real = reloj],
        version |-> version, derechos |-> {}, catalogo |-> {}, votos |-> {}]]
  /\ Ir(p, "abriendo")
  /\ SinEscribir /\ UNCHANGED <<pedido, contestado>>

\* 0 rows: the same transaction reads the row again.
AbrirSinFilas(p) ==
  /\ paso[p] = "pedido"
  /\ pedido[p] = "abrir"
  /\ ~Abrible
  /\ Contestar(p, CASE proceso.estado = "eliminado" -> "no_encontrado"
                    [] proceso.estado = "abierto"   -> "abierto"
                    [] OTHER                        -> "no_abrible")
  /\ SinEscribir /\ UNCHANGED pedido

\* materializarDerechosVoto() over the frozen aulas: the rights of whoever the
\* Matricula rows make eligible now.  Nobody eligible rolls everything back.
AbrirConfirmar(p) ==
  /\ paso[p] = "abriendo"
  /\ \E ds \in SUBSET {d \in Derechos : AulaDe[d] \in proceso.aulas} :
       IF ds = {}
       THEN /\ Contestar(p, "sin_elegibles")
            /\ SinEscribir
       ELSE /\ derechos' = derechos \cup ds
            /\ Escribir(p, foto[p].proceso)
            /\ Auditar(p, "PROCESO_ABIERTO")
            /\ Avisar("inicio_votacion", ds)
            /\ Contestar(p, "abierto")
            /\ UNCHANGED <<reloj, catalogo, votos, actas>>
  /\ UNCHANGED pedido
-----------------------------------------------------------------------------
(* cerrar() *)

\* The UPDATE starts and fixes the snapshot of the transaction.
Fotografiar(p) ==
  /\ paso[p] = "pedido"
  /\ pedido[p] = "cerrar"
  /\ foto' = [foto EXCEPT ![p] =
       [proceso |-> proceso, version |-> version, derechos |-> derechos,
        catalogo |-> {l \in Listas : catalogo[l] # "ausente"}, votos |-> votos]]
  /\ Ir(p, "fotografiado")
  /\ SinEscribir /\ UNCHANGED <<candado, pedido, contestado>>

RespuestaAlCerrar(estado) ==
  CASE estado = "eliminado"                  -> "no_encontrado"
    [] estado \in {"cerrado", "acta_emitida"} -> "cerrado"
    [] OTHER                                 -> "no_cerrable"

CerrarSinFilas(p) ==
  /\ paso[p] = "fotografiado"
  /\ foto[p].proceso.estado # "abierto"
  /\ Contestar(p, RespuestaAlCerrar(foto[p].proceso.estado))
  /\ SinEscribir /\ UNCHANGED pedido

\* Mutant: the isolation level of abrir(), where a newer version is no error.
SinConflicto(p) == proceso.estado \in {"abierto", "cerrado"}

\* Nobody has written the row since the snapshot.
FotoVigente(p) == version = foto[p].version

\* The row is locked and stamped with cierre_real.
Cerrar(p) ==
  /\ paso[p] = "fotografiado"
  /\ foto[p].proceso.estado = "abierto"
  /\ candado = Nulo
  /\ FotoVigente(p)
  /\ candado' = p
  /\ foto' = [foto EXCEPT ![p].proceso.estado = "cerrado", ![p].proceso.cierre_real = reloj]
  /\ Ir(p, "cerrando")
  /\ SinEscribir /\ UNCHANGED <<pedido, contestado>>

\* 40001, and then a clean read outside of the transaction.
CerrarConflicto(p) ==
  /\ paso[p] = "fotografiado"
  /\ foto[p].proceso.estado = "abierto"
  /\ ~FotoVigente(p)
  /\ foto' = [foto EXCEPT ![p] = Nulo]
  /\ Ir(p, "conflicto")
  /\ SinEscribir /\ UNCHANGED <<candado, pedido, contestado>>

\* Mutant: the conflict is reported as if the proceso could not be closed.
ReleerSinEstado(p) ==
  /\ paso[p] = "conflicto"
  /\ Contestar(p, "no_cerrable")
  /\ SinEscribir /\ UNCHANGED pedido

Releer(p) ==
  /\ paso[p] = "conflicto"
  /\ Contestar(p, RespuestaAlCerrar(proceso.estado))
  /\ SinEscribir /\ UNCHANGED pedido

\* Mutant: READ COMMITTED, the groupBy sees votes the count did not.
VotosDelDesgloseRC(p) == votos

\* REPEATABLE READ: the breakdown is read from the snapshot of the count.
VotosDelDesglose(p) == foto[p].votos

Cuantos(vs, o) == Cardinality({v \in vs : v.eleccion = o})

\* calcularEscrutinio(): blanks, and the rows of the dimension with their votes.
Escrutinio(p) ==
  [padron   |-> Cardinality(foto[p].derechos),
   emitidos |-> Cardinality(foto[p].votos),
   blancos  |-> Cuantos(VotosDelDesglose(p), Blanco),
   desglose |-> [l \in Contables |->
      IF l \in foto[p].catalogo THEN Cuantos(VotosDelDesglose(p), l) ELSE 0]]

\* The count, the four actas, the audit and the notifications commit together.
CerrarConfirmar(p) ==
  /\ paso[p] = "cerrando"
  /\ Escribir(p, foto[p].proceso)
  /\ actas' = Escrutinio(p)
  /\ Auditar(p, "PROCESO_CERRADO")
  /\ Avisar("resultados", foto[p].derechos)
  /\ Contestar(p, "cerrado")
  /\ UNCHANGED <<reloj, derechos, catalogo, votos, pedido>>
-----------------------------------------------------------------------------
(* The sweep of the worker: barrerNotificaciones() *)

\* procesosAbiertos() and the time that is left; nothing to do is the end of it.
Listar(p) ==
  /\ paso[p] = "pedido"
  /\ pedido[p] \in EventosSweep
  /\ IF proceso.estado = "abierto" /\ reloj < proceso.cierre_previsto
     THEN Ir(p, "listado") /\ UNCHANGED <<candado, foto, contestado>>
     ELSE Contestar(p, "barrido")
  /\ SinEscribir /\ UNCHANGED pedido

\* emitirPendientes(): the shortcut, a count of its own ...
ContarEmitidas(p) ==
  /\ paso[p] = "listado"
  /\ IF \E a \in avisos : a.evento = pedido[p] THEN Contestar(p, "barrido")
     ELSE Ir(p, "contado") /\ UNCHANGED <<candado, foto, contestado>>
  /\ SinEscribir /\ UNCHANGED pedido

SinVoto == {d \in derechos : \A v \in votos : v.derecho # d}

\* ... then a transaction that reads the rights without a vote ...
LeerPendientes(p) ==
  /\ paso[p] = "contado"
  /\ IF SinVoto = {} THEN Contestar(p, "barrido")
     ELSE /\ foto' = [foto EXCEPT ![p] = [proceso |-> proceso, version |-> version,
                derechos |-> SinVoto, catalogo |-> {}, votos |-> {}]]
          /\ Ir(p, "avisando")
          /\ UNCHANGED <<candado, contestado>>
  /\ SinEscribir /\ UNCHANGED pedido

\* ... and emits to the owners it read, whatever happened since.
Recordar(p) ==
  /\ paso[p] = "avisando"
  /\ Avisar(pedido[p], foto[p].derechos)
  /\ Contestar(p, "barrido")
  /\ UNCHANGED <<compartidas, version, actas, bitacora, pedido>>
-----------------------------------------------------------------------------
(* Failures *)

EnCurso == {"pedido", "validado", "abriendo", "fotografiado", "cerrando", "conflicto",
            "listado", "contado", "avisando"}

\* A validation or a statement fails, or Prisma's timeout expires: rollback.
Abortar(p) ==
  /\ paso[p] \in EnCurso
  /\ Contestar(p, "error")
  /\ SinEscribir /\ UNCHANGED pedido

\* The process dies; PostgreSQL rolls back and frees the lock.
Caer(p) ==
  /\ paso[p] \in EnCurso
  /\ Ir(p, "caido")
  /\ foto' = [foto EXCEPT ![p] = Nulo]
  /\ candado' = IF candado = p THEN Nulo ELSE candado
  /\ SinEscribir /\ UNCHANGED <<pedido, contestado>>

Avanzar(p) ==
  \/ Validar(p) \/ Editar(p) \/ Eliminar(p) \/ Fracasar(p)
  \/ Abrir(p) \/ AbrirSinFilas(p) \/ AbrirConfirmar(p)
  \/ Fotografiar(p) \/ CerrarSinFilas(p) \/ Cerrar(p) \/ CerrarConflicto(p)
  \/ Releer(p) \/ CerrarConfirmar(p)
  \/ Listar(p) \/ ContarEmitidas(p) \/ LeerPendientes(p) \/ Recordar(p)

Atender(p) == Pedir(p) \/ Avanzar(p) \/ Abortar(p) \/ Caer(p)
-----------------------------------------------------------------------------
(* The rest of the system *)

Tic ==
  /\ reloj < MaxReloj
  /\ reloj' = reloj + 1
  /\ UNCHANGED <<proceso, derechos, catalogo, votos, propias>>

\* VotosService.emitir(): one vote per right, for a row that exists.  It looks at
\* no estado, so it can commit before, while and after cerrar() runs.
Votar ==
  /\ \E d \in derechos, o \in {Blanco} \cup {l \in Listas : catalogo[l] # "ausente"} :
       /\ \A v \in votos : v.derecho # d
       /\ votos' = votos \cup {[derecho |-> d, eleccion |-> o]}
  /\ UNCHANGED <<reloj, proceso, derechos, catalogo, propias>>

\* cambiarEstado() and eliminar() of the catalogue.
Depurar ==
  /\ \E l \in Listas, e \in {"activo", "baja", "ausente"} :
       /\ catalogo[l] # "ausente"
       /\ e = "ausente" => \A v \in votos : v.eleccion # l
       /\ catalogo' = [catalogo EXCEPT ![l] = e]
  /\ UNCHANGED <<reloj, proceso, derechos, votos, propias>>

\* The worker has rendered the four actas.
EmitirActas ==
  /\ actas # Nulo
  /\ proceso.estado = "cerrado"
  /\ candado = Nulo
  /\ proceso' = [proceso EXCEPT !.estado = "acta_emitida"]
  /\ version' = version + 1
  /\ UNCHANGED <<reloj, derechos, catalogo, votos, actas, bitacora, avisos, candado,
                 paso, pedido, foto, contestado>>

Entorno == Tic \/ Votar \/ Depurar \/ EmitirActas
-----------------------------------------------------------------------------
\* crear(): the row in borrador with its ProcesoAula rows, in one transaction.
Init ==
  /\ reloj = 0
  /\ proceso \in [estado: {"borrador"}, apertura_real: {Nulo}, cierre_real: {Nulo},
                  cierre_previsto: Instantes \ {0}, aulas: (SUBSET Aulas) \ {{}}]
  /\ version = 0
  /\ derechos = {} /\ votos = {}
  /\ catalogo \in [Listas -> {"activo", "baja"}]
  /\ actas = Nulo /\ bitacora = <<>> /\ avisos = {}
  /\ candado = Nulo
  /\ paso = [p \in Comite |-> "nuevo"]
  /\ pedido = [p \in Comite |-> Nulo]
  /\ foto = [p \in Comite |-> Nulo]
  /\ contestado = [p \in Comite |-> Nulo]

Next == (\E p \in Comite : Atender(p)) \/ Entorno

Spec == Init /\ [][Next]_vars
-----------------------------------------------------------------------------
(* Properties *)

\* An editar() that had read borrador committed after abrir().
EdicionTardia ==
  \E i, j \in 1 .. Len(bitacora) :
    /\ i < j
    /\ bitacora[i].tipo = "PROCESO_ABIERTO"
    /\ bitacora[j].tipo = "PROCESO_EDITADO"

\* A proceso is opened once and closed once: estado only moves forward, and once
\* sealed neither apertura_real, cierre_real, the electoral roll nor the actas are
\* written again, whatever requests cross.
UnaSolaVida ==
  [][/\ <<proceso.estado, proceso'.estado>> \in
          {<<e, e>> : e \in Estados} \cup
          {<<"borrador", "abierto">>, <<"borrador", "eliminado">>,
           <<"abierto", "cerrado">>, <<"cerrado", "acta_emitida">>}
     /\ proceso.apertura_real # Nulo =>
          proceso'.apertura_real = proceso.apertura_real /\ derechos' = derechos
     /\ proceso.cierre_real # Nulo =>
          proceso'.cierre_real = proceso.cierre_real /\ actas' = actas]_vars

Veces(t) == Cardinality({i \in 1 .. Len(bitacora) : bitacora[i].tipo = t})

\* The audit log tells the life of the row: one PROCESO_ABIERTO if and only if it
\* was opened, one PROCESO_CERRADO if and only if it has its actas.  The roll always
\* belongs to a proceso that was opened: an eliminar() that had read borrador cannot
\* take it away.  The state is well typed.
RastroCompleto ==
  /\ TypeOK
  /\ Veces("PROCESO_ABIERTO") = IF proceso.apertura_real = Nulo THEN 0 ELSE 1
  /\ Veces("PROCESO_CERRADO") = IF proceso.cierre_real = Nulo THEN 0 ELSE 1
  /\ Veces("PROCESO_ELIMINADO") = IF proceso.estado = "eliminado" THEN 1 ELSE 0
  /\ actas # Nulo <=> proceso.estado \in {"cerrado", "acta_emitida"}
  /\ derechos # {} <=> proceso.estado \in {"abierto", "cerrado", "acta_emitida"}

\* The sum of the breakdown.
Total == Cardinality(UNION {{l} \X (1 .. actas.desglose[l]) : l \in Contables})

\* The acta balances although votes keep committing while cerrar() counts: blanks and
\* breakdown add up to the votes counted, except for ballots that name a row outside
\* the dimension of the proceso, and nobody counts more votes than rights.
EscrutinioCuadra ==
  actas # Nulo =>
    /\ actas.blancos + Total <= actas.emitidos
    /\ (\A v \in votos : v.eleccion \in Contables \cup {Blanco}) =>
         actas.blancos + Total = actas.emitidos
    /\ actas.emitidos <= actas.padron
    /\ actas.padron = Cardinality(derechos)

Duenos(ds)  == {DuenoDe[d] : d \in ds}
Avisados(e) == {a.usuario : a \in {x \in avisos : x.evento = e}}

\* The owners of the frozen roll, and nobody else, are told once that voting started
\* and once that the results are ready.  The shortcut of the sweep is sound however
\* sweeps and votes cross: one reminder means that everybody who still has to vote has
\* had it, so the sweeps that skip the proceso forget nobody.
AvisosDelPadron ==
  /\ Avisados("inicio_votacion") = Duenos(derechos)
  /\ Avisados("resultados") = IF actas = Nulo THEN {} ELSE Duenos(derechos)
  /\ \A e \in EventosSweep :
       Avisados(e) # {} => Duenos(SinVoto) \subseteq Avisados(e) /\ Avisados(e) \subseteq Duenos(derechos)

\* A cerrar() that loses its race with 40001 answers like one that came second, unless
\* what overtook it was a late editar().
ConflictoSinPerdida ==
  [][\A p \in Comite :
       (paso[p] = "conflicto" /\ contestado'[p] = "no_cerrable") => EdicionTardia]_vars

\* electoral-process-management: once open, "el proceso permanece con los valores
\* congelados al abrir".
DatosCongelados ==
  [][proceso.estado \in {"abierto", "cerrado", "acta_emitida"} =>
       /\ proceso'.aulas = proceso.aulas
       /\ proceso'.cierre_previsto = proceso.cierre_previsto]_vars
=============================================================================
