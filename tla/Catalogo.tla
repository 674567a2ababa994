------------------------------ MODULE Catalogo ------------------------------
(***************************************************************************)
(* The ballot: ListasService, CandidatosService and OpcionesService, whose *)
(* rows belong to a proceso, with what reaches them from outside: the      *)
(* votes that name them and ProcesosService.abrir() and eliminar().        *)
(***************************************************************************)
EXTENDS Registro

CrearLista(b)      == Pide(b, "crear", "lista") /\ Existe(b.fila.proceso) /\ ~Choca(base, b.fila, Nulo)
ActualizarLista(b) == Pide(b, "actualizar", "lista") /\ SinChoque(b)
EliminarLista(b)   == Pide(b, "eliminar", "lista") /\ ~Referida(b.id)

\* subirPlanTrabajo() and eliminarPlanTrabajo(): the file is the column "plan".
CambiarPlan(b) == Pide(b, "actualizar", "lista") /\ DOMAIN b.fila = {"plan"}

\* A lista named by a candidato exists and is of his proceso.
ListaDe(p, f) ==
  "lista" \in DOMAIN f /\ f.lista # Nulo => f.lista \in Filas("lista") /\ base[f.lista].proceso = p

\* Mutant: the lista of a candidato may be of any proceso.
ActualizarCandidatoSinLista(b) == Pide(b, "actualizar", "candidato")

CrearCandidato(b) ==
  Pide(b, "crear", "candidato") /\ Existe(b.fila.proceso) /\ ListaDe(b.fila.proceso, b.fila)
ActualizarCandidato(b) ==
  Pide(b, "actualizar", "candidato") /\ ListaDe(base[b.id].proceso, b.fila)
EliminarCandidato(b) == Pide(b, "eliminar", "candidato") /\ ~Referida(b.id)

CrearOpcion(b)      == Pide(b, "crear", "opcion") /\ Existe(b.fila.proceso) /\ ~Choca(base, b.fila, Nulo)
ActualizarOpcion(b) == Pide(b, "actualizar", "opcion") /\ SinChoque(b)
EliminarOpcion(b)   == Pide(b, "eliminar", "opcion") /\ ~Referida(b.id)

\* cambiarEstado() asks for the destination; eliminar() of a proceso tests borrador.
PedirEstado(b) == Pide(b, "estado", "lista") \/ Pide(b, "estado", "candidato")
PedirProceso(b) ==
  /\ Pide(b, "abrir", "proceso") \/ Pide(b, "eliminar_proceso", "proceso")
  /\ base[b.id].estado = "borrador"

\* A vote names an active row of its proceso, which is open.
Votar(b) ==
  /\ Pide(b, "crear", "voto")
  /\ Existe(b.fila.proceso) /\ base[b.fila.proceso].estado = "abierto"
  /\ Existe(b.fila.elegida) /\ base[b.fila.elegida].tabla \in {"lista", "candidato", "opcion"}
  /\ base[b.fila.elegida].proceso = b.fila.proceso
  /\ base[b.fila.elegida].tabla # "opcion" => base[b.fila.elegida].estado = "activo"

PermiteCatalogo(b) ==
  \/ CrearLista(b) \/ ActualizarLista(b) \/ EliminarLista(b) \/ CambiarPlan(b)
  \/ CrearCandidato(b) \/ ActualizarCandidato(b) \/ EliminarCandidato(b)
  \/ CrearOpcion(b) \/ ActualizarOpcion(b) \/ EliminarOpcion(b)
  \/ PedirEstado(b) \/ PedirProceso(b) \/ Votar(b)

\* Mutant: cambiarEstado() does not look at the estado it has read.
SiempreCambia(b) == FALSE

\* cambiarEstado() to the estado the row has.
SinCambioCatalogo(b) == PedirEstado(b) /\ base[b.id].estado = b.fila.estado
-----------------------------------------------------------------------------
\* The UPDATE of cambiarEstado() is by id: it does not test the estado that was read.
CambiarEstado(h) ==
  LET i == op[h].id  e == op[h].fila.estado
  IN /\ pc[h] = "escribir" /\ op[h].accion = "estado"
     /\ IF Existe(i)
          THEN base' = [base EXCEPT ![i].estado = e] /\ Auditar(e, i, h) /\ Responder(h, "hecha")
          ELSE UNCHANGED <<base, auditoria>> /\ Responder(h, "error")
     /\ UNCHANGED <<op, leyo, agenda>>

\* abrir(): its guarded UPDATE; the rights keep the proceso from being deleted.
Abrir(h) ==
  LET i == op[h].id
  IN /\ pc[h] = "escribir" /\ op[h].accion = "abrir"
     /\ IF Existe(i) /\ base[i].estado = "borrador"
          THEN /\ base' = [ConFila(base, <<h, "derecho">>, [tabla |-> "derecho", proceso |-> i]) EXCEPT ![i].estado = "abierto"]
               /\ Auditar("CREADA", <<h, "derecho">>, h) /\ Responder(h, "hecha")
          ELSE UNCHANGED <<base, auditoria>> /\ Responder(h, "rechazada")
     /\ UNCHANGED <<op, leyo, agenda>>

\* eliminar() of a proceso: a DELETE by id that cascades to the ballot and that the rights and the
\* votes restrict; borrador was tested before the transaction.
EliminarProceso(h) ==
  LET i == op[h].id
      suyas == {j \in DOMAIN base : "proceso" \in DOMAIN base[j] /\ base[j].proceso = i}
  IN /\ pc[h] = "escribir" /\ op[h].accion = "eliminar_proceso"
     /\ IF Existe(i) /\ \A j \in suyas : base[j].tabla \notin {"voto", "derecho"}
          THEN /\ base' = [j \in DOMAIN base \ (suyas \cup {i}) |-> base[j]]
               /\ Auditar("PROCESO_ELIMINADO", i, h) /\ Responder(h, "hecha")
          ELSE UNCHANGED <<base, auditoria>> /\ Responder(h, "error")
     /\ UNCHANGED <<op, leyo, agenda>>

EscribirCatalogo(h) == CambiarEstado(h) \/ Abrir(h) \/ EliminarProceso(h)
-----------------------------------------------------------------------------
(* Properties *)

\* A candidato is of the proceso of his lista and a vote of the proceso of what it names.
EnLaBoleta(db, f) ==
  /\ f.tabla = "candidato" /\ f.lista # Nulo => f.lista \in DOMAIN db /\ db[f.lista].proceso = f.proceso
  /\ f.tabla = "voto" => f.elegida \in DOMAIN db /\ db[f.elegida].proceso = f.proceso

\* The ballot stays coherent although its foreign keys are independent of each other: a candidato
\* is of the proceso of his lista and a vote of the proceso of what it names, whatever is edited,
\* withdrawn or deleted between the reads of a handler and its write.
CatalogoCoherente ==
  \A i \in DOMAIN base : EnLaBoleta(base, base[i])

\* The events of the estado of a row, by position in the audit.
Bajas(i) == {k \in DOMAIN auditoria : auditoria[k].id = i /\ auditoria[k].tipo \in {"activo", "baja"}}

\* The audit tells the estado of every row, in the order of the commits: the last change audited
\* is the estado the row has, and a change is audited twice in a row only by two handlers that
\* overlapped (each read the row before the other committed), never by a repeated request.
RastroDeEstado ==
  \A i \in Filas("lista") \cup Filas("candidato") :
    \A k \in Bajas(i) :
      /\ (\A j \in Bajas(i) : j <= k) => base[i].estado = auditoria[k].tipo
      /\ \A j \in Bajas(i) :
           /\ j < k /\ auditoria[j].tipo = auditoria[k].tipo
           /\ \A m \in Bajas(i) : ~ (j < m /\ m < k)
           => leyo[auditoria[k].por] < j
=============================================================================
