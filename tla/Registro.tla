------------------------------ MODULE Registro ------------------------------
(***************************************************************************)
(* What the CRUD services of the backend share.  A handler reads inside    *)
(* prisma.$transaction() and decides; then it writes and audits, and       *)
(* PostgreSQL enforces the unique indexes and the foreign keys on what is  *)
(* committed by then (READ COMMITTED: other handlers run between the       *)
(* reads and the write).  A violation is P2002 or P2003, an UPDATE or      *)
(* DELETE by id of a row that is gone is P2025; either rolls back.         *)
(*                                                                         *)
(* The tables are one function from ids to rows; a row is a record whose   *)
(* field "tabla" names its table.                                          *)
(***************************************************************************)
EXTENDS Integers, Sequences, FiniteSets, TLC

CONSTANTS
  Peticiones,   \* requests
  Agendas,      \* sets of requests that may run together: [accion, id, fila]
  Inicial,      \* the rows the system starts with
  Nulo

VARIABLES
  base,         \* the rows, by id
  auditoria,    \* EventoAuditoria, in the order of the commits
  pc,           \* where each handler is
  op,           \* what each handler serves
  respuesta,    \* what each handler answered
  leyo,         \* the length of auditoria when a change of estado read its row
  agenda        \* which of Agendas this behaviour is about

registro == <<base, auditoria, pc, op, respuesta, leyo, agenda>>

\* The columns of each unique index.
Indices ==
  [anio |-> {{"nombre"}}, nivel |-> {{"nombre"}}, grado |-> {{"nivel", "nombre"}},
   seccion |-> {{"grado", "anio", "nombre"}}, aula |-> {{"grado", "seccion", "anio"}},
   matricula |-> {{"usuario", "aula", "anio"}}, usuario |-> {{"dni"}, {"codigo"}, {"correo"}},
   apoderado |-> {}, configuracion |-> {{"clave"}}, procesoaula |-> {{"proceso", "aula"}},
   derecho |-> {}, proceso |-> {}, lista |-> {{"proceso", "numero"}}, candidato |-> {}, opcion |-> {{"proceso", "etiqueta"}},
   voto |-> {}]

\* The columns of each table, as far as they are told apart.
Columnas ==
  [anio |-> {"nombre", "activo"}, nivel |-> {"nombre"}, grado |-> {"nombre", "nivel"},
   seccion |-> {"nombre", "grado", "anio"}, aula |-> {"grado", "seccion", "anio", "turno"},
   matricula |-> {"usuario", "aula", "anio"}, usuario |-> {"dni", "codigo", "correo", "rol"},
   apoderado |-> {"usuario", "nombre"}, configuracion |-> {"clave", "anio", "logo", "zona_horaria"},
   procesoaula |-> {"proceso", "aula"}, derecho |-> {"proceso"}, proceso |-> {"estado"},
   lista |-> {"proceso", "numero", "plan", "estado"}, candidato |-> {"proceso", "lista", "estado"},
   opcion |-> {"proceso", "etiqueta"}, voto |-> {"proceso", "elegida"}]

\* The columns that are foreign keys, and the tables they refer to.
Foraneas ==
  [nivel |-> {"nivel"}, grado |-> {"grado"}, seccion |-> {"seccion"}, anio |-> {"anio"},
   usuario |-> {"usuario"}, aula |-> {"aula"}, proceso |-> {"proceso"}, lista |-> {"lista"},
   elegida |-> {"lista", "candidato", "opcion"}]

\* A row of its table; the lista of a candidato is the only foreign key that may be NULL.
BienFormada(f) ==
  /\ f.tabla \in DOMAIN Columnas /\ DOMAIN f = Columnas[f.tabla] \cup {"tabla"}
  /\ \A c \in DOMAIN f \cap DOMAIN Foraneas : f[c] = Nulo => c = "lista"

\* The columns a PATCH may name: no table and, but for the lista of a candidato, no foreign key.
Editables ==
  {"nombre", "turno", "dni", "codigo", "correo", "rol", "zona_horaria", "logo", "numero", "plan", "etiqueta", "lista"}

\* What the services take from a body; a year is born inactive.
PeticionValida(b) ==
  /\ b.accion \in {"crear", "actualizar", "eliminar", "activar", "estado", "abrir", "eliminar_proceso", "importar"}
  /\ b.accion = "crear" => BienFormada(b.fila) /\ (b.fila.tabla = "anio" => b.fila.activo = FALSE)
  /\ b.accion = "actualizar" => DOMAIN b.fila \subseteq Editables
  /\ b.accion = "estado" => b.fila.estado \in {"activo", "baja"}
  /\ b.accion = "importar" => Len(b.fila) \in Nat /\ DOMAIN b.fila = 1 .. Len(b.fila)

\* The bodies are valid, and the ids that PostgreSQL will give are not in use.
ASSUME ConstantesRegistro ==
  /\ \A a \in Agendas : Nulo \notin a /\ \A b \in a : PeticionValida(b)
  /\ Nulo \notin DOMAIN Inicial
  /\ \A h \in Peticiones :
       /\ \A t \in DOMAIN Columnas : <<h, t>> \notin DOMAIN Inicial \cup {Nulo}
       /\ \A a \in Agendas : \A b \in a : b.accion = "importar" =>
            \A n \in DOMAIN b.fila : {<<h, "usuario", n>>, <<h, "matricula", n>>} \cap (DOMAIN Inicial \cup {Nulo}) = {}

Existe(i)   == i \in DOMAIN base
Filas(t)    == {i \in DOMAIN base : base[i].tabla = t}
Llaves(f)   == {c \in DOMAIN f \cap DOMAIN Foraneas : f[c] # Nulo}
Refs(f)     == {f[c] : c \in Llaves(f)}
Hijas(t, c, i) == {j \in Filas(t) : base[j][c] = i}

\* Another row of db has the key of f in one of the unique indexes of its table.
Choca(db, f, i) ==
  \E j \in DOMAIN db \ {i} :
    db[j].tabla = f.tabla /\ \E k \in Indices[f.tabla] : \A c \in k : db[j][c] = f[c]

Colgante(db, f) == \E c \in Llaves(f) : f[c] \notin DOMAIN db \/ db[f[c]].tabla \notin Foraneas[c]
Referida(i) == \E j \in DOMAIN base : i \in Refs(base[j])

\* The row with the columns a request names replaced.
Con(f, cambio) == [c \in DOMAIN f |-> IF c \in DOMAIN cambio THEN cambio[c] ELSE f[c]]

Pide(b, accion, tabla) ==
  /\ b.accion = accion
  /\ IF accion = "crear" THEN b.fila.tabla = tabla ELSE Existe(b.id) /\ base[b.id].tabla = tabla

\* The request changes something.
Cambia(b) == Con(base[b.id], b.fila) # base[b.id]
SinChoque(b) == ~Choca(base, Con(base[b.id], b.fila), b.id)

IdNueva(h) == <<h, op[h].fila.tabla>>

\* The rows db and one more.
ConFila(db, i, f) == [j \in DOMAIN db \cup {i} |-> IF j = i THEN f ELSE db[j]]
-----------------------------------------------------------------------------
InitRegistro ==
  /\ base = Inicial
  /\ auditoria = <<>>
  /\ pc = [h \in Peticiones |-> "libre"]
  /\ op = [h \in Peticiones |-> Nulo]
  /\ respuesta = [h \in Peticiones |-> Nulo]
  /\ leyo = [h \in Peticiones |-> 0]
  /\ agenda \in Agendas

Ir(h, p) == pc' = [pc EXCEPT ![h] = p]
Responder(h, r) == Ir(h, "fin") /\ respuesta' = [respuesta EXCEPT ![h] = r]
Auditar(tipo, i, h) == auditoria' = Append(auditoria, [tipo |-> tipo, id |-> i, por |-> h])

\* The reads of a handler: the request b is served, or it has no effect (200, nothing is written),
\* or it is refused with a 4xx.
Leer(h, b, efecto, permitida) ==
  /\ pc[h] = "libre"
  /\ op' = [op EXCEPT ![h] = b]
  /\ leyo' = IF b.accion = "estado" THEN [leyo EXCEPT ![h] = Len(auditoria)] ELSE leyo
  /\ IF efecto /\ permitida
       THEN Ir(h, "escribir") /\ UNCHANGED respuesta
       ELSE Responder(h, IF efecto THEN "rechazada" ELSE "sin_cambio")
  /\ UNCHANGED <<base, auditoria, agenda>>

\* INSERT: the unique indexes (P2002) and the foreign keys (P2003).
Insertar(h) ==
  LET f == op[h].fila  i == IdNueva(h)
  IN /\ pc[h] = "escribir" /\ op[h].accion = "crear"
     /\ IF Choca(base, f, i) \/ Colgante(base, f)
          THEN Responder(h, "rechazada") /\ UNCHANGED <<base, auditoria>>
          ELSE base' = ConFila(base, i, f) /\ Auditar("CREADA", i, h) /\ Responder(h, "hecha")
     /\ UNCHANGED <<op, leyo, agenda>>

\* UPDATE by id; P2025 and, where there is no catch for it, P2003 leave as a 500.
Modificar(h) ==
  LET i == op[h].id  f == Con(base[i], op[h].fila)
  IN /\ pc[h] = "escribir" /\ op[h].accion = "actualizar"
     /\ IF ~Existe(i) \/ Colgante(base, f)
          THEN Responder(h, "error") /\ UNCHANGED <<base, auditoria>>
          ELSE IF Choca(base, f, i)
            THEN Responder(h, "rechazada") /\ UNCHANGED <<base, auditoria>>
            ELSE base' = [base EXCEPT ![i] = f] /\ Auditar("ACTUALIZADA", i, h) /\ Responder(h, "hecha")
     /\ UNCHANGED <<op, leyo, agenda>>

\* Mutant: deleteMany, which does not say that there was nothing to delete.
BorrarSinFallar(h) ==
  LET i == op[h].id
  IN /\ pc[h] = "escribir" /\ op[h].accion = "eliminar"
     /\ base' = [j \in DOMAIN base \ {i} |-> base[j]]
     /\ Auditar("ELIMINADA", i, h) /\ Responder(h, "hecha")
     /\ UNCHANGED <<op, leyo, agenda>>

\* DELETE by id: P2025 is a 500, P2003 (every foreign key concerned is ON DELETE RESTRICT) a 409.
Borrar(h) ==
  LET i == op[h].id
  IN /\ pc[h] = "escribir" /\ op[h].accion = "eliminar"
     /\ IF ~Existe(i) \/ Referida(i)
          THEN /\ Responder(h, IF Existe(i) THEN "rechazada" ELSE "error")
               /\ UNCHANGED <<base, auditoria>>
          ELSE /\ base' = [j \in DOMAIN base \ {i} |-> base[j]]
               /\ Auditar("ELIMINADA", i, h) /\ Responder(h, "hecha")
     /\ UNCHANGED <<op, leyo, agenda>>

\* An exception or a crash before the commit.
Fallar(h) ==
  /\ pc[h] = "escribir"
  /\ Responder(h, "error")
  /\ UNCHANGED <<base, auditoria, op, leyo, agenda>>
Escribir(h) == Insertar(h) \/ Modificar(h) \/ Borrar(h) \/ Fallar(h)
-----------------------------------------------------------------------------
(* Properties of every table *)

TipoRegistro ==
  /\ \A i \in DOMAIN base : base[i].tabla \in DOMAIN Indices
  /\ \A k \in DOMAIN auditoria : auditoria[k].por \in Peticiones
  /\ pc \in [Peticiones -> {"libre", "escribir", "fila", "suelta", "juntas", "resumen", "fin"}]
  /\ op \in [Peticiones -> agenda \cup {Nulo}]
  /\ leyo \in [Peticiones -> 0..Len(auditoria)]
  /\ respuesta \in [Peticiones -> {"hecha", "sin_cambio", "rechazada", "error", Nulo}]

\* The ids that were ever in use.
Conocidas == DOMAIN Inicial \cup {auditoria[k].id : k \in {j \in DOMAIN auditoria : auditoria[j].tipo = "CREADA"}}

Cuantos(tipo, i) == Cardinality({k \in DOMAIN auditoria : auditoria[k].tipo = tipo /\ auditoria[k].id = i})

\* The audit accounts for every row: a row is there as many times (once or none) as it was there
\* at the start, plus its CREADA events, less its ELIMINADA events; so of two handlers that read
\* the same row and delete it one says so, and no failed handler left an event without its row.
\* Only the rows of a proceso leave with it, under the event of the proceso.  The state is well typed.
RastroDelRegistro ==
  /\ TipoRegistro
  /\ \A i \in DOMAIN base \cup DOMAIN Inicial \cup {auditoria[k].id : k \in DOMAIN auditoria} :
       LET debe == Cardinality({i} \cap DOMAIN Inicial) + Cuantos("CREADA", i) - Cuantos("ELIMINADA", i)
           hay == Cardinality({i} \cap DOMAIN base)
       IN \/ debe = hay
          \/ debe = 1 /\ hay = 0 /\ \E k \in DOMAIN auditoria : auditoria[k].tipo = "PROCESO_ELIMINADO"

\* No foreign key dangles, and no unique index has a key twice.
Integra(db) ==
  \A i \in DOMAIN db : BienFormada(db[i]) /\ ~Colgante(db, db[i]) /\ ~Choca(db, db[i], i)
=============================================================================
