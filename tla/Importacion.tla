----------------------------- MODULE Importacion ----------------------------
(***************************************************************************)
(* ImportacionService.importar(): the rows of a padron file, one at a      *)
(* time, each through UsersService.crearIdempotente() and                  *)
(* MatriculasService.crearIdempotente() in one transaction, while other    *)
(* requests (another import of the same file, an edition of the school)    *)
(* run between the reads and the writes.  A row is a record [dni, codigo,  *)
(* correo, grado, seccion, turno, anio]: names, not ids.                   *)
(***************************************************************************)
EXTENDS Escuela

VARIABLES
  fila,      \* the row each import is at, and what it read for it
  errores,   \* the rows each import reports as invalid: [n, motivo], the code of the exception
             \* (motivoDesdeCodigo() answers a "coherencia" as a "referencia" too)
  resumen    \* filas_creadas and filas_existentes of each import

varsImportacion == <<fila, errores, resumen>>
TipoImportacion ==
  \A h \in Peticiones :
    /\ pc[h] \in {"fila", "suelta", "juntas"} => fila[h].n \in DOMAIN op[h].fila
    /\ fila[h].usuario \in {Nulo} \cup DOMAIN base /\ fila[h].aula \in {Nulo} \cup Conocidas
    /\ \A e \in errores[h] : e.motivo \in {"duplicado", "referencia", "coherencia", "formato"}
    /\ resumen[h] \in [creadas: Nat, existentes: Nat]

InitImportacion ==
  /\ fila = [h \in Peticiones |-> [n |-> 0, usuario |-> Nulo, aula |-> Nulo]]
  /\ errores = [h \in Peticiones |-> {}]
  /\ resumen = [h \in Peticiones |-> [creadas |-> 0, existentes |-> 0]]

Actual(h) == op[h].fila[fila[h].n]
-----------------------------------------------------------------------------
(* What a row refers to *)

AniosDe(r) == {a \in Filas("anio") : base[a].nombre = r.anio}

\* findFirst by the names of the grado and of the seccion and the turno, of any year.
AulasDe(r) ==
  {a \in Filas("aula") : /\ base[a].turno = r.turno
                         /\ base[base[a].grado].nombre = r.grado
                         /\ base[base[a].seccion].nombre = r.seccion}

\* resolverReferenciasAula()
Resuelve(r) == AniosDe(r) # {} /\ AulasDe(r) # {}

\* clasificarColision(): the rows with the dni, the codigo or the correo of the body.
Por(c, r) == {u \in Filas("usuario") : base[u][c] = r[c]}
Colision(r) == Por("dni", r) \cup Por("codigo", r) \cup Por("correo", r)
Exacta(r) == /\ Por("dni", r) # {} /\ Por("dni", r) = Por("codigo", r)
             /\ Por("correo", r) \subseteq Por("dni", r)

\* The user with the dni of the row is not a student: 409 of matriculas.crearIdempotente().
NoAlumno(r) == Exacta(r) /\ \A u \in Por("dni", r) : base[u].rol # "estudiante"

Alumno(r) == [tabla |-> "usuario", dni |-> r.dni, codigo |-> r.codigo, correo |-> r.correo, rol |-> "estudiante"]
IdUsuario(h)   == <<h, "usuario", fila[h].n>>
IdMatricula(h) == <<h, "matricula", fila[h].n>>
-----------------------------------------------------------------------------
(* The loop over the rows *)

\* To the next row, or to the summary.
Pasar(h) ==
  /\ fila' = [fila EXCEPT ![h] = [n |-> @.n + 1, usuario |-> Nulo, aula |-> Nulo]]
  /\ Ir(h, IF fila[h].n = Len(op[h].fila) THEN "resumen" ELSE "fila")

Invalida(h, motivo) ==
  /\ errores' = [errores EXCEPT ![h] = @ \cup {[n |-> fila[h].n, motivo |-> motivo]}]
  /\ Pasar(h)
  /\ UNCHANGED <<base, auditoria, resumen>>

Empezar(h) ==
  /\ pc[h] = "libre"
  /\ \E b \in {c \in agenda : c.accion = "importar"} :
       op' = [op EXCEPT ![h] = b] /\ Ir(h, IF Len(b.fila) = 0 THEN "resumen" ELSE "fila")
  /\ fila' = [fila EXCEPT ![h].n = 1]
  /\ UNCHANGED <<base, auditoria, respuesta, errores, resumen>>

\* The references are resolved before the transaction; without them only the Usuario is created.
Resolver(h) ==
  /\ pc[h] = "fila"
  /\ Ir(h, IF Resuelve(Actual(h)) THEN "juntas" ELSE "suelta")
  /\ UNCHANGED <<base, auditoria, op, respuesta, varsImportacion>>

\* The exception to the atomicity of a row: the Usuario in a transaction of its own.
CrearSuelto(h) ==
  LET r == Actual(h)
  IN /\ pc[h] = "suelta"
     /\ IF Colision(r) = {}
          THEN base' = ConFila(base, IdUsuario(h), Alumno(r)) /\ Auditar("CREADA", IdUsuario(h), h)
          ELSE UNCHANGED <<base, auditoria>>
     /\ errores' = [errores EXCEPT ![h] = @ \cup
          {[n |-> fila[h].n, motivo |-> IF Colision(r) = {} \/ Exacta(r) THEN "referencia" ELSE "duplicado"]}]
     /\ Pasar(h)
     /\ UNCHANGED <<op, respuesta, resumen>>

\* The reads of the shared transaction: the user (or none), any aula with those names.
LeerFila(h) ==
  LET r == Actual(h)
  IN /\ pc[h] = "juntas" /\ fila[h].aula = Nulo
     /\ \/ /\ Colision(r) # {} /\ ~Exacta(r)
           /\ Invalida(h, "duplicado")
        \/ /\ (Colision(r) = {} \/ Exacta(r))
           /\ (~Resuelve(r) \/ NoAlumno(r))
           /\ Invalida(h, "referencia")
        \/ /\ (Colision(r) = {} \/ Exacta(r))
           /\ ~NoAlumno(r) /\ AniosDe(r) # {}
           /\ \E a \in AulasDe(r) :
                IF base[a].anio \in AniosDe(r)
                  THEN /\ fila' = [fila EXCEPT ![h].aula = a,
                                               ![h].usuario = IF Exacta(r) THEN CHOOSE u \in Por("dni", r) : TRUE ELSE Nulo]
                       /\ UNCHANGED <<base, auditoria, pc, errores, resumen>>
                  ELSE Invalida(h, "coherencia")
     /\ UNCHANGED <<op, respuesta>>

\* Mutant: the Usuario is committed before the Matricula is tried.
EscribirSinTransaccion(h) ==
  LET r == Actual(h)
  IN /\ pc[h] = "juntas" /\ fila[h].aula # Nulo /\ fila[h].usuario = Nulo /\ ~Choca(base, Alumno(r), Nulo)
     /\ base' = ConFila(base, IdUsuario(h), Alumno(r)) /\ Auditar("CREADA", IdUsuario(h), h)
     /\ fila' = [fila EXCEPT ![h].usuario = IdUsuario(h)]
     /\ UNCHANGED <<pc, op, respuesta, errores, resumen>>

\* The writes of the shared transaction.  A unique violation aborts it in PostgreSQL, and with it
\* the findFirst that matriculas.crearIdempotente() tries next: the row is invalid, 'formato'.
EscribirFila(h) ==
  LET r == Actual(h)
      nuevo == fila[h].usuario = Nulo
      u == IF nuevo THEN IdUsuario(h) ELSE fila[h].usuario
      conU == IF nuevo THEN ConFila(base, u, Alumno(r)) ELSE base
      m == [tabla |-> "matricula", usuario |-> u, aula |-> fila[h].aula,
            anio |-> IF Existe(fila[h].aula) THEN base[fila[h].aula].anio ELSE Nulo]
      evento(i) == [tipo |-> "CREADA", id |-> i, por |-> h]
      conEvento == IF nuevo THEN Append(auditoria, evento(u)) ELSE auditoria
  IN /\ pc[h] = "juntas" /\ fila[h].aula # Nulo
     /\ IF nuevo /\ Choca(base, Alumno(r), Nulo) THEN Invalida(h, "duplicado")
        ELSE IF ~Existe(fila[h].aula) THEN Invalida(h, "formato")
        ELSE IF Choca(base, m, Nulo)
          THEN \* read by findFirst before the INSERT, or P2002 of the INSERT
               \/ /\ resumen' = [resumen EXCEPT ![h].existentes = @ + 1]
                  /\ Pasar(h) /\ UNCHANGED <<base, auditoria, errores>>
               \/ Invalida(h, "formato")
          ELSE /\ base' = ConFila(conU, IdMatricula(h), m)
               /\ auditoria' = Append(conEvento, evento(IdMatricula(h)))
               /\ resumen' = [resumen EXCEPT ![h].creadas = @ + 1]
               /\ Pasar(h) /\ UNCHANGED errores
     /\ UNCHANGED <<op, respuesta>>

\* A transaction of a row fails and is rolled back: the catch counts the row as invalid.
FallarFila(h) ==
  /\ pc[h] \in {"suelta", "juntas"}
  /\ Invalida(h, "formato")
  /\ UNCHANGED <<op, respuesta>>

\* The report of errors in Redis, PADRON_IMPORTADO and the answer.
Resumir(h) ==
  /\ pc[h] = "resumen"
  /\ Auditar("PADRON_IMPORTADO", <<resumen[h].creadas, resumen[h].existentes, Cardinality(errores[h])>>, h)
  /\ Responder(h, "hecha")
  /\ UNCHANGED <<base, op, varsImportacion>>

\* The process stops in the middle of the file.
Caer(h) ==
  /\ pc[h] \in {"fila", "suelta", "juntas", "resumen"}
  /\ Responder(h, "error")
  /\ UNCHANGED <<base, auditoria, op, varsImportacion>>
-----------------------------------------------------------------------------
Importar(h) ==
  /\ \/ Empezar(h) \/ Resolver(h) \/ CrearSuelto(h) \/ LeerFila(h) \/ EscribirFila(h) \/ FallarFila(h)
     \/ Resumir(h) \/ Caer(h)
  /\ UNCHANGED <<vistos, leyo, agenda>>
-----------------------------------------------------------------------------
(* Properties *)

Importaciones == {h \in Peticiones : op[h] # Nulo /\ op[h].accion = "importar"}
Creo(h, tabla) == {auditoria[k].id[3] : k \in {j \in DOMAIN auditoria :
                     auditoria[j].tipo = "CREADA" /\ auditoria[j].por = h /\ auditoria[j].id[2] = tabla}}

\* A row is imported whole: it left a Usuario without a Matricula only if it is reported for a
\* reference that did not exist, whatever is deleted or imported meanwhile; and the summary of
\* the file (PADRON_IMPORTADO) adds up to its rows and counts as created the rows that were.
\* The state of an import is well typed.
FilaAtomica ==
  /\ TipoImportacion
  /\ \A h \in Importaciones :
       /\ \A n \in Creo(h, "usuario") \ Creo(h, "matricula") :
            [n |-> n, motivo |-> "referencia"] \in errores[h]
       /\ resumen[h].creadas = Cardinality(Creo(h, "matricula"))
       /\ \A k \in DOMAIN auditoria :
            auditoria[k].tipo = "PADRON_IMPORTADO" /\ auditoria[k].por = h =>
              auditoria[k].id[1] + auditoria[k].id[2] + auditoria[k].id[3] = Len(op[h].fila)
=============================================================================
