------------------------------- MODULE Escuela ------------------------------
(***************************************************************************)
(* The school: AniosEscolaresService, NivelesService, GradosService,       *)
(* SeccionesService, AulasService, MatriculasService, UsersService (its    *)
(* rows), ApoderadosService and ConfiguracionService.  The checks each     *)
(* service makes before it writes are a predicate of the request body;     *)
(* module Registro has the write.  ImportacionService is in Importacion.   *)
(***************************************************************************)
EXTENDS Registro

\* actualizarLogo() writes whatever the row has.
SubirLogo(b) == Pide(b, "actualizar", "configuracion") /\ DOMAIN b.fila = {"logo"}

\* A request without effect: 200, nothing written, nothing audited.
SinCambioEscuela(b) ==
  \/ Existe(b.id) /\ b.accion = "actualizar" /\ base[b.id].tabla # "apoderado" /\ ~SubirLogo(b) /\ ~Cambia(b)
  \/ Existe(b.id) /\ b.accion = "activar" /\ base[b.id].activo
-----------------------------------------------------------------------------
CrearAnio(b)      == Pide(b, "crear", "anio") /\ ~Choca(base, b.fila, Nulo)
ActualizarAnio(b) == Pide(b, "actualizar", "anio") /\ Cambia(b) /\ SinChoque(b)
EliminarAnio(b) ==
  /\ Pide(b, "eliminar", "anio")
  /\ \A t \in {"seccion", "aula", "matricula", "configuracion"} : Hijas(t, "anio", b.id) = {}

CrearNivel(b)      == Pide(b, "crear", "nivel") /\ ~Choca(base, b.fila, Nulo)
ActualizarNivel(b) == Pide(b, "actualizar", "nivel") /\ Cambia(b) /\ SinChoque(b)
EliminarNivel(b)   == Pide(b, "eliminar", "nivel") /\ Hijas("grado", "nivel", b.id) = {}

CrearGrado(b)      == Pide(b, "crear", "grado") /\ ~Colgante(base, b.fila) /\ ~Choca(base, b.fila, Nulo)
ActualizarGrado(b) == Pide(b, "actualizar", "grado") /\ Cambia(b) /\ SinChoque(b)
EliminarGrado(b) ==
  Pide(b, "eliminar", "grado") /\ Hijas("seccion", "grado", b.id) = {} /\ Hijas("aula", "grado", b.id) = {}

CrearSeccion(b)      == Pide(b, "crear", "seccion") /\ ~Colgante(base, b.fila) /\ ~Choca(base, b.fila, Nulo)
ActualizarSeccion(b) == Pide(b, "actualizar", "seccion") /\ Cambia(b) /\ SinChoque(b)
EliminarSeccion(b)   == Pide(b, "eliminar", "seccion") /\ Hijas("aula", "seccion", b.id) = {}

\* Mutant: the aula checked against the grado of its seccion, and not against its year.
CrearAulaDeOtroAnio(b) ==
  /\ Pide(b, "crear", "aula") /\ ~Colgante(base, b.fila) /\ ~Choca(base, b.fila, Nulo)
  /\ base[b.fila.seccion].grado = b.fila.grado

\* The three parents exist and the seccion is of that grado and of that year.
CrearAula(b) ==
  /\ Pide(b, "crear", "aula") /\ ~Colgante(base, b.fila) /\ ~Choca(base, b.fila, Nulo)
  /\ base[b.fila.seccion].grado = b.fila.grado
  /\ base[b.fila.seccion].anio = b.fila.anio
ActualizarAula(b) == Pide(b, "actualizar", "aula") /\ Cambia(b)
EliminarAula(b) ==
  Pide(b, "eliminar", "aula") /\ Hijas("matricula", "aula", b.id) = {} /\ Hijas("procesoaula", "aula", b.id) = {}

CrearMatricula(b) ==
  /\ Pide(b, "crear", "matricula") /\ ~Colgante(base, b.fila) /\ ~Choca(base, b.fila, Nulo)
  /\ base[b.fila.usuario].rol = "estudiante"
  /\ base[b.fila.aula].anio = b.fila.anio
EliminarMatricula(b) == Pide(b, "eliminar", "matricula")

\* clasificarColision() = 'sin_colision'.
CrearUsuario(b)      == Pide(b, "crear", "usuario") /\ ~Choca(base, b.fila, Nulo)
ActualizarUsuario(b) == Pide(b, "actualizar", "usuario") /\ Cambia(b) /\ SinChoque(b)

\* verificarEstudiante(), and the apoderado of the path.
DeEstudiante(u) == Existe(u) /\ base[u].rol = "estudiante"
CrearApoderado(b)      == Pide(b, "crear", "apoderado") /\ DeEstudiante(b.fila.usuario)
ActualizarApoderado(b) == Pide(b, "actualizar", "apoderado") /\ DeEstudiante(base[b.id].usuario)
EliminarApoderado(b)   == Pide(b, "eliminar", "apoderado") /\ DeEstudiante(base[b.id].usuario)

\* The one row of Configuracion, whose year is never changed.
ActualizarConfiguracion(b) == Pide(b, "actualizar", "configuracion") /\ Cambia(b)

ActivarAnio(b) == Pide(b, "activar", "anio")

PermiteEscuela(b) ==
  \/ CrearAnio(b) \/ ActualizarAnio(b) \/ EliminarAnio(b) \/ ActivarAnio(b)
  \/ CrearNivel(b) \/ ActualizarNivel(b) \/ EliminarNivel(b)
  \/ CrearGrado(b) \/ ActualizarGrado(b) \/ EliminarGrado(b)
  \/ CrearSeccion(b) \/ ActualizarSeccion(b) \/ EliminarSeccion(b)
  \/ CrearAula(b) \/ ActualizarAula(b) \/ EliminarAula(b)
  \/ CrearMatricula(b) \/ EliminarMatricula(b)
  \/ CrearUsuario(b) \/ ActualizarUsuario(b)
  \/ CrearApoderado(b) \/ ActualizarApoderado(b) \/ EliminarApoderado(b)
  \/ ActualizarConfiguracion(b) \/ SubirLogo(b)
-----------------------------------------------------------------------------
VARIABLE vistos   \* the active years each activar() found

AniosActivos == {a \in Filas("anio") : base[a].activo}

\* Mutant: there is no partial unique index, as the comment of construirComprobante() has it, and a
\* year activated since the reads stays active.
ActivarSinIndice(h) ==
  LET i == op[h].id
  IN /\ pc[h] = "escribir" /\ op[h].accion = "activar" /\ Existe(i)
     /\ base' = [a \in DOMAIN base |->
                   IF base[a].tabla = "anio" /\ a \in vistos[h] \cup {i} THEN [base[a] EXCEPT !.activo = (a = i)] ELSE base[a]]
     /\ Auditar("ACTIVADO", i, h) /\ Responder(h, "hecha")
     /\ UNCHANGED <<op, leyo, agenda, vistos>>

\* activar(): one UPDATE deactivates the years its snapshot finds active, the next activates this
\* one under the partial unique index.  A year activated since the reads of the handler is in that
\* snapshot, or it is P2002 (409 ACTIVACION_CONCURRENTE) and everything is rolled back.
Activar(h) ==
  LET i == op[h].id
      otros == AniosActivos \ {i}
      noActivo(a) == [base[a] EXCEPT !.activo = FALSE]
  IN /\ pc[h] = "escribir" /\ op[h].accion = "activar"
     /\ \/ /\ Existe(i)
           /\ base' = [a \in DOMAIN base |->
                         IF a \in otros THEN noActivo(a) ELSE IF a = i THEN [base[i] EXCEPT !.activo = TRUE] ELSE base[a]]
           /\ Auditar("ACTIVADO", i, h) /\ Responder(h, "hecha")
        \/ /\ Existe(i) /\ ~ (otros \subseteq vistos[h])
           /\ Responder(h, "rechazada") /\ UNCHANGED <<base, auditoria>>
        \/ /\ ~Existe(i)
           /\ Responder(h, "error") /\ UNCHANGED <<base, auditoria>>
     /\ UNCHANGED <<op, leyo, agenda, vistos>>

-----------------------------------------------------------------------------
(* Properties *)

\* An aula is of the grado and of the year of its seccion, a matricula of the year of its aula.
EnElArbol(db, f) ==
  /\ f.tabla = "aula" => db[f.seccion].grado = f.grado /\ db[f.seccion].anio = f.anio
  /\ f.tabla = "matricula" => db[f.aula].anio = f.anio

\* The tree stays coherent although the schema has independent foreign keys: an aula is of the
\* grado and of the year of its seccion, a matricula of the year of its aula, whoever edits,
\* deletes and creates again the rows above while a handler is between its reads and its write.
ArbolCoherente ==
  Integra(base) /\ \A i \in DOMAIN base : EnElArbol(base, base[i])

\* The last year activated, by the audit, or the one that was active at the start.
UltimoActivado ==
  LET ks == {k \in DOMAIN auditoria : auditoria[k].tipo = "ACTIVADO"}
  IN IF ks = {} THEN {a \in DOMAIN Inicial : Inicial[a].tabla = "anio" /\ Inicial[a].activo}
     ELSE {auditoria[CHOOSE k \in ks : \A j \in ks : j <= k].id}

\* Concurrent activations leave exactly the year the audit names last: never two, and never none
\* unless that year was deleted.  So the period that construirComprobante() prints on a receipt, of
\* the active years the last by nombre, is that of the year activated last: its comment says that
\* nothing keeps `activo` unique and orders two active rows, which the partial index of the first
\* migration and the two UPDATEs of activar() rule out (the order is never needed).
AnioActivoUnico ==
  AniosActivos = UltimoActivado \cap DOMAIN base
=============================================================================
