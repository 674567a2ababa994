------------------------ MODULE AdministracionProofs -------------------------
(***************************************************************************)
(* Proofs about module Administracion: the data base of the school and of  *)
(* the ballot stays coherent, and its audit accounts for it, whatever      *)
(* handlers and imports cross between their reads and their writes.        *)
(***************************************************************************)
EXTENDS Administracion, FiniteSetTheorems, TLAPS

(* The invariant *)

Ids ==
  DOMAIN Inicial \cup (Peticiones \X DOMAIN Columnas) \cup (Peticiones \X {"usuario", "matricula"} \X Nat)
  \cup (Nat \X Nat \X Nat)

TiposDeEvento ==
  {"CREADA", "ACTUALIZADA", "ELIMINADA", "ACTIVADO", "activo", "baja", "PROCESO_ELIMINADO", "PADRON_IMPORTADO"}

Motivos == {"duplicado", "referencia", "coherencia", "formato"}

\* The types of TipoRegistro and TipoImportacion, with the domains the proofs need.
Tipos ==
  /\ agenda \in Agendas
  /\ auditoria \in Seq([tipo : TiposDeEvento, id : Ids, por : Peticiones])
  /\ pc \in [Peticiones -> {"libre", "escribir", "fila", "suelta", "juntas", "resumen", "fin"}]
  /\ op \in [Peticiones -> agenda \cup {Nulo}]
  /\ leyo \in [Peticiones -> Nat] /\ \A h \in Peticiones : leyo[h] <= Len(auditoria)
  /\ respuesta \in [Peticiones -> {"hecha", "sin_cambio", "rechazada", "error", Nulo}]
  /\ fila \in [Peticiones -> [n : Nat, usuario : Ids \cup {Nulo}, aula : Ids \cup {Nulo}]]
  /\ errores \in [Peticiones -> SUBSET [n : Nat, motivo : Motivos]]
  /\ resumen \in [Peticiones -> [creadas : Nat, existentes : Nat]]

\* What a handler serves, by where it is.
Atiende(h) ==
  /\ pc[h] = "libre" => op[h] = Nulo /\ resumen[h] = [creadas |-> 0, existentes |-> 0] /\ errores[h] = {}
  /\ pc[h] # "libre" => op[h] \in agenda
  /\ pc[h] \in {"fila", "suelta", "juntas", "resumen"} => op[h].accion = "importar"
  /\ pc[h] = "escribir" => op[h].accion # "importar"

\* An id is given once: by a request that is done, or by an import to a row it has passed.
NacidaDe(i, q) ==
  \/ /\ pc[q] = "fin" /\ op[q].accion # "importar"
     /\ \E t \in DOMAIN Columnas : i = <<q, t>>
  \/ /\ pc[q] # "libre" /\ op[q].accion = "importar"
     /\ \E n \in DOMAIN op[q].fila : n < fila[q].n /\ (i = <<q, "usuario", n>> \/ i = <<q, "matricula", n>>)
Nacimientos ==
  \A k \in DOMAIN auditoria : auditoria[k].tipo = "CREADA" => NacidaDe(auditoria[k].id, auditoria[k].por)

\* The parents a row names are of the same grado, year or proceso, if they are still there.
Acorde(db, f) ==
  /\ f.tabla = "aula" /\ f.seccion \in DOMAIN db =>
       db[f.seccion].tabla = "seccion" /\ db[f.seccion].grado = f.grado /\ db[f.seccion].anio = f.anio
  /\ f.tabla = "matricula" /\ f.aula \in DOMAIN db => db[f.aula].tabla = "aula" /\ db[f.aula].anio = f.anio
  /\ f.tabla = "candidato" /\ f.lista # Nulo /\ f.lista \in DOMAIN db =>
       db[f.lista].tabla = "lista" /\ db[f.lista].proceso = f.proceso
  /\ f.tabla = "voto" /\ f.elegida \in DOMAIN db =>
       db[f.elegida].tabla \in {"lista", "candidato", "opcion"} /\ db[f.elegida].proceso = f.proceso

\* The tables of the rows each kind of request is about.
TablasDe(accion) ==
  CASE accion = "activar" -> {"anio"}
    [] accion = "estado" -> {"lista", "candidato"}
    [] accion \in {"abrir", "eliminar_proceso"} -> {"proceso"}
    [] accion = "eliminar" -> DOMAIN Columnas \ {"usuario", "proceso", "voto", "derecho"}
    [] OTHER -> DOMAIN Columnas

\* The events of the estado of a row.
BajasDe(s, i) == {k \in DOMAIN s : s[k].id = i /\ s[k].tipo \in {"activo", "baja"}}

\* What a handler read is still true of the rows that are still there.
LeidoCrear(h) ==
  pc[h] = "escribir" /\ op[h].accion = "crear" => Refs(op[h].fila) \subseteq Conocidas /\ Acorde(base, op[h].fila)
LeidaFila(h) ==
  pc[h] = "escribir" /\ op[h].accion # "crear" =>
    op[h].id \in Conocidas /\ (Existe(op[h].id) => base[op[h].id].tabla \in TablasDe(op[h].accion))
LeidaLista(h) ==
  LET i == op[h].id  l == op[h].fila.lista
  IN pc[h] = "escribir" /\ op[h].accion = "actualizar" /\ "lista" \in DOMAIN op[h].fila /\ l # Nulo
       /\ Existe(i) /\ base[i].tabla = "candidato"
     => l \in Conocidas /\ (Existe(l) => base[l].tabla = "lista" /\ base[l].proceso = base[i].proceso)
LeidoEstado(h) ==
  LET i == op[h].id
  IN pc[h] = "escribir" /\ op[h].accion = "estado" /\ Existe(i) /\ (\A k \in BajasDe(auditoria, i) : k <= leyo[h])
     => base[i].estado # op[h].fila.estado
LeidoImportar(h) ==
  /\ fila[h].aula # Nulo =>
       fila[h].aula \in Conocidas /\ (Existe(fila[h].aula) => base[fila[h].aula].tabla = "aula")
  /\ fila[h].usuario # Nulo => Existe(fila[h].usuario) /\ base[fila[h].usuario].tabla = "usuario"

\* The events of the estado are of handlers that are done.
EstadosHechos ==
  \A k \in DOMAIN auditoria : auditoria[k].tipo \in {"activo", "baja"} => pc[auditoria[k].por] = "fin"

\* Every row of a file passed is counted once, and PADRON_IMPORTADO says the counts.
Cuenta(h) ==
  pc[h] # "libre" /\ op[h].accion = "importar" =>
    /\ fila[h].n \in 1 .. Len(op[h].fila) + 1
    /\ pc[h] \in {"fila", "suelta", "juntas"} => fila[h].n <= Len(op[h].fila)
    /\ pc[h] = "resumen" => fila[h].n = Len(op[h].fila) + 1
    /\ IsFiniteSet(errores[h]) /\ \A e \in errores[h] : e.n \in 1 .. fila[h].n - 1
    /\ resumen[h].creadas + resumen[h].existentes + Cardinality(errores[h]) = fila[h].n - 1
    /\ resumen[h].creadas = Cardinality(Creo(h, "matricula"))
    /\ \A n \in Creo(h, "usuario") \ Creo(h, "matricula") : [n |-> n, motivo |-> "referencia"] \in errores[h]
Anuncios ==
  \A k \in DOMAIN auditoria : auditoria[k].tipo = "PADRON_IMPORTADO" =>
    LET h == auditoria[k].por
    IN /\ pc[h] = "fin" /\ op[h].accion = "importar" /\ fila[h].n = Len(op[h].fila) + 1
       /\ auditoria[k].id = <<resumen[h].creadas, resumen[h].existentes, Cardinality(errores[h])>>

Leido == \A h \in Peticiones : LeidoCrear(h) /\ LeidaFila(h) /\ LeidaLista(h) /\ LeidoEstado(h) /\ LeidoImportar(h)

-----------------------------------------------------------------------------
(* The schema *)

\* The tables have their columns and their indexes, and no index is over a column of estado.
LEMMA Esquema ==
  /\ DOMAIN Indices = DOMAIN Columnas
  /\ \A t \in DOMAIN Indices : \A k \in Indices[t] :
       k \subseteq Columnas[t] /\ "activo" \notin k /\ "estado" \notin k
<1>1. DOMAIN Indices = DOMAIN Columnas
  BY DEF Indices, Columnas
<1>2. \A t \in DOMAIN Indices : \A k \in Indices[t] :
        k \subseteq Columnas[t] /\ "activo" \notin k /\ "estado" \notin k
  BY DEF Indices, Columnas
<1>3. QED
  BY <1>1, <1>2

\* The foreign keys each table has.
LEMMA LlavesDeTabla ==
  ASSUME NEW f, BienFormada(f)
  PROVE  /\ "tabla" \in DOMAIN f
         /\ f.tabla = "seccion" => "grado" \in DOMAIN f /\ "anio" \in DOMAIN f
         /\ f.tabla = "aula" => "grado" \in DOMAIN f /\ "anio" \in DOMAIN f /\ "seccion" \in DOMAIN f
         /\ f.tabla = "matricula" => "anio" \in DOMAIN f /\ "aula" \in DOMAIN f
         /\ f.tabla \in {"lista", "candidato", "opcion", "voto"} => "proceso" \in DOMAIN f
         /\ "lista" \in DOMAIN f <=> f.tabla = "candidato"
         /\ "elegida" \in DOMAIN f <=> f.tabla = "voto"
         /\ f.tabla \in {"usuario", "anio", "proceso"} => "proceso" \notin DOMAIN f
         /\ "estado" \in DOMAIN f <=> f.tabla \in {"proceso", "lista", "candidato"}
         /\ "activo" \in DOMAIN f <=> f.tabla = "anio"
  BY DEF BienFormada, Columnas

\* Nor a key nor a foreign key is a column of estado.
LEMMA LlavesForaneas ==
  /\ DOMAIN Foraneas = {"nivel", "grado", "seccion", "anio", "usuario", "aula", "proceso", "lista", "elegida"}
  /\ Foraneas["seccion"] = {"seccion"} /\ Foraneas["aula"] = {"aula"} /\ Foraneas["lista"] = {"lista"}
  /\ Foraneas["elegida"] = {"lista", "candidato", "opcion"} /\ Foraneas["proceso"] = {"proceso"}
  /\ Foraneas["grado"] = {"grado"} /\ Foraneas["anio"] = {"anio"} /\ Foraneas["nivel"] = {"nivel"}
  /\ Foraneas["usuario"] = {"usuario"}
  BY DEF Foraneas
-----------------------------------------------------------------------------
(* What the edits do to a coherent data base *)

\* The rows of db, one by one: every row is well formed, its parents are there and it accords
\* with them, and it has its keys for itself.
FilaSana(db, i) ==
  BienFormada(db[i]) /\ ~Colgante(db, db[i]) /\ ~Choca(db, db[i], i) /\ Acorde(db, db[i])

\* The parents that a row with no dangling key names are rows of their tables.
LEMMA Padres ==
  ASSUME NEW db, NEW f, BienFormada(f), ~Colgante(db, f)
  PROVE  /\ f.tabla = "aula" => f.seccion \in DOMAIN db /\ db[f.seccion].tabla = "seccion"
         /\ f.tabla = "matricula" => f.aula \in DOMAIN db /\ db[f.aula].tabla = "aula"
         /\ f.tabla = "candidato" /\ f.lista # Nulo => f.lista \in DOMAIN db /\ db[f.lista].tabla = "lista"
         /\ f.tabla = "voto" => f.elegida \in DOMAIN db /\ db[f.elegida].tabla \in {"lista", "candidato", "opcion"}
<1>1. \A c \in DOMAIN f \cap DOMAIN Foraneas :
        f[c] # Nulo => f[c] \in DOMAIN db /\ db[f[c]].tabla \in Foraneas[c]
  BY DEF Colgante, Llaves
<1>2. \A c \in DOMAIN f \cap DOMAIN Foraneas : c # "lista" => f[c] # Nulo
  BY DEF BienFormada
<1>3. f.tabla = "aula" => f.seccion \in DOMAIN db /\ db[f.seccion].tabla = "seccion"
  BY <1>1, <1>2, LlavesDeTabla, LlavesForaneas
<1>4. f.tabla = "matricula" => f.aula \in DOMAIN db /\ db[f.aula].tabla = "aula"
  BY <1>1, <1>2, LlavesDeTabla, LlavesForaneas
<1>5. f.tabla = "candidato" /\ f.lista # Nulo => f.lista \in DOMAIN db /\ db[f.lista].tabla = "lista"
  BY <1>1, <1>2, LlavesDeTabla, LlavesForaneas
<1>6. f.tabla = "voto" => f.elegida \in DOMAIN db /\ db[f.elegida].tabla \in {"lista", "candidato", "opcion"}
  BY <1>1, <1>2, LlavesDeTabla, LlavesForaneas
<1>7. QED
  BY <1>3, <1>4, <1>5, <1>6

\* A coherent data base, row by row.
LEMMA SanaPorFilas ==
  ASSUME NEW db
  PROVE  Sana(db) <=> \A i \in DOMAIN db : FilaSana(db, i)
<1>1. ASSUME NEW i \in DOMAIN db, BienFormada(db[i]), ~Colgante(db, db[i])
      PROVE  EnElArbol(db, db[i]) /\ EnLaBoleta(db, db[i]) <=> Acorde(db, db[i])
  BY <1>1, Padres DEF EnElArbol, EnLaBoleta, Acorde
<1>2. QED
  BY <1>1 DEF Sana, Integra, FilaSana

\* The row g has the columns of f but for those that an edit may change.
Mismas(f, g) ==
  /\ DOMAIN g = DOMAIN f /\ g.tabla = f.tabla
  /\ \A c \in DOMAIN f \cap DOMAIN Foraneas : c # "lista" => g[c] = f[c]

\* The rows that db and db2 share are the same but for what an edit may change.
Estable(db, db2) == \A i \in DOMAIN db \cap DOMAIN db2 : Mismas(db[i], db2[i])

\* A row accords with the rows above it when these are edited, if it names none that is new.
LEMMA AcordeEstable ==
  ASSUME NEW db, NEW db2, NEW f, BienFormada(f), Estable(db, db2), Acorde(db, f),
         \A i \in DOMAIN db : BienFormada(db[i]),
         \A i \in Refs(f) : i \in DOMAIN db2 => i \in DOMAIN db
  PROVE  Acorde(db2, f)
<1>1. \A c \in DOMAIN f \cap DOMAIN Foraneas : f[c] # Nulo /\ f[c] \in DOMAIN db2 => f[c] \in DOMAIN db
  BY DEF Refs, Llaves
<1>2. \A c \in DOMAIN f \cap DOMAIN Foraneas : c # "lista" => f[c] # Nulo
  BY DEF BienFormada
<1>3. \A i \in DOMAIN db \cap DOMAIN db2 :
        /\ db2[i].tabla = db[i].tabla
        /\ db[i].tabla = "seccion" => db2[i].grado = db[i].grado /\ db2[i].anio = db[i].anio
        /\ db[i].tabla = "aula" => db2[i].anio = db[i].anio
        /\ db[i].tabla \in {"lista", "candidato", "opcion"} => db2[i].proceso = db[i].proceso
  BY LlavesDeTabla, LlavesForaneas DEF Estable, Mismas
<1>4. f.tabla = "aula" /\ f.seccion \in DOMAIN db2 =>
        db2[f.seccion].tabla = "seccion" /\ db2[f.seccion].grado = f.grado /\ db2[f.seccion].anio = f.anio
  BY <1>1, <1>2, <1>3, LlavesDeTabla, LlavesForaneas DEF Acorde
<1>5. f.tabla = "matricula" /\ f.aula \in DOMAIN db2 => db2[f.aula].tabla = "aula" /\ db2[f.aula].anio = f.anio
  BY <1>1, <1>2, <1>3, LlavesDeTabla, LlavesForaneas DEF Acorde
<1>6. f.tabla = "candidato" /\ f.lista # Nulo /\ f.lista \in DOMAIN db2 =>
        db2[f.lista].tabla = "lista" /\ db2[f.lista].proceso = f.proceso
  BY <1>1, <1>2, <1>3, LlavesDeTabla, LlavesForaneas DEF Acorde
<1>7. f.tabla = "voto" /\ f.elegida \in DOMAIN db2 =>
        db2[f.elegida].tabla \in {"lista", "candidato", "opcion"} /\ db2[f.elegida].proceso = f.proceso
  BY <1>1, <1>2, <1>3, LlavesDeTabla, LlavesForaneas DEF Acorde
<1>8. QED
  BY <1>4, <1>5, <1>6, <1>7 DEF Acorde

Sanas(db) == \A i \in DOMAIN db : FilaSana(db, i)

\* INSERT of a row that accords with its parents.
LEMMA Alta ==
  ASSUME NEW db, Sanas(db), NEW i, i \notin DOMAIN db, NEW f,
         BienFormada(f), ~Colgante(db, f), ~Choca(db, f, i), Acorde(db, f)
  PROVE  /\ Sanas(ConFila(db, i, f)) /\ Estable(db, ConFila(db, i, f))
         /\ DOMAIN ConFila(db, i, f) = DOMAIN db \cup {i}
         /\ \A j \in DOMAIN db : ConFila(db, i, f)[j] = db[j]
         /\ ConFila(db, i, f)[i] = f
<1> DEFINE d == ConFila(db, i, f)
<1>1. DOMAIN d = DOMAIN db \cup {i} /\ d[i] = f /\ \A j \in DOMAIN db : d[j] = db[j]
  BY DEF ConFila
<1> HIDE DEF d
<1>2. Estable(db, d)
  BY <1>1 DEF Estable, Mismas
<1>3. \A g : ~Colgante(db, g) => ~Colgante(d, g)
  BY <1>1 DEF Colgante
<1>4. \A g : BienFormada(g) /\ ~Colgante(db, g) => \A j \in Refs(g) : j \in DOMAIN db
  BY DEF Colgante, Refs
<1>5. \A g : BienFormada(g) /\ ~Colgante(db, g) /\ Acorde(db, g) => Acorde(d, g)
  BY <1>2, <1>4, AcordeEstable DEF Sanas, FilaSana
<1>6. ~Choca(d, f, i)
  BY <1>1 DEF Choca
<1>7. ASSUME NEW j \in DOMAIN db PROVE ~Choca(d, db[j], j)
  <2>1. ~Choca(db, db[j], j)
    BY DEF Sanas, FilaSana
  <2>2. ASSUME f.tabla = db[j].tabla, NEW k \in Indices[db[j].tabla], \A c \in k : f[c] = db[j][c] PROVE FALSE
    BY <2>2 DEF Choca
  <2>3. QED
    BY <2>1, <2>2, <1>1 DEF Choca
<1>8. \A j \in DOMAIN d : FilaSana(d, j)
  BY <1>1, <1>3, <1>5, <1>6, <1>7 DEF Sanas, FilaSana
<1>9. QED
  BY <1>1, <1>2, <1>8 DEF Sanas, d

\* UPDATE of a row: what an edit may change of it.
LEMMA Edicion ==
  ASSUME NEW db, Sanas(db), NEW i \in DOMAIN db, NEW g, Mismas(db[i], g),
         BienFormada(g), ~Colgante(db, g), ~Choca(db, g, i), Acorde(db, g)
  PROVE  Sanas([db EXCEPT ![i] = g]) /\ Estable(db, [db EXCEPT ![i] = g])
<1> DEFINE d == [db EXCEPT ![i] = g]
<1>1. DOMAIN d = DOMAIN db /\ d[i] = g /\ \A j \in DOMAIN db \ {i} : d[j] = db[j]
  OBVIOUS
<1> HIDE DEF d
<1>2. Estable(db, d)
  BY <1>1 DEF Estable, Mismas
<1>3. \A j \in DOMAIN db : d[j].tabla = db[j].tabla
  BY <1>1 DEF Mismas
<1>4. \A f : ~Colgante(db, f) => ~Colgante(d, f)
  BY <1>1, <1>3 DEF Colgante
<1>5. \A f : BienFormada(f) /\ Acorde(db, f) => Acorde(d, f)
  BY <1>1, <1>2, AcordeEstable DEF Sanas, FilaSana
<1>6. ~Choca(d, g, i)
  BY <1>1 DEF Choca
<1>7. ASSUME NEW j \in DOMAIN db, j # i PROVE ~Choca(d, db[j], j)
  <2>1. ~Choca(db, db[j], j)
    BY DEF Sanas, FilaSana
  <2>2. ASSUME g.tabla = db[j].tabla, NEW k \in Indices[db[j].tabla], \A c \in k : g[c] = db[j][c] PROVE FALSE
    BY <1>7, <2>2 DEF Choca
  <2>3. QED
    BY <2>1, <2>2, <1>1, <1>7 DEF Choca
<1>8. \A j \in DOMAIN d : FilaSana(d, j)
  BY <1>1, <1>4, <1>5, <1>6, <1>7 DEF Sanas, FilaSana
<1>9. QED
  BY <1>2, <1>8 DEF Sanas, d

\* The row g is f but for the columns of estado, which are in no key.
SoloEstado(f, g) == DOMAIN g = DOMAIN f /\ \A c \in DOMAIN f : c \notin {"activo", "estado"} => g[c] = f[c]

\* UPDATE of the columns of estado of any rows.
LEMMA Marca ==
  ASSUME NEW db, Sanas(db), NEW d, DOMAIN d = DOMAIN db, \A i \in DOMAIN db : SoloEstado(db[i], d[i])
  PROVE  Sanas(d) /\ Estable(db, d)
<1>1. \A i \in DOMAIN db : BienFormada(db[i]) /\ "tabla" \in DOMAIN db[i] /\ d[i].tabla = db[i].tabla
  BY LlavesDeTabla DEF SoloEstado, Sanas, FilaSana
<1>2. \A i \in DOMAIN db : \A c \in DOMAIN db[i] \cap DOMAIN Foraneas : d[i][c] = db[i][c]
  BY LlavesForaneas DEF SoloEstado
<1>3. Estable(db, d)
  BY <1>1, <1>2 DEF Estable, Mismas, SoloEstado
<1>4. ASSUME NEW i \in DOMAIN db PROVE BienFormada(d[i])
  <2>1. BienFormada(db[i]) /\ d[i].tabla = db[i].tabla /\ DOMAIN d[i] = DOMAIN db[i]
    BY <1>1 DEF SoloEstado
  <2>2. \A c \in DOMAIN d[i] \cap DOMAIN Foraneas : d[i][c] = db[i][c]
    BY <1>2, <2>1
  <2>3. QED
    BY <2>1, <2>2 DEF BienFormada
<1>5. ASSUME NEW i \in DOMAIN db PROVE ~Colgante(d, d[i])
  <2>1. Llaves(d[i]) = Llaves(db[i])
    BY <1>2 DEF Llaves, SoloEstado
  <2>2. \A c \in Llaves(d[i]) : d[i][c] = db[i][c]
    BY <1>2, <2>1 DEF Llaves
  <2>3. QED
    BY <1>1, <2>1, <2>2 DEF Colgante, Sanas, FilaSana
<1>6. ASSUME NEW i \in DOMAIN db PROVE ~Choca(d, d[i], i)
  <2>1. ASSUME NEW j \in DOMAIN db, NEW k \in Indices[db[j].tabla], NEW c \in k PROVE d[j][c] = db[j][c]
    <3>1. db[j].tabla \in DOMAIN Indices
      BY <1>1, Esquema DEF BienFormada
    <3>2. c \in Columnas[db[j].tabla] /\ c # "activo" /\ c # "estado"
      BY <3>1, Esquema
    <3>3. QED
      BY <1>1, <3>2 DEF BienFormada, SoloEstado
  <2>2. ~Choca(db, db[i], i)
    BY DEF Sanas, FilaSana
  <2>3. QED
    BY <1>1, <2>1, <2>2 DEF Choca
<1>7. ASSUME NEW i \in DOMAIN db PROVE Acorde(d, d[i])
  <2>1. Acorde(d, db[i])
    <3>1. \A j \in Refs(db[i]) : j \in DOMAIN d => j \in DOMAIN db
      OBVIOUS
    <3>2. QED
      BY <1>1, <1>3, <3>1, AcordeEstable DEF Sanas, FilaSana
  <2>2. \A c \in DOMAIN db[i] \cap DOMAIN Foraneas : d[i][c] = db[i][c]
    BY <1>2
  <2>3. db[i].tabla \in {"candidato", "voto"} => d[i].proceso = db[i].proceso
    BY <1>1, <1>2, LlavesDeTabla, LlavesForaneas
  <2>4. db[i].tabla = "candidato" => d[i].lista = db[i].lista
    BY <1>1, <1>2, LlavesDeTabla, LlavesForaneas
  <2>5. db[i].tabla = "voto" => d[i].elegida = db[i].elegida
    BY <1>1, <1>2, LlavesDeTabla, LlavesForaneas
  <2>6. db[i].tabla = "aula" => d[i].seccion = db[i].seccion /\ d[i].grado = db[i].grado /\ d[i].anio = db[i].anio
    BY <1>1, <1>2, LlavesDeTabla, LlavesForaneas
  <2>7. db[i].tabla = "matricula" => d[i].aula = db[i].aula /\ d[i].anio = db[i].anio
    BY <1>1, <1>2, LlavesDeTabla, LlavesForaneas
  <2>8. QED
    BY <1>1, <2>1, <2>3, <2>4, <2>5, <2>6, <2>7 DEF Acorde
<1>8. QED
  BY <1>3, <1>4, <1>5, <1>6, <1>7 DEF Sanas, FilaSana

\* DELETE of rows that no other row refers to.
LEMMA Baja ==
  ASSUME NEW db, Sanas(db), NEW X, \A j \in DOMAIN db \ X : Refs(db[j]) \cap X = {}
  PROVE  Sanas([j \in DOMAIN db \ X |-> db[j]]) /\ Estable(db, [j \in DOMAIN db \ X |-> db[j]])
<1> DEFINE d == [j \in DOMAIN db \ X |-> db[j]]
<1>1. DOMAIN d = DOMAIN db \ X /\ \A j \in DOMAIN d : d[j] = db[j]
  OBVIOUS
<1> HIDE DEF d
<1>2. Estable(db, d)
  BY <1>1 DEF Estable, Mismas
<1>3. ASSUME NEW i \in DOMAIN d PROVE ~Colgante(d, d[i])
  BY <1>1 DEF Colgante, Sanas, FilaSana, Refs
<1>4. ASSUME NEW i \in DOMAIN d PROVE ~Choca(d, d[i], i)
  BY <1>1 DEF Choca, Sanas, FilaSana
<1>5. ASSUME NEW i \in DOMAIN d PROVE Acorde(d, d[i])
  BY <1>1, <1>2, AcordeEstable DEF Sanas, FilaSana
<1>6. QED
  BY <1>1, <1>2, <1>3, <1>4, <1>5 DEF Sanas, FilaSana, d
-----------------------------------------------------------------------------
(* The audit *)

Evento == [tipo : TiposDeEvento, id : Ids, por : Peticiones]

ConocidasDe(s) == DOMAIN Inicial \cup {s[k].id : k \in {j \in DOMAIN s : s[j].tipo = "CREADA"}}
Marcas(s, tipo, i) == {k \in DOMAIN s : s[k].tipo = tipo /\ s[k].id = i}

\* One event more.
LEMMA Anotar ==
  ASSUME NEW s \in Seq(Evento), NEW e \in Evento
  PROVE  /\ Append(s, e) \in Seq(Evento)
         /\ Len(s) \in Nat /\ Len(Append(s, e)) = Len(s) + 1
         /\ DOMAIN s = 1 .. Len(s) /\ DOMAIN Append(s, e) = 1 .. Len(s) + 1
         /\ \A k \in 1 .. Len(s) : Append(s, e)[k] = s[k]
         /\ Append(s, e)[Len(s) + 1] = e
  OBVIOUS

\* An event makes an id known if it is a CREADA, and is counted under its tipo and its id.
LEMMA Contar ==
  ASSUME NEW s \in Seq(Evento), NEW e \in Evento
  PROVE  /\ ConocidasDe(Append(s, e)) = ConocidasDe(s) \cup {i \in {e.id} : e.tipo = "CREADA"}
         /\ \A tipo, i :
              /\ Cardinality(Marcas(s, tipo, i)) \in Nat
              /\ e.tipo = tipo /\ e.id = i =>
                   Cardinality(Marcas(Append(s, e), tipo, i)) = Cardinality(Marcas(s, tipo, i)) + 1
              /\ ~(e.tipo = tipo /\ e.id = i) =>
                   Cardinality(Marcas(Append(s, e), tipo, i)) = Cardinality(Marcas(s, tipo, i))
<1> DEFINE t == Append(s, e)  n == Len(s) + 1
<1>1. /\ Len(s) \in Nat /\ DOMAIN s = 1 .. Len(s) /\ DOMAIN t = 1 .. n
      /\ (\A k \in 1 .. Len(s) : t[k] = s[k]) /\ t[n] = e /\ n \notin DOMAIN s /\ DOMAIN t = DOMAIN s \cup {n}
  BY Anotar
<1> HIDE DEF t, n
<1>2. ConocidasDe(t) = ConocidasDe(s) \cup {i \in {e.id} : e.tipo = "CREADA"}
  <2>1. \A k \in DOMAIN s : t[k] = s[k]
    BY <1>1
  <2>2. ASSUME NEW i PROVE i \in ConocidasDe(t) <=> i \in ConocidasDe(s) \/ (i = e.id /\ e.tipo = "CREADA")
    <3>1. i \in ConocidasDe(t) <=> i \in DOMAIN Inicial \/ \E k \in DOMAIN s \cup {n} : t[k].tipo = "CREADA" /\ t[k].id = i
      BY <1>1 DEF ConocidasDe
    <3>2. i \in ConocidasDe(s) <=> i \in DOMAIN Inicial \/ \E k \in DOMAIN s : s[k].tipo = "CREADA" /\ s[k].id = i
      BY DEF ConocidasDe
    <3>3. QED
      BY <3>1, <3>2, <2>1, <1>1, Zenon
  <2>3. QED
    BY <2>2
<1>3. ASSUME NEW tipo, NEW i
      PROVE  /\ Cardinality(Marcas(s, tipo, i)) \in Nat
             /\ e.tipo = tipo /\ e.id = i => Cardinality(Marcas(t, tipo, i)) = Cardinality(Marcas(s, tipo, i)) + 1
             /\ ~(e.tipo = tipo /\ e.id = i) => Cardinality(Marcas(t, tipo, i)) = Cardinality(Marcas(s, tipo, i))
  <2>1. IsFiniteSet(1 .. Len(s))
    BY <1>1, FS_Interval
  <2>2. IsFiniteSet(Marcas(s, tipo, i)) /\ n \notin Marcas(s, tipo, i)
    BY <2>1, <1>1, FS_Subset DEF Marcas
  <2>3. Cardinality(Marcas(s, tipo, i)) \in Nat
    BY <2>2, FS_CardinalityType
  <2>4. e.tipo = tipo /\ e.id = i => Marcas(t, tipo, i) = Marcas(s, tipo, i) \cup {n}
    BY <1>1 DEF Marcas
  <2>5. ~(e.tipo = tipo /\ e.id = i) => Marcas(t, tipo, i) = Marcas(s, tipo, i)
    BY <1>1 DEF Marcas
  <2>6. Cardinality(Marcas(s, tipo, i) \cup {n}) = Cardinality(Marcas(s, tipo, i)) + 1
    BY <2>2, FS_AddElement
  <2>7. QED
    BY <2>3, <2>4, <2>5, <2>6
<1>4. QED
  BY <1>2, <1>3 DEF t

\* No other event makes an id known.
LEMMA NoNacida ==
  ASSUME NEW s \in Seq(Evento), NEW e \in Evento, e.tipo # "CREADA"
  PROVE  ConocidasDe(Append(s, e)) = ConocidasDe(s)
<1>1. {i \in {e.id} : e.tipo = "CREADA"} = {}
  OBVIOUS
<1>2. QED
  BY <1>1, Contar

Debe(s, i) ==
  Cardinality({i} \cap DOMAIN Inicial) + Cardinality(Marcas(s, "CREADA", i)) - Cardinality(Marcas(s, "ELIMINADA", i))
Hay(db, i) == Cardinality({i} \cap DOMAIN db)
ProcesoEliminado(s) == \E k \in DOMAIN s : s[k].tipo = "PROCESO_ELIMINADO"
Rastro(db, s) == \A i : Debe(s, i) = Hay(db, i) \/ (Debe(s, i) = 1 /\ Hay(db, i) = 0 /\ ProcesoEliminado(s))

\* A set holds a thing once or not at all.
LEMMA Singular ==
  ASSUME NEW X, NEW i
  PROVE  /\ i \in X => Cardinality({i} \cap X) = 1
         /\ i \notin X => Cardinality({i} \cap X) = 0
<1>1. i \in X => {i} \cap X = {i}
  OBVIOUS
<1>2. i \notin X => {i} \cap X = {}
  OBVIOUS
<1>3. QED
  BY <1>1, <1>2, FS_Singleton, FS_EmptySet

\* The account of every row, over all ids and not only those in use.
LEMMA RastroTotal ==
  ASSUME auditoria \in Seq(Evento)
  PROVE  RastroDelRegistro <=> TipoRegistro /\ Rastro(base, auditoria)
<1> DEFINE Usadas == DOMAIN base \cup DOMAIN Inicial \cup {auditoria[k].id : k \in DOMAIN auditoria}
<1>1. ASSUME NEW i, i \notin Usadas PROVE Debe(auditoria, i) = 0 /\ Hay(base, i) = 0
  <2>1. \A tipo : Marcas(auditoria, tipo, i) = {}
    BY <1>1 DEF Marcas
  <2>2. Cardinality(Marcas(auditoria, "CREADA", i)) = 0 /\ Cardinality(Marcas(auditoria, "ELIMINADA", i)) = 0
    BY <2>1, FS_EmptySet, Zenon
  <2>3. Cardinality({i} \cap DOMAIN Inicial) = 0 /\ Cardinality({i} \cap DOMAIN base) = 0
    BY <1>1, Singular
  <2>4. QED
    BY <2>2, <2>3 DEF Debe, Hay
<1>2. RastroDelRegistro <=> TipoRegistro /\ \A i \in Usadas :
        Debe(auditoria, i) = Hay(base, i) \/ (Debe(auditoria, i) = 1 /\ Hay(base, i) = 0 /\ ProcesoEliminado(auditoria))
  BY Zenon DEF RastroDelRegistro, Debe, Hay, ProcesoEliminado, Cuantos, Marcas
<1> HIDE DEF Usadas
<1>3. QED
  BY <1>1, <1>2 DEF Rastro

\* A row more, and its CREADA.
LEMMA RastroAlta ==
  ASSUME NEW s \in Seq(Evento), NEW db, Rastro(db, s), NEW i, i \notin ConocidasDe(s), DOMAIN db \subseteq ConocidasDe(s),
         NEW e \in Evento, e.tipo = "CREADA", e.id = i, NEW d, DOMAIN d = DOMAIN db \cup {i}
  PROVE  Rastro(d, Append(s, e))
<1>1. Marcas(s, "CREADA", i) = {}
  BY DEF Marcas, ConocidasDe
<1>2. Cardinality(Marcas(s, "CREADA", i)) = 0
  BY <1>1, FS_EmptySet, Zenon
<1>3. Cardinality({i} \cap DOMAIN Inicial) = 0 /\ Hay(db, i) = 0 /\ Hay(d, i) = 1
  BY Singular DEF ConocidasDe, Hay
<1>4. Cardinality(Marcas(s, "ELIMINADA", i)) = 0
  BY <1>2, <1>3, Contar DEF Rastro, Debe
<1>5. Debe(Append(s, e), i) = 1
  BY <1>2, <1>3, <1>4, Contar DEF Debe
<1>6. ASSUME NEW j, j # i PROVE Debe(Append(s, e), j) = Debe(s, j) /\ Hay(d, j) = Hay(db, j)
  <2>1. Debe(Append(s, e), j) = Debe(s, j)
    BY <1>6, Contar DEF Debe
  <2>2. {j} \cap DOMAIN d = {j} \cap DOMAIN db
    BY <1>6
  <2>3. QED
    BY <2>1, <2>2 DEF Hay
<1>7. ProcesoEliminado(s) => ProcesoEliminado(Append(s, e))
  BY Anotar DEF ProcesoEliminado
<1>8. QED
  BY <1>3, <1>5, <1>6, <1>7 DEF Rastro

\* A row less, and its ELIMINADA.
LEMMA RastroBaja ==
  ASSUME NEW s \in Seq(Evento), NEW db, Rastro(db, s), NEW i \in DOMAIN db,
         NEW e \in Evento, e.tipo = "ELIMINADA", e.id = i, NEW d, DOMAIN d = DOMAIN db \ {i}
  PROVE  Rastro(d, Append(s, e))
<1>1. Hay(db, i) = 1 /\ Hay(d, i) = 0
  BY Singular DEF Hay
<1>2. Debe(s, i) = 1
  BY <1>1 DEF Rastro
<1>3. Cardinality({i} \cap DOMAIN Inicial) \in {0, 1}
  BY Singular
<1>4. Debe(Append(s, e), i) = 0
  <2> DEFINE x == Cardinality({i} \cap DOMAIN Inicial)
             y == Cardinality(Marcas(s, "CREADA", i))
             z == Cardinality(Marcas(s, "ELIMINADA", i))
  <2>1. Cardinality(Marcas(Append(s, e), "CREADA", i)) = y /\ Cardinality(Marcas(Append(s, e), "ELIMINADA", i)) = z + 1
    BY Contar
  <2>2. x \in Nat /\ y \in Nat /\ z \in Nat /\ x + y - z = 1
    <3>1. x \in {0, 1} /\ y \in Nat /\ z \in Nat
      BY <1>3, Contar
    <3>2. x + y - z = 1
      BY <1>2 DEF Debe
    <3>3. QED
      BY <3>1, <3>2
  <2>3. Debe(Append(s, e), i) = x + y - (z + 1)
    BY <2>1, Zenon DEF Debe
  <2> HIDE DEF x, y, z
  <2>4. x + y - (z + 1) = 0
    BY <2>2
  <2>5. QED
    BY <2>3, <2>4, Zenon
<1>6. ASSUME NEW j, j # i PROVE Debe(Append(s, e), j) = Debe(s, j) /\ Hay(d, j) = Hay(db, j)
  <2>1. Debe(Append(s, e), j) = Debe(s, j)
    BY <1>6, Contar DEF Debe
  <2>2. {j} \cap DOMAIN d = {j} \cap DOMAIN db
    BY <1>6
  <2>3. QED
    BY <2>1, <2>2 DEF Hay
<1>7. ProcesoEliminado(s) => ProcesoEliminado(Append(s, e))
  BY Anotar DEF ProcesoEliminado
<1>8. QED
  BY <1>1, <1>4, <1>6, <1>7 DEF Rastro

\* Any other event, of rows that stay; PROCESO_ELIMINADO, of rows that leave.
LEMMA RastroOtro ==
  ASSUME NEW s \in Seq(Evento), NEW db, Rastro(db, s),
         NEW e \in Evento, e.tipo # "CREADA", e.tipo # "ELIMINADA",
         NEW d, DOMAIN d \subseteq DOMAIN db, DOMAIN d = DOMAIN db \/ e.tipo = "PROCESO_ELIMINADO"
  PROVE  Rastro(d, Append(s, e))
<1>1. \A j : Debe(Append(s, e), j) = Debe(s, j)
  BY Contar DEF Debe
<1>2. ProcesoEliminado(s) \/ e.tipo = "PROCESO_ELIMINADO" => ProcesoEliminado(Append(s, e))
  BY Anotar DEF ProcesoEliminado
<1>3. \A j : Hay(d, j) = Hay(db, j) \/ (Hay(db, j) = 1 /\ Hay(d, j) = 0 /\ e.tipo = "PROCESO_ELIMINADO")
  BY Singular DEF Hay
<1>4. QED
  BY <1>1, <1>2, <1>3 DEF Rastro
-----------------------------------------------------------------------------
(* The active year and the estado of the ballot, by the audit *)

Activados(s) == {k \in DOMAIN s : s[k].tipo = "ACTIVADO"}
Ultimo(X, k) == k \in X /\ \A j \in X : j <= k
ActivosDe(db) == {a \in DOMAIN db : db[a].tabla = "anio" /\ db[a].activo}
UltimoDe(s) ==
  IF Activados(s) = {} THEN ActivosDe(Inicial)
  ELSE {s[CHOOSE k \in Activados(s) : \A j \in Activados(s) : j <= k].id}

UnAnio(db, s) ==
  /\ ActivosDe(db) = UltimoDe(s) \cap DOMAIN db
  /\ UltimoDe(s) \subseteq ConocidasDe(s)
  /\ Activados(s) # {} => \E k \in Activados(s) : \A j \in Activados(s) : j <= k

\* The last activation stays the last until the next one.
LEMMA UltimoAnotado ==
  ASSUME NEW s \in Seq(Evento), NEW e \in Evento,
         Activados(s) # {} => \E k \in Activados(s) : \A j \in Activados(s) : j <= k
  PROVE  LET t == Append(s, e)
         IN /\ e.tipo # "ACTIVADO" => UltimoDe(t) = UltimoDe(s)
            /\ e.tipo = "ACTIVADO" => UltimoDe(t) = {e.id}
            /\ Activados(t) # {} => \E k \in Activados(t) : \A j \in Activados(t) : j <= k
<1> DEFINE t == Append(s, e)  n == Len(s) + 1
<1>1. /\ Len(s) \in Nat /\ DOMAIN s = 1 .. Len(s) /\ DOMAIN t = DOMAIN s \cup {n} /\ n \notin DOMAIN s
      /\ (\A k \in DOMAIN s : t[k] = s[k] /\ k < n) /\ t[n] = e
  BY Anotar
<1> HIDE DEF t
<1>2. CASE e.tipo # "ACTIVADO"
  <2>1. Activados(t) = Activados(s)
    BY <1>1, <1>2 DEF Activados
  <2>2. CASE Activados(s) = {}
    BY <2>1, <2>2, <1>2 DEF UltimoDe, t
  <2>3. CASE Activados(s) # {}
    <3> DEFINE k == CHOOSE k \in Activados(s) : \A j \in Activados(s) : j <= k
    <3>1. k \in Activados(s)
      BY <2>3
    <3>2. t[k] = s[k]
      BY <3>1, <1>1 DEF Activados
    <3>3. UltimoDe(t) = {t[k].id} /\ UltimoDe(s) = {s[k].id}
      BY <2>1, <2>3 DEF UltimoDe
    <3>4. QED
      BY <3>2, <3>3, <2>1, <1>2 DEF t
  <2>4. QED
    BY <2>2, <2>3
<1>3. CASE e.tipo = "ACTIVADO"
  <2>1. Activados(t) = Activados(s) \cup {n} /\ Activados(s) \subseteq DOMAIN s
    BY <1>1, <1>3 DEF Activados
  <2>2. \A j \in Activados(t) : j <= n
    BY <1>1, <2>1
  <2>3. \A k \in Activados(t) : (\A j \in Activados(t) : j <= k) => k = n
    BY <1>1, <2>1
  <2>4. (CHOOSE k \in Activados(t) : \A j \in Activados(t) : j <= k) = n
    BY <2>1, <2>2, <2>3
  <2>5. UltimoDe(t) = {e.id}
    BY <2>1, <2>4, <1>1 DEF UltimoDe
  <2>6. QED
    BY <1>3, <2>1, <2>2, <2>5 DEF t
<1>4. QED
  BY <1>2, <1>3

DeLaBoleta(f) == f.tabla \in {"lista", "candidato"}
EstadosDe(db, s) ==
  \A i \in DOMAIN db : DeLaBoleta(db[i]) =>
    \A k \in BajasDe(s, i) :
      /\ (\A j \in BajasDe(s, i) : j <= k) => db[i].estado = s[k].tipo
      /\ \A j \in BajasDe(s, i) :
           /\ j < k /\ s[j].tipo = s[k].tipo
           /\ \A m \in BajasDe(s, i) : ~ (j < m /\ m < k)
           => leyo[s[k].por] < j

\* A change of estado is of a row that was there.
BajasConocidas(s) == \A k \in DOMAIN s : s[k].tipo \in {"activo", "baja"} => s[k].id \in ConocidasDe(s)

\* What holds of the rows and of the audit together.
Bien(db, s) ==
  /\ s \in Seq(Evento) /\ Sanas(db) /\ DOMAIN db \subseteq ConocidasDe(s)
  /\ Rastro(db, s) /\ UnAnio(db, s) /\ EstadosDe(db, s) /\ BajasConocidas(s)

\* The invariant says it of the data base.
LEMMA BienEs ==
  ASSUME TipoRegistro
  PROVE  Bien(base, auditoria) <=>
           /\ auditoria \in Seq(Evento) /\ Sana(base) /\ DOMAIN base \subseteq Conocidas
           /\ RastroDelRegistro /\ AnioActivoUnico /\ RastroDeEstado
           /\ UnAnio(base, auditoria) /\ BajasConocidas(auditoria)
<1>1. DOMAIN base \subseteq Conocidas <=> DOMAIN base \subseteq ConocidasDe(auditoria)
  BY DEF Conocidas, ConocidasDe
<1>2. UnAnio(base, auditoria) => AnioActivoUnico
  <2>1. AniosActivos = ActivosDe(base)
    BY DEF AniosActivos, Filas, ActivosDe
  <2>2. UltimoActivado = UltimoDe(auditoria)
    BY Zenon DEF UltimoActivado, UltimoDe, Activados, ActivosDe
  <2>3. QED
    BY <2>1, <2>2 DEF UnAnio, AnioActivoUnico
<1>3. RastroDeEstado <=> EstadosDe(base, auditoria)
  <2>1. \A i : Bajas(i) = BajasDe(auditoria, i)
    BY Zenon DEF Bajas, BajasDe
  <2>2. \A i : i \in Filas("lista") \cup Filas("candidato") <=> i \in DOMAIN base /\ DeLaBoleta(base[i])
    BY DEF Filas, DeLaBoleta
  <2>3. QED
    BY <2>1, <2>2, Zenon DEF RastroDeEstado, EstadosDe
<1>4. QED
  BY <1>1, <1>2, <1>3, RastroTotal, SanaPorFilas DEF Bien, Sanas
-----------------------------------------------------------------------------
(* What a write does to the rows and to the audit *)

\* From the rows db and the audit s to d and t: rows and events stay what they are, ids are new,
\* and no account is deleted.
Avance(db, s, d, t) ==
  /\ Bien(d, t) /\ Estable(db, d)
  /\ \A i \in DOMAIN d \ DOMAIN db : i \notin ConocidasDe(s)
  /\ ConocidasDe(s) \subseteq ConocidasDe(t)
  /\ \A i \in DOMAIN db : db[i].tabla = "usuario" => i \in DOMAIN d
  /\ \A k \in DOMAIN s : k \in DOMAIN t /\ t[k] = s[k]

\* No estado of the ballot changes, and no change of estado is audited.
Sereno(db, s, d, t) ==
  /\ \A i : BajasDe(t, i) = BajasDe(s, i)
  /\ \A i \in DOMAIN db \cap DOMAIN d : DeLaBoleta(db[i]) => d[i].estado = db[i].estado

\* An event that is not of estado changes no account of them.
LEMMA EstadosSerenos ==
  ASSUME NEW s \in Seq(Evento), NEW e \in Evento, e.tipo \notin {"activo", "baja"},
         NEW db, EstadosDe(db, s), BajasConocidas(s),
         NEW d, \A i \in DOMAIN d : i \in DOMAIN db \/ i \notin ConocidasDe(s),
         \A i \in DOMAIN db \cap DOMAIN d :
           d[i].tabla = db[i].tabla /\ (DeLaBoleta(db[i]) => d[i].estado = db[i].estado)
  PROVE  /\ EstadosDe(d, Append(s, e)) /\ Sereno(db, s, d, Append(s, e))
         /\ BajasConocidas(Append(s, e))
<1> DEFINE t == Append(s, e)  n == Len(s) + 1
<1>1. DOMAIN s \subseteq DOMAIN t /\ (\A k \in DOMAIN t : k \in DOMAIN s \/ k = n) /\ t[n] = e
      /\ \A k \in DOMAIN s : t[k] = s[k]
  BY Anotar
<1>0. \A i : i \notin ConocidasDe(s) => BajasDe(s, i) = {}
  BY DEF BajasConocidas, BajasDe
<1> HIDE DEF t, n
<1>2. ASSUME NEW i PROVE BajasDe(t, i) = BajasDe(s, i)
  BY <1>1 DEF BajasDe
<1>3. \A i : \A k \in BajasDe(s, i) : t[k] = s[k]
  BY <1>1 DEF BajasDe
<1>4. EstadosDe(d, t)
  <2> SUFFICES ASSUME NEW i \in DOMAIN d, DeLaBoleta(d[i]), NEW k \in BajasDe(t, i)
               PROVE  /\ (\A j \in BajasDe(t, i) : j <= k) => d[i].estado = t[k].tipo
                      /\ \A j \in BajasDe(t, i) :
                           /\ j < k /\ t[j].tipo = t[k].tipo
                           /\ \A m \in BajasDe(t, i) : ~ (j < m /\ m < k)
                           => leyo[t[k].por] < j
    BY Zenon DEF EstadosDe
  <2>1. i \in DOMAIN db /\ DeLaBoleta(db[i]) /\ d[i].estado = db[i].estado
    BY <1>0, <1>2 DEF DeLaBoleta
  <2>2. QED
    BY <2>1, <1>2, <1>3 DEF EstadosDe
<1>5. BajasConocidas(t)
  <2>1. ConocidasDe(s) \subseteq ConocidasDe(t)
    BY Contar DEF t
  <2>2. QED
    BY <1>1, <2>1 DEF BajasConocidas
<1>6. QED
  BY <1>2, <1>4, <1>5 DEF Sereno, t

\* A row is created.
LEMMA AltaAvanza ==
  ASSUME NEW db, NEW s, Bien(db, s), NEW i, i \notin ConocidasDe(s), NEW f,
         BienFormada(f), ~Colgante(db, f), ~Choca(db, f, i), Acorde(db, f), f.tabla = "anio" => ~f.activo,
         NEW e \in Evento, e.tipo = "CREADA", e.id = i
  PROVE  Avance(db, s, ConFila(db, i, f), Append(s, e)) /\ Sereno(db, s, ConFila(db, i, f), Append(s, e))
<1> DEFINE d == ConFila(db, i, f)  t == Append(s, e)
<1>1. s \in Seq(Evento) /\ i \notin DOMAIN db
  BY DEF Bien
<1>2. /\ Sanas(d) /\ Estable(db, d) /\ DOMAIN d = DOMAIN db \cup {i}
      /\ (\A j \in DOMAIN db : d[j] = db[j]) /\ d[i] = f
  <2>1. Sanas(db)
    BY DEF Bien
  <2>2. i \notin DOMAIN db
    BY <1>1
  <2>3. Sanas(ConFila(db, i, f)) /\ Estable(db, ConFila(db, i, f))
    BY <2>1, <2>2, Alta
  <2>4. DOMAIN ConFila(db, i, f) = DOMAIN db \cup {i} /\ (\A j \in DOMAIN db : ConFila(db, i, f)[j] = db[j])
          /\ ConFila(db, i, f)[i] = f
    BY <2>2 DEF ConFila
  <2>5. QED
    BY <2>3, <2>4
<1>3. t \in Seq(Evento) /\ ConocidasDe(t) = ConocidasDe(s) \cup {i} /\ \A k \in DOMAIN s : k \in DOMAIN t /\ t[k] = s[k]
  BY <1>1, Anotar, Contar
<1> HIDE DEF d
<1>4. Rastro(d, t)
  BY <1>1, <1>2, RastroAlta DEF Bien
<1>5. UnAnio(d, t)
  <2>1. UltimoDe(t) = UltimoDe(s) /\ (Activados(t) # {} => \E k \in Activados(t) : \A j \in Activados(t) : j <= k)
    BY <1>1, UltimoAnotado DEF Bien, UnAnio
  <2>2. ActivosDe(d) = ActivosDe(db)
    BY <1>1, <1>2 DEF ActivosDe
  <2>3. i \notin UltimoDe(s)
    BY DEF Bien, UnAnio
  <2>4. QED
    BY <2>1, <2>2, <2>3, <1>2, <1>3 DEF UnAnio, Bien
<1> HIDE DEF t
<1>6. EstadosDe(d, t) /\ BajasConocidas(t) /\ Sereno(db, s, d, t)
  BY <1>1, <1>2, EstadosSerenos DEF Bien, t
<1>7. DOMAIN d \subseteq ConocidasDe(t)
  BY <1>2, <1>3 DEF Bien
<1>8. Bien(d, t)
  BY <1>2, <1>3, <1>4, <1>5, <1>6, <1>7 DEF Bien
<1>9. QED
  BY <1>2, <1>3, <1>6, <1>8 DEF Avance, d, t

\* A row is edited, and neither its estado nor its activo with it.
LEMMA EdicionAvanza ==
  ASSUME NEW db, NEW s, Bien(db, s), NEW i \in DOMAIN db, NEW g, Mismas(db[i], g),
         BienFormada(g), ~Colgante(db, g), ~Choca(db, g, i), Acorde(db, g),
         g.tabla = "anio" => g.activo = db[i].activo, DeLaBoleta(g) => g.estado = db[i].estado,
         NEW e \in Evento, e.tipo = "ACTUALIZADA"
  PROVE  Avance(db, s, [db EXCEPT ![i] = g], Append(s, e)) /\ Sereno(db, s, [db EXCEPT ![i] = g], Append(s, e))
<1> DEFINE d == [db EXCEPT ![i] = g]  t == Append(s, e)
<1>1. s \in Seq(Evento)
  BY DEF Bien
<1>2. Sanas(d) /\ Estable(db, d) /\ DOMAIN d = DOMAIN db /\ (\A j \in DOMAIN db \ {i} : d[j] = db[j]) /\ d[i] = g
  BY Edicion DEF Bien
<1>3. t \in Seq(Evento) /\ ConocidasDe(t) = ConocidasDe(s) /\ \A k \in DOMAIN s : k \in DOMAIN t /\ t[k] = s[k]
  BY <1>1, Anotar, NoNacida
<1> HIDE DEF d
<1>4. Rastro(d, t)
  BY <1>1, <1>2, RastroOtro DEF Bien
<1>5. UnAnio(d, t)
  <2>1. UltimoDe(t) = UltimoDe(s) /\ (Activados(t) # {} => \E k \in Activados(t) : \A j \in Activados(t) : j <= k)
    BY <1>1, UltimoAnotado DEF Bien, UnAnio
  <2>2. ActivosDe(d) = ActivosDe(db)
    BY <1>2 DEF ActivosDe, Mismas
  <2>3. QED
    BY <2>1, <2>2, <1>2, <1>3 DEF UnAnio, Bien
<1> HIDE DEF t
<1>6. EstadosDe(d, t) /\ BajasConocidas(t) /\ Sereno(db, s, d, t)
  BY <1>1, <1>2, EstadosSerenos DEF Bien, t, Mismas, DeLaBoleta
<1>7. DOMAIN d \subseteq ConocidasDe(t)
  BY <1>2, <1>3 DEF Bien
<1>8. Bien(d, t)
  BY <1>2, <1>3, <1>4, <1>5, <1>6, <1>7 DEF Bien
<1>9. QED
  BY <1>2, <1>3, <1>6, <1>8 DEF Avance, d, t

\* A row that nothing refers to is deleted.
LEMMA BajaAvanza ==
  ASSUME NEW db, NEW s, Bien(db, s), NEW i \in DOMAIN db, \A j \in DOMAIN db \ {i} : i \notin Refs(db[j]),
         db[i].tabla # "usuario",
         NEW e \in Evento, e.tipo = "ELIMINADA", e.id = i
  PROVE  LET d == [j \in DOMAIN db \ {i} |-> db[j]] IN Avance(db, s, d, Append(s, e)) /\ Sereno(db, s, d, Append(s, e))
<1> DEFINE d == [j \in DOMAIN db \ {i} |-> db[j]]  t == Append(s, e)
<1>1. s \in Seq(Evento)
  BY DEF Bien
<1>2. Sanas(d) /\ Estable(db, d) /\ DOMAIN d = DOMAIN db \ {i} /\ (\A j \in DOMAIN d : d[j] = db[j])
  <2>1. \A j \in DOMAIN db \ {i} : Refs(db[j]) \cap {i} = {}
    OBVIOUS
  <2>2. QED
    BY <2>1, Baja DEF Bien
<1>3. t \in Seq(Evento) /\ ConocidasDe(t) = ConocidasDe(s) /\ \A k \in DOMAIN s : k \in DOMAIN t /\ t[k] = s[k]
  BY <1>1, Anotar, NoNacida
<1> HIDE DEF d
<1>4. Rastro(d, t)
  BY <1>1, <1>2, RastroBaja DEF Bien
<1>5. UnAnio(d, t)
  <2>1. UltimoDe(t) = UltimoDe(s) /\ (Activados(t) # {} => \E k \in Activados(t) : \A j \in Activados(t) : j <= k)
    BY <1>1, UltimoAnotado DEF Bien, UnAnio
  <2>2. ActivosDe(d) = ActivosDe(db) \ {i}
    BY <1>2 DEF ActivosDe
  <2>3. QED
    BY <2>1, <2>2, <1>2, <1>3 DEF UnAnio, Bien
<1> HIDE DEF t
<1>6. EstadosDe(d, t) /\ BajasConocidas(t) /\ Sereno(db, s, d, t)
  BY <1>1, <1>2, EstadosSerenos DEF Bien, t
<1>7. DOMAIN d \subseteq ConocidasDe(t)
  BY <1>2, <1>3 DEF Bien
<1>8. Bien(d, t)
  BY <1>2, <1>3, <1>4, <1>5, <1>6, <1>7 DEF Bien
<1>9. QED
  BY <1>2, <1>3, <1>6, <1>8 DEF Avance, d, t

\* A proceso is deleted with what belongs to it.
LEMMA ProcesoAvanza ==
  ASSUME NEW db, NEW s, Bien(db, s), NEW X, \A j \in DOMAIN db \ X : Refs(db[j]) \cap X = {},
         \A j \in DOMAIN db \cap X : db[j].tabla \notin {"usuario", "anio"},
         NEW e \in Evento, e.tipo = "PROCESO_ELIMINADO"
  PROVE  LET d == [j \in DOMAIN db \ X |-> db[j]] IN Avance(db, s, d, Append(s, e)) /\ Sereno(db, s, d, Append(s, e))
<1> DEFINE d == [j \in DOMAIN db \ X |-> db[j]]  t == Append(s, e)
<1>1. s \in Seq(Evento)
  BY DEF Bien
<1>2. Sanas(d) /\ Estable(db, d) /\ DOMAIN d = DOMAIN db \ X /\ (\A j \in DOMAIN d : d[j] = db[j])
  BY Baja DEF Bien
<1>3. t \in Seq(Evento) /\ ConocidasDe(t) = ConocidasDe(s) /\ \A k \in DOMAIN s : k \in DOMAIN t /\ t[k] = s[k]
  BY <1>1, Anotar, NoNacida
<1> HIDE DEF d
<1>4. Rastro(d, t)
  BY <1>1, <1>2, RastroOtro DEF Bien
<1>5. UnAnio(d, t)
  <2>1. UltimoDe(t) = UltimoDe(s) /\ (Activados(t) # {} => \E k \in Activados(t) : \A j \in Activados(t) : j <= k)
    BY <1>1, UltimoAnotado DEF Bien, UnAnio
  <2>2. ActivosDe(d) = ActivosDe(db) /\ ActivosDe(db) \subseteq DOMAIN d
    BY <1>2 DEF ActivosDe
  <2>3. QED
    BY <2>1, <2>2, <1>2, <1>3 DEF UnAnio, Bien
<1> HIDE DEF t
<1>6. EstadosDe(d, t) /\ BajasConocidas(t) /\ Sereno(db, s, d, t)
  BY <1>1, <1>2, EstadosSerenos DEF Bien, t
<1>7. DOMAIN d \subseteq ConocidasDe(t)
  BY <1>2, <1>3 DEF Bien
<1>8. Bien(d, t)
  BY <1>2, <1>3, <1>4, <1>5, <1>6, <1>7 DEF Bien
<1>9. QED
  BY <1>2, <1>3, <1>6, <1>8 DEF Avance, d, t

\* An event about no row.
LEMMA AnuncioAvanza ==
  ASSUME NEW db, NEW s, Bien(db, s), NEW e \in Evento, e.tipo = "PADRON_IMPORTADO"
  PROVE  Avance(db, s, db, Append(s, e)) /\ Sereno(db, s, db, Append(s, e))
<1> DEFINE t == Append(s, e)
<1>1. s \in Seq(Evento)
  BY DEF Bien
<1>2. t \in Seq(Evento) /\ ConocidasDe(t) = ConocidasDe(s) /\ \A k \in DOMAIN s : k \in DOMAIN t /\ t[k] = s[k]
  BY <1>1, Anotar, NoNacida
<1>3. Rastro(db, t)
  BY <1>1, RastroOtro DEF Bien
<1>4. UnAnio(db, t)
  BY <1>1, <1>2, UltimoAnotado DEF Bien, UnAnio
<1> HIDE DEF t
<1>5. EstadosDe(db, t) /\ BajasConocidas(t) /\ Sereno(db, s, db, t)
  BY <1>1, EstadosSerenos DEF Bien, t
<1>6. Bien(db, t)
  BY <1>2, <1>3, <1>4, <1>5 DEF Bien
<1>7. Estable(db, db)
  BY DEF Estable, Mismas
<1>8. QED
  BY <1>2, <1>5, <1>6, <1>7 DEF Avance, t

\* A row of the ballot takes the estado that is audited, by a handler to whom it was another
\* unless somebody audited a change of it since.
LEMMA EstadoAvanza ==
  ASSUME NEW db, NEW s, Bien(db, s), NEW i \in DOMAIN db, DeLaBoleta(db[i]),
         NEW e \in Evento, e.tipo \in {"activo", "baja"}, e.id = i,
         (\A k \in BajasDe(s, i) : k <= leyo[e.por]) => db[i].estado # e.tipo, leyo[e.por] \in Nat
  PROVE  Avance(db, s, [db EXCEPT ![i].estado = e.tipo], Append(s, e))
<1> DEFINE g == [db[i] EXCEPT !.estado = e.tipo]  d == [db EXCEPT ![i] = g]  t == Append(s, e)  n == Len(s) + 1
<1>1. s \in Seq(Evento) /\ Sanas(db) /\ BienFormada(db[i])
  BY DEF Bien, Sanas, FilaSana
<1>2. "estado" \in DOMAIN db[i] /\ "tabla" \in DOMAIN db[i]
  BY <1>1, LlavesDeTabla DEF DeLaBoleta
<1>3. g.estado = e.tipo /\ SoloEstado(db[i], g) /\ g.tabla = db[i].tabla
  BY <1>2 DEF SoloEstado
<1> HIDE DEF g
<1>4. DOMAIN d = DOMAIN db /\ d[i] = g /\ \A j \in DOMAIN db \ {i} : d[j] = db[j]
  OBVIOUS
<1> HIDE DEF d
<1>5. Sanas(d) /\ Estable(db, d)
  <2>1. \A j \in DOMAIN db : SoloEstado(db[j], d[j])
    BY <1>3, <1>4 DEF SoloEstado
  <2>2. QED
    BY <1>1, <1>4, <2>1, Marca
<1>6. t \in Seq(Evento) /\ ConocidasDe(t) = ConocidasDe(s) /\ \A k \in DOMAIN s : k \in DOMAIN t /\ t[k] = s[k]
  BY <1>1, Anotar, NoNacida
<1>7. Rastro(d, t)
  BY <1>1, <1>4, RastroOtro DEF Bien
<1>8. UnAnio(d, t)
  <2>1. UltimoDe(t) = UltimoDe(s) /\ (Activados(t) # {} => \E k \in Activados(t) : \A j \in Activados(t) : j <= k)
    BY <1>1, UltimoAnotado DEF Bien, UnAnio
  <2>2. ActivosDe(d) = ActivosDe(db)
    BY <1>3, <1>4 DEF ActivosDe, DeLaBoleta
  <2>3. QED
    BY <2>1, <2>2, <1>4, <1>6 DEF UnAnio, Bien
<1>9. /\ n \in Nat /\ DOMAIN s = 1 .. Len(s) /\ DOMAIN t = DOMAIN s \cup {n} /\ n \notin DOMAIN s
      /\ (\A k \in DOMAIN s : t[k] = s[k] /\ k < n /\ k \in Nat) /\ t[n] = e
  BY <1>1, Anotar
<1> HIDE DEF t, n
<1>10. BajasConocidas(t)
  BY <1>9, <1>6 DEF BajasConocidas, Bien
<1>11. ASSUME NEW j, j # i PROVE BajasDe(t, j) = BajasDe(s, j)
  BY <1>9, <1>11 DEF BajasDe
<1>12. BajasDe(t, i) = BajasDe(s, i) \cup {n} /\ BajasDe(s, i) \subseteq DOMAIN s
  BY <1>9 DEF BajasDe
<1>13. EstadosDe(d, t)
  <2> SUFFICES ASSUME NEW r \in DOMAIN d, DeLaBoleta(d[r]), NEW k \in BajasDe(t, r)
               PROVE  /\ (\A j \in BajasDe(t, r) : j <= k) => d[r].estado = t[k].tipo
                      /\ \A j \in BajasDe(t, r) :
                           /\ j < k /\ t[j].tipo = t[k].tipo
                           /\ \A m \in BajasDe(t, r) : ~ (j < m /\ m < k)
                           => leyo[t[k].por] < j
    BY Zenon DEF EstadosDe
  <2>1. \A q \in DOMAIN db : DeLaBoleta(db[q]) => \A j \in BajasDe(s, q) :
          /\ (\A m \in BajasDe(s, q) : m <= j) => db[q].estado = s[j].tipo
          /\ \A l \in BajasDe(s, q) :
               /\ l < j /\ s[l].tipo = s[j].tipo
               /\ \A m \in BajasDe(s, q) : ~ (l < m /\ m < j)
               => leyo[s[j].por] < l
    BY Zenon DEF Bien, EstadosDe
  <2>2. CASE r # i
    <3>1. d[r] = db[r] /\ BajasDe(t, r) = BajasDe(s, r) /\ BajasDe(s, r) \subseteq DOMAIN s
      BY <2>2, <1>4, <1>11 DEF BajasDe
    <3>2. \A j \in BajasDe(s, r) : t[j] = s[j]
      BY <3>1, <1>9
    <3>3. QED
      BY <2>1, <3>1, <3>2, <1>4
  <2>3. CASE r = i /\ k # n
    <3>1. k \in BajasDe(s, i) /\ t[k] = s[k] /\ k < n
      BY <2>3, <1>9, <1>12
    <3>2. ~ \A j \in BajasDe(t, r) : j <= k
      BY <2>3, <3>1, <1>12, <1>9
    <3>3. ASSUME NEW j \in BajasDe(t, r), j < k, t[j].tipo = t[k].tipo,
                 \A m \in BajasDe(t, r) : ~ (j < m /\ m < k)
          PROVE  leyo[t[k].por] < j
      <4>1. j \in BajasDe(s, i) /\ t[j] = s[j]
        BY <3>1, <3>3, <2>3, <1>9, <1>12
      <4>2. \A m \in BajasDe(s, i) : ~ (j < m /\ m < k)
        BY <3>3, <2>3, <1>12
      <4>3. QED
        BY <4>1, <4>2, <3>1, <3>3, <2>1
    <3>4. QED
      BY <3>2, <3>3
  <2>4. CASE r = i /\ k = n
    <3>1. d[r].estado = t[k].tipo
      BY <2>4, <1>3, <1>4, <1>9
    <3>2. ASSUME NEW j \in BajasDe(t, r), j < k, t[j].tipo = t[k].tipo,
                 \A m \in BajasDe(t, r) : ~ (j < m /\ m < k)
          PROVE  leyo[t[k].por] < j
      <4>1. j \in BajasDe(s, i) /\ t[j] = s[j] /\ j \in Nat
        BY <3>2, <2>4, <1>9, <1>12
      <4>2. \A m \in BajasDe(s, i) : m <= j
        <5>1. ASSUME NEW m \in BajasDe(s, i) PROVE m <= j
          <6>1. m \in Nat /\ m < n /\ m \in BajasDe(t, r)
            BY <1>9, <1>12, <2>4
          <6>2. QED
            BY <6>1, <4>1, <3>2, <2>4
        <5>2. QED
          BY <5>1
      <4>3. db[i].estado = e.tipo
        BY <4>1, <4>2, <2>1, <3>2, <2>4, <1>9
      <4>4. ASSUME j <= leyo[e.por] PROVE FALSE
        <5>1. \A m \in BajasDe(s, i) : m <= leyo[e.por]
          <6>1. ASSUME NEW m \in BajasDe(s, i) PROVE m <= leyo[e.por]
            <7>1. m \in Nat /\ m <= j
              BY <1>9, <1>12, <4>2
            <7>2. QED
              BY <7>1, <4>1, <4>4
          <6>2. QED
            BY <6>1
        <5>2. QED
          BY <5>1, <4>3
      <4>5. QED
        BY <4>1, <4>4, <2>4, <1>9
    <3>3. QED
      BY <3>1, <3>2
  <2>5. QED
    BY <2>2, <2>3, <2>4
<1>14. DOMAIN d \subseteq ConocidasDe(t)
  BY <1>4, <1>6 DEF Bien
<1>15. Bien(d, t)
  BY <1>5, <1>6, <1>7, <1>8, <1>10, <1>13, <1>14 DEF Bien
<1>16. d = [db EXCEPT ![i].estado = e.tipo]
  BY DEF d, g
<1>17. QED
  BY <1>4, <1>5, <1>6, <1>15, <1>16 DEF Avance, t

\* A year is activated and the others are not: whichever were before.
LEMMA ActivarAvanza ==
  ASSUME NEW db, NEW s, Bien(db, s), NEW i \in DOMAIN db, db[i].tabla = "anio",
         NEW d, DOMAIN d = DOMAIN db, \A j \in DOMAIN db : SoloEstado(db[j], d[j]),
         \A j \in DOMAIN db : DeLaBoleta(db[j]) => d[j] = db[j],
         \A j \in DOMAIN db : d[j].tabla = "anio" => (d[j].activo <=> j = i),
         NEW e \in Evento, e.tipo = "ACTIVADO", e.id = i
  PROVE  Avance(db, s, d, Append(s, e)) /\ Sereno(db, s, d, Append(s, e))
<1> DEFINE t == Append(s, e)
<1>1. s \in Seq(Evento) /\ Sanas(db)
  BY DEF Bien
<1>2. Sanas(d) /\ Estable(db, d)
  BY <1>1, Marca
<1>3. t \in Seq(Evento) /\ ConocidasDe(t) = ConocidasDe(s) /\ \A k \in DOMAIN s : k \in DOMAIN t /\ t[k] = s[k]
  BY <1>1, Anotar, NoNacida
<1>4. Rastro(d, t)
  BY <1>1, RastroOtro DEF Bien
<1>5. \A j \in DOMAIN db : d[j].tabla = db[j].tabla
  BY <1>2 DEF Estable, Mismas
<1>6. UnAnio(d, t)
  <2>1. UltimoDe(t) = {i} /\ (Activados(t) # {} => \E k \in Activados(t) : \A j \in Activados(t) : j <= k)
    BY <1>1, UltimoAnotado DEF Bien, UnAnio
  <2>2. ActivosDe(d) = {i}
    BY <1>5 DEF ActivosDe
  <2>3. i \in ConocidasDe(t)
    BY <1>3 DEF Bien
  <2>4. QED
    BY <2>1, <2>2, <2>3 DEF UnAnio
<1> HIDE DEF t
<1>7. EstadosDe(d, t) /\ BajasConocidas(t) /\ Sereno(db, s, d, t)
  BY <1>1, <1>5, EstadosSerenos DEF Bien, t
<1>8. DOMAIN d \subseteq ConocidasDe(t)
  BY <1>3 DEF Bien
<1>9. Bien(d, t)
  BY <1>2, <1>3, <1>4, <1>6, <1>7, <1>8 DEF Bien
<1>10. QED
  BY <1>2, <1>3, <1>7, <1>9 DEF Avance, t

\* The estado of a proceso changes in the same transaction.
LEMMA ProcesoMarcado ==
  ASSUME NEW db, NEW s, NEW c, NEW t, Avance(db, s, c, t), Sereno(db, s, c, t),
         NEW i \in DOMAIN c, c[i].tabla = "proceso", NEW x
  PROVE  Avance(db, s, [c EXCEPT ![i].estado = x], t) /\ Sereno(db, s, [c EXCEPT ![i].estado = x], t)
<1> DEFINE g == [c[i] EXCEPT !.estado = x]  d == [c EXCEPT ![i] = g]
<1>1. Bien(c, t) /\ Sanas(c) /\ BienFormada(c[i])
  BY DEF Avance, Bien, Sanas, FilaSana
<1>2. "tabla" \in DOMAIN c[i] /\ SoloEstado(c[i], g) /\ g.tabla = "proceso"
  BY <1>1, LlavesDeTabla DEF SoloEstado
<1> HIDE DEF g
<1>3. DOMAIN d = DOMAIN c /\ d[i] = g /\ \A j \in DOMAIN c \ {i} : d[j] = c[j]
  OBVIOUS
<1> HIDE DEF d
<1>4. Sanas(d) /\ Estable(c, d)
  <2>1. \A j \in DOMAIN c : SoloEstado(c[j], d[j])
    BY <1>2, <1>3 DEF SoloEstado
  <2>2. QED
    BY <1>1, <1>3, <2>1, Marca
<1>5. Rastro(d, t)
  BY <1>1, <1>3 DEF Bien, Rastro, Hay
<1>6. UnAnio(d, t)
  <2>1. ActivosDe(d) = ActivosDe(c)
    BY <1>2, <1>3 DEF ActivosDe
  <2>2. QED
    BY <2>1, <1>1, <1>3 DEF UnAnio, Bien
<1>7. EstadosDe(d, t)
  <2>1. \A j \in DOMAIN d : DeLaBoleta(d[j]) => d[j] = c[j]
    BY <1>2, <1>3 DEF DeLaBoleta
  <2>2. QED
    BY <2>1, <1>1, <1>3, Zenon DEF EstadosDe, Bien
<1>8. Bien(d, t)
  BY <1>1, <1>3, <1>4, <1>5, <1>6, <1>7 DEF Bien
<1>9. Estable(db, d)
  BY <1>3, <1>4 DEF Estable, Mismas, Avance
<1>10. Sereno(db, s, d, t)
  <2>1. \A j \in DOMAIN db \cap DOMAIN d : DeLaBoleta(db[j]) => d[j] = c[j]
    BY <1>2, <1>3 DEF DeLaBoleta, Avance, Estable, Mismas
  <2>2. QED
    BY <2>1, <1>3 DEF Sereno
<1>11. d = [c EXCEPT ![i].estado = x]
  BY DEF d, g
<1>12. QED
  BY <1>3, <1>8, <1>9, <1>10, <1>11 DEF Avance

\* Two rows in one transaction.
LEMMA AvanzaDosVeces ==
  ASSUME NEW db, NEW s, NEW c, NEW r, NEW d, NEW t, DOMAIN db \subseteq DOMAIN c,
         Avance(db, s, c, r), Sereno(db, s, c, r), Avance(c, r, d, t), Sereno(c, r, d, t)
  PROVE  Avance(db, s, d, t) /\ Sereno(db, s, d, t)
<1>1. ASSUME NEW i \in DOMAIN db \cap DOMAIN d PROVE Mismas(db[i], d[i])
  <2>1. Mismas(db[i], c[i]) /\ Mismas(c[i], d[i])
    BY DEF Avance, Estable
  <2>2. QED
    BY <2>1 DEF Mismas
<1>2. Estable(db, d)
  BY <1>1 DEF Estable
<1>3. \A i \in DOMAIN db : db[i].tabla = "usuario" => c[i].tabla = "usuario" /\ i \in DOMAIN d
  BY DEF Avance, Estable, Mismas
<1>4. \A i \in DOMAIN d \ DOMAIN db : i \notin ConocidasDe(s)
  BY DEF Avance
<1>5. \A i \in DOMAIN db \cap DOMAIN d : DeLaBoleta(db[i]) => d[i].estado = db[i].estado
  <2>1. \A i \in DOMAIN db \cap DOMAIN d : DeLaBoleta(db[i]) => DeLaBoleta(c[i])
    BY DEF Avance, Estable, Mismas, DeLaBoleta
  <2>2. QED
    BY <2>1 DEF Sereno
<1>6. \A k \in DOMAIN s : k \in DOMAIN t /\ t[k] = s[k]
  BY DEF Avance
<1>7. Bien(d, t) /\ ConocidasDe(s) \subseteq ConocidasDe(t)
  BY DEF Avance
<1>8. \A i : BajasDe(t, i) = BajasDe(s, i)
  BY DEF Sereno
<1>9. QED
  BY <1>2, <1>3, <1>4, <1>5, <1>6, <1>7, <1>8 DEF Avance, Sereno
-----------------------------------------------------------------------------
(* The writes of the handlers *)

InvAdministracion ==
  /\ Tipos /\ (\A h \in Peticiones : Atiende(h)) /\ Nacimientos
  /\ Bien(base, auditoria)
  /\ Leido /\ EstadosHechos /\ (\A h \in Peticiones : Cuenta(h)) /\ Anuncios

\* A step that writes nothing.
LEMMA AvanzaQuieto ==
  ASSUME NEW db, NEW s, Bien(db, s)
  PROVE  Avance(db, s, db, s) /\ Sereno(db, s, db, s)
<1>1. Estable(db, db)
  BY DEF Estable, Mismas
<1>2. QED
  BY <1>1 DEF Avance, Sereno

\* The request of a handler is a valid one.
LEMMA Validada ==
  ASSUME InvAdministracion, NEW h \in Peticiones, pc[h] # "libre"
  PROVE  op[h] \in agenda /\ PeticionValida(op[h]) /\ op[h] # Nulo
  BY ConstantesRegistro DEF InvAdministracion, Tipos, Atiende

\* The id a handler will give is not in use, and never was.
LEMMA IdLibre ==
  ASSUME InvAdministracion, NEW h \in Peticiones, pc[h] = "escribir", NEW t \in DOMAIN Columnas
  PROVE  <<h, t>> \notin ConocidasDe(auditoria)
<1>1. <<h, t>> \notin DOMAIN Inicial
  BY ConstantesRegistro
<1>2. ASSUME NEW k \in DOMAIN auditoria, auditoria[k].tipo = "CREADA", auditoria[k].id = <<h, t>> PROVE FALSE
  <2>1. NacidaDe(<<h, t>>, auditoria[k].por)
    BY <1>2 DEF InvAdministracion, Nacimientos
  <2>2. op[h].accion # "importar"
    BY DEF InvAdministracion, Atiende
  <2>3. QED
    BY <2>1, <2>2 DEF NacidaDe
<1>3. QED
  BY <1>1, <1>2 DEF ConocidasDe

\* Nor are those of the row an import is at.
LEMMA IdsLibres ==
  ASSUME InvAdministracion, NEW h \in Peticiones, pc[h] \in {"suelta", "juntas"}
  PROVE  /\ IdUsuario(h) \notin ConocidasDe(auditoria) /\ IdMatricula(h) \notin ConocidasDe(auditoria)
         /\ fila[h].n \in Nat /\ fila[h].n \in DOMAIN op[h].fila
<1>1. op[h].accion = "importar" /\ op[h] \in agenda /\ PeticionValida(op[h])
  BY Validada DEF InvAdministracion, Atiende
<1>2. fila[h].n \in 1 .. Len(op[h].fila) /\ DOMAIN op[h].fila = 1 .. Len(op[h].fila) /\ fila[h].n \in Nat
  BY <1>1 DEF InvAdministracion, Cuenta, PeticionValida, Tipos
<1>3. IdUsuario(h) \notin DOMAIN Inicial /\ IdMatricula(h) \notin DOMAIN Inicial
  BY <1>1, <1>2, ConstantesRegistro DEF IdUsuario, IdMatricula, InvAdministracion, Tipos
<1>4. ASSUME NEW k \in DOMAIN auditoria, auditoria[k].tipo = "CREADA",
             auditoria[k].id = IdUsuario(h) \/ auditoria[k].id = IdMatricula(h)
      PROVE  FALSE
  <2>1. NacidaDe(auditoria[k].id, auditoria[k].por)
    BY <1>4 DEF InvAdministracion, Nacimientos
  <2>2. QED
    BY <2>1, <1>2, <1>4 DEF NacidaDe, IdUsuario, IdMatricula
<1>5. QED
  BY <1>2, <1>3, <1>4 DEF ConocidasDe

\* The event of a write.
LEMMA EventoDe ==
  ASSUME NEW h \in Peticiones, NEW i \in Ids, NEW tipo \in TiposDeEvento, NEW s \in Seq(Evento)
  PROVE  [tipo |-> tipo, id |-> i, por |-> h] \in Evento
  BY DEF Evento

\* The ids in use are ids.
LEMMA SonIds ==
  ASSUME Bien(base, auditoria)
  PROVE  auditoria \in Seq(Evento) /\ (\A i \in DOMAIN base : i \in Ids) /\ \A i \in ConocidasDe(auditoria) : i \in Ids
<1>1. auditoria \in Seq(Evento) /\ DOMAIN base \subseteq ConocidasDe(auditoria)
  BY DEF Bien
<1>2. \A k \in DOMAIN auditoria : auditoria[k] \in Evento
  BY <1>1
<1>3. \A i \in ConocidasDe(auditoria) : i \in Ids
  BY <1>2 DEF ConocidasDe, Evento, Ids
<1>4. QED
  BY <1>1, <1>3

AvanceBase == Avance(base, auditoria, base', auditoria')
SerenoBase == Sereno(base, auditoria, base', auditoria')

\* INSERT.
LEMMA InsertarAvanza ==
  ASSUME InvAdministracion, NEW h \in Peticiones, Insertar(h)
  PROVE  AvanceBase /\ SerenoBase
<1> DEFINE f == op[h].fila  i == IdNueva(h)
<1>1. Bien(base, auditoria) /\ auditoria \in Seq(Evento) /\ pc[h] = "escribir" /\ op[h].accion = "crear"
  BY SonIds DEF InvAdministracion, Insertar
<1>2. BienFormada(f) /\ (f.tabla = "anio" => ~f.activo)
  BY <1>1, Validada DEF PeticionValida
<1>3. f.tabla \in DOMAIN Columnas /\ i \notin ConocidasDe(auditoria) /\ i \in Ids
  BY <1>1, <1>2, IdLibre DEF BienFormada, IdNueva, Ids
<1>4. Acorde(base, f)
  BY <1>1 DEF InvAdministracion, Leido, LeidoCrear
<1>5. CASE Choca(base, f, i) \/ Colgante(base, f)
  BY <1>1, <1>5, AvanzaQuieto DEF Insertar, AvanceBase, SerenoBase
<1>6. CASE ~(Choca(base, f, i) \/ Colgante(base, f))
  <2> DEFINE e == [tipo |-> "CREADA", id |-> i, por |-> h]
  <2>1. base' = ConFila(base, i, f) /\ auditoria' = Append(auditoria, e)
    BY <1>6 DEF Insertar, Auditar
  <2> HIDE DEF f, i
  <2>2. e \in Evento /\ e.tipo = "CREADA" /\ e.id = i
    BY <1>1, <1>3, SMT DEF Evento, TiposDeEvento
  <2> HIDE DEF e
  <2>3. QED
    BY <1>1, <1>2, <1>3, <1>4, <1>6, <2>1, <2>2, AltaAvanza DEF AvanceBase, SerenoBase
<1>7. QED
  BY <1>5, <1>6

\* Nulo is no id.
LEMMA NuloDesconocido ==
  ASSUME InvAdministracion
  PROVE  Nulo \notin ConocidasDe(auditoria) /\ Nulo \notin DOMAIN base
<1>1. ASSUME NEW k \in DOMAIN auditoria, auditoria[k].tipo = "CREADA", auditoria[k].id = Nulo PROVE FALSE
  <2> DEFINE q == auditoria[k].por
  <2>1. q \in Peticiones
    <3>1. auditoria \in Seq(Evento)
      BY SonIds DEF InvAdministracion
    <3>2. auditoria[k] \in Evento
      BY <3>1
    <3>3. QED
      BY <3>2 DEF Evento
  <2>2. NacidaDe(Nulo, q)
    BY <1>1 DEF InvAdministracion, Nacimientos
  <2> HIDE DEF q
  <2>3. CASE pc[q] = "fin" /\ \E t \in DOMAIN Columnas : Nulo = <<q, t>>
    BY <2>1, <2>3, ConstantesRegistro
  <2>4. CASE /\ pc[q] # "libre" /\ op[q].accion = "importar"
             /\ \E n \in DOMAIN op[q].fila : Nulo = <<q, "usuario", n>> \/ Nulo = <<q, "matricula", n>>
    <3>1. op[q] \in agenda /\ agenda \in Agendas
      BY <2>1, <2>4, Validada DEF InvAdministracion, Tipos
    <3>2. QED
      BY <2>1, <2>4, <3>1, ConstantesRegistro
  <2>5. QED
    BY <2>2, <2>3, <2>4, Zenon DEF NacidaDe
<1>2. Nulo \notin ConocidasDe(auditoria)
  BY <1>1, ConstantesRegistro DEF ConocidasDe
<1>3. QED
  BY <1>2 DEF InvAdministracion, Bien

\* An edit of the columns a PATCH may name.
LEMMA ConMismas ==
  ASSUME NEW f, BienFormada(f), NEW c, DOMAIN c \subseteq Editables
  PROVE  /\ Mismas(f, Con(f, c)) /\ BienFormada(Con(f, c))
         /\ \A k \in DOMAIN f \ DOMAIN c : Con(f, c)[k] = f[k]
         /\ \A k \in DOMAIN f \cap DOMAIN c : Con(f, c)[k] = c[k]
<1> DEFINE g == Con(f, c)
<1>1. /\ DOMAIN g = DOMAIN f /\ (\A k \in DOMAIN f \ DOMAIN c : g[k] = f[k])
      /\ \A k \in DOMAIN f \cap DOMAIN c : g[k] = c[k]
  BY DEF Con
<1> HIDE DEF g
<1>2. "tabla" \in DOMAIN f \ DOMAIN c
  BY LlavesDeTabla DEF Editables
<1>3. \A k \in DOMAIN Foraneas : k # "lista" => k \notin DOMAIN c
  BY LlavesForaneas DEF Editables
<1>4. Mismas(f, g)
  BY <1>1, <1>2, <1>3 DEF Mismas
<1>5. BienFormada(g)
  BY <1>4 DEF BienFormada, Mismas
<1>6. QED
  BY <1>1, <1>4, <1>5 DEF g

\* UPDATE.
LEMMA ModificarAvanza ==
  ASSUME InvAdministracion, NEW h \in Peticiones, Modificar(h)
  PROVE  AvanceBase /\ SerenoBase
<1> DEFINE c == op[h].fila  i == op[h].id  g == Con(base[i], c)
<1>1. Bien(base, auditoria) /\ auditoria \in Seq(Evento) /\ pc[h] = "escribir" /\ op[h].accion = "actualizar"
  BY SonIds DEF InvAdministracion, Modificar
<1>2. DOMAIN c \subseteq Editables
  BY <1>1, Validada DEF PeticionValida
<1>3. CASE ~Existe(i) \/ Colgante(base, g) \/ Choca(base, g, i)
  <2>1. base' = base /\ auditoria' = auditoria
    BY <1>3, Zenon DEF Modificar
  <2>2. QED
    BY <1>1, <2>1, AvanzaQuieto DEF AvanceBase, SerenoBase
<1>4. CASE Existe(i) /\ ~Colgante(base, g) /\ ~Choca(base, g, i)
  <2> DEFINE e == [tipo |-> "ACTUALIZADA", id |-> i, por |-> h]
  <2>1. base' = [base EXCEPT ![i] = g] /\ auditoria' = Append(auditoria, e)
    BY <1>4 DEF Modificar, Auditar
  <2>2. i \in DOMAIN base /\ BienFormada(base[i]) /\ Acorde(base, base[i]) /\ i \in Ids
    BY <1>1, <1>4, SonIds DEF Bien, Sanas, FilaSana, Existe
  <2>3. "lista" \in DOMAIN c /\ c.lista # Nulo /\ base[i].tabla = "candidato" /\ c.lista \in DOMAIN base =>
          base[c.lista].tabla = "lista" /\ base[c.lista].proceso = base[i].proceso
    BY <1>1, <1>4 DEF InvAdministracion, Leido, LeidaLista, Existe
  <2>4. /\ Mismas(base[i], g) /\ BienFormada(g)
        /\ \A k \in DOMAIN base[i] \ DOMAIN c : g[k] = base[i][k]
        /\ \A k \in DOMAIN base[i] \cap DOMAIN c : g[k] = c[k]
    BY <1>2, <2>2, ConMismas
  <2>5. e \in Evento /\ e.tipo = "ACTUALIZADA"
    <3> HIDE DEF i
    <3>1. QED
      BY <2>2 DEF Evento, TiposDeEvento
  <2> HIDE DEF g, e, c, i
  <2>6. Acorde(base, g)
    <3>1. \A k \in DOMAIN base[i] \cap DOMAIN Foraneas : k # "lista" => g[k] = base[i][k]
      BY <2>4 DEF Mismas
    <3>2. g.tabla = base[i].tabla
      BY <2>4 DEF Mismas
    <3>3. g.tabla = "aula" => g.seccion = base[i].seccion /\ g.grado = base[i].grado /\ g.anio = base[i].anio
      BY <2>2, <3>1, <3>2, LlavesDeTabla, LlavesForaneas
    <3>4. g.tabla = "matricula" => g.aula = base[i].aula /\ g.anio = base[i].anio
      BY <2>2, <3>1, <3>2, LlavesDeTabla, LlavesForaneas
    <3>5. g.tabla = "voto" => g.elegida = base[i].elegida /\ g.proceso = base[i].proceso
      BY <2>2, <3>1, <3>2, LlavesDeTabla, LlavesForaneas
    <3>6. g.tabla = "candidato" => "lista" \in DOMAIN base[i] /\ g.proceso = base[i].proceso
      <4>1. g.tabla = "candidato" => "lista" \in DOMAIN base[i] /\ "proceso" \in DOMAIN base[i]
        BY <2>2, <3>2, LlavesDeTabla
      <4>2. QED
        BY <4>1, <3>1, LlavesForaneas
    <3>7. g.tabla = "candidato" /\ g.lista # Nulo /\ g.lista \in DOMAIN base =>
            base[g.lista].tabla = "lista" /\ base[g.lista].proceso = g.proceso
      <4>1. CASE "lista" \in DOMAIN c
        BY <4>1, <3>2, <3>6, <2>3, <2>4
      <4>2. CASE "lista" \notin DOMAIN c
        BY <4>2, <3>2, <3>6, <2>2, <2>4 DEF Acorde
      <4>3. QED
        BY <4>1, <4>2
    <3>8. QED
      BY <2>2, <3>2, <3>3, <3>4, <3>5, <3>7 DEF Acorde
  <2>7. (g.tabla = "anio" => g.activo = base[i].activo) /\ (DeLaBoleta(g) => g.estado = base[i].estado)
    <3>1. "activo" \notin DOMAIN c /\ "estado" \notin DOMAIN c
      BY <1>2 DEF Editables
    <3>2. g.tabla = base[i].tabla
      BY <2>4 DEF Mismas
    <3>3. QED
      BY <3>1, <3>2, <2>2, <2>4, LlavesDeTabla DEF DeLaBoleta
  <2>8. ~Colgante(base, g) /\ ~Choca(base, g, i)
    BY <1>4
  <2>9. QED
    BY <1>1, <2>1, <2>2, <2>4, <2>5, <2>6, <2>7, <2>8, EdicionAvanza DEF AvanceBase, SerenoBase
<1>5. QED
  BY <1>3, <1>4

\* DELETE.
LEMMA BorrarAvanza ==
  ASSUME InvAdministracion, NEW h \in Peticiones, Borrar(h)
  PROVE  AvanceBase /\ SerenoBase
<1> DEFINE i == op[h].id
<1>1. Bien(base, auditoria) /\ auditoria \in Seq(Evento) /\ pc[h] = "escribir" /\ op[h].accion = "eliminar"
  BY SonIds DEF InvAdministracion, Borrar
<1>2. CASE ~Existe(i) \/ Referida(i)
  <2>1. base' = base /\ auditoria' = auditoria
    BY <1>2, Zenon DEF Borrar
  <2>2. QED
    BY <1>1, <2>1, AvanzaQuieto DEF AvanceBase, SerenoBase
<1>3. CASE Existe(i) /\ ~Referida(i)
  <2> DEFINE e == [tipo |-> "ELIMINADA", id |-> i, por |-> h]
  <2>1. base' = [j \in DOMAIN base \ {i} |-> base[j]] /\ auditoria' = Append(auditoria, e)
    BY <1>3 DEF Borrar, Auditar
  <2>2. i \in DOMAIN base /\ i \in Ids /\ \A j \in DOMAIN base \ {i} : i \notin Refs(base[j])
    BY <1>1, <1>3, SonIds DEF Existe, Referida
  <2>3. base[i].tabla # "usuario"
    BY <1>1, <2>2 DEF InvAdministracion, Leido, LeidaFila, TablasDe, Existe
  <2> HIDE DEF i
  <2>4. e \in Evento /\ e.tipo = "ELIMINADA" /\ e.id = i
    BY <2>2 DEF Evento, TiposDeEvento
  <2> HIDE DEF e
  <2>5. QED
    BY <1>1, <2>1, <2>2, <2>3, <2>4, BajaAvanza DEF AvanceBase, SerenoBase
<1>4. QED
  BY <1>2, <1>3

\* The change of estado.
LEMMA CambiarEstadoAvanza ==
  ASSUME InvAdministracion, NEW h \in Peticiones, CambiarEstado(h)
  PROVE  AvanceBase
<1> DEFINE i == op[h].id  x == op[h].fila.estado
<1>1. /\ Bien(base, auditoria) /\ auditoria \in Seq(Evento) /\ pc[h] = "escribir" /\ op[h].accion = "estado"
      /\ x \in {"activo", "baja"} /\ leyo[h] \in Nat
  BY SonIds, Validada DEF InvAdministracion, CambiarEstado, PeticionValida, Tipos
<1>2. CASE ~Existe(i)
  <2>1. base' = base /\ auditoria' = auditoria
    BY <1>2, Zenon DEF CambiarEstado
  <2>2. QED
    BY <1>1, <2>1, AvanzaQuieto DEF AvanceBase
<1>3. CASE Existe(i)
  <2> DEFINE e == [tipo |-> x, id |-> i, por |-> h]
  <2>1. base' = [base EXCEPT ![i].estado = x] /\ auditoria' = Append(auditoria, e)
    BY <1>3 DEF CambiarEstado, Auditar
  <2>2. i \in DOMAIN base /\ i \in Ids
    BY <1>1, <1>3, SonIds DEF Existe
  <2>3. DeLaBoleta(base[i])
    BY <1>1, <2>2 DEF InvAdministracion, Leido, LeidaFila, TablasDe, Existe, DeLaBoleta
  <2>5. (\A k \in BajasDe(auditoria, i) : k <= leyo[h]) => base[i].estado # x
    <3>1. LeidoEstado(h)
      BY DEF InvAdministracion, Leido
    <3>2. QED
      BY <1>1, <2>2, <3>1 DEF LeidoEstado, Existe
  <2> HIDE DEF i, x
  <2>6. e \in Evento /\ e.tipo = x /\ e.id = i /\ e.por = h
    BY <1>1, <2>2 DEF Evento, TiposDeEvento
  <2> HIDE DEF e
  <2>7. Avance(base, auditoria, [base EXCEPT ![i].estado = e.tipo], Append(auditoria, e))
    BY <1>1, <2>2, <2>3, <2>5, <2>6, EstadoAvanza
  <2>8. QED
    BY <2>1, <2>6, <2>7 DEF AvanceBase
<1>4. QED
  BY <1>2, <1>3

\* The opening of a proceso, with its rights.
LEMMA AbrirAvanza ==
  ASSUME InvAdministracion, NEW h \in Peticiones, Abrir(h)
  PROVE  AvanceBase /\ SerenoBase
<1> DEFINE i == op[h].id  f == [tabla |-> "derecho", proceso |-> i]  j == <<h, "derecho">>
<1>1. Bien(base, auditoria) /\ auditoria \in Seq(Evento) /\ pc[h] = "escribir" /\ op[h].accion = "abrir"
  BY SonIds DEF InvAdministracion, Abrir
<1>2. CASE ~(Existe(i) /\ base[i].estado = "borrador")
  <2>1. base' = base /\ auditoria' = auditoria
    BY <1>2, Zenon DEF Abrir
  <2>2. QED
    BY <1>1, <2>1, AvanzaQuieto DEF AvanceBase, SerenoBase
<1>3. CASE Existe(i) /\ base[i].estado = "borrador"
  <2> DEFINE e == [tipo |-> "CREADA", id |-> j, por |-> h]  c == ConFila(base, j, f)
  <2>1. base' = [c EXCEPT ![i].estado = "abierto"] /\ auditoria' = Append(auditoria, e)
    BY <1>3 DEF Abrir, Auditar
  <2>2. i \in DOMAIN base /\ i # Nulo /\ base[i].tabla = "proceso"
    BY <1>1, <1>3, NuloDesconocido DEF InvAdministracion, Leido, LeidaFila, TablasDe, Existe
  <2>3. j \notin ConocidasDe(auditoria) /\ j \in Ids /\ j \notin DOMAIN base
    <3>1. "derecho" \in DOMAIN Columnas
      BY DEF Columnas
    <3>2. QED
      BY <1>1, <3>1, IdLibre DEF Ids, Bien
  <2>4. BienFormada(f) /\ DOMAIN f = {"tabla", "proceso"} /\ f.proceso = i /\ f.tabla = "derecho"
    <3>1. "derecho" \in DOMAIN Columnas /\ Columnas["derecho"] = {"proceso"}
      BY DEF Columnas
    <3>2. DOMAIN f = {"tabla", "proceso"} /\ f.proceso = i /\ f.tabla = "derecho"
      OBVIOUS
    <3> HIDE DEF f, i
    <3>3. \A k \in DOMAIN f \cap DOMAIN Foraneas : f[k] # Nulo
      BY <2>2, <3>2, LlavesForaneas
    <3>4. QED
      BY <3>1, <3>2, <3>3 DEF BienFormada
  <2> HIDE DEF f, i
  <2>5. ~Colgante(base, f)
    BY <2>2, <2>4, LlavesForaneas DEF Colgante, Llaves
  <2>6. ~Choca(base, f, j)
    BY <2>4 DEF Choca, Indices
  <2>7. Acorde(base, f)
    BY <2>4 DEF Acorde
  <2> HIDE DEF j
  <2>8. e \in Evento /\ e.tipo = "CREADA" /\ e.id = j
    BY <2>3 DEF Evento, TiposDeEvento
  <2> HIDE DEF e
  <2>9. Avance(base, auditoria, c, Append(auditoria, e)) /\ Sereno(base, auditoria, c, Append(auditoria, e))
    BY <1>1, <2>3, <2>4, <2>5, <2>6, <2>7, <2>8, AltaAvanza
  <2>10. i \in DOMAIN c /\ c[i].tabla = "proceso"
    BY <2>2, <2>3 DEF ConFila
  <2> HIDE DEF c
  <2>11. QED
    BY <2>1, <2>9, <2>10, ProcesoMarcado DEF AvanceBase, SerenoBase
<1>4. QED
  BY <1>2, <1>3

\* The deletion of a proceso.
LEMMA EliminarProcesoAvanza ==
  ASSUME InvAdministracion, NEW h \in Peticiones, EliminarProceso(h)
  PROVE  AvanceBase /\ SerenoBase
<1> DEFINE i == op[h].id
           suyas == {j \in DOMAIN base : "proceso" \in DOMAIN base[j] /\ base[j].proceso = i}
           X == suyas \cup {i}
<1>1. Bien(base, auditoria) /\ auditoria \in Seq(Evento) /\ pc[h] = "escribir" /\ op[h].accion = "eliminar_proceso"
  BY SonIds DEF InvAdministracion, EliminarProceso
<1>2. CASE ~(Existe(i) /\ \A j \in suyas : base[j].tabla \notin {"voto", "derecho"})
  <2>1. base' = base /\ auditoria' = auditoria
    BY <1>2, Zenon DEF EliminarProceso
  <2>2. QED
    BY <1>1, <2>1, AvanzaQuieto DEF AvanceBase, SerenoBase
<1>3. CASE Existe(i) /\ \A j \in suyas : base[j].tabla \notin {"voto", "derecho"}
  <2> DEFINE e == [tipo |-> "PROCESO_ELIMINADO", id |-> i, por |-> h]
  <2>1. base' = [j \in DOMAIN base \ X |-> base[j]] /\ auditoria' = Append(auditoria, e)
    BY <1>3 DEF EliminarProceso, Auditar
  <2>2. i \in DOMAIN base /\ i \in Ids /\ base[i].tabla = "proceso"
    BY <1>1, <1>3, SonIds DEF InvAdministracion, Leido, LeidaFila, TablasDe, Existe
  <2>3. e \in Evento /\ e.tipo = "PROCESO_ELIMINADO"
    <3> HIDE DEF i
    <3>1. QED
      BY <2>2 DEF Evento, TiposDeEvento
  <2>4. \A j \in DOMAIN base : BienFormada(base[j]) /\ ~Colgante(base, base[j]) /\ Acorde(base, base[j])
    BY <1>1 DEF Bien, Sanas, FilaSana
  <2>5. /\ \A j \in suyas : j \in DOMAIN base /\ "proceso" \in DOMAIN base[j] /\ base[j].proceso = i
        /\ \A j \in DOMAIN base : "proceso" \in DOMAIN base[j] /\ base[j].proceso = i => j \in suyas
        /\ \A j : j \in X <=> j \in suyas \/ j = i
    OBVIOUS
  <2> HIDE DEF e, i, suyas, X
  <2>6. \A j \in DOMAIN base \cap X : base[j].tabla \notin {"usuario", "anio"}
    BY <2>2, <2>4, <2>5, LlavesDeTabla
  <2>7. ASSUME NEW j \in DOMAIN base \ X, NEW k \in Llaves(base[j]), base[j][k] \in X PROVE FALSE
    <3> DEFINE r == base[j][k]
    <3>1. k \in DOMAIN base[j] /\ k \in DOMAIN Foraneas /\ r # Nulo /\ r \in DOMAIN base /\ base[r].tabla \in Foraneas[k]
      BY <2>4, <2>7 DEF Llaves, Colgante
    <3>2. ~("proceso" \in DOMAIN base[j] /\ base[j].proceso = i)
      BY <2>5, <2>7
    <3>3. CASE r = i
      <4>1. "proceso" \in Foraneas[k]
        BY <2>2, <3>1, <3>3
      <4>2. k = "proceso"
        BY <3>1, <4>1, LlavesForaneas
      <4>3. QED
        BY <3>1, <3>2, <3>3, <4>2
    <3>4. CASE r \in suyas
      <4>1. "proceso" \in DOMAIN base[r] /\ base[r].proceso = i
        BY <2>5, <3>4
      <4> HIDE DEF r
      <4>2. \A t \in DOMAIN Columnas : "proceso" \in Columnas[t] =>
              t \in {"procesoaula", "derecho", "lista", "candidato", "opcion", "voto"}
        BY DEF Columnas
      <4>3. base[r].tabla \in {"procesoaula", "derecho", "lista", "candidato", "opcion", "voto"}
        <5>1. base[r].tabla \in DOMAIN Columnas /\ DOMAIN base[r] = Columnas[base[r].tabla] \cup {"tabla"}
          BY <2>4, <3>1 DEF BienFormada
        <5>2. "proceso" \in Columnas[base[r].tabla]
          BY <4>1, <5>1
        <5>3. QED
          BY <4>2, <5>1, <5>2
      <4>4. k \in {"lista", "elegida"}
        BY <3>1, <4>3, LlavesForaneas
      <4>5. base[j].tabla \in {"candidato", "voto"} /\ "proceso" \in DOMAIN base[j]
        BY <2>4, <2>7, <3>1, <4>4, LlavesDeTabla
      <4>6. base[r].proceso = base[j].proceso
        <5>1. CASE k = "lista"
          <6>1. base[j].tabla = "candidato" /\ base[j].lista = r
            BY <2>4, <2>7, <3>1, <5>1, LlavesDeTabla DEF r
          <6>2. QED
            BY <2>4, <2>7, <3>1, <6>1 DEF Acorde
        <5>2. CASE k = "elegida"
          <6>1. base[j].tabla = "voto" /\ base[j].elegida = r
            BY <2>4, <2>7, <3>1, <5>2, LlavesDeTabla DEF r
          <6>2. QED
            BY <2>4, <2>7, <3>1, <6>1 DEF Acorde
        <5>3. QED
          BY <4>4, <5>1, <5>2
      <4>7. QED
        BY <3>2, <4>1, <4>5, <4>6
    <3>5. QED
      BY <2>5, <2>7, <3>3, <3>4
  <2>8. \A j \in DOMAIN base \ X : Refs(base[j]) \cap X = {}
    BY <2>7 DEF Refs
  <2>9. QED
    BY <1>1, <2>1, <2>3, <2>6, <2>8, ProcesoAvanza DEF AvanceBase, SerenoBase
<1>4. QED
  BY <1>2, <1>3

\* The activation of a year.
LEMMA ActivarEscribe ==
  ASSUME InvAdministracion, NEW h \in Peticiones, Activar(h)
  PROVE  AvanceBase /\ SerenoBase
<1> DEFINE i == op[h].id  otros == AniosActivos \ {i}  e == [tipo |-> "ACTIVADO", id |-> i, por |-> h]
           d == [a \in DOMAIN base |->
                   IF a \in otros THEN [base[a] EXCEPT !.activo = FALSE]
                   ELSE IF a = i THEN [base[i] EXCEPT !.activo = TRUE] ELSE base[a]]
<1>1. Bien(base, auditoria) /\ auditoria \in Seq(Evento) /\ pc[h] = "escribir" /\ op[h].accion = "activar"
  BY SonIds DEF InvAdministracion, Activar
<1>2. CASE base' = base /\ auditoria' = auditoria
  BY <1>1, <1>2, AvanzaQuieto DEF AvanceBase, SerenoBase
<1>3. CASE Existe(i) /\ base' = d /\ auditoria' = Append(auditoria, e)
  <2>1. i \in DOMAIN base /\ i \in Ids /\ base[i].tabla = "anio"
    BY <1>1, <1>3, SonIds DEF InvAdministracion, Leido, LeidaFila, TablasDe, Existe
  <2>2. e \in Evento /\ e.tipo = "ACTIVADO" /\ e.id = i
    <3> HIDE DEF i
    <3>1. QED
      BY <2>1 DEF Evento, TiposDeEvento
  <2>3. \A j : j \in otros <=> j \in DOMAIN base /\ base[j].tabla = "anio" /\ base[j].activo /\ j # i
    BY DEF AniosActivos, Filas
  <2>4. \A j \in DOMAIN base : base[j].tabla = "anio" => "activo" \in DOMAIN base[j] /\ "tabla" \in DOMAIN base[j]
    BY <1>1, LlavesDeTabla DEF Bien, Sanas, FilaSana
  <2>5. /\ DOMAIN d = DOMAIN base
        /\ \A j \in DOMAIN base : j \in otros => d[j] = [base[j] EXCEPT !.activo = FALSE]
        /\ \A j \in DOMAIN base : j \notin otros /\ j # i => d[j] = base[j]
        /\ d[i] = [base[i] EXCEPT !.activo = TRUE]
    BY <2>1, <2>3
  <2> HIDE DEF e, i, otros, d
  <2>6. ASSUME NEW j \in DOMAIN base
        PROVE  /\ SoloEstado(base[j], d[j]) /\ (DeLaBoleta(base[j]) => d[j] = base[j])
               /\ (d[j].tabla = "anio" => (d[j].activo <=> j = i))
    <3>1. CASE j = i
      <4>1. d[j] = [base[j] EXCEPT !.activo = TRUE] /\ "activo" \in DOMAIN base[j] /\ "tabla" \in DOMAIN base[j]
        BY <2>1, <2>4, <2>5, <3>1
      <4>2. SoloEstado(base[j], d[j]) /\ d[j].activo = TRUE
        BY <4>1 DEF SoloEstado
      <4>3. ~DeLaBoleta(base[j])
        BY <2>1, <3>1 DEF DeLaBoleta
      <4>4. QED
        BY <3>1, <4>2, <4>3
    <3>2. CASE j \in otros
      <4>1. d[j] = [base[j] EXCEPT !.activo = FALSE] /\ "activo" \in DOMAIN base[j] /\ "tabla" \in DOMAIN base[j]
        BY <2>3, <2>4, <2>5, <3>2
      <4>2. SoloEstado(base[j], d[j]) /\ d[j].activo = FALSE
        BY <4>1 DEF SoloEstado
      <4>3. ~DeLaBoleta(base[j]) /\ j # i
        BY <2>3, <3>2 DEF DeLaBoleta
      <4>4. QED
        BY <4>2, <4>3
    <3>3. CASE j # i /\ j \notin otros
      <4>1. d[j] = base[j]
        BY <2>5, <3>3
      <4>2. base[j].tabla = "anio" => ~base[j].activo
        BY <2>3, <3>3
      <4>3. QED
        BY <3>3, <4>1, <4>2 DEF SoloEstado
    <3>4. QED
      BY <3>1, <3>2, <3>3
  <2>7. QED
    BY <1>1, <1>3, <2>1, <2>2, <2>5, <2>6, ActivarAvanza DEF AvanceBase, SerenoBase
<1>4. QED
  BY <1>2, <1>3, Zenon DEF Activar, Auditar

\* The Usuario of a row of a file.
LEMMA FilaDeAlumno ==
  ASSUME NEW r
  PROVE  /\ BienFormada(Alumno(r)) /\ Llaves(Alumno(r)) = {} /\ Alumno(r).tabla = "usuario"
         /\ \A db : ~Colgante(db, Alumno(r)) /\ Acorde(db, Alumno(r))
<1>1. DOMAIN Alumno(r) = {"tabla", "dni", "codigo", "correo", "rol"} /\ Alumno(r).tabla = "usuario"
  BY DEF Alumno
<1>2. "usuario" \in DOMAIN Columnas /\ Columnas["usuario"] = {"dni", "codigo", "correo", "rol"}
  BY DEF Columnas
<1>3. DOMAIN Alumno(r) \cap DOMAIN Foraneas = {}
  BY <1>1, LlavesForaneas
<1>4. Llaves(Alumno(r)) = {}
  BY <1>3 DEF Llaves
<1>5. BienFormada(Alumno(r))
  BY <1>1, <1>2, <1>3 DEF BienFormada
<1>6. QED
  BY <1>1, <1>4, <1>5 DEF Colgante, Acorde

\* The Usuario alone, of a row without references.
LEMMA SueltoAvanza ==
  ASSUME InvAdministracion, NEW h \in Peticiones, CrearSuelto(h)
  PROVE  AvanceBase /\ SerenoBase
<1> DEFINE r == Actual(h)  i == IdUsuario(h)  f == Alumno(r)
<1>1. Bien(base, auditoria) /\ auditoria \in Seq(Evento) /\ pc[h] = "suelta"
  BY SonIds DEF InvAdministracion, CrearSuelto
<1>2. CASE Colision(r) # {}
  <2>1. base' = base /\ auditoria' = auditoria
    BY <1>2 DEF CrearSuelto
  <2>2. QED
    BY <1>1, <2>1, AvanzaQuieto DEF AvanceBase, SerenoBase
<1>3. CASE Colision(r) = {}
  <2> DEFINE e == [tipo |-> "CREADA", id |-> i, por |-> h]
  <2>1. base' = ConFila(base, i, f) /\ auditoria' = Append(auditoria, e)
    BY <1>3 DEF CrearSuelto, Auditar
  <2>2. i \notin ConocidasDe(auditoria) /\ i \in Ids
    BY <1>1, IdsLibres DEF IdUsuario, Ids
  <2>3. ~Choca(base, f, i)
    <3>1. \A u \in DOMAIN base : base[u].tabla = "usuario" =>
            base[u].dni # r.dni /\ base[u].codigo # r.codigo /\ base[u].correo # r.correo
      BY <1>3 DEF Colision, Por, Filas
    <3>2. Indices["usuario"] = {{"dni"}, {"codigo"}, {"correo"}}
      BY DEF Indices
    <3>3. f.tabla = "usuario" /\ f.dni = r.dni /\ f.codigo = r.codigo /\ f.correo = r.correo
      BY DEF Alumno
    <3> HIDE DEF r, f, i
    <3>4. QED
      BY <3>1, <3>2, <3>3 DEF Choca
  <2>4. BienFormada(f) /\ ~Colgante(base, f) /\ Acorde(base, f) /\ f.tabla # "anio"
    BY FilaDeAlumno
  <2> HIDE DEF i, f
  <2>5. e \in Evento /\ e.tipo = "CREADA" /\ e.id = i
    BY <2>2 DEF Evento, TiposDeEvento
  <2> HIDE DEF e
  <2>6. QED
    BY <1>1, <2>1, <2>2, <2>3, <2>4, <2>5, AltaAvanza DEF AvanceBase, SerenoBase
<1>4. QED
  BY <1>2, <1>3

\* The Matricula of a row, of a user and an aula that are there.
LEMMA MatriculaAvanza ==
  ASSUME NEW db, NEW s, Bien(db, s), NEW i, i \notin ConocidasDe(s), NEW m,
         DOMAIN m = {"tabla", "usuario", "aula", "anio"}, m.tabla = "matricula",
         m.usuario # Nulo, m.usuario \in DOMAIN db, db[m.usuario].tabla = "usuario",
         m.aula # Nulo, m.aula \in DOMAIN db, db[m.aula].tabla = "aula", m.anio = db[m.aula].anio,
         ~Choca(db, m, i), NEW e \in Evento, e.tipo = "CREADA", e.id = i
  PROVE  Avance(db, s, ConFila(db, i, m), Append(s, e)) /\ Sereno(db, s, ConFila(db, i, m), Append(s, e))
<1>1. BienFormada(db[m.aula]) /\ ~Colgante(db, db[m.aula])
  BY DEF Bien, Sanas, FilaSana
<1>2. "anio" \in DOMAIN db[m.aula] /\ "anio" \in DOMAIN Foraneas
  BY <1>1, LlavesDeTabla, LlavesForaneas
<1>3. m.anio # Nulo /\ m.anio \in DOMAIN db /\ db[m.anio].tabla = "anio"
  BY <1>1, <1>2, LlavesForaneas DEF BienFormada, Colgante, Llaves
<1>4. "matricula" \in DOMAIN Columnas /\ Columnas["matricula"] = {"usuario", "aula", "anio"}
  BY DEF Columnas
<1>5. Llaves(m) = {"usuario", "aula", "anio"} /\ \A c \in DOMAIN m \cap DOMAIN Foraneas : m[c] # Nulo
  BY <1>3, LlavesForaneas DEF Llaves
<1>6. BienFormada(m)
  BY <1>4, <1>5 DEF BienFormada
<1>7. ~Colgante(db, m)
  BY <1>3, <1>5, LlavesForaneas DEF Colgante
<1>8. Acorde(db, m)
  BY DEF Acorde
<1>9. QED
  BY <1>6, <1>7, <1>8, AltaAvanza

\* The writes of a row of a file: a Usuario if there is none, and the Matricula.
LEMMA EscribirFilaAvanza ==
  ASSUME InvAdministracion, NEW h \in Peticiones, EscribirFila(h)
  PROVE  AvanceBase /\ SerenoBase
<1> DEFINE r == Actual(h)
           nuevo == fila[h].usuario = Nulo
           u == IF nuevo THEN IdUsuario(h) ELSE fila[h].usuario
           conU == IF nuevo THEN ConFila(base, u, Alumno(r)) ELSE base
           m == [tabla |-> "matricula", usuario |-> u, aula |-> fila[h].aula,
                 anio |-> IF Existe(fila[h].aula) THEN base[fila[h].aula].anio ELSE Nulo]
           eU == [tipo |-> "CREADA", id |-> u, por |-> h]
           eM == [tipo |-> "CREADA", id |-> IdMatricula(h), por |-> h]
           conEvento == IF nuevo THEN Append(auditoria, eU) ELSE auditoria
<1>1. /\ Bien(base, auditoria) /\ auditoria \in Seq(Evento) /\ pc[h] = "juntas" /\ fila[h].aula # Nulo
      /\ Nulo \notin DOMAIN base /\ DOMAIN base \subseteq ConocidasDe(auditoria)
  BY SonIds, NuloDesconocido DEF InvAdministracion, EscribirFila, Bien
<1>2. CASE base' = base /\ auditoria' = auditoria
  BY <1>1, <1>2, AvanzaQuieto DEF AvanceBase, SerenoBase
<1>3. CASE /\ ~(nuevo /\ Choca(base, Alumno(r), Nulo)) /\ Existe(fila[h].aula) /\ ~Choca(base, m, Nulo)
           /\ base' = ConFila(conU, IdMatricula(h), m) /\ auditoria' = Append(conEvento, eM)
  <2>1. /\ IdUsuario(h) \notin ConocidasDe(auditoria) /\ IdMatricula(h) \notin ConocidasDe(auditoria)
        /\ fila[h].n \in Nat /\ fila[h].n \in DOMAIN op[h].fila
    BY <1>1, IdsLibres
  <2>2. IdUsuario(h) # Nulo /\ IdUsuario(h) # IdMatricula(h) /\ IdUsuario(h) \in Ids /\ IdMatricula(h) \in Ids
    <3>1. op[h].accion = "importar" /\ op[h] \in agenda /\ agenda \in Agendas
      BY <1>1, Validada DEF InvAdministracion, Atiende, Tipos
    <3>2. IdUsuario(h) # Nulo
      BY <2>1, <3>1, ConstantesRegistro DEF IdUsuario
    <3>3. QED
      BY <2>1, <3>2 DEF IdUsuario, IdMatricula, Ids
  <2>3. fila[h].aula \in DOMAIN base /\ base[fila[h].aula].tabla = "aula"
    BY <1>1, <1>3 DEF InvAdministracion, Leido, LeidoImportar, Existe
  <2>4. ~nuevo => u = fila[h].usuario /\ u \in DOMAIN base /\ base[u].tabla = "usuario"
    BY <1>1 DEF InvAdministracion, Leido, LeidoImportar, Existe
  <2>5. u # Nulo
    BY <2>2
  <2>6. /\ DOMAIN m = {"tabla", "usuario", "aula", "anio"} /\ m.tabla = "matricula" /\ m.usuario = u
        /\ m.aula = fila[h].aula /\ m.anio = base[fila[h].aula].anio
    BY <1>3
  <2>7. eM \in Evento /\ eM.tipo = "CREADA" /\ eM.id = IdMatricula(h)
    <3> DEFINE j == IdMatricula(h)
    <3>1. j \in Ids
      BY <2>2
    <3> HIDE DEF j
    <3>2. [tipo |-> "CREADA", id |-> j, por |-> h] \in Evento
      BY <3>1 DEF Evento, TiposDeEvento
    <3>3. QED
      BY <3>2 DEF j
  <2> DEFINE i == IdMatricula(h)  a == fila[h].aula
  <2>8. ~Choca(base, m, i)
    BY <1>1, <1>3 DEF Choca
  <2>9. CASE ~nuevo
    <3>1. base' = ConFila(base, i, m) /\ auditoria' = Append(auditoria, eM)
      BY <1>3, <2>9
    <3>2. u \in DOMAIN base /\ base[u].tabla = "usuario"
      BY <2>4, <2>9
    <3>3. i \notin ConocidasDe(auditoria) /\ eM \in Evento /\ eM.tipo = "CREADA" /\ eM.id = i
      BY <2>1, <2>7
    <3>4. m.usuario # Nulo /\ m.usuario \in DOMAIN base /\ base[m.usuario].tabla = "usuario"
      BY <2>5, <2>6, <3>2
    <3>5. m.aula # Nulo /\ m.aula \in DOMAIN base /\ base[m.aula].tabla = "aula" /\ m.anio = base[m.aula].anio
      BY <1>1, <2>3, <2>6
    <3>6. DOMAIN m = {"tabla", "usuario", "aula", "anio"} /\ m.tabla = "matricula"
      BY <2>6
    <3> HIDE DEF m, i, eM, u, a, nuevo
    <3>7. QED
      BY <1>1, <2>8, <3>1, <3>3, <3>4, <3>5, <3>6, MatriculaAvanza DEF AvanceBase, SerenoBase
  <2>10. CASE nuevo
    <3> DEFINE f == Alumno(r)  c == ConFila(base, u, f)  t == Append(auditoria, eU)
    <3>1. base' = ConFila(c, i, m) /\ auditoria' = Append(t, eM) /\ u = IdUsuario(h)
      BY <1>3, <2>10
    <3>2. BienFormada(f) /\ ~Colgante(base, f) /\ Acorde(base, f) /\ f.tabla = "usuario"
      BY FilaDeAlumno
    <3>3. ~Choca(base, f, u)
      BY <1>1, <1>3, <2>10 DEF Choca
    <3>4. u \notin ConocidasDe(auditoria) /\ u \in Ids
      BY <2>1, <2>2, <3>1
    <3>5. u \notin DOMAIN base /\ u # i
      BY <1>1, <2>2, <3>1, <3>4
    <3> HIDE DEF u, f, m, i, a, nuevo
    <3>6. eU \in Evento /\ eU.tipo = "CREADA" /\ eU.id = u
      BY <3>4 DEF Evento, TiposDeEvento
    <3> HIDE DEF eU, eM
    <3>7. Avance(base, auditoria, c, t) /\ Sereno(base, auditoria, c, t)
      BY <1>1, <3>2, <3>3, <3>4, <3>6, AltaAvanza
    <3>8. DOMAIN c = DOMAIN base \cup {u} /\ (\A j \in DOMAIN base : c[j] = base[j]) /\ c[u] = f
      BY <3>5 DEF ConFila
    <3>9. ConocidasDe(t) = ConocidasDe(auditoria) \cup {u}
      <4>1. {j \in {eU.id} : eU.tipo = "CREADA"} = {u}
        BY <3>6
      <4>2. QED
        BY <1>1, <3>6, <4>1, Contar
    <3>10. i \notin ConocidasDe(t)
      BY <2>1, <3>5, <3>9 DEF i
    <3>11. ~Choca(c, m, i)
      BY <2>6, <2>8, <3>2, <3>8 DEF Choca
    <3>12. m.usuario # Nulo /\ m.usuario \in DOMAIN c /\ c[m.usuario].tabla = "usuario"
      BY <2>5, <2>6, <3>2, <3>8
    <3>13. m.aula # Nulo /\ m.aula \in DOMAIN c /\ c[m.aula].tabla = "aula" /\ m.anio = c[m.aula].anio
      BY <1>1, <2>3, <2>6, <3>8
    <3>14. DOMAIN m = {"tabla", "usuario", "aula", "anio"} /\ m.tabla = "matricula"
      BY <2>6
    <3>15. eM \in Evento /\ eM.tipo = "CREADA" /\ eM.id = i
      BY <2>7 DEF i
    <3> HIDE DEF c, t
    <3>16. Bien(c, t)
      BY <3>7 DEF Avance
    <3>17. Avance(c, t, ConFila(c, i, m), Append(t, eM)) /\ Sereno(c, t, ConFila(c, i, m), Append(t, eM))
      BY <3>10, <3>11, <3>12, <3>13, <3>14, <3>15, <3>16, MatriculaAvanza
    <3>18. DOMAIN base \subseteq DOMAIN c
      BY <3>8
    <3>19. Avance(base, auditoria, ConFila(c, i, m), Append(t, eM)) /\ Sereno(base, auditoria, ConFila(c, i, m), Append(t, eM))
      BY <3>7, <3>17, <3>18, AvanzaDosVeces
    <3>20. QED
      BY <3>1, <3>19 DEF AvanceBase, SerenoBase
  <2>11. QED
    BY <2>9, <2>10
<1>4. QED
  <2>1. EscribirFila(h)
    OBVIOUS
  <2>2. QED
    BY <2>1, <1>2, <1>3, Zenon DEF EscribirFila, Invalida
-----------------------------------------------------------------------------
(* What a step of a handler leaves true of the others *)

Respuestas == {"hecha", "sin_cambio", "rechazada", "error"}

\* A step of the handler h, as the others see it.
Paso(h) ==
  /\ \A g \in Peticiones \ {h} :
       /\ pc'[g] = pc[g] /\ op'[g] = op[g] /\ leyo'[g] = leyo[g]
       /\ fila'[g] = fila[g] /\ errores'[g] = errores[g] /\ resumen'[g] = resumen[g]
  /\ pc[h] # "fin" /\ (pc[h] # "libre" => pc'[h] # "libre" /\ op'[h] = op[h] /\ leyo'[h] = leyo[h])
  /\ pc[h] = "libre" => auditoria' = auditoria
  /\ fila'[h].n \in Nat /\ (pc[h] # "libre" => fila[h].n <= fila'[h].n)
  /\ agenda' = agenda
  /\ \A k \in DOMAIN auditoria' \ DOMAIN auditoria : auditoria'[k].por = h
  /\ AvanceBase /\ (SerenoBase \/ CambiarEstado(h))

\* The rows and the events of a step, by those there were before it.
LEMMA Despues ==
  ASSUME InvAdministracion, AvanceBase
  PROVE  /\ auditoria \in Seq(Evento) /\ auditoria' \in Seq(Evento) /\ Bien(base, auditoria) /\ Bien(base', auditoria')
         /\ \A k \in DOMAIN auditoria : k \in DOMAIN auditoria' /\ auditoria'[k] = auditoria[k]
         /\ Conocidas = ConocidasDe(auditoria) /\ Conocidas' = ConocidasDe(auditoria') /\ Conocidas \subseteq Conocidas'
         /\ \A i \in Conocidas : i \in DOMAIN base' => i \in DOMAIN base
         /\ \A i \in DOMAIN base : i \in DOMAIN base' => Mismas(base[i], base'[i])
         /\ \A i \in DOMAIN base : base[i].tabla = "usuario" => i \in DOMAIN base'
         /\ \A i \in DOMAIN base : BienFormada(base[i])
         /\ Estable(base, base')
<1>1. Bien(base, auditoria) /\ Bien(base', auditoria')
  BY DEF InvAdministracion, AvanceBase, Avance
<1>2. Conocidas = ConocidasDe(auditoria) /\ Conocidas' = ConocidasDe(auditoria')
  BY DEF Conocidas, ConocidasDe
<1>3. Estable(base, base') /\ (\A i \in DOMAIN base' \ DOMAIN base : i \notin ConocidasDe(auditoria))
      /\ ConocidasDe(auditoria) \subseteq ConocidasDe(auditoria')
      /\ (\A i \in DOMAIN base : base[i].tabla = "usuario" => i \in DOMAIN base')
      /\ \A k \in DOMAIN auditoria : k \in DOMAIN auditoria' /\ auditoria'[k] = auditoria[k]
  BY DEF AvanceBase, Avance
<1>4. \A i \in DOMAIN base : BienFormada(base[i])
  BY <1>1 DEF Bien, Sanas, FilaSana
<1>5. auditoria \in Seq(Evento) /\ auditoria' \in Seq(Evento)
  BY <1>1 DEF Bien
<1>6. QED
  BY <1>1, <1>2, <1>3, <1>4, <1>5 DEF Estable

\* What another handler has read of the row it creates is still so.
LEMMA LeidoCrearAjeno ==
  ASSUME InvAdministracion, AvanceBase, NEW g \in Peticiones, pc'[g] = pc[g], op'[g] = op[g]
  PROVE  LeidoCrear(g)'
<1> SUFFICES ASSUME pc[g] = "escribir", op[g].accion = "crear"
             PROVE  Refs(op[g].fila) \subseteq Conocidas' /\ Acorde(base', op[g].fila)
  BY DEF LeidoCrear
<1> DEFINE f == op[g].fila
<1>1. BienFormada(f)
  BY Validada DEF PeticionValida
<1>2. Refs(f) \subseteq Conocidas /\ Acorde(base, f)
  BY DEF InvAdministracion, Leido, LeidoCrear
<1> HIDE DEF f
<1>3. Refs(f) \subseteq Conocidas' /\ \A i \in Refs(f) : i \in DOMAIN base' => i \in DOMAIN base
  BY <1>2, Despues
<1>4. Acorde(base', f)
  BY <1>1, <1>2, <1>3, Despues, AcordeEstable
<1>5. QED
  BY <1>3, <1>4 DEF f

\* Nor is the row it writes another.
LEMMA LeidaFilaAjena ==
  ASSUME InvAdministracion, AvanceBase, NEW g \in Peticiones, pc'[g] = pc[g], op'[g] = op[g]
  PROVE  LeidaFila(g)'
<1> SUFFICES ASSUME pc[g] = "escribir", op[g].accion # "crear"
             PROVE  /\ op[g].id \in Conocidas'
                    /\ op[g].id \in DOMAIN base' => base'[op[g].id].tabla \in TablasDe(op[g].accion)
  BY DEF LeidaFila, Existe
<1> DEFINE i == op[g].id
<1>1. i \in Conocidas /\ (i \in DOMAIN base => base[i].tabla \in TablasDe(op[g].accion))
  BY DEF InvAdministracion, Leido, LeidaFila, Existe
<1> HIDE DEF i
<1>2. i \in Conocidas' /\ (i \in DOMAIN base' => i \in DOMAIN base /\ base'[i].tabla = base[i].tabla)
  BY <1>1, Despues DEF Mismas
<1>3. QED
  BY <1>1, <1>2 DEF i

\* Nor is the lista of another proceso.
LEMMA LeidaListaAjena ==
  ASSUME InvAdministracion, AvanceBase, NEW g \in Peticiones, pc'[g] = pc[g], op'[g] = op[g]
  PROVE  LeidaLista(g)'
<1> DEFINE i == op[g].id  l == op[g].fila.lista
<1> SUFFICES ASSUME pc[g] = "escribir", op[g].accion = "actualizar", "lista" \in DOMAIN op[g].fila, l # Nulo,
                    i \in DOMAIN base', base'[i].tabla = "candidato"
             PROVE  l \in Conocidas' /\ (l \in DOMAIN base' => base'[l].tabla = "lista" /\ base'[l].proceso = base'[i].proceso)
  BY DEF LeidaLista, Existe
<1>1. i \in Conocidas
  BY DEF InvAdministracion, Leido, LeidaFila
<1>2. i \in DOMAIN base /\ Mismas(base[i], base'[i])
  BY <1>1, Despues
<1>3. base[i].tabla = "candidato"
  BY <1>2 DEF Mismas
<1>4. l \in Conocidas /\ (l \in DOMAIN base => base[l].tabla = "lista" /\ base[l].proceso = base[i].proceso)
  BY <1>2, <1>3 DEF InvAdministracion, Leido, LeidaLista, Existe
<1> HIDE DEF i, l
<1>5. \A j \in DOMAIN base : j \in DOMAIN base' /\ base[j].tabla \in {"lista", "candidato"} =>
        base'[j].tabla = base[j].tabla /\ base'[j].proceso = base[j].proceso
  BY Despues, LlavesDeTabla, LlavesForaneas DEF Mismas
<1>6. QED
  BY <1>2, <1>3, <1>4, <1>5, Despues

\* What an import has read is still so.
LEMMA LeidoImportarAjeno ==
  ASSUME InvAdministracion, AvanceBase, NEW g \in Peticiones, fila'[g].aula = fila[g].aula, fila'[g].usuario = fila[g].usuario
  PROVE  LeidoImportar(g)'
<1> DEFINE a == fila[g].aula  u == fila[g].usuario
<1>1. /\ a # Nulo => a \in Conocidas /\ (a \in DOMAIN base => base[a].tabla = "aula")
      /\ u # Nulo => u \in DOMAIN base /\ base[u].tabla = "usuario"
  BY DEF InvAdministracion, Leido, LeidoImportar, Existe
<1>2. a = fila'[g].aula /\ u = fila'[g].usuario
  OBVIOUS
<1> HIDE DEF a, u
<1>3. a # Nulo => a \in Conocidas' /\ (a \in DOMAIN base' => base'[a].tabla = "aula")
  BY <1>1, Despues DEF Mismas
<1>4. u # Nulo => u \in DOMAIN base' /\ base'[u].tabla = "usuario"
  BY <1>1, Despues DEF Mismas
<1>5. QED
  BY <1>2, <1>3, <1>4 DEF LeidoImportar, Existe

\* The estado a handler has read is the one the row has, or a change was audited since.
LEMMA LeidoEstadoAjeno ==
  ASSUME InvAdministracion, NEW h \in Peticiones, AvanceBase, SerenoBase \/ CambiarEstado(h),
         NEW g \in Peticiones, g # h, pc'[g] = pc[g], op'[g] = op[g], leyo'[g] = leyo[g]
  PROVE  LeidoEstado(g)'
<1> DEFINE i == op[g].id
<1> SUFFICES ASSUME pc[g] = "escribir", op[g].accion = "estado", i \in DOMAIN base',
                    \A k \in BajasDe(auditoria', i) : k <= leyo[g]
             PROVE  base'[i].estado # op[g].fila.estado
  BY DEF LeidoEstado, Existe
<1>2. i \in DOMAIN base /\ DeLaBoleta(base[i])
  <2>1. i \in Conocidas /\ (i \in DOMAIN base => base[i].tabla \in {"lista", "candidato"})
    BY DEF InvAdministracion, Leido, LeidaFila, Existe, TablasDe
  <2>2. QED
    BY <2>1, Despues DEF DeLaBoleta
<1>3. (\A k \in BajasDe(auditoria, i) : k <= leyo[g]) => base[i].estado # op[g].fila.estado
  BY <1>2 DEF InvAdministracion, Leido, LeidoEstado, Existe
<1>4. CASE SerenoBase
  BY <1>2, <1>3, <1>4 DEF SerenoBase, Sereno
<1>5. CASE CambiarEstado(h)
  <2> DEFINE x == op[h].fila.estado  e == [tipo |-> x, id |-> op[h].id, por |-> h]
  <2>1. CASE base' = base /\ auditoria' = auditoria
    BY <1>3, <2>1
  <2>2. CASE base' = [base EXCEPT ![op[h].id].estado = x] /\ auditoria' = Append(auditoria, e)
    <3>1. x \in {"activo", "baja"}
      BY <1>5, Validada DEF CambiarEstado, PeticionValida
    <3>2. auditoria \in Seq(Evento) /\ auditoria' \in Seq(Evento)
      BY Despues
    <3>3. /\ DOMAIN auditoria' = DOMAIN auditoria \cup {Len(auditoria) + 1} /\ Len(auditoria) \in Nat
          /\ auditoria'[Len(auditoria) + 1] = e
          /\ \A k \in DOMAIN auditoria : auditoria'[k] = auditoria[k]
      BY <3>2, <2>2
    <3>4. CASE i = op[h].id
      <4>1. Len(auditoria) + 1 \in BajasDe(auditoria', i)
        BY <3>1, <3>3, <3>4 DEF BajasDe
      <4>2. leyo[g] \in Nat /\ leyo[g] <= Len(auditoria)
        BY DEF InvAdministracion, Tipos
      <4>3. QED
        BY <3>3, <4>1, <4>2
    <3>5. CASE i # op[h].id
      <4>1. BajasDe(auditoria', i) = BajasDe(auditoria, i)
        BY <3>3, <3>5 DEF BajasDe
      <4>2. base'[i] = base[i]
        BY <1>2, <2>2, <3>5
      <4>3. QED
        BY <1>3, <4>1, <4>2
    <3>6. QED
      BY <3>4, <3>5
  <2>3. QED
    BY <1>5, <2>1, <2>2, Zenon DEF CambiarEstado, Auditar
<1>6. QED
  BY <1>4, <1>5

\* The events of a step are of its handler, and the others created what they had.
LEMMA CreoAjeno ==
  ASSUME InvAdministracion, NEW h \in Peticiones, Paso(h), NEW g \in Peticiones \ {h}, NEW t
  PROVE  Creo(g, t)' = Creo(g, t)
<1>1. \A k \in DOMAIN auditoria : k \in DOMAIN auditoria' /\ auditoria'[k] = auditoria[k]
  BY Despues DEF Paso
<1>2. \A k \in DOMAIN auditoria' : auditoria'[k].por = g => k \in DOMAIN auditoria
  BY DEF Paso
<1>3. {j \in DOMAIN auditoria' : auditoria'[j].tipo = "CREADA" /\ auditoria'[j].por = g /\ auditoria'[j].id[2] = t}
      = {j \in DOMAIN auditoria : auditoria[j].tipo = "CREADA" /\ auditoria[j].por = g /\ auditoria[j].id[2] = t}
  BY <1>1, <1>2
<1> DEFINE J == {j \in DOMAIN auditoria : auditoria[j].tipo = "CREADA" /\ auditoria[j].por = g /\ auditoria[j].id[2] = t}
<1>4. Creo(g, t)' = {auditoria'[k].id[3] : k \in J}
  BY <1>3, Zenon DEF Creo
<1>5. Creo(g, t) = {auditoria[k].id[3] : k \in J}
  BY Zenon DEF Creo
<1>6. \A k \in J : auditoria'[k] = auditoria[k]
  BY <1>1
<1> HIDE DEF J
<1>7. QED
  BY <1>4, <1>5, <1>6

\* What is known of the others stays.
LEMMA Ajenos ==
  ASSUME InvAdministracion, NEW h \in Peticiones, Paso(h), NEW g \in Peticiones \ {h}
  PROVE  /\ Atiende(g)' /\ Cuenta(g)'
         /\ LeidoCrear(g)' /\ LeidaFila(g)' /\ LeidaLista(g)' /\ LeidoEstado(g)' /\ LeidoImportar(g)'
<1>1. /\ pc'[g] = pc[g] /\ op'[g] = op[g] /\ leyo'[g] = leyo[g]
      /\ fila'[g] = fila[g] /\ errores'[g] = errores[g] /\ resumen'[g] = resumen[g] /\ agenda' = agenda
      /\ AvanceBase /\ (SerenoBase \/ CambiarEstado(h))
  BY DEF Paso
<1>2. Atiende(g)'
  BY <1>1 DEF InvAdministracion, Atiende
<1>3. Cuenta(g)'
  <2>1. Creo(g, "usuario")' = Creo(g, "usuario") /\ Creo(g, "matricula")' = Creo(g, "matricula")
    BY CreoAjeno
  <2>2. Cuenta(g)
    BY DEF InvAdministracion
  <2>3. QED
    BY <1>1, <2>1, <2>2 DEF Cuenta
<1>4. LeidoCrear(g)' /\ LeidaFila(g)' /\ LeidaLista(g)'
  BY <1>1, LeidoCrearAjeno, LeidaFilaAjena, LeidaListaAjena
<1>5. LeidoEstado(g)'
  BY <1>1, LeidoEstadoAjeno
<1>6. LeidoImportar(g)'
  BY <1>1, LeidoImportarAjeno
<1>7. QED
  BY <1>2, <1>3, <1>4, <1>5, <1>6

\* An id that was given stays given.
LEMMA NacidaSigue ==
  ASSUME InvAdministracion, NEW h \in Peticiones, Paso(h), NEW q \in Peticiones, NEW i, NacidaDe(i, q)
  PROVE  NacidaDe(i, q)'
<1>1. CASE q # h
  BY <1>1 DEF Paso, NacidaDe
<1>2. CASE q = h
  <2>1. /\ pc[h] # "libre" /\ pc'[h] # "libre" /\ op'[h] = op[h] /\ fila[h].n <= fila'[h].n /\ op[h].accion = "importar"
        /\ \E n \in DOMAIN op[h].fila : n < fila[h].n /\ (i = <<h, "usuario", n>> \/ i = <<h, "matricula", n>>)
    BY <1>2 DEF Paso, NacidaDe
  <2>2. PeticionValida(op[h])
    BY <2>1, Validada
  <2>3. \A n \in DOMAIN op[h].fila : n \in Int
    BY <2>1, <2>2 DEF PeticionValida
  <2>4. fila[h].n \in Nat /\ fila'[h].n \in Nat
    BY DEF InvAdministracion, Tipos, Paso
  <2>5. QED
    BY <1>2, <2>1, <2>3, <2>4 DEF NacidaDe
<1>3. QED
  BY <1>1, <1>2

\* A step keeps the invariant if it keeps what the invariant says of its handler and of its events.
LEMMA Conserva ==
  ASSUME InvAdministracion, NEW h \in Peticiones, Paso(h), Tipos',
         Atiende(h)', Cuenta(h)', LeidoCrear(h)', LeidaFila(h)', LeidaLista(h)', LeidoEstado(h)', LeidoImportar(h)',
         \A i : (\E k \in DOMAIN auditoria' \ DOMAIN auditoria : auditoria'[k].tipo = "CREADA" /\ auditoria'[k].id = i)
                => NacidaDe(i, h)',
         \A k \in DOMAIN auditoria' \ DOMAIN auditoria :
           /\ auditoria'[k].tipo \in {"activo", "baja"} => pc'[h] = "fin"
           /\ auditoria'[k].tipo = "PADRON_IMPORTADO" =>
                /\ pc'[h] = "fin" /\ op'[h].accion = "importar" /\ fila'[h].n = Len(op'[h].fila) + 1
                /\ auditoria'[k].id = <<resumen'[h].creadas, resumen'[h].existentes, Cardinality(errores'[h])>>
  PROVE  InvAdministracion'
<1>1. /\ auditoria \in Seq(Evento) /\ auditoria' \in Seq(Evento) /\ Bien(base', auditoria')
      /\ \A k \in DOMAIN auditoria : k \in DOMAIN auditoria' /\ auditoria'[k] = auditoria[k]
  BY Despues DEF Paso
<1>2. \A k \in DOMAIN auditoria : auditoria[k].por \in Peticiones
  <2>1. \A k \in DOMAIN auditoria : auditoria[k] \in Evento
    BY <1>1
  <2>2. QED
    BY <2>1 DEF Evento
<1>3. \A k \in DOMAIN auditoria' \ DOMAIN auditoria : auditoria'[k].por = h
  BY DEF Paso
<1>4. \A q \in Peticiones : pc[q] = "fin" =>
        /\ pc'[q] = "fin" /\ op'[q] = op[q] /\ fila'[q] = fila[q] /\ resumen'[q] = resumen[q] /\ errores'[q] = errores[q]
  BY DEF Paso
<1>5. (\A g \in Peticiones : Atiende(g))' /\ (\A g \in Peticiones : Cuenta(g))' /\ Leido'
  BY Ajenos DEF Leido
<1>6. Nacimientos'
  <2>1. ASSUME NEW k \in DOMAIN auditoria', auditoria'[k].tipo = "CREADA",
               NEW i, i = auditoria'[k].id, NEW q, q = auditoria'[k].por
        PROVE  NacidaDe(i, q)'
    <3>1. CASE k \in DOMAIN auditoria
      <4>1. q \in Peticiones /\ NacidaDe(i, q)
        BY <1>1, <1>2, <2>1, <3>1 DEF InvAdministracion, Nacimientos
      <4>2. QED
        BY <4>1, NacidaSigue
    <3>2. CASE k \notin DOMAIN auditoria
      BY <1>3, <2>1, <3>2
    <3>3. QED
      BY <3>1, <3>2
  <2>2. QED
    BY <2>1 DEF Nacimientos, NacidaDe
<1>7. EstadosHechos'
  <2>1. ASSUME NEW k \in DOMAIN auditoria', auditoria'[k].tipo \in {"activo", "baja"} PROVE pc'[auditoria'[k].por] = "fin"
    <3>1. CASE k \in DOMAIN auditoria
      BY <1>1, <1>2, <1>4, <2>1, <3>1 DEF InvAdministracion, EstadosHechos
    <3>2. CASE k \notin DOMAIN auditoria
      BY <1>3, <2>1, <3>2
    <3>3. QED
      BY <3>1, <3>2
  <2>2. QED
    BY <2>1 DEF EstadosHechos
<1>8. Anuncios'
  <2>1. ASSUME NEW k \in DOMAIN auditoria', auditoria'[k].tipo = "PADRON_IMPORTADO",
               NEW q, q = auditoria'[k].por
        PROVE  /\ pc'[q] = "fin" /\ op'[q].accion = "importar" /\ fila'[q].n = Len(op'[q].fila) + 1
               /\ auditoria'[k].id = <<resumen'[q].creadas, resumen'[q].existentes, Cardinality(errores'[q])>>
    <3>1. CASE k \in DOMAIN auditoria
      <4>1. q \in Peticiones /\ auditoria'[k] = auditoria[k]
        BY <1>1, <1>2, <2>1, <3>1
      <4>2. /\ pc[q] = "fin" /\ op[q].accion = "importar" /\ fila[q].n = Len(op[q].fila) + 1
            /\ auditoria[k].id = <<resumen[q].creadas, resumen[q].existentes, Cardinality(errores[q])>>
        BY <2>1, <3>1, <4>1 DEF InvAdministracion, Anuncios
      <4>3. QED
        BY <1>4, <4>1, <4>2
    <3>2. CASE k \notin DOMAIN auditoria
      BY <1>3, <2>1, <3>2
    <3>3. QED
      BY <3>1, <3>2
  <2>2. QED
    BY <2>1 DEF Anuncios
<1>9. (Bien(base, auditoria))'
  <2>1. \A k \in DOMAIN auditoria' : auditoria'[k].tipo \in {"activo", "baja"} =>
          leyo'[auditoria'[k].por] = leyo[auditoria'[k].por]
    <3>1. ASSUME NEW k \in DOMAIN auditoria', auditoria'[k].tipo \in {"activo", "baja"},
                 NEW q, q = auditoria'[k].por
          PROVE  leyo'[q] = leyo[q]
      <4>1. CASE k \in DOMAIN auditoria
        <5>1. q \in Peticiones /\ pc[q] = "fin"
          BY <1>1, <1>2, <3>1, <4>1 DEF InvAdministracion, EstadosHechos
        <5>2. QED
          BY <5>1 DEF Paso
      <4>2. CASE k \notin DOMAIN auditoria
        BY <1>3, <3>1, <4>2 DEF Paso
      <4>3. QED
        BY <4>1, <4>2
    <3>2. QED
      BY <3>1
  <2>2. \A i : \A k \in BajasDe(auditoria', i) : leyo'[auditoria'[k].por] = leyo[auditoria'[k].por]
    BY <2>1 DEF BajasDe
  <2>3. EstadosDe(base', auditoria')
    BY <1>1 DEF Bien
  <2>4. (EstadosDe(base, auditoria))'
    <3> SUFFICES ASSUME NEW i \in DOMAIN base', DeLaBoleta(base'[i]), NEW k \in BajasDe(auditoria', i)
                 PROVE  /\ (\A j \in BajasDe(auditoria', i) : j <= k) => base'[i].estado = auditoria'[k].tipo
                        /\ \A j \in BajasDe(auditoria', i) :
                             /\ j < k /\ auditoria'[j].tipo = auditoria'[k].tipo
                             /\ \A m \in BajasDe(auditoria', i) : ~ (j < m /\ m < k)
                             => leyo'[auditoria'[k].por] < j
      BY Zenon DEF EstadosDe, DeLaBoleta, BajasDe
    <3>1. leyo'[auditoria'[k].por] = leyo[auditoria'[k].por]
      BY <2>2
    <3>2. QED
      BY <2>3, <3>1, Zenon DEF EstadosDe
  <2>5. QED
    BY <1>1, <2>4 DEF Bien
<1>10. QED
  BY <1>5, <1>6, <1>7, <1>8, <1>9 DEF InvAdministracion
-----------------------------------------------------------------------------
(* The handlers of the school and of the ballot *)

\* The end of a handler that is not an import.
Termina(h) ==
  /\ pc[h] = "escribir" /\ (\E r \in Respuestas : Responder(h, r))
  /\ UNCHANGED <<op, leyo, agenda, varsImportacion>>
  /\ \/ UNCHANGED auditoria
     \/ \E tipo \in TiposDeEvento \ {"PADRON_IMPORTADO"} : \E i :
          Auditar(tipo, i, h) /\ (tipo = "CREADA" => \E t \in DOMAIN Columnas : i = <<h, t>>)

\* Every write of a handler ends it.
LEMMA EscrituraTermina ==
  ASSUME InvAdministracion, NEW h \in Peticiones, UNCHANGED varsImportacion,
         Escribir(h) \/ EscribirCatalogo(h) \/ Activar(h)
  PROVE  Termina(h) /\ AvanceBase /\ (SerenoBase \/ CambiarEstado(h))
<1> USE DEF Respuestas, TiposDeEvento
<1>1. CASE Insertar(h)
  <2>1. AvanceBase /\ SerenoBase
    BY <1>1, InsertarAvanza
  <2>2. op[h].fila.tabla \in DOMAIN Columnas
    BY <1>1, Validada DEF Insertar, PeticionValida, BienFormada
  <2>3. QED
    BY <1>1, <2>1, <2>2 DEF Insertar, Termina, IdNueva
<1>2. CASE Modificar(h)
  <2>1. AvanceBase /\ SerenoBase
    BY <1>2, ModificarAvanza
  <2>2. QED
    BY <1>2, <2>1 DEF Modificar, Termina
<1>3. CASE Borrar(h)
  <2>1. AvanceBase /\ SerenoBase
    BY <1>3, BorrarAvanza
  <2>2. QED
    BY <1>3, <2>1 DEF Borrar, Termina
<1>4. CASE Fallar(h)
  <2>1. AvanceBase /\ SerenoBase
    <3>1. base' = base /\ auditoria' = auditoria /\ Bien(base, auditoria)
      BY <1>4 DEF Fallar, InvAdministracion
    <3>2. QED
      BY <3>1, AvanzaQuieto DEF AvanceBase, SerenoBase
  <2>2. QED
    BY <1>4, <2>1 DEF Fallar, Termina
<1>5. CASE CambiarEstado(h)
  <2>1. AvanceBase
    BY <1>5, CambiarEstadoAvanza
  <2>2. op[h].fila.estado \in {"activo", "baja"}
    BY <1>5, Validada DEF CambiarEstado, PeticionValida
  <2>3. QED
    BY <1>5, <2>1, <2>2 DEF CambiarEstado, Termina
<1>6. CASE Abrir(h)
  <2>1. AvanceBase /\ SerenoBase
    BY <1>6, AbrirAvanza
  <2>2. "derecho" \in DOMAIN Columnas
    BY DEF Columnas
  <2>3. QED
    BY <1>6, <2>1, <2>2 DEF Abrir, Termina
<1>7. CASE EliminarProceso(h)
  <2>1. AvanceBase /\ SerenoBase
    BY <1>7, EliminarProcesoAvanza
  <2>2. QED
    BY <1>7, <2>1 DEF EliminarProceso, Termina
<1>8. CASE Activar(h)
  <2>1. AvanceBase /\ SerenoBase
    BY <1>8, ActivarEscribe
  <2>2. QED
    BY <1>8, <2>1 DEF Activar, Termina
<1>9. QED
  BY <1>1, <1>2, <1>3, <1>4, <1>5, <1>6, <1>7, <1>8 DEF Escribir, EscribirCatalogo

\* The end of a handler keeps the invariant.
LEMMA TerminaConserva ==
  ASSUME InvAdministracion, NEW h \in Peticiones, Termina(h), AvanceBase, SerenoBase \/ CambiarEstado(h)
  PROVE  InvAdministracion'
<1>1. /\ pc[h] = "escribir" /\ pc' = [pc EXCEPT ![h] = "fin"]
      /\ op' = op /\ leyo' = leyo /\ agenda' = agenda /\ fila' = fila /\ errores' = errores /\ resumen' = resumen
      /\ \E r \in Respuestas : respuesta' = [respuesta EXCEPT ![h] = r]
  BY DEF Termina, Responder, Ir, varsImportacion
<1>2. pc'[h] = "fin" /\ (\A g \in Peticiones \ {h} : pc'[g] = pc[g]) /\ op[h] \in agenda /\ op[h].accion # "importar"
  BY <1>1 DEF InvAdministracion, Tipos, Atiende
<1>3. auditoria \in Seq(Evento) /\ auditoria' \in Seq(Evento) /\ fila[h].n \in Nat
  BY Despues DEF InvAdministracion, Tipos
<1>4. ASSUME NEW k \in DOMAIN auditoria' \ DOMAIN auditoria
      PROVE  /\ auditoria'[k].por = h /\ auditoria'[k].tipo # "PADRON_IMPORTADO"
             /\ auditoria'[k].tipo = "CREADA" => \E t \in DOMAIN Columnas : auditoria'[k].id = <<h, t>>
  <2>1. PICK tipo, i : /\ tipo \in TiposDeEvento \ {"PADRON_IMPORTADO"}
                      /\ Auditar(tipo, i, h) /\ (tipo = "CREADA" => \E t \in DOMAIN Columnas : i = <<h, t>>)
    BY <1>4 DEF Termina
  <2>2. auditoria' = Append(auditoria, [tipo |-> tipo, id |-> i, por |-> h])
    BY <2>1 DEF Auditar
  <2>3. auditoria'[k] = [tipo |-> tipo, id |-> i, por |-> h]
    BY <1>3, <1>4, <2>2
  <2>4. QED
    BY <2>1, <2>3
<1>5. Paso(h)
  BY <1>1, <1>2, <1>3, <1>4 DEF Paso
<1>6. Tipos'
  <2>1. auditoria' \in Seq([tipo : TiposDeEvento, id : Ids, por : Peticiones])
    BY <1>3 DEF Evento
  <2>2. Len(auditoria) <= Len(auditoria')
    BY <1>3, Despues
  <2>3. QED
    BY <1>1, <1>3, <2>1, <2>2 DEF InvAdministracion, Tipos, Respuestas
<1>7. Atiende(h)' /\ Cuenta(h)' /\ LeidoCrear(h)' /\ LeidaFila(h)' /\ LeidaLista(h)' /\ LeidoEstado(h)'
  BY <1>1, <1>2 DEF Atiende, Cuenta, LeidoCrear, LeidaFila, LeidaLista, LeidoEstado
<1>8. LeidoImportar(h)'
  BY <1>1, LeidoImportarAjeno
<1>9. ASSUME NEW i, \E k \in DOMAIN auditoria' \ DOMAIN auditoria : auditoria'[k].tipo = "CREADA" /\ auditoria'[k].id = i
      PROVE  NacidaDe(i, h)'
  BY <1>1, <1>2, <1>4, <1>9 DEF NacidaDe
<1>10. QED
  BY <1>2, <1>4, <1>5, <1>6, <1>7, <1>8, <1>9, Conserva

\* What the reads of a handler that creates a row establish.
LEMMA LeeParaCrear ==
  ASSUME Bien(base, auditoria), NEW b, PeticionValida(b), b.accion = "crear", PermiteEscuela(b) \/ PermiteCatalogo(b)
  PROVE  Refs(b.fila) \subseteq DOMAIN base /\ Acorde(base, b.fila)
<1> DEFINE f == b.fila
<1>1. BienFormada(f) /\ \A i \in DOMAIN base : BienFormada(base[i])
  BY DEF PeticionValida, Bien, Sanas, FilaSana
<1>2. /\ ~Colgante(base, f) => Refs(f) \subseteq DOMAIN base
      /\ f.tabla \in {"anio", "nivel", "usuario"} => Refs(f) = {}
      /\ f.tabla = "apoderado" /\ f.usuario \in DOMAIN base => Refs(f) \subseteq DOMAIN base
      /\ f.tabla \in {"lista", "opcion"} /\ f.proceso \in DOMAIN base => Refs(f) \subseteq DOMAIN base
      /\ f.tabla = "candidato" /\ f.proceso \in DOMAIN base /\ (f.lista = Nulo \/ f.lista \in DOMAIN base) =>
           Refs(f) \subseteq DOMAIN base
      /\ f.tabla = "voto" /\ f.proceso \in DOMAIN base /\ f.elegida \in DOMAIN base => Refs(f) \subseteq DOMAIN base
  <2>1. ~Colgante(base, f) => Refs(f) \subseteq DOMAIN base
    BY DEF Colgante, Refs
  <2>2. f.tabla \in {"anio", "nivel", "usuario"} => Llaves(f) = {}
    BY <1>1, LlavesForaneas DEF BienFormada, Columnas, Llaves
  <2>3. f.tabla = "apoderado" => Llaves(f) \subseteq {"usuario"}
    BY <1>1, LlavesForaneas DEF BienFormada, Columnas, Llaves
  <2>4. f.tabla \in {"lista", "opcion"} => Llaves(f) \subseteq {"proceso"}
    BY <1>1, LlavesForaneas DEF BienFormada, Columnas, Llaves
  <2>5. f.tabla = "candidato" => Llaves(f) \subseteq {"proceso", "lista"} /\ ("lista" \in Llaves(f) => f.lista # Nulo)
    BY <1>1, LlavesForaneas DEF BienFormada, Columnas, Llaves
  <2>6. f.tabla = "voto" => Llaves(f) \subseteq {"proceso", "elegida"}
    BY <1>1, LlavesForaneas DEF BienFormada, Columnas, Llaves
  <2> HIDE DEF f
  <2>7. QED
    BY <2>1, <2>2, <2>3, <2>4, <2>5, <2>6 DEF Refs
<1>3. CASE PermiteEscuela(b)
  <2>1. \/ CrearAnio(b) \/ CrearNivel(b) \/ CrearGrado(b) \/ CrearSeccion(b) \/ CrearAula(b) \/ CrearMatricula(b)
        \/ CrearUsuario(b) \/ CrearApoderado(b)
    BY <1>3 DEF PermiteEscuela, Pide, ActualizarAnio, EliminarAnio, ActivarAnio, ActualizarNivel, EliminarNivel,
       ActualizarGrado, EliminarGrado, ActualizarSeccion, EliminarSeccion, ActualizarAula, EliminarAula,
       EliminarMatricula, ActualizarUsuario, ActualizarApoderado, EliminarApoderado, ActualizarConfiguracion, SubirLogo
  <2>2. \/ f.tabla \in {"anio", "nivel", "usuario"}
        \/ f.tabla = "apoderado" /\ f.usuario \in DOMAIN base
        \/ f.tabla \in {"grado", "seccion"} /\ ~Colgante(base, f)
        \/ /\ f.tabla = "aula" /\ ~Colgante(base, f)
           /\ base[f.seccion].grado = f.grado /\ base[f.seccion].anio = f.anio
        \/ f.tabla = "matricula" /\ ~Colgante(base, f) /\ base[f.aula].anio = f.anio
    BY <2>1 DEF Pide, CrearAnio, CrearNivel, CrearGrado, CrearSeccion, CrearAula, CrearMatricula, CrearUsuario,
       CrearApoderado, DeEstudiante, Existe
  <2> HIDE DEF f
  <2>3. Refs(f) \subseteq DOMAIN base
    BY <1>2, <2>2
  <2>4. Acorde(base, f)
    BY <1>1, <2>2, Padres DEF Acorde
  <2>5. QED
    BY <2>3, <2>4 DEF f
<1>4. CASE PermiteCatalogo(b)
  <2>1. CrearLista(b) \/ CrearCandidato(b) \/ CrearOpcion(b) \/ Votar(b)
    BY <1>4 DEF PermiteCatalogo, Pide, ActualizarLista, EliminarLista, CambiarPlan, ActualizarCandidato, EliminarCandidato,
       ActualizarOpcion, EliminarOpcion, PedirEstado, PedirProceso
  <2>2. \/ f.tabla \in {"lista", "opcion"} /\ f.proceso \in DOMAIN base
        \/ f.tabla = "candidato" /\ f.proceso \in DOMAIN base /\ ListaDe(f.proceso, f)
        \/ /\ f.tabla = "voto" /\ f.proceso \in DOMAIN base /\ f.elegida \in DOMAIN base
           /\ base[f.elegida].tabla \in {"lista", "candidato", "opcion"} /\ base[f.elegida].proceso = f.proceso
    BY <2>1 DEF Pide, CrearLista, CrearCandidato, CrearOpcion, Votar, Existe
  <2> HIDE DEF f
  <2>3. f.tabla = "candidato" /\ f.lista # Nulo =>
          f.lista \in DOMAIN base /\ base[f.lista].tabla = "lista" /\ base[f.lista].proceso = f.proceso
    BY <1>1, <2>2, LlavesDeTabla DEF ListaDe, Filas
  <2>4. Refs(f) \subseteq DOMAIN base
    BY <1>2, <2>2, <2>3
  <2>5. Acorde(base, f)
    BY <2>2, <2>3 DEF Acorde
  <2>6. QED
    BY <2>4, <2>5 DEF f
<1>5. QED
  BY <1>3, <1>4

\* What the reads of any other handler establish.
LEMMA LeeParaEscribir ==
  ASSUME Bien(base, auditoria), NEW b, PeticionValida(b), b.accion \notin {"crear", "importar"},
         PermiteEscuela(b) \/ PermiteCatalogo(b)
  PROVE  /\ b.id \in DOMAIN base /\ base[b.id].tabla \in TablasDe(b.accion)
         /\ b.accion = "actualizar" /\ "lista" \in DOMAIN b.fila /\ b.fila.lista # Nulo /\ base[b.id].tabla = "candidato" =>
              b.fila.lista \in DOMAIN base /\ base[b.fila.lista].tabla = "lista"
              /\ base[b.fila.lista].proceso = base[b.id].proceso
         /\ b.accion = "estado" => PedirEstado(b)
<1>1. /\ {"anio", "nivel", "grado", "seccion", "aula", "matricula", "apoderado", "lista", "candidato", "opcion"}
         \subseteq DOMAIN Columnas \ {"usuario", "proceso", "voto", "derecho"}
      /\ {"usuario", "configuracion"} \subseteq DOMAIN Columnas
  BY DEF Columnas
<1>2. CASE PermiteEscuela(b)
  <2>1. \/ Pide(b, "activar", "anio")
        \/ \E t \in {"anio", "nivel", "grado", "seccion", "aula", "matricula", "apoderado"} : Pide(b, "eliminar", t)
        \/ \E t \in {"anio", "nivel", "grado", "seccion", "aula", "usuario", "apoderado", "configuracion"} :
             Pide(b, "actualizar", t)
    BY <1>2 DEF PermiteEscuela, Pide, ActualizarAnio, EliminarAnio, ActivarAnio, ActualizarNivel, EliminarNivel,
       ActualizarGrado, EliminarGrado, ActualizarSeccion, EliminarSeccion, ActualizarAula, EliminarAula,
       EliminarMatricula, ActualizarUsuario, ActualizarApoderado, EliminarApoderado, ActualizarConfiguracion, SubirLogo,
       CrearAnio, CrearNivel, CrearGrado, CrearSeccion, CrearAula, CrearMatricula, CrearUsuario, CrearApoderado
  <2>2. QED
    BY <1>1, <2>1 DEF Pide, Existe, TablasDe
<1>3. CASE PermiteCatalogo(b)
  <2>1. \/ \E t \in {"lista", "candidato", "opcion"} : Pide(b, "eliminar", t)
        \/ \E t \in {"lista", "opcion"} : Pide(b, "actualizar", t)
        \/ Pide(b, "actualizar", "candidato") /\ ListaDe(base[b.id].proceso, b.fila)
        \/ PedirEstado(b) \/ PedirProceso(b)
    BY <1>3 DEF PermiteCatalogo, Pide, ActualizarLista, EliminarLista, CambiarPlan, ActualizarCandidato, EliminarCandidato,
       ActualizarOpcion, EliminarOpcion, CrearLista, CrearCandidato, CrearOpcion, Votar
  <2>2. CASE \E t \in {"lista", "candidato", "opcion"} : Pide(b, "eliminar", t)
    BY <1>1, <2>2 DEF Pide, Existe, TablasDe
  <2>3. CASE \E t \in {"lista", "opcion"} : Pide(b, "actualizar", t)
    BY <1>1, <2>3 DEF Pide, Existe, TablasDe
  <2>4. CASE Pide(b, "actualizar", "candidato") /\ ListaDe(base[b.id].proceso, b.fila)
    BY <1>1, <2>4 DEF Pide, Existe, TablasDe, ListaDe, Filas
  <2>5. CASE PedirEstado(b)
    BY <1>1, <2>5 DEF PedirEstado, Pide, Existe, TablasDe
  <2>6. CASE PedirProceso(b)
    BY <1>1, <2>6 DEF PedirProceso, Pide, Existe, TablasDe
  <2>7. QED
    BY <2>1, <2>2, <2>3, <2>4, <2>5, <2>6
<1>4. QED
  BY <1>2, <1>3

\* The reads of a handler keep the invariant.
LEMMA LeerConserva ==
  ASSUME InvAdministracion, NEW h \in Peticiones, LeerPeticion(h), UNCHANGED varsImportacion
  PROVE  InvAdministracion'
<1>1. PICK b \in agenda :
        /\ b.accion # "importar"
        /\ Leer(h, b, ~SinCambioEscuela(b) /\ ~SinCambioCatalogo(b), PermiteEscuela(b) \/ PermiteCatalogo(b))
  BY DEF LeerPeticion
<1>2. /\ pc[h] = "libre" /\ op' = [op EXCEPT ![h] = b] /\ base' = base /\ auditoria' = auditoria /\ agenda' = agenda
      /\ fila' = fila /\ errores' = errores /\ resumen' = resumen
  BY <1>1 DEF Leer, varsImportacion
<1>3. leyo' = leyo \/ leyo' = [leyo EXCEPT ![h] = Len(auditoria)]
  BY <1>1 DEF Leer
<1>4. \/ pc' = [pc EXCEPT ![h] = "fin"] /\ \E r \in Respuestas : respuesta' = [respuesta EXCEPT ![h] = r]
      \/ /\ pc' = [pc EXCEPT ![h] = "escribir"] /\ respuesta' = respuesta
         /\ ~SinCambioCatalogo(b) /\ (PermiteEscuela(b) \/ PermiteCatalogo(b))
  BY <1>1, Zenon DEF Leer, Responder, Ir, Respuestas
<1>5. agenda \in Agendas /\ PeticionValida(b) /\ b # Nulo
  BY ConstantesRegistro DEF InvAdministracion, Tipos
<1>6. Bien(base, auditoria) /\ auditoria \in Seq(Evento) /\ Conocidas' = Conocidas /\ DOMAIN base \subseteq Conocidas
  BY <1>2 DEF InvAdministracion, Bien, Conocidas, ConocidasDe
<1>7. AvanceBase /\ SerenoBase
  BY <1>2, <1>6, AvanzaQuieto DEF AvanceBase, SerenoBase
<1>8. /\ op'[h] = b /\ (\A g \in Peticiones \ {h} : op'[g] = op[g] /\ pc'[g] = pc[g] /\ leyo'[g] = leyo[g])
      /\ pc'[h] \in {"fin", "escribir"} /\ (pc'[h] = "escribir" => ~SinCambioCatalogo(b) /\ (PermiteEscuela(b) \/ PermiteCatalogo(b)))
  BY <1>2, <1>3, <1>4 DEF InvAdministracion, Tipos
<1>9. Paso(h)
  BY <1>2, <1>7, <1>8 DEF Paso, InvAdministracion, Tipos
<1>10. Tipos'
  <2>1. op' \in [Peticiones -> agenda \cup {Nulo}]
    BY <1>2 DEF InvAdministracion, Tipos
  <2>2. leyo' \in [Peticiones -> Nat] /\ \A g \in Peticiones : leyo'[g] <= Len(auditoria)
    <3>1. Len(auditoria) \in Nat /\ leyo \in [Peticiones -> Nat] /\ \A g \in Peticiones : leyo[g] <= Len(auditoria)
      BY <1>6 DEF InvAdministracion, Tipos
    <3>2. QED
      BY <1>3, <3>1
  <2>3. pc' \in [Peticiones -> {"libre", "escribir", "fila", "suelta", "juntas", "resumen", "fin"}]
        /\ respuesta' \in [Peticiones -> {"hecha", "sin_cambio", "rechazada", "error", Nulo}]
    BY <1>4 DEF InvAdministracion, Tipos, Respuestas
  <2>4. QED
    BY <1>2, <2>1, <2>2, <2>3 DEF InvAdministracion, Tipos
<1>11. Atiende(h)' /\ Cuenta(h)'
  BY <1>1, <1>2, <1>8 DEF Atiende, Cuenta
<1>12. LeidoImportar(h)'
  BY <1>2, <1>7, LeidoImportarAjeno
<1>13. LeidoCrear(h)'
  <2> SUFFICES ASSUME pc'[h] = "escribir", b.accion = "crear"
               PROVE  Refs(b.fila) \subseteq Conocidas' /\ Acorde(base', b.fila)
    BY <1>8 DEF LeidoCrear
  <2>1. Refs(b.fila) \subseteq DOMAIN base /\ Acorde(base, b.fila)
    BY <1>5, <1>6, <1>8, LeeParaCrear
  <2>2. QED
    BY <1>2, <1>6, <2>1
<1>14. LeidaFila(h)' /\ LeidaLista(h)' /\ LeidoEstado(h)'
  <2>1. CASE pc'[h] = "escribir" /\ b.accion # "crear"
    <3>1. /\ b.id \in DOMAIN base /\ base[b.id].tabla \in TablasDe(b.accion)
          /\ b.accion = "actualizar" /\ "lista" \in DOMAIN b.fila /\ b.fila.lista # Nulo /\ base[b.id].tabla = "candidato" =>
               b.fila.lista \in DOMAIN base /\ base[b.fila.lista].tabla = "lista"
               /\ base[b.fila.lista].proceso = base[b.id].proceso
          /\ b.accion = "estado" => PedirEstado(b)
      BY <1>1, <1>5, <1>6, <1>8, <2>1, LeeParaEscribir
    <3>2. b.accion = "estado" => base[b.id].estado # b.fila.estado
      BY <1>8, <2>1, <3>1 DEF SinCambioCatalogo
    <3>3. LeidaFila(h)'
      BY <1>2, <1>6, <1>8, <3>1 DEF LeidaFila, Existe
    <3>4. LeidaLista(h)'
      BY <1>2, <1>6, <1>8, <3>1 DEF LeidaLista, Existe
    <3>5. LeidoEstado(h)'
      BY <1>2, <1>8, <3>2 DEF LeidoEstado
    <3>6. QED
      BY <3>3, <3>4, <3>5
  <2>2. CASE ~(pc'[h] = "escribir" /\ b.accion # "crear")
    BY <1>8, <2>2 DEF LeidaFila, LeidaLista, LeidoEstado
  <2>3. QED
    BY <2>1, <2>2
<1>15. DOMAIN auditoria' \ DOMAIN auditoria = {}
  BY <1>2
<1>16. QED
  BY <1>9, <1>10, <1>11, <1>12, <1>13, <1>14, <1>15, Conserva
-----------------------------------------------------------------------------
(* The imports *)

\* What an import created of the rows it has passed.
LEMMA CreoPasado ==
  ASSUME InvAdministracion, NEW h \in Peticiones, pc[h] # "libre" => op[h].accion = "importar", NEW t
  PROVE  /\ pc[h] = "libre" => Creo(h, t) = {}
         /\ pc[h] # "libre" => IsFiniteSet(Creo(h, t)) /\ \A n \in Creo(h, t) : n \in 1 .. fila[h].n - 1
<1>1. ASSUME NEW x \in Creo(h, t) PROVE pc[h] # "libre" /\ x \in 1 .. fila[h].n - 1
  <2>1. PICK k \in DOMAIN auditoria : auditoria[k].tipo = "CREADA" /\ auditoria[k].por = h /\ x = auditoria[k].id[3]
    BY <1>1 DEF Creo
  <2>2. NacidaDe(auditoria[k].id, h)
    BY <2>1 DEF InvAdministracion, Nacimientos
  <2>3. pc[h] # "libre" /\ op[h].accion = "importar"
    BY <2>2 DEF NacidaDe
  <2>4. PICK n \in DOMAIN op[h].fila :
          n < fila[h].n /\ (auditoria[k].id = <<h, "usuario", n>> \/ auditoria[k].id = <<h, "matricula", n>>)
    BY <2>2, <2>3 DEF NacidaDe
  <2>5. PeticionValida(op[h])
    BY <2>3, Validada
  <2>6. n \in Nat /\ n >= 1 /\ fila[h].n \in Nat /\ x = n
    <3>1. n \in 1 .. Len(op[h].fila) /\ Len(op[h].fila) \in Nat
      BY <2>3, <2>4, <2>5 DEF PeticionValida
    <3>2. fila[h].n \in Nat
      BY DEF InvAdministracion, Tipos
    <3>3. x = n
      BY <2>1, <2>4
    <3>4. QED
      BY <3>1, <3>2, <3>3
  <2>7. QED
    BY <2>3, <2>4, <2>6
<1>2. IsFiniteSet(1 .. fila[h].n - 1)
  <2>1. fila[h].n - 1 \in Int
    BY DEF InvAdministracion, Tipos
  <2>2. QED
    BY <2>1, FS_Interval
<1>3. Creo(h, t) \subseteq 1 .. fila[h].n - 1
  BY <1>1
<1>4. IsFiniteSet(Creo(h, t))
  BY <1>2, <1>3, FS_Subset
<1>5. QED
  BY <1>1, <1>4

\* What it creates in a step.
LEMMA CreoPropio ==
  ASSUME InvAdministracion, AvanceBase, NEW h \in Peticiones, NEW t, NEW x
  PROVE  x \in Creo(h, t)' <=>
           \/ x \in Creo(h, t)
           \/ \E k \in DOMAIN auditoria' \ DOMAIN auditoria :
                /\ auditoria'[k].tipo = "CREADA" /\ auditoria'[k].por = h
                /\ auditoria'[k].id[2] = t /\ auditoria'[k].id[3] = x
<1>1. \A k \in DOMAIN auditoria : k \in DOMAIN auditoria' /\ auditoria'[k] = auditoria[k]
  BY Despues
<1>2. x \in Creo(h, t) <=> \E k \in DOMAIN auditoria :
        /\ auditoria[k].tipo = "CREADA" /\ auditoria[k].por = h /\ auditoria[k].id[2] = t /\ auditoria[k].id[3] = x
  BY DEF Creo
<1>3. x \in Creo(h, t)' <=> \E k \in DOMAIN auditoria' :
        /\ auditoria'[k].tipo = "CREADA" /\ auditoria'[k].por = h /\ auditoria'[k].id[2] = t /\ auditoria'[k].id[3] = x
  BY DEF Creo
<1>4. QED
  BY <1>1, <1>2, <1>3, Zenon

\* An import begins.
LEMMA EmpezarConserva ==
  ASSUME InvAdministracion, NEW h \in Peticiones, Empezar(h), UNCHANGED <<leyo, agenda>>
  PROVE  InvAdministracion'
<1>1. PICK b \in agenda :
        b.accion = "importar" /\ op' = [op EXCEPT ![h] = b] /\ Ir(h, IF Len(b.fila) = 0 THEN "resumen" ELSE "fila")
  BY DEF Empezar
<1>2. /\ pc[h] = "libre" /\ base' = base /\ auditoria' = auditoria /\ fila' = [fila EXCEPT ![h].n = 1]
      /\ errores' = errores /\ resumen' = resumen /\ respuesta' = respuesta /\ leyo' = leyo /\ agenda' = agenda
  BY DEF Empezar
<1>3. agenda \in Agendas /\ PeticionValida(b) /\ b # Nulo /\ Len(b.fila) \in Nat
  BY <1>1, ConstantesRegistro DEF InvAdministracion, Tipos, PeticionValida
<1>4. Bien(base, auditoria) /\ auditoria \in Seq(Evento)
  BY DEF InvAdministracion, Bien
<1>5. AvanceBase /\ SerenoBase
  BY <1>2, <1>4, AvanzaQuieto DEF AvanceBase, SerenoBase
<1>6. /\ pc' = [pc EXCEPT ![h] = IF Len(b.fila) = 0 THEN "resumen" ELSE "fila"]
      /\ pc \in [Peticiones -> {"libre", "escribir", "fila", "suelta", "juntas", "resumen", "fin"}]
      /\ op \in [Peticiones -> agenda \cup {Nulo}]
      /\ fila \in [Peticiones -> [n : Nat, usuario : Ids \cup {Nulo}, aula : Ids \cup {Nulo}]]
  BY <1>1 DEF Ir, InvAdministracion, Tipos
<1>7. /\ pc'[h] = (IF Len(b.fila) = 0 THEN "resumen" ELSE "fila") /\ op'[h] = b
      /\ fila'[h].n = 1 /\ fila'[h].aula = fila[h].aula /\ fila'[h].usuario = fila[h].usuario
      /\ \A g \in Peticiones \ {h} : pc'[g] = pc[g] /\ op'[g] = op[g] /\ fila'[g] = fila[g]
  BY <1>1, <1>2, <1>6
<1>8. Paso(h)
  BY <1>2, <1>5, <1>7 DEF Paso
<1>9. Tipos'
  <2>1. fila' \in [Peticiones -> [n : Nat, usuario : Ids \cup {Nulo}, aula : Ids \cup {Nulo}]]
    BY <1>2, <1>6
  <2>2. QED
    BY <1>1, <1>2, <1>6, <2>1 DEF InvAdministracion, Tipos
<1>10. Atiende(h)'
  BY <1>1, <1>2, <1>7 DEF Atiende
<1>11. Cuenta(h)'
  <2>1. Creo(h, "usuario")' = {} /\ Creo(h, "matricula")' = {}
    <3>1. Creo(h, "usuario") = {} /\ Creo(h, "matricula") = {}
      BY <1>2, CreoPasado
    <3>2. QED
      BY <1>2, <3>1 DEF Creo
  <2>2. resumen'[h] = [creadas |-> 0, existentes |-> 0] /\ errores'[h] = {}
    BY <1>2 DEF InvAdministracion, Atiende
  <2>3. IsFiniteSet({}) /\ Cardinality({}) = 0
    BY FS_EmptySet
  <2>4. IsFiniteSet(errores'[h]) /\ Cardinality(errores'[h]) = 0 /\ Cardinality(Creo(h, "matricula")') = 0
    BY <2>1, <2>2, <2>3, Zenon
  <2>5. QED
    BY <1>3, <1>7, <2>1, <2>2, <2>4 DEF Cuenta
<1>12. LeidoImportar(h)'
  BY <1>5, <1>7, LeidoImportarAjeno
<1>13. LeidoCrear(h)' /\ LeidaFila(h)' /\ LeidaLista(h)' /\ LeidoEstado(h)'
  BY <1>7 DEF LeidoCrear, LeidaFila, LeidaLista, LeidoEstado
<1>14. DOMAIN auditoria' \ DOMAIN auditoria = {}
  BY <1>2
<1>15. QED
  BY <1>8, <1>9, <1>10, <1>11, <1>12, <1>13, <1>14, Conserva

\* A row of the file is passed: it is reported, or its Matricula was there, or it is created.
PasaFila(h) ==
  LET n == fila[h].n
      Crea(i) == \E k \in DOMAIN auditoria' \ DOMAIN auditoria : auditoria'[k].id = i
  IN /\ pc[h] \in {"suelta", "juntas"} /\ Pasar(h) /\ UNCHANGED <<op, respuesta, leyo, agenda>>
     /\ \A k \in DOMAIN auditoria' \ DOMAIN auditoria :
          auditoria'[k].tipo = "CREADA" /\ auditoria'[k].por = h /\ auditoria'[k].id \in {IdUsuario(h), IdMatricula(h)}
     /\ \/ /\ ~Crea(IdMatricula(h)) /\ resumen' = resumen
           /\ \E motivo \in Motivos :
                /\ errores' = [errores EXCEPT ![h] = @ \cup {[n |-> n, motivo |-> motivo]}]
                /\ Crea(IdUsuario(h)) => motivo = "referencia"
        \/ auditoria' = auditoria /\ errores' = errores /\ resumen' = [resumen EXCEPT ![h].existentes = @ + 1]
        \/ Crea(IdMatricula(h)) /\ errores' = errores /\ resumen' = [resumen EXCEPT ![h].creadas = @ + 1]

\* The counts of an import go on with the row it passes.
LEMMA PasaCuenta ==
  ASSUME InvAdministracion, NEW h \in Peticiones, PasaFila(h), AvanceBase
  PROVE  Cuenta(h)' /\ pc'[h] \in {"fila", "resumen"} /\ fila'[h] = [n |-> fila[h].n + 1, usuario |-> Nulo, aula |-> Nulo]
<1> DEFINE n == fila[h].n  N == Len(op[h].fila)
           U == \E k \in DOMAIN auditoria' \ DOMAIN auditoria : auditoria'[k].id = IdUsuario(h)
           M == \E k \in DOMAIN auditoria' \ DOMAIN auditoria : auditoria'[k].id = IdMatricula(h)
<1>1. /\ fila' = [fila EXCEPT ![h] = [n |-> n + 1, usuario |-> Nulo, aula |-> Nulo]]
      /\ pc' = [pc EXCEPT ![h] = IF n = N THEN "resumen" ELSE "fila"]
      /\ pc[h] \in {"suelta", "juntas"} /\ op' = op
  BY DEF PasaFila, Pasar, Ir
<1>2. /\ fila \in [Peticiones -> [n : Nat, usuario : Ids \cup {Nulo}, aula : Ids \cup {Nulo}]]
      /\ pc \in [Peticiones -> {"libre", "escribir", "fila", "suelta", "juntas", "resumen", "fin"}]
      /\ errores \in [Peticiones -> SUBSET [n : Nat, motivo : Motivos]]
      /\ resumen \in [Peticiones -> [creadas : Nat, existentes : Nat]]
  BY DEF InvAdministracion, Tipos
<1>3. /\ fila'[h] = [n |-> n + 1, usuario |-> Nulo, aula |-> Nulo]
      /\ pc'[h] = IF n = N THEN "resumen" ELSE "fila"
  BY <1>1, <1>2
<1>4. op[h].accion = "importar" /\ Cuenta(h)
  BY <1>1 DEF InvAdministracion, Atiende
<1>5. /\ n \in Nat /\ n \in 1 .. N /\ N \in Nat
      /\ IsFiniteSet(errores[h]) /\ (\A e \in errores[h] : e.n \in 1 .. n - 1)
      /\ resumen[h].creadas + resumen[h].existentes + Cardinality(errores[h]) = n - 1
      /\ resumen[h].creadas = Cardinality(Creo(h, "matricula"))
      /\ \A x \in Creo(h, "usuario") \ Creo(h, "matricula") : [n |-> x, motivo |-> "referencia"] \in errores[h]
  <2>1. PeticionValida(op[h])
    BY <1>1, Validada
  <2>2. QED
    BY <1>1, <1>2, <1>4, <2>1 DEF Cuenta, PeticionValida
<1>6. Creo(h, "matricula")' = IF M THEN Creo(h, "matricula") \cup {n} ELSE Creo(h, "matricula")
  <2>1. \A k \in DOMAIN auditoria' \ DOMAIN auditoria :
          /\ auditoria'[k].tipo = "CREADA" /\ auditoria'[k].por = h
          /\ auditoria'[k].id \in {<<h, "usuario", n>>, <<h, "matricula", n>>}
    BY DEF PasaFila, IdUsuario, IdMatricula
  <2>2. M <=> \E k \in DOMAIN auditoria' \ DOMAIN auditoria : auditoria'[k].id = <<h, "matricula", n>>
    BY DEF IdMatricula
  <2> HIDE DEF M, n
  <2>3. ASSUME NEW x PROVE x \in Creo(h, "matricula")' <=> x \in Creo(h, "matricula") \/ (M /\ x = n)
    <3>1. x \in Creo(h, "matricula")' <=>
            \/ x \in Creo(h, "matricula")
            \/ \E k \in DOMAIN auditoria' \ DOMAIN auditoria :
                 /\ auditoria'[k].tipo = "CREADA" /\ auditoria'[k].por = h
                 /\ auditoria'[k].id[2] = "matricula" /\ auditoria'[k].id[3] = x
      BY CreoPropio
    <3>2. QED
      BY <2>1, <2>2, <3>1
  <2>4. QED
    BY <2>3
<1>7. Creo(h, "usuario")' = IF U THEN Creo(h, "usuario") \cup {n} ELSE Creo(h, "usuario")
  <2>1. \A k \in DOMAIN auditoria' \ DOMAIN auditoria :
          /\ auditoria'[k].tipo = "CREADA" /\ auditoria'[k].por = h
          /\ auditoria'[k].id \in {<<h, "usuario", n>>, <<h, "matricula", n>>}
    BY DEF PasaFila, IdUsuario, IdMatricula
  <2>2. U <=> \E k \in DOMAIN auditoria' \ DOMAIN auditoria : auditoria'[k].id = <<h, "usuario", n>>
    BY DEF IdUsuario
  <2> HIDE DEF U, n
  <2>3. ASSUME NEW x PROVE x \in Creo(h, "usuario")' <=> x \in Creo(h, "usuario") \/ (U /\ x = n)
    <3>1. x \in Creo(h, "usuario")' <=>
            \/ x \in Creo(h, "usuario")
            \/ \E k \in DOMAIN auditoria' \ DOMAIN auditoria :
                 /\ auditoria'[k].tipo = "CREADA" /\ auditoria'[k].por = h
                 /\ auditoria'[k].id[2] = "usuario" /\ auditoria'[k].id[3] = x
      BY CreoPropio
    <3>2. QED
      BY <2>1, <2>2, <3>1
  <2>4. QED
    BY <2>3
<1>8. IsFiniteSet(Creo(h, "matricula")) /\ n \notin Creo(h, "matricula")
  <2>1. IsFiniteSet(Creo(h, "matricula")) /\ \A x \in Creo(h, "matricula") : x \in 1 .. n - 1
    BY <1>1, <1>4, CreoPasado
  <2>2. QED
    BY <1>5, <2>1
<1>9. Cardinality(Creo(h, "matricula") \cup {n}) = Cardinality(Creo(h, "matricula")) + 1
  BY <1>8, FS_AddElement
<1>10. Cardinality(errores[h]) \in Nat /\ resumen[h].creadas \in Nat /\ resumen[h].existentes \in Nat
       /\ Cardinality(Creo(h, "matricula")) \in Nat
  BY <1>2, <1>5, <1>8, FS_CardinalityType
<1>14. n \in Nat /\ resumen[h].creadas + resumen[h].existentes + Cardinality(errores[h]) = n - 1
  BY <1>5
<1>15. resumen[h].creadas = Cardinality(Creo(h, "matricula"))
  BY <1>5
<1>16. (resumen[h].creadas + resumen[h].existentes + Cardinality(errores[h])) + 1 = n
  <2> HIDE DEF n
  <2>1. (resumen[h].creadas + resumen[h].existentes + Cardinality(errores[h])) + 1 = (n - 1) + 1
    BY <1>14, Zenon
  <2>2. (n - 1) + 1 = n
    BY <1>14
  <2>3. QED
    BY <2>1, <2>2, Zenon
<1> DEFINE C == Creo(h, "matricula")'  E == errores'[h]
<1>11. /\ IsFiniteSet(E) /\ (\A e \in E : e.n \in 1 .. n)
       /\ resumen'[h].creadas + resumen'[h].existentes + Cardinality(E) = n
       /\ resumen'[h].creadas = Cardinality(C)
       /\ \A x \in Creo(h, "usuario")' \ C : [n |-> x, motivo |-> "referencia"] \in E
  <2>1. CASE /\ ~M /\ resumen' = resumen
             /\ \E motivo \in Motivos :
                  /\ errores' = [errores EXCEPT ![h] = @ \cup {[n |-> n, motivo |-> motivo]}]
                  /\ U => motivo = "referencia"
    <3>1. PICK motivo \in Motivos :
            errores' = [errores EXCEPT ![h] = @ \cup {[n |-> n, motivo |-> motivo]}] /\ (U => motivo = "referencia")
      BY <2>1
    <3> DEFINE y == [n |-> n, motivo |-> motivo]
    <3>2. E = errores[h] \cup {y} /\ y.n = n
      BY <1>2, <3>1
    <3>3. y \notin errores[h]
      BY <1>5, <3>2
    <3> HIDE DEF y
    <3>4. IsFiniteSet(errores[h] \cup {y}) /\ Cardinality(errores[h] \cup {y}) = Cardinality(errores[h]) + 1
      BY <1>5, <3>3, FS_AddElement
    <3>5. IsFiniteSet(E) /\ Cardinality(E) = Cardinality(errores[h]) + 1
      BY <3>2, <3>4, Zenon
    <3>6. \A e \in E : e.n \in 1 .. n
      <4>1. ASSUME NEW e \in E PROVE e.n \in 1 .. n
        <5>1. CASE e \in errores[h]
          BY <1>5, <5>1
        <5>2. CASE e = y
          BY <1>5, <3>2, <5>2
        <5>3. QED
          BY <3>2, <5>1, <5>2
      <4>2. QED
        BY <4>1
    <3>7. C = Creo(h, "matricula")
      BY <1>6, <2>1
    <3>8. \A x \in Creo(h, "usuario")' \ C : [n |-> x, motivo |-> "referencia"] \in E
      <4>1. U => [n |-> n, motivo |-> "referencia"] \in E
        BY <3>1, <3>2 DEF y
      <4> HIDE DEF U, E, C
      <4>2. QED
        BY <1>5, <1>7, <3>2, <3>7, <4>1
    <3>9. resumen'[h].creadas = Cardinality(C)
      BY <1>5, <2>1, <3>7, Zenon
    <3>10. resumen'[h].creadas + resumen'[h].existentes + Cardinality(E) = n
      <4> DEFINE c == resumen[h].creadas  x == resumen[h].existentes  r == Cardinality(errores[h])
      <4>1. resumen'[h] = resumen[h]
        BY <2>1
      <4>2. c \in Nat /\ x \in Nat /\ r \in Nat
        BY <1>10, Zenon
      <4> HIDE DEF E, n, c, x, r
      <4>3. c + x + (r + 1) = (c + x + r) + 1
        BY <4>2
      <4>4. QED
        BY <1>16, <3>5, <4>1, <4>3, Zenon DEF c, x, r
    <3>11. QED
      BY <3>5, <3>6, <3>8, <3>9, <3>10
  <2>2. CASE auditoria' = auditoria /\ errores' = errores /\ resumen' = [resumen EXCEPT ![h].existentes = @ + 1]
    <3>1. ~M /\ ~U
      BY <2>2
    <3>2. C = Creo(h, "matricula") /\ Creo(h, "usuario")' = Creo(h, "usuario") /\ E = errores[h]
      BY <1>6, <1>7, <2>2, <3>1
    <3>3. resumen'[h].creadas = resumen[h].creadas /\ resumen'[h].existentes = resumen[h].existentes + 1
      BY <1>2, <2>2
    <3> HIDE DEF E, C
    <3>4. IsFiniteSet(E) /\ Cardinality(E) = Cardinality(errores[h]) /\ Cardinality(C) = Cardinality(Creo(h, "matricula"))
      BY <1>5, <3>2, Zenon
    <3>5. \A e \in E : e.n \in 1 .. n
      BY <1>5, <3>2
    <3>6. \A x \in Creo(h, "usuario")' \ C : [n |-> x, motivo |-> "referencia"] \in E
      BY <1>5, <3>2
    <3>7. resumen'[h].creadas = Cardinality(C)
      BY <1>15, <3>3, <3>4, Zenon
    <3>8. resumen'[h].creadas + resumen'[h].existentes + Cardinality(E)
          = (resumen[h].creadas + resumen[h].existentes + Cardinality(errores[h])) + 1
      <4> DEFINE c == resumen[h].creadas  x == resumen[h].existentes  r == Cardinality(errores[h])
      <4>1. c \in Nat /\ x \in Nat /\ r \in Nat
        BY <1>10, Zenon
      <4> HIDE DEF c, x, r
      <4>2. c + (x + 1) + r = (c + x + r) + 1
        BY <4>1
      <4>3. QED
        BY <3>3, <3>4, <4>2, Zenon DEF c, x, r
    <3>9. resumen'[h].creadas + resumen'[h].existentes + Cardinality(E) = n
      BY <1>16, <3>8, Zenon
    <3>10. QED
      BY <3>4, <3>5, <3>6, <3>7, <3>9
  <2>3. CASE M /\ errores' = errores /\ resumen' = [resumen EXCEPT ![h].creadas = @ + 1]
    <3>1. C = Creo(h, "matricula") \cup {n} /\ E = errores[h]
      BY <1>6, <2>3
    <3>2. resumen'[h].creadas = resumen[h].creadas + 1 /\ resumen'[h].existentes = resumen[h].existentes
      BY <1>2, <2>3
    <3>3. Creo(h, "usuario")' \subseteq Creo(h, "usuario") \cup {n}
      BY <1>7
    <3> HIDE DEF E, C
    <3>4. IsFiniteSet(E) /\ Cardinality(E) = Cardinality(errores[h]) /\ Cardinality(C) = Cardinality(Creo(h, "matricula")) + 1
      BY <1>5, <1>9, <3>1, Zenon
    <3>5. \A e \in E : e.n \in 1 .. n
      BY <1>5, <3>1
    <3>6. \A x \in Creo(h, "usuario")' \ C : [n |-> x, motivo |-> "referencia"] \in E
      BY <1>5, <3>1, <3>3
    <3>7. resumen'[h].creadas = Cardinality(C)
      BY <1>15, <3>2, <3>4, Zenon
    <3>8. resumen'[h].creadas + resumen'[h].existentes + Cardinality(E)
          = (resumen[h].creadas + resumen[h].existentes + Cardinality(errores[h])) + 1
      <4> DEFINE c == resumen[h].creadas  x == resumen[h].existentes  r == Cardinality(errores[h])
      <4>1. c \in Nat /\ x \in Nat /\ r \in Nat
        BY <1>10, Zenon
      <4> HIDE DEF c, x, r
      <4>2. (c + 1) + x + r = (c + x + r) + 1
        BY <4>1
      <4>3. QED
        BY <3>2, <3>4, <4>2, Zenon DEF c, x, r
    <3>9. resumen'[h].creadas + resumen'[h].existentes + Cardinality(E) = n
      BY <1>16, <3>8, Zenon
    <3>10. QED
      BY <3>4, <3>5, <3>6, <3>7, <3>9
  <2>4. QED
    BY <2>1, <2>2, <2>3, Zenon DEF PasaFila
<1>12. Cuenta(h)'
  <2>1. /\ fila'[h].n \in 1 .. N + 1
        /\ pc'[h] \in {"fila", "suelta", "juntas"} => fila'[h].n <= N
        /\ pc'[h] = "resumen" => fila'[h].n = N + 1
        /\ fila'[h].n - 1 = n
    <3>1. fila'[h].n = n + 1 /\ n \in Nat /\ n \in 1 .. N /\ N \in Nat
      BY <1>3, <1>5
    <3>2. pc'[h] = IF n = N THEN "resumen" ELSE "fila"
      BY <1>3
    <3> HIDE DEF n, N
    <3>3. QED
      BY <3>1, <3>2
  <2>2. op'[h] = op[h]
    BY <1>1
  <2>3. QED
    BY <1>11, <2>1, <2>2 DEF Cuenta
<1>13. QED
  BY <1>3, <1>12

\* To pass a row keeps the invariant.
LEMMA PasaConserva ==
  ASSUME InvAdministracion, NEW h \in Peticiones, PasaFila(h), AvanceBase, SerenoBase
  PROVE  InvAdministracion'
<1>1. /\ Cuenta(h)' /\ pc'[h] \in {"fila", "resumen"}
      /\ fila'[h] = [n |-> fila[h].n + 1, usuario |-> Nulo, aula |-> Nulo]
  BY PasaCuenta
<1>2. /\ pc[h] \in {"suelta", "juntas"} /\ op' = op /\ respuesta' = respuesta /\ leyo' = leyo /\ agenda' = agenda
      /\ fila' = [fila EXCEPT ![h] = [n |-> fila[h].n + 1, usuario |-> Nulo, aula |-> Nulo]]
      /\ pc' = [pc EXCEPT ![h] = IF fila[h].n = Len(op[h].fila) THEN "resumen" ELSE "fila"]
  BY DEF PasaFila, Pasar, Ir
<1>3. /\ fila \in [Peticiones -> [n : Nat, usuario : Ids \cup {Nulo}, aula : Ids \cup {Nulo}]]
      /\ pc \in [Peticiones -> {"libre", "escribir", "fila", "suelta", "juntas", "resumen", "fin"}]
      /\ errores \in [Peticiones -> SUBSET [n : Nat, motivo : Motivos]]
      /\ resumen \in [Peticiones -> [creadas : Nat, existentes : Nat]]
  BY DEF InvAdministracion, Tipos
<1>4. \/ resumen' = resumen
         /\ \E motivo \in Motivos : errores' = [errores EXCEPT ![h] = @ \cup {[n |-> fila[h].n, motivo |-> motivo]}]
      \/ errores' = errores /\ \E c \in {"creadas", "existentes"} : resumen' = [resumen EXCEPT ![h][c] = @ + 1]
  BY DEF PasaFila
<1>5. auditoria \in Seq(Evento) /\ auditoria' \in Seq(Evento) /\ \A k \in DOMAIN auditoria : k \in DOMAIN auditoria'
  BY Despues
<1>6. errores' \in [Peticiones -> SUBSET [n : Nat, motivo : Motivos]]
      /\ \A g \in Peticiones \ {h} : errores'[g] = errores[g]
  BY <1>3, <1>4
<1>7. resumen' \in [Peticiones -> [creadas : Nat, existentes : Nat]]
      /\ \A g \in Peticiones \ {h} : resumen'[g] = resumen[g]
  <2>1. CASE resumen' = resumen
    BY <1>3, <2>1
  <2>2. CASE resumen' = [resumen EXCEPT ![h].creadas = @ + 1]
    BY <1>3, <2>2
  <2>3. CASE resumen' = [resumen EXCEPT ![h].existentes = @ + 1]
    BY <1>3, <2>3
  <2>4. QED
    BY <1>4, <2>1, <2>2, <2>3
<1>8. \A k \in DOMAIN auditoria' \ DOMAIN auditoria :
        /\ auditoria'[k].tipo = "CREADA" /\ auditoria'[k].por = h
        /\ auditoria'[k].id \in {<<h, "usuario", fila[h].n>>, <<h, "matricula", fila[h].n>>}
  BY DEF PasaFila, IdUsuario, IdMatricula
<1>9. Paso(h)
  BY <1>1, <1>2, <1>3, <1>6, <1>7, <1>8 DEF Paso
<1>10. Tipos'
  <2>1. auditoria' \in Seq([tipo : TiposDeEvento, id : Ids, por : Peticiones])
    BY <1>5 DEF Evento
  <2>2. Len(auditoria) <= Len(auditoria')
    BY <1>5
  <2>3. fila' \in [Peticiones -> [n : Nat, usuario : Ids \cup {Nulo}, aula : Ids \cup {Nulo}]]
    BY <1>2, <1>3
  <2>4. leyo' \in [Peticiones -> Nat] /\ \A g \in Peticiones : leyo'[g] <= Len(auditoria')
    <3>1. leyo' \in [Peticiones -> Nat] /\ \A g \in Peticiones : leyo'[g] <= Len(auditoria)
      BY <1>2 DEF InvAdministracion, Tipos
    <3>2. Len(auditoria) \in Nat /\ Len(auditoria') \in Nat
      BY <1>5
    <3>3. QED
      BY <2>2, <3>1, <3>2
  <2>5. QED
    BY <1>2, <1>3, <1>6, <1>7, <2>1, <2>3, <2>4 DEF InvAdministracion, Tipos
<1>11. op[h] \in agenda /\ op[h].accion = "importar" /\ fila[h].n \in DOMAIN op[h].fila /\ fila[h].n < fila'[h].n
  <2>1. op[h] \in agenda /\ op[h].accion = "importar"
    BY <1>2 DEF InvAdministracion, Atiende
  <2>2. fila[h].n \in DOMAIN op[h].fila /\ fila[h].n \in Nat
    BY <1>2, IdsLibres
  <2>3. QED
    BY <1>1, <2>1, <2>2
<1>12. Atiende(h)'
  BY <1>1, <1>2, <1>11 DEF Atiende
<1>13. LeidoImportar(h)'
  BY <1>1 DEF LeidoImportar
<1>14. LeidoCrear(h)' /\ LeidaFila(h)' /\ LeidaLista(h)' /\ LeidoEstado(h)'
  BY <1>1 DEF LeidoCrear, LeidaFila, LeidaLista, LeidoEstado
<1>15. ASSUME NEW i, \E k \in DOMAIN auditoria' \ DOMAIN auditoria : auditoria'[k].tipo = "CREADA" /\ auditoria'[k].id = i
       PROVE  NacidaDe(i, h)'
  BY <1>1, <1>2, <1>8, <1>11, <1>15 DEF NacidaDe
<1>16. QED
  BY <1>1, <1>8, <1>9, <1>10, <1>12, <1>13, <1>14, <1>15, Conserva

\* A row that is invalid.
LEMMA InvalidaConserva ==
  ASSUME InvAdministracion, NEW h \in Peticiones, NEW motivo \in Motivos, pc[h] \in {"suelta", "juntas"},
         Invalida(h, motivo), UNCHANGED <<op, respuesta, leyo, agenda>>
  PROVE  InvAdministracion'
<1>1. base' = base /\ auditoria' = auditoria /\ Bien(base, auditoria)
  BY DEF Invalida, InvAdministracion
<1>2. AvanceBase /\ SerenoBase
  BY <1>1, AvanzaQuieto DEF AvanceBase, SerenoBase
<1>3. DOMAIN auditoria' \ DOMAIN auditoria = {}
  BY <1>1
<1>4. PasaFila(h)
  BY <1>3 DEF PasaFila, Invalida
<1>5. QED
  BY <1>2, <1>4, PasaConserva

\* The Usuario alone.
LEMMA SueltoConserva ==
  ASSUME InvAdministracion, NEW h \in Peticiones, CrearSuelto(h), UNCHANGED <<leyo, agenda>>
  PROVE  InvAdministracion'
<1>1. AvanceBase /\ SerenoBase
  BY SueltoAvanza
<1>2. /\ pc[h] = "suelta" /\ Pasar(h) /\ op' = op /\ respuesta' = respuesta /\ resumen' = resumen
      /\ leyo' = leyo /\ agenda' = agenda
  BY DEF CrearSuelto
<1>3. auditoria \in Seq(Evento) /\ auditoria' \in Seq(Evento) /\ IdUsuario(h) # IdMatricula(h)
  BY <1>1, Despues DEF IdUsuario, IdMatricula
<1>4. \/ Colision(Actual(h)) # {} /\ auditoria' = auditoria
      \/ /\ Colision(Actual(h)) = {}
         /\ auditoria' = Append(auditoria, [tipo |-> "CREADA", id |-> IdUsuario(h), por |-> h])
  BY DEF CrearSuelto, Auditar
<1>5. /\ \A k \in DOMAIN auditoria' \ DOMAIN auditoria :
           auditoria'[k] = [tipo |-> "CREADA", id |-> IdUsuario(h), por |-> h]
      /\ (\E k \in DOMAIN auditoria' \ DOMAIN auditoria : auditoria'[k].id = IdUsuario(h)) => Colision(Actual(h)) = {}
  BY <1>3, <1>4
<1>6. \E motivo \in Motivos :
        /\ errores' = [errores EXCEPT ![h] = @ \cup {[n |-> fila[h].n, motivo |-> motivo]}]
        /\ Colision(Actual(h)) = {} => motivo = "referencia"
  BY DEF CrearSuelto, Motivos
<1>7. PasaFila(h)
  <2>1. \A k \in DOMAIN auditoria' \ DOMAIN auditoria :
          auditoria'[k].tipo = "CREADA" /\ auditoria'[k].por = h /\ auditoria'[k].id = IdUsuario(h)
    BY <1>5
  <2>2. ~ \E k \in DOMAIN auditoria' \ DOMAIN auditoria : auditoria'[k].id = IdMatricula(h)
    BY <1>3, <2>1
  <2>3. PICK motivo \in Motivos :
          /\ errores' = [errores EXCEPT ![h] = @ \cup {[n |-> fila[h].n, motivo |-> motivo]}]
          /\ Colision(Actual(h)) = {} => motivo = "referencia"
    BY <1>6
  <2>4. (\E k \in DOMAIN auditoria' \ DOMAIN auditoria : auditoria'[k].id = IdUsuario(h)) => motivo = "referencia"
    BY <1>5, <2>3
  <2>5. QED
    BY <1>2, <2>1, <2>2, <2>3, <2>4, Zenon DEF PasaFila
<1>8. QED
  BY <1>1, <1>7, PasaConserva

\* The writes of a row.
LEMMA EscribirFilaConserva ==
  ASSUME InvAdministracion, NEW h \in Peticiones, EscribirFila(h), UNCHANGED <<leyo, agenda>>
  PROVE  InvAdministracion'
<1>1. pc[h] = "juntas" /\ op' = op /\ respuesta' = respuesta /\ leyo' = leyo /\ agenda' = agenda
  BY DEF EscribirFila
<1>2. CASE \E motivo \in Motivos : Invalida(h, motivo)
  BY <1>1, <1>2, InvalidaConserva
<1>3. CASE ~ \E motivo \in Motivos : Invalida(h, motivo)
  <2> DEFINE u == IF fila[h].usuario = Nulo THEN IdUsuario(h) ELSE fila[h].usuario
             eU == [tipo |-> "CREADA", id |-> u, por |-> h]  eM == [tipo |-> "CREADA", id |-> IdMatricula(h), por |-> h]
  <2>1. /\ Pasar(h) /\ errores' = errores
        /\ \/ auditoria' = auditoria /\ resumen' = [resumen EXCEPT ![h].existentes = @ + 1]
           \/ /\ resumen' = [resumen EXCEPT ![h].creadas = @ + 1]
              /\ auditoria' = Append(IF fila[h].usuario = Nulo THEN Append(auditoria, eU) ELSE auditoria, eM)
    BY <1>3, Zenon DEF EscribirFila, Motivos
  <2>2. AvanceBase /\ SerenoBase
    BY EscribirFilaAvanza
  <2>3. auditoria \in Seq(Evento) /\ auditoria' \in Seq(Evento)
    BY <2>2, Despues
  <2>4. PasaFila(h)
    <3>1. CASE auditoria' = auditoria /\ resumen' = [resumen EXCEPT ![h].existentes = @ + 1]
      <4>1. DOMAIN auditoria' \ DOMAIN auditoria = {}
        BY <3>1
      <4>2. QED
        BY <1>1, <2>1, <3>1, <4>1 DEF PasaFila
    <3>2. CASE /\ resumen' = [resumen EXCEPT ![h].creadas = @ + 1]
               /\ auditoria' = Append(IF fila[h].usuario = Nulo THEN Append(auditoria, eU) ELSE auditoria, eM)
      <4>1. /\ \A k \in DOMAIN auditoria' \ DOMAIN auditoria :
                 auditoria'[k] = eM \/ (auditoria'[k] = eU /\ u = IdUsuario(h))
            /\ \E k \in DOMAIN auditoria' \ DOMAIN auditoria : auditoria'[k] = eM
        <5> HIDE DEF eM
        <5>1. CASE fila[h].usuario = Nulo
          <6>1. u = IdUsuario(h)
            BY <5>1
          <6> HIDE DEF u, eU
          <6>2. auditoria' = Append(Append(auditoria, eU), eM)
            BY <3>2, <5>1
          <6>3. Len(auditoria) \in Nat /\ DOMAIN auditoria = 1 .. Len(auditoria)
                /\ DOMAIN auditoria' = 1 .. Len(auditoria) + 2
                /\ auditoria'[Len(auditoria) + 1] = eU /\ auditoria'[Len(auditoria) + 2] = eM
            BY <2>3, <6>2
          <6>4. QED
            BY <6>1, <6>3
        <5>2. CASE fila[h].usuario # Nulo
          <6>1. auditoria' = Append(auditoria, eM)
            BY <3>2, <5>2
          <6>2. Len(auditoria) \in Nat /\ DOMAIN auditoria = 1 .. Len(auditoria)
                /\ DOMAIN auditoria' = 1 .. Len(auditoria) + 1 /\ auditoria'[Len(auditoria) + 1] = eM
            BY <2>3, <6>1
          <6>3. QED
            BY <6>2
        <5>3. QED
          BY <5>1, <5>2
      <4>2. eM.tipo = "CREADA" /\ eM.id = IdMatricula(h) /\ eM.por = h
            /\ (u = IdUsuario(h) => eU.tipo = "CREADA" /\ eU.id = IdUsuario(h) /\ eU.por = h)
        OBVIOUS
      <4> HIDE DEF eM, eU, u
      <4>3. QED
        BY <1>1, <2>1, <3>2, <4>1, <4>2 DEF PasaFila
    <3>3. QED
      BY <2>1, <3>1, <3>2
  <2>5. QED
    BY <2>2, <2>4, PasaConserva
<1>4. QED
  BY <1>2, <1>3

\* A step of an import that neither writes nor passes a row.
LEMMA QuietaConserva ==
  ASSUME InvAdministracion, NEW h \in Peticiones, pc[h] \in {"fila", "suelta", "juntas", "resumen"},
         NEW p \in {"suelta", "juntas", "fin"}, p # "fin" => pc[h] \in {"fila", "juntas"},
         pc' = [pc EXCEPT ![h] = p], UNCHANGED <<base, auditoria, op, leyo, agenda, errores, resumen>>,
         respuesta' \in [Peticiones -> {"hecha", "sin_cambio", "rechazada", "error", Nulo}],
         fila' \in [Peticiones -> [n : Nat, usuario : Ids \cup {Nulo}, aula : Ids \cup {Nulo}]],
         \A g \in Peticiones \ {h} : fila'[g] = fila[g], fila'[h].n = fila[h].n, LeidoImportar(h)'
  PROVE  InvAdministracion'
<1>1. Bien(base, auditoria) /\ auditoria \in Seq(Evento)
      /\ pc \in [Peticiones -> {"libre", "escribir", "fila", "suelta", "juntas", "resumen", "fin"}]
      /\ fila \in [Peticiones -> [n : Nat, usuario : Ids \cup {Nulo}, aula : Ids \cup {Nulo}]]
  BY DEF InvAdministracion, Bien, Tipos
<1>2. AvanceBase /\ SerenoBase
  BY <1>1, AvanzaQuieto DEF AvanceBase, SerenoBase
<1>3. pc'[h] = p /\ \A g \in Peticiones \ {h} : pc'[g] = pc[g]
  BY <1>1
<1>4. DOMAIN auditoria' \ DOMAIN auditoria = {}
  OBVIOUS
<1>5. Paso(h)
  BY <1>1, <1>2, <1>3, <1>4 DEF Paso
<1>6. Tipos'
  BY DEF InvAdministracion, Tipos
<1>7. op[h] \in agenda /\ op[h].accion = "importar" /\ Cuenta(h)
  BY DEF InvAdministracion, Atiende
<1>8. Atiende(h)'
  BY <1>3, <1>7 DEF Atiende
<1>9. Cuenta(h)'
  <2>1. Creo(h, "usuario")' = Creo(h, "usuario") /\ Creo(h, "matricula")' = Creo(h, "matricula")
    BY DEF Creo
  <2>2. pc'[h] \in {"fila", "suelta", "juntas"} => pc[h] \in {"fila", "suelta", "juntas"}
    BY <1>3
  <2>3. pc'[h] # "resumen" /\ pc[h] # "libre"
    BY <1>3
  <2>4. QED
    BY <1>7, <2>1, <2>2, <2>3 DEF Cuenta
<1>10. LeidoCrear(h)' /\ LeidaFila(h)' /\ LeidaLista(h)' /\ LeidoEstado(h)'
  BY <1>3 DEF LeidoCrear, LeidaFila, LeidaLista, LeidoEstado
<1>11. QED
  BY <1>4, <1>5, <1>6, <1>8, <1>9, <1>10, Conserva

\* The reads of a row.
LEMMA LeerFilaConserva ==
  ASSUME InvAdministracion, NEW h \in Peticiones, LeerFila(h), UNCHANGED <<leyo, agenda>>
  PROVE  InvAdministracion'
<1> DEFINE r == Actual(h)  v == IF Exacta(r) THEN CHOOSE u \in Por("dni", r) : TRUE ELSE Nulo
<1>1. pc[h] = "juntas" /\ op' = op /\ respuesta' = respuesta /\ leyo' = leyo /\ agenda' = agenda
  BY DEF LeerFila
<1>2. CASE \E motivo \in Motivos : Invalida(h, motivo)
  BY <1>1, <1>2, InvalidaConserva
<1>3. CASE \E a \in AulasDe(r) :
             /\ fila' = [fila EXCEPT ![h].aula = a, ![h].usuario = v]
             /\ UNCHANGED <<base, auditoria, pc, errores, resumen>>
  <2>1. PICK a \in AulasDe(r) : /\ fila' = [fila EXCEPT ![h].aula = a, ![h].usuario = v]
                                /\ UNCHANGED <<base, auditoria, pc, errores, resumen>>
    BY <1>3
  <2>2. a \in DOMAIN base /\ base[a].tabla = "aula"
    BY DEF AulasDe, Filas
  <2>3. v # Nulo => v \in DOMAIN base /\ base[v].tabla = "usuario"
    <3>1. Exacta(r) => v \in Por("dni", r)
      BY DEF Exacta
    <3>2. QED
      BY <3>1 DEF Por, Filas
  <2>4. Bien(base, auditoria)
    BY DEF InvAdministracion
  <2>5. a \in Ids /\ v \in Ids \cup {Nulo} /\ a \in Conocidas
    <3>1. \A i \in DOMAIN base : i \in Ids
      BY <2>4, SonIds
    <3>2. DOMAIN base \subseteq Conocidas
      BY <2>4 DEF Bien, Conocidas, ConocidasDe
    <3>3. QED
      BY <2>2, <2>3, <3>1, <3>2
  <2> HIDE DEF v, r
  <2>6. fila \in [Peticiones -> [n : Nat, usuario : Ids \cup {Nulo}, aula : Ids \cup {Nulo}]]
        /\ respuesta \in [Peticiones -> {"hecha", "sin_cambio", "rechazada", "error", Nulo}]
        /\ pc \in [Peticiones -> {"libre", "escribir", "fila", "suelta", "juntas", "resumen", "fin"}]
    BY DEF InvAdministracion, Tipos
  <2>7. /\ fila' \in [Peticiones -> [n : Nat, usuario : Ids \cup {Nulo}, aula : Ids \cup {Nulo}]]
        /\ fila'[h].n = fila[h].n /\ fila'[h].aula = a /\ fila'[h].usuario = v
        /\ \A g \in Peticiones \ {h} : fila'[g] = fila[g]
    BY <2>1, <2>5, <2>6
  <2>8. LeidoImportar(h)'
    <3>1. Conocidas' = Conocidas /\ base' = base
      BY <2>1 DEF Conocidas
    <3>2. QED
      BY <2>2, <2>3, <2>5, <2>7, <3>1 DEF LeidoImportar, Existe
  <2>9. pc' = [pc EXCEPT ![h] = "juntas"] /\ UNCHANGED <<base, auditoria, op, leyo, agenda, errores, resumen>>
    BY <1>1, <2>1, <2>6
  <2>10. QED
    BY <1>1, <2>6, <2>7, <2>8, <2>9, QuietaConserva
<1>4. QED
  BY <1>2, <1>3, Zenon DEF LeerFila, Motivos

\* The other steps of an import that write nothing.
LEMMA ResolverConserva ==
  ASSUME InvAdministracion, NEW h \in Peticiones, Resolver(h) \/ Caer(h), UNCHANGED <<leyo, agenda>>
  PROVE  InvAdministracion'
<1>1. /\ fila \in [Peticiones -> [n : Nat, usuario : Ids \cup {Nulo}, aula : Ids \cup {Nulo}]]
      /\ respuesta \in [Peticiones -> {"hecha", "sin_cambio", "rechazada", "error", Nulo}]
      /\ Bien(base, auditoria)
  BY DEF InvAdministracion, Tipos
<1>2. /\ base' = base /\ auditoria' = auditoria /\ op' = op /\ fila' = fila /\ errores' = errores /\ resumen' = resumen
      /\ pc[h] \in {"fila", "suelta", "juntas", "resumen"}
  BY DEF Resolver, Caer, varsImportacion
<1>3. LeidoImportar(h)'
  <2>1. AvanceBase
    BY <1>1, <1>2, AvanzaQuieto DEF AvanceBase
  <2>2. QED
    BY <1>2, <2>1, LeidoImportarAjeno
<1>4. PICK p \in {"suelta", "juntas", "fin"} : pc' = [pc EXCEPT ![h] = p] /\ (p # "fin" => pc[h] \in {"fila", "juntas"})
  BY DEF Resolver, Caer, Responder, Ir
<1>5. respuesta' \in [Peticiones -> {"hecha", "sin_cambio", "rechazada", "error", Nulo}]
  BY <1>1 DEF Resolver, Caer, Responder
<1>6. QED
  BY <1>1, <1>2, <1>3, <1>4, <1>5, QuietaConserva

\* The summary of an import.
LEMMA ResumirConserva ==
  ASSUME InvAdministracion, NEW h \in Peticiones, Resumir(h), UNCHANGED <<leyo, agenda>>
  PROVE  InvAdministracion'
<1> DEFINE i == <<resumen[h].creadas, resumen[h].existentes, Cardinality(errores[h])>>
           e == [tipo |-> "PADRON_IMPORTADO", id |-> i, por |-> h]
<1>1. /\ pc[h] = "resumen" /\ pc' = [pc EXCEPT ![h] = "fin"] /\ respuesta' = [respuesta EXCEPT ![h] = "hecha"]
      /\ auditoria' = Append(auditoria, e) /\ base' = base /\ op' = op
      /\ fila' = fila /\ errores' = errores /\ resumen' = resumen /\ leyo' = leyo /\ agenda' = agenda
  BY DEF Resumir, Responder, Ir, Auditar, varsImportacion
<1>2. /\ Bien(base, auditoria) /\ auditoria \in Seq(Evento)
      /\ pc \in [Peticiones -> {"libre", "escribir", "fila", "suelta", "juntas", "resumen", "fin"}]
      /\ resumen \in [Peticiones -> [creadas : Nat, existentes : Nat]]
      /\ respuesta \in [Peticiones -> {"hecha", "sin_cambio", "rechazada", "error", Nulo}]
      /\ fila[h].n \in Nat
  BY SonIds DEF InvAdministracion, Tipos
<1>3. op[h] \in agenda /\ op[h].accion = "importar" /\ Cuenta(h)
  BY <1>1 DEF InvAdministracion, Atiende
<1>4. IsFiniteSet(errores[h]) /\ fila[h].n = Len(op[h].fila) + 1
  BY <1>1, <1>3 DEF Cuenta
<1>5. i \in Ids
  <2>1. Cardinality(errores[h]) \in Nat
    BY <1>4, FS_CardinalityType
  <2>2. QED
    BY <1>2, <2>1 DEF Ids
<1>6. e \in Evento /\ e.tipo = "PADRON_IMPORTADO" /\ e.por = h /\ e.id = i
  <2> HIDE DEF i
  <2>1. QED
    BY <1>5 DEF Evento, TiposDeEvento
<1> HIDE DEF e
<1>7. AvanceBase /\ SerenoBase
  BY <1>1, <1>2, <1>6, AnuncioAvanza DEF AvanceBase, SerenoBase
<1>8. /\ \A k \in DOMAIN auditoria' \ DOMAIN auditoria : auditoria'[k] = e
      /\ auditoria' \in Seq(Evento) /\ Len(auditoria) <= Len(auditoria') /\ \A k \in DOMAIN auditoria : auditoria'[k] = auditoria[k]
  BY <1>1, <1>2, <1>6
<1>9. pc'[h] = "fin" /\ \A g \in Peticiones \ {h} : pc'[g] = pc[g]
  BY <1>1, <1>2
<1>10. Paso(h)
  BY <1>1, <1>2, <1>6, <1>7, <1>8, <1>9 DEF Paso
<1>11. Tipos'
  <2>1. auditoria' \in Seq([tipo : TiposDeEvento, id : Ids, por : Peticiones])
    BY <1>8 DEF Evento
  <2>2. \A g \in Peticiones : leyo[g] \in Nat /\ leyo[g] <= Len(auditoria')
    <3>1. \A g \in Peticiones : leyo[g] \in Nat /\ leyo[g] <= Len(auditoria)
      BY DEF InvAdministracion, Tipos
    <3>2. Len(auditoria) \in Nat /\ Len(auditoria') \in Nat
      BY <1>2, <1>8
    <3>3. QED
      BY <1>8, <3>1, <3>2
  <2>3. QED
    BY <1>1, <1>2, <2>1, <2>2 DEF InvAdministracion, Tipos
<1>12. Atiende(h)'
  BY <1>1, <1>3, <1>9 DEF Atiende
<1>13. Cuenta(h)'
  <2>1. ASSUME NEW t PROVE Creo(h, t)' = Creo(h, t)
    <3>1. ASSUME NEW x PROVE x \in Creo(h, t)' <=> x \in Creo(h, t)
      <4>1. \A k \in DOMAIN auditoria' \ DOMAIN auditoria : auditoria'[k].tipo # "CREADA"
        BY <1>6, <1>8
      <4>2. QED
        BY <1>7, <4>1, CreoPropio
    <3>2. QED
      BY <3>1
  <2>2. Creo(h, "usuario")' = Creo(h, "usuario") /\ Creo(h, "matricula")' = Creo(h, "matricula")
    BY <2>1
  <2>3. pc[h] # "libre"
    BY <1>1
  <2>4. QED
    BY <1>1, <1>3, <1>9, <2>2, <2>3 DEF Cuenta
<1>14. LeidoImportar(h)'
  BY <1>1, <1>7, LeidoImportarAjeno
<1>15. LeidoCrear(h)' /\ LeidaFila(h)' /\ LeidaLista(h)' /\ LeidoEstado(h)'
  BY <1>9 DEF LeidoCrear, LeidaFila, LeidaLista, LeidoEstado
<1>16. \A k \in DOMAIN auditoria' \ DOMAIN auditoria :
         /\ auditoria'[k].tipo = "PADRON_IMPORTADO"
         /\ auditoria'[k].id = <<resumen'[h].creadas, resumen'[h].existentes, Cardinality(errores'[h])>>
  BY <1>1, <1>6, <1>8
<1>17. QED
  BY <1>1, <1>3, <1>4, <1>9, <1>10, <1>11, <1>12, <1>13, <1>14, <1>15, <1>16, Conserva

\* Every step of an import keeps the invariant.
LEMMA ImportarConserva ==
  ASSUME InvAdministracion, NEW h \in Peticiones, Importar(h)
  PROVE  InvAdministracion'
<1>1. leyo' = leyo /\ agenda' = agenda
  BY DEF Importar
<1>2. CASE Empezar(h)
  BY <1>1, <1>2, EmpezarConserva
<1>3. CASE Resolver(h) \/ Caer(h)
  BY <1>1, <1>3, ResolverConserva
<1>4. CASE CrearSuelto(h)
  BY <1>1, <1>4, SueltoConserva
<1>5. CASE LeerFila(h)
  BY <1>1, <1>5, LeerFilaConserva
<1>6. CASE EscribirFila(h)
  BY <1>1, <1>6, EscribirFilaConserva
<1>7. CASE FallarFila(h)
  BY <1>1, <1>7, InvalidaConserva DEF FallarFila, Motivos
<1>8. CASE Resumir(h)
  BY <1>1, <1>8, ResumirConserva
<1>9. QED
  BY <1>2, <1>3, <1>4, <1>5, <1>6, <1>7, <1>8 DEF Importar
-----------------------------------------------------------------------------
(* The theorems *)

\* The invariant holds of the rows the system starts with.
LEMMA InvarianteInicial ==
  ASSUME Init
  PROVE  InvAdministracion
<1>1. /\ base = Inicial /\ auditoria = <<>> /\ agenda \in Agendas
      /\ pc = [h \in Peticiones |-> "libre"] /\ op = [h \in Peticiones |-> Nulo]
      /\ respuesta = [h \in Peticiones |-> Nulo] /\ leyo = [h \in Peticiones |-> 0]
      /\ fila = [h \in Peticiones |-> [n |-> 0, usuario |-> Nulo, aula |-> Nulo]]
      /\ errores = [h \in Peticiones |-> {}]
      /\ resumen = [h \in Peticiones |-> [creadas |-> 0, existentes |-> 0]]
  BY DEF Init, InitRegistro, InitImportacion
<1>2. DOMAIN auditoria = {} /\ Len(auditoria) = 0 /\ auditoria \in Seq(Evento)
  BY <1>1
<1>3. Tipos
  <2>1. auditoria \in Seq([tipo : TiposDeEvento, id : Ids, por : Peticiones])
    BY <1>1
  <2>2. QED
    BY <1>1, <1>2, <2>1 DEF Tipos
<1>4. ASSUME NEW h \in Peticiones
      PROVE  /\ Atiende(h) /\ Cuenta(h)
             /\ LeidoCrear(h) /\ LeidaFila(h) /\ LeidaLista(h) /\ LeidoEstado(h) /\ LeidoImportar(h)
  <2>1. pc[h] = "libre" /\ op[h] = Nulo /\ fila[h].usuario = Nulo /\ fila[h].aula = Nulo
        /\ resumen[h] = [creadas |-> 0, existentes |-> 0] /\ errores[h] = {}
    BY <1>1
  <2>2. QED
    BY <2>1 DEF Atiende, Cuenta, LeidoCrear, LeidaFila, LeidaLista, LeidoEstado, LeidoImportar
<1>5. Nacimientos /\ EstadosHechos /\ Anuncios
  BY <1>2 DEF Nacimientos, EstadosHechos, Anuncios
<1>6. Bien(base, auditoria)
  <2>1. Sanas(base)
    BY <1>1, InicialSana, SanaPorFilas DEF Sanas
  <2>2. DOMAIN base \subseteq ConocidasDe(auditoria)
    BY <1>1 DEF ConocidasDe
  <2>3. Rastro(base, auditoria)
    <3>1. ASSUME NEW i PROVE Debe(auditoria, i) = Hay(base, i)
      <4>1. \A tipo : Marcas(auditoria, tipo, i) = {}
        BY <1>2 DEF Marcas
      <4>2. Cardinality(Marcas(auditoria, "CREADA", i)) = 0 /\ Cardinality(Marcas(auditoria, "ELIMINADA", i)) = 0
        BY <4>1, FS_EmptySet, Zenon
      <4>3. Cardinality({i} \cap DOMAIN Inicial) \in {0, 1} /\ Hay(base, i) = Cardinality({i} \cap DOMAIN Inicial)
        BY <1>1, Singular DEF Hay
      <4>4. QED
        BY <4>2, <4>3 DEF Debe
    <3>2. QED
      BY <3>1 DEF Rastro
  <2>4. UnAnio(base, auditoria)
    <3>1. Activados(auditoria) = {}
      BY <1>2 DEF Activados
    <3>2. UltimoDe(auditoria) = ActivosDe(base) /\ ActivosDe(base) \subseteq DOMAIN base
      BY <1>1, <3>1 DEF UltimoDe, ActivosDe
    <3>3. QED
      BY <2>2, <3>1, <3>2 DEF UnAnio
  <2>5. EstadosDe(base, auditoria) /\ BajasConocidas(auditoria)
    BY <1>2 DEF EstadosDe, BajasDe, BajasConocidas
  <2>6. QED
    BY <1>2, <2>1, <2>2, <2>3, <2>4, <2>5 DEF Bien
<1>7. QED
  BY <1>3, <1>4, <1>5, <1>6 DEF InvAdministracion, Leido

\* The inductive invariant: what each handler read stays true of the rows that are left, every id
\* is given once, and the rows and the audit agree.
THEOREM InvarianteAdministracion == Spec => []InvAdministracion
<1>1. Init => InvAdministracion
  BY InvarianteInicial
<1>2. InvAdministracion /\ [Next]_vars => InvAdministracion'
  <2> SUFFICES ASSUME InvAdministracion, [Next]_vars PROVE InvAdministracion'
    OBVIOUS
  <2>1. CASE UNCHANGED vars
    <3>1. /\ base' = base /\ auditoria' = auditoria /\ pc' = pc /\ op' = op /\ respuesta' = respuesta /\ leyo' = leyo
          /\ agenda' = agenda /\ fila' = fila /\ errores' = errores /\ resumen' = resumen
      BY <2>1 DEF vars, registro, varsImportacion
    <3>2. /\ Tipos' /\ (\A h \in Peticiones : Atiende(h))' /\ Nacimientos' /\ EstadosHechos' /\ Anuncios'
      <4>1. Tipos'
        BY <3>1 DEF InvAdministracion, Tipos
      <4>2. (\A h \in Peticiones : Atiende(h))'
        BY <3>1 DEF InvAdministracion, Atiende
      <4>3. Nacimientos'
        BY <3>1 DEF InvAdministracion, Nacimientos, NacidaDe
      <4>4. EstadosHechos' /\ Anuncios'
        BY <3>1 DEF InvAdministracion, EstadosHechos, Anuncios
      <4>5. QED
        BY <4>1, <4>2, <4>3, <4>4
    <3>3. (\A h \in Peticiones : Cuenta(h))'
      <4>1. ASSUME NEW h \in Peticiones PROVE Creo(h, "usuario")' = Creo(h, "usuario") /\ Creo(h, "matricula")' = Creo(h, "matricula")
        BY <3>1 DEF Creo
      <4>2. ASSUME NEW h \in Peticiones PROVE Cuenta(h)'
        <5>1. Cuenta(h)
          BY DEF InvAdministracion
        <5>2. QED
          BY <3>1, <4>1, <5>1 DEF Cuenta
      <4>3. QED
        BY <4>2
    <3>4. Leido'
      <4>1. ASSUME NEW h \in Peticiones PROVE LeidoCrear(h)'
        BY <3>1 DEF InvAdministracion, Leido, LeidoCrear, Existe, Conocidas, Acorde, Refs, Llaves
      <4>2. ASSUME NEW h \in Peticiones PROVE LeidaFila(h)'
        BY <3>1 DEF InvAdministracion, Leido, LeidaFila, Conocidas, Existe, Acorde
      <4>3. ASSUME NEW h \in Peticiones PROVE LeidaLista(h)' /\ LeidoEstado(h)'
        BY <3>1 DEF InvAdministracion, Leido, LeidaLista, LeidoEstado, Existe, Conocidas, BajasDe, Acorde
      <4>4. ASSUME NEW h \in Peticiones PROVE LeidoImportar(h)'
        BY <3>1 DEF InvAdministracion, Leido, LeidoImportar, Existe, Conocidas
      <4>5. QED
        BY <4>1, <4>2, <4>3, <4>4 DEF Leido
    <3>5. (Bien(base, auditoria))'
      BY <3>1 DEF InvAdministracion, Bien, EstadosDe
    <3>6. QED
      BY <3>2, <3>3, <3>4, <3>5 DEF InvAdministracion
  <2>2. ASSUME NEW h \in Peticiones, LeerPeticion(h), UNCHANGED varsImportacion PROVE InvAdministracion'
    BY <2>2, LeerConserva
  <2>3. ASSUME NEW h \in Peticiones, Escribir(h) \/ EscribirCatalogo(h) \/ Activar(h), UNCHANGED varsImportacion
        PROVE  InvAdministracion'
    BY <2>3, EscrituraTermina, TerminaConserva
  <2>4. ASSUME NEW h \in Peticiones, Importar(h) PROVE InvAdministracion'
    BY <2>4, ImportarConserva
  <2>5. QED
    BY <2>1, <2>2, <2>3, <2>4 DEF Next
<1>3. QED
  BY <1>1, <1>2, PTL DEF Spec

\* The invariant gives the types, and every property of the rows and of the audit.
LEMMA Consecuencias ==
  ASSUME InvAdministracion
  PROVE  /\ TipoRegistro /\ TipoImportacion /\ Sana(base)
         /\ RastroDelRegistro /\ AnioActivoUnico /\ RastroDeEstado
<1>1. Bien(base, auditoria) /\ Tipos /\ auditoria \in Seq(Evento)
  BY DEF InvAdministracion, Bien
<1>2. TipoRegistro
  <2>1. \A i \in DOMAIN base : base[i].tabla \in DOMAIN Indices
    BY <1>1, Esquema DEF Bien, Sanas, FilaSana, BienFormada
  <2>2. \A k \in DOMAIN auditoria : auditoria[k].por \in Peticiones
    <3>1. \A k \in DOMAIN auditoria : auditoria[k] \in Evento
      BY <1>1
    <3>2. QED
      BY <3>1 DEF Evento
  <2>3. leyo \in [Peticiones -> 0 .. Len(auditoria)]
    <3>1. Len(auditoria) \in Nat /\ leyo \in [Peticiones -> Nat] /\ \A h \in Peticiones : leyo[h] <= Len(auditoria)
      BY <1>1 DEF Tipos
    <3>2. QED
      BY <3>1
  <2>4. QED
    BY <1>1, <2>1, <2>2, <2>3 DEF TipoRegistro, Tipos
<1>3. TipoImportacion
  <2>1. ASSUME NEW h \in Peticiones
        PROVE  /\ pc[h] \in {"fila", "suelta", "juntas"} => fila[h].n \in DOMAIN op[h].fila
               /\ fila[h].usuario \in {Nulo} \cup DOMAIN base /\ fila[h].aula \in {Nulo} \cup Conocidas
               /\ \A e \in errores[h] : e.motivo \in {"duplicado", "referencia", "coherencia", "formato"}
               /\ resumen[h] \in [creadas: Nat, existentes: Nat]
    <3>1. CASE pc[h] \in {"fila", "suelta", "juntas"}
      <4>1. op[h].accion = "importar" /\ Cuenta(h) /\ PeticionValida(op[h])
        BY <3>1, Validada DEF InvAdministracion, Atiende
      <4>2. fila[h].n \in 1 .. Len(op[h].fila) + 1 /\ fila[h].n <= Len(op[h].fila) /\ Len(op[h].fila) \in Nat
            /\ DOMAIN op[h].fila = 1 .. Len(op[h].fila)
        BY <3>1, <4>1 DEF Cuenta, PeticionValida
      <4>3. fila[h].n \in DOMAIN op[h].fila
        BY <4>2
      <4>4. QED
        BY <1>1, <4>3 DEF Tipos, Motivos, InvAdministracion, Leido, LeidoImportar, Existe
    <3>2. CASE pc[h] \notin {"fila", "suelta", "juntas"}
      BY <1>1, <3>2 DEF Tipos, Motivos, InvAdministracion, Leido, LeidoImportar, Existe
    <3>3. QED
      BY <3>1, <3>2
  <2>2. QED
    BY <2>1 DEF TipoImportacion
<1>4. QED
  BY <1>1, <1>2, <1>3, BienEs

\* The audit accounts for every row of every table: for each row that is there one CREADA (or a
\* place in the initial rows) more than its ELIMINADA, and none for the rest, but for the rows that
\* left with their proceso.
THEOREM RastroDelRegistroSiempre == Spec => []RastroDelRegistro
<1>1. InvAdministracion => RastroDelRegistro
  BY Consecuencias
<1>2. QED
  BY <1>1, InvarianteAdministracion, PTL

\* No foreign key dangles, no unique key is twice, and the aulas and the matriculas are of the
\* grado and of the year of what they belong to, for any interleaving of the services' handlers.
THEOREM ArbolSiempreCoherente == Spec => []ArbolCoherente
<1>1. InvAdministracion => ArbolCoherente
  BY Consecuencias DEF Sana, ArbolCoherente
<1>2. QED
  BY <1>1, InvarianteAdministracion, PTL

\* The year that is active is the one the last ACTIVADO names, and no other.
THEOREM AnioSiempreUnico == Spec => []AnioActivoUnico
<1>1. InvAdministracion => AnioActivoUnico
  BY Consecuencias
<1>2. QED
  BY <1>1, InvarianteAdministracion, PTL

\* A candidato is of the proceso of his lista, and a vote of the proceso of what it names.
THEOREM CatalogoSiempreCoherente == Spec => []CatalogoCoherente
<1>1. InvAdministracion => CatalogoCoherente
  BY Consecuencias DEF Sana, CatalogoCoherente
<1>2. QED
  BY <1>1, InvarianteAdministracion, PTL

\* The last audited change of estado is the estado of the row, and two of the same in a row are of
\* handlers that overlapped.
THEOREM EstadoSiempreAuditado == Spec => []RastroDeEstado
<1>1. InvAdministracion => RastroDeEstado
  BY Consecuencias
<1>2. QED
  BY <1>1, InvarianteAdministracion, PTL

\* An import leaves a Usuario without a Matricula only of a row it reports, and its summary adds up.
THEOREM FilaSiempreAtomica == Spec => []FilaAtomica
<1>1. ASSUME InvAdministracion PROVE FilaAtomica
  <2>1. ASSUME NEW h \in Importaciones
        PROVE  /\ \A n \in Creo(h, "usuario") \ Creo(h, "matricula") : [n |-> n, motivo |-> "referencia"] \in errores[h]
               /\ resumen[h].creadas = Cardinality(Creo(h, "matricula"))
               /\ \A k \in DOMAIN auditoria :
                    auditoria[k].tipo = "PADRON_IMPORTADO" /\ auditoria[k].por = h =>
                      auditoria[k].id[1] + auditoria[k].id[2] + auditoria[k].id[3] = Len(op[h].fila)
    <3>1. h \in Peticiones /\ op[h] # Nulo /\ op[h].accion = "importar" /\ pc[h] # "libre" /\ Cuenta(h)
      BY <1>1 DEF Importaciones, InvAdministracion, Atiende
    <3>2. ASSUME NEW k \in DOMAIN auditoria, auditoria[k].tipo = "PADRON_IMPORTADO", auditoria[k].por = h
          PROVE  auditoria[k].id[1] + auditoria[k].id[2] + auditoria[k].id[3] = Len(op[h].fila)
      <4>1. fila[h].n = Len(op[h].fila) + 1
            /\ auditoria[k].id = <<resumen[h].creadas, resumen[h].existentes, Cardinality(errores[h])>>
        BY <1>1, <3>2 DEF InvAdministracion, Anuncios
      <4>2. resumen[h].creadas + resumen[h].existentes + Cardinality(errores[h]) = fila[h].n - 1
        BY <3>1 DEF Cuenta
      <4>3. Len(op[h].fila) \in Nat
        BY <1>1, <3>1, Validada DEF PeticionValida
      <4>4. QED
        BY <4>1, <4>2, <4>3
    <3>3. QED
      BY <3>1, <3>2 DEF Cuenta
  <2>2. QED
    BY <1>1, <2>1, Consecuencias DEF FilaAtomica
<1>2. QED
  BY <1>1, InvarianteAdministracion, PTL
=============================================================================
