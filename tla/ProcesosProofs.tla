---------------------------- MODULE ProcesosProofs --------------------------
(***************************************************************************)
(* The life of a proceso for any number of requests of the committee and   *)
(* sweeps, any roll and any catalogue.                                     *)
(***************************************************************************)
EXTENDS Procesos, FiniteSetTheorems, FunctionTheorems, TLAPS

(* The inductive invariant *)

\* The row lock is held by whoever is between its UPDATE and its commit.
Candados ==
  \A p \in Comite : candado = p <=> paso[p] \in {"abriendo", "cerrando"}

\* The columns, the roll and the actas that go with each estado.
Abiertos == {"abierto", "cerrado", "acta_emitida"}
Cerrados == {"cerrado", "acta_emitida"}
VidaDeLaFila ==
  /\ proceso.apertura_real # Nulo <=> proceso.estado \in Abiertos
  /\ proceso.cierre_real # Nulo <=> proceso.estado \in Cerrados
  /\ actas # Nulo <=> proceso.estado \in Cerrados
  /\ derechos # {} <=> proceso.estado \in Abiertos

\* A handler that has not answered has no answer.
SinRespuesta ==
  \A p \in Comite : paso[p] \in {"nuevo"} \cup EnCurso => contestado[p] = Nulo

\* A set of ballots over a roll: one for each right, for a row that exists.
Papeletas(vs, ds, filas) ==
  /\ \A v \in vs : v.derecho \in ds /\ v.eleccion \in filas \cup {Blanco}
  /\ \A v, w \in vs : v.derecho = w.derecho => v = w

Existentes == {l \in Listas : catalogo[l] # "ausente"}

\* What each snapshot says of the row that is there now.
DeAbrir(p) ==
  /\ proceso.estado = "borrador"
  /\ foto[p] \in Foto
  /\ \E t \in Instantes : foto[p].proceso = [proceso EXCEPT !.estado = "abierto", !.apertura_real = t]

\* cerrar() before its lock: an older snapshot of an open proceso was overtaken by the end of
\* it or by a late editar().
DeCerrar(p) ==
  /\ foto[p] \in Foto
  /\ foto[p].version <= version
  /\ foto[p].version = version => foto[p].proceso = proceso
  /\ foto[p].proceso.estado = "abierto" =>
       /\ foto[p].derechos = derechos
       /\ proceso.estado \in Abiertos
       /\ proceso.estado = "abierto" /\ foto[p].version # version => EdicionTardia
  /\ foto[p].votos \subseteq votos
  /\ Papeletas(foto[p].votos, foto[p].derechos, foto[p].catalogo)

DeConfirmar(p) ==
  /\ proceso.estado = "abierto"
  /\ foto[p] \in Foto
  /\ foto[p].derechos = derechos
  /\ \E t \in Instantes : foto[p].proceso = [proceso EXCEPT !.estado = "cerrado", !.cierre_real = t]
  /\ foto[p].votos \subseteq votos
  /\ Papeletas(foto[p].votos, foto[p].derechos, foto[p].catalogo)

DeAvisar(p) ==
  /\ foto[p] \in Foto
  /\ pedido[p] \in EventosSweep
  /\ foto[p].derechos # {} /\ foto[p].derechos \subseteq derechos /\ SinVoto \subseteq foto[p].derechos

DeReleer == proceso.estado \in Abiertos /\ (proceso.estado = "abierto" => EdicionTardia)

Situacion(p) ==
  /\ paso[p] = "abriendo" => DeAbrir(p)
  /\ paso[p] = "fotografiado" => DeCerrar(p)
  /\ paso[p] = "cerrando" => DeConfirmar(p)
  /\ paso[p] = "conflicto" => DeReleer
  /\ paso[p] \in {"listado", "contado"} => pedido[p] \in EventosSweep
  /\ paso[p] = "avisando" => DeAvisar(p)

Situaciones == \A p \in Comite : Situacion(p)

InvProcesos ==
  /\ Candados /\ VidaDeLaFila /\ SinRespuesta /\ Papeletas(votos, derechos, Existentes) /\ Situaciones
  /\ RastroCompleto /\ AvisosDelPadron /\ EscrutinioCuadra
-----------------------------------------------------------------------------
(* Ballots and their count *)

\* One ballot for each right at most: no more ballots than rights.
LEMMA PapeletasAcotadas ==
  ASSUME NEW vs, NEW ds, NEW filas, IsFiniteSet(ds), Papeletas(vs, ds, filas)
  PROVE  IsFiniteSet(vs) /\ Cardinality(vs) <= Cardinality(ds)
<1> DEFINE f == [v \in vs |-> v.derecho]
<1>1. f \in Injection(vs, ds)
  BY DEF Papeletas, Injection, IsInjective
<1>2. QED
  BY <1>1, FS_Injection

\* The breakdown by rows adds up to the ballots that name one of those rows.
LEMMA SumaDelDesglose ==
  ASSUME NEW vs, IsFiniteSet(vs), NEW filas, NEW d \in [Contables -> Nat],
         \A l \in Contables : d[l] = IF l \in filas THEN Cuantos(vs, l) ELSE 0
  PROVE  Cardinality(UNION {{l} \X (1 .. d[l]) : l \in Contables})
           = Cardinality({v \in vs : v.eleccion \in Contables \cap filas})
<1> DEFINE W == {v \in vs : v.eleccion \in Contables \cap filas}
           T == UNION {{l} \X (1 .. d[l]) : l \in Contables}
           De(l) == {v \in W : v.eleccion = l}
           b == [l \in Contables |-> CHOOSE g : g \in Bijection(1 .. d[l], De(l))]
           f == [x \in T |-> b[x[1]][x[2]]]
<1>1. IsFiniteSet(W) /\ \A l \in Contables : IsFiniteSet(De(l))
  BY FS_Subset
<1>2. ASSUME NEW l \in Contables PROVE d[l] = Cardinality(De(l))
  <2>1. CASE l \in filas
    <3>1. De(l) = {v \in vs : v.eleccion = l}
      BY <2>1
    <3>2. QED
      BY <2>1, <3>1 DEF Cuantos
  <2>2. CASE l \notin filas
    <3>1. De(l) = {}
      BY <2>2
    <3>2. Cardinality(De(l)) = 0
      BY <3>1, FS_EmptySet, Zenon
    <3>3. QED
      BY <2>2, <3>2
  <2>3. QED
    BY <2>1, <2>2
<1>3. ASSUME NEW l \in Contables PROVE b[l] \in Bijection(1 .. d[l], De(l))
  <2>1. ExistsBijection(1 .. Cardinality(De(l)), De(l))
    BY <1>1, FS_CardinalityType
  <2>2. \E g : g \in Bijection(1 .. d[l], De(l))
    BY <1>2, <2>1 DEF ExistsBijection
  <2>3. QED
    BY <2>2, Zenon
<1>4. \A x \in T : /\ x[1] \in Contables /\ x[2] \in 1 .. d[x[1]] /\ x = <<x[1], x[2]>>
  OBVIOUS
<1>5. \A l \in Contables : \A i \in 1 .. d[l] : <<l, i>> \in T
  OBVIOUS
<1> HIDE DEF T, b
<1>6. \A l \in Contables : /\ b[l] \in [1 .. d[l] -> De(l)]
                           /\ \A i, j \in 1 .. d[l] : b[l][i] = b[l][j] => i = j
                           /\ \A v \in De(l) : \E i \in 1 .. d[l] : b[l][i] = v
  BY <1>3 DEF Bijection, Injection, IsInjective, Surjection
<1>7. f \in [T -> W]
  BY <1>4, <1>6
<1>8. \A x \in T : f[x] = b[x[1]][x[2]] /\ f[x].eleccion = x[1]
  BY <1>4, <1>6
<1>9. ASSUME NEW x \in T, NEW y \in T, f[x] = f[y] PROVE x = y
  <2>1. x[1] = y[1]
    BY <1>8, <1>9
  <2>2. x[2] = y[2]
    BY <1>4, <1>6, <1>8, <1>9, <2>1
  <2>3. QED
    BY <1>4, <2>1, <2>2
<1>10. ASSUME NEW v \in W PROVE \E x \in T : f[x] = v
  <2>1. v.eleccion \in Contables /\ v \in De(v.eleccion)
    OBVIOUS
  <2>2. PICK i \in 1 .. d[v.eleccion] : b[v.eleccion][i] = v
    BY <1>6, <2>1
  <2>3. <<v.eleccion, i>> \in T
    BY <1>5, <2>1
  <2>4. f[<<v.eleccion, i>>] = v
    BY <2>2, <2>3
  <2>5. QED
    BY <2>3, <2>4
<1> HIDE DEF f, W
<1>11. f \in Bijection(T, W)
  BY <1>7, <1>9, <1>10 DEF Bijection, Injection, IsInjective, Surjection
<1>12. ExistsBijection(W, T)
  BY <1>11, Fun_ExistsBijSymmetric DEF ExistsBijection
<1>13. Cardinality(T) = Cardinality(W)
  BY <1>1, <1>12, FS_Bijection
<1>14. QED
  BY <1>13 DEF T, W

\* The acta of a snapshot balances.
LEMMA Balance ==
  ASSUME NEW p \in Comite, foto[p] \in Foto, Papeletas(foto[p].votos, foto[p].derechos, foto[p].catalogo)
  PROVE  LET a == Escrutinio(p)
             total == Cardinality(UNION {{l} \X (1 .. a.desglose[l]) : l \in Contables})
         IN /\ a \in Actas
            /\ a.blancos + total <= a.emitidos
            /\ (\A v \in foto[p].votos : v.eleccion \in Contables \cup {Blanco}) => a.blancos + total = a.emitidos
            /\ a.emitidos <= a.padron
            /\ a.padron = Cardinality(foto[p].derechos)
<1> DEFINE vs == foto[p].votos  ds == foto[p].derechos  filas == foto[p].catalogo
           B == {v \in vs : v.eleccion = Blanco}
           W == {v \in vs : v.eleccion \in Contables \cap filas}
           a == Escrutinio(p)
           total == Cardinality(UNION {{l} \X (1 .. a.desglose[l]) : l \in Contables})
<1>1. IsFiniteSet(ds) /\ IsFiniteSet(vs) /\ Cardinality(vs) <= Cardinality(ds)
  <2>1. ds \subseteq Derechos
    BY DEF Foto
  <2>2. IsFiniteSet(ds)
    BY <2>1, FS_Subset, ConstantesProcesos
  <2>3. QED
    BY <2>2, PapeletasAcotadas
<1>2. \A l : IsFiniteSet({v \in vs : v.eleccion = l}) /\ Cuantos(vs, l) \in Nat
  BY <1>1, FS_Subset, FS_CardinalityType DEF Cuantos
<1>3. /\ a.padron = Cardinality(ds) /\ a.emitidos = Cardinality(vs) /\ a.blancos = Cardinality(B)
      /\ a.desglose = [l \in Contables |-> IF l \in filas THEN Cuantos(vs, l) ELSE 0]
  BY DEF Escrutinio, VotosDelDesglose, Cuantos
<1>4. /\ a.desglose \in [Contables -> Nat]
      /\ \A l \in Contables : a.desglose[l] = IF l \in filas THEN Cuantos(vs, l) ELSE 0
  <2> DEFINE c(l) == IF l \in filas THEN Cuantos(vs, l) ELSE 0
  <2>1. \A l \in Contables : c(l) \in Nat
    BY <1>2
  <2>2. a.desglose = [l \in Contables |-> c(l)]
    BY <1>3
  <2> HIDE DEF c
  <2>3. a.desglose \in [Contables -> Nat] /\ \A l \in Contables : a.desglose[l] = c(l)
    BY <2>1, <2>2
  <2>4. QED
    BY <2>3 DEF c
<1>5. Cardinality(ds) \in Nat /\ Cardinality(vs) \in Nat
  BY <1>1, FS_CardinalityType
<1>6. a \in Actas
  BY <1>2, <1>3, <1>4, <1>5 DEF Actas, Escrutinio, VotosDelDesglose
<1>7. total = Cardinality(W)
  <2>1. \A d \in [Contables -> Nat] : (\A l \in Contables : d[l] = IF l \in filas THEN Cuantos(vs, l) ELSE 0) =>
          Cardinality(UNION {{l} \X (1 .. d[l]) : l \in Contables}) = Cardinality(W)
    <3>1. \A F : \A d \in [Contables -> Nat] : (\A l \in Contables : d[l] = IF l \in F THEN Cuantos(vs, l) ELSE 0) =>
            Cardinality(UNION {{l} \X (1 .. d[l]) : l \in Contables})
              = Cardinality({v \in vs : v.eleccion \in Contables \cap F})
      <4> HIDE DEF vs
      <4>1. QED
        BY <1>1, SumaDelDesglose, Zenon
    <3>2. QED
      BY <3>1, Zenon
  <2> HIDE DEF a, W, vs, filas
  <2>2. QED
    BY <1>4, <2>1, Zenon
<1>8. /\ IsFiniteSet(B) /\ IsFiniteSet(W) /\ IsFiniteSet(B \cup W)
      /\ Cardinality(B \cup W) = Cardinality(B) + Cardinality(W)
      /\ Cardinality(B \cup W) <= Cardinality(vs)
  <2>1. IsFiniteSet(B) /\ IsFiniteSet(W)
    BY <1>1, FS_Subset
  <2>2. B \cap W = {}
    BY ConstantesProcesos
  <2>3. Cardinality(B \cap W) = 0
    BY <2>2, FS_EmptySet, Zenon
  <2>4. /\ IsFiniteSet(B \cup W)
        /\ Cardinality(B \cup W) = Cardinality(B) + Cardinality(W) - Cardinality(B \cap W)
    BY <2>1, FS_Union
  <2>5. Cardinality(B \cup W) <= Cardinality(vs)
    BY <1>1, FS_Subset
  <2>6. Cardinality(B) \in Nat /\ Cardinality(W) \in Nat
    BY <2>1, FS_CardinalityType
  <2>7. QED
    BY <2>1, <2>3, <2>4, <2>5, <2>6
<1>9. (\A v \in vs : v.eleccion \in Contables \cup {Blanco}) => B \cup W = vs
  BY DEF Papeletas
<1> HIDE DEF B, W, total, a, vs, ds
<1>10. /\ a.blancos + total <= a.emitidos
       /\ (\A v \in vs : v.eleccion \in Contables \cup {Blanco}) => a.blancos + total = a.emitidos
  BY <1>3, <1>7, <1>8, <1>9
<1>11. a.emitidos <= a.padron
  BY <1>1, <1>3
<1>12. QED
  BY <1>3, <1>6, <1>10, <1>11 DEF total, a, vs, ds
-----------------------------------------------------------------------------
(* The audit log *)

\* One more event in the log.
LEMMA VecesAuditar ==
  ASSUME bitacora \in Seq(Suceso), NEW p \in Comite, NEW s,
         [tipo |-> s, pedido |-> p] \in Suceso, Auditar(p, s), NEW t
  PROVE  /\ bitacora' \in Seq(Suceso)
         /\ Veces(t) \in Nat
         /\ Veces(t)' = Veces(t) + (IF t = s THEN 1 ELSE 0)
         /\ EdicionTardia => EdicionTardia'
<1> DEFINE e == [tipo |-> s, pedido |-> p]
           n == Len(bitacora)
           I == {i \in 1 .. n : bitacora[i].tipo = t}
           J == {i \in 1 .. (n + 1) : bitacora'[i].tipo = t}
<1>1. /\ bitacora' \in Seq(Suceso) /\ n \in Nat /\ Len(bitacora') = n + 1
      /\ bitacora'[n + 1] = e
      /\ \A i \in 1 .. n : bitacora'[i] = bitacora[i]
  BY DEF Auditar
<1>2. Veces(t) = Cardinality(I) /\ Veces(t)' = Cardinality(J)
  BY <1>1 DEF Veces
<1>3. IsFiniteSet(I) /\ Cardinality(I) \in Nat
  <2>1. IsFiniteSet(1 .. n)
    BY <1>1, FS_Interval
  <2>2. QED
    BY <2>1, FS_Subset, FS_CardinalityType
<1>4. CASE t = s
  <2>1. J = I \cup {n + 1} /\ n + 1 \notin I
    BY <1>1, <1>4
  <2>2. Cardinality(I \cup {n + 1}) = Cardinality(I) + 1
    BY <1>3, <2>1, FS_AddElement
  <2>3. Cardinality(J) = Cardinality(I) + 1
    BY <2>1, <2>2, Zenon
  <2> HIDE DEF I, J
  <2>4. Veces(t)' = Veces(t) + (IF t = s THEN 1 ELSE 0)
    BY <1>2, <1>4, <2>3
  <2>5. EdicionTardia => EdicionTardia'
    BY <1>1 DEF EdicionTardia
  <2>6. QED
    BY <1>1, <1>2, <1>3, <2>4, <2>5
<1>5. CASE t # s
  <2>1. J = I
    BY <1>1, <1>5
  <2> HIDE DEF I, J
  <2>2. Veces(t)' = Veces(t) + (IF t = s THEN 1 ELSE 0)
    BY <1>2, <1>3, <1>5, <2>1
  <2>3. EdicionTardia => EdicionTardia'
    BY <1>1 DEF EdicionTardia
  <2>4. QED
    BY <1>1, <1>2, <1>3, <2>2, <2>3
<1>6. QED
  BY <1>4, <1>5

\* Editing a proceso that has been opened is late.
LEMMA EditarTarde ==
  ASSUME bitacora \in Seq(Suceso), NEW p \in Comite, Auditar(p, "PROCESO_EDITADO"),
         Veces("PROCESO_ABIERTO") = 1
  PROVE  EdicionTardia'
<1>1. {i \in 1 .. Len(bitacora) : bitacora[i].tipo = "PROCESO_ABIERTO"} # {}
  <2>1. ASSUME {i \in 1 .. Len(bitacora) : bitacora[i].tipo = "PROCESO_ABIERTO"} = {}
        PROVE  Veces("PROCESO_ABIERTO") = 0
    BY <2>1, FS_EmptySet, Zenon DEF Veces
  <2>2. QED
    BY <2>1
<1>2. PICK i \in 1 .. Len(bitacora) : bitacora[i].tipo = "PROCESO_ABIERTO"
  BY <1>1
<1>3. /\ Len(bitacora') = Len(bitacora) + 1 /\ Len(bitacora) \in Nat
      /\ bitacora'[i].tipo = "PROCESO_ABIERTO" /\ bitacora'[Len(bitacora) + 1].tipo = "PROCESO_EDITADO"
  BY <1>2 DEF Auditar, Suceso
<1>4. QED
  BY <1>2, <1>3 DEF EdicionTardia
-----------------------------------------------------------------------------
(* The steps that write nothing but their own handler *)

\* What a handler changes of itself.
Propio(p) ==
  /\ \A q \in Comite \ {p} : /\ paso'[q] = paso[q] /\ pedido'[q] = pedido[q]
                             /\ foto'[q] = foto[q] /\ contestado'[q] = contestado[q]
  /\ paso' \in [Comite -> Pasos] /\ pedido' \in [Comite -> Operaciones \cup {Nulo}]
  /\ foto' \in [Comite -> Foto \cup {Nulo}] /\ contestado' \in [Comite -> Respuestas \cup {Nulo}]
  /\ candado' \in Comite \cup {Nulo}

\* The lock moves with its holder, and only from hand to hand through nobody.
Bloquea(p) ==
  /\ paso'[p] \in {"abriendo", "cerrando"} <=> candado' = p
  /\ candado' # candado => {candado, candado'} = {Nulo, p}

\* The lock is held, and answers given, by whom they should.
LEMMA Control ==
  ASSUME Candados, SinRespuesta, NEW p \in Comite, Propio(p), Bloquea(p),
         paso'[p] \in {"nuevo"} \cup EnCurso => contestado'[p] = Nulo
  PROVE  Candados' /\ SinRespuesta'
<1>1. Candados'
  BY ConstantesProcesos DEF Candados, Propio, Bloquea
<1>2. SinRespuesta'
  BY DEF SinRespuesta, Propio
<1>3. QED
  BY <1>1, <1>2

\* Handlers elsewhere see nothing of a step without writes.
LEMMA PasoPropio ==
  ASSUME InvProcesos, NEW p \in Comite, Propio(p), Bloquea(p), Situacion(p)', SinEscribir,
         paso'[p] \in {"nuevo"} \cup EnCurso => contestado'[p] = Nulo
  PROVE  InvProcesos'
<1> USE DEF InvProcesos
<1>1. UNCHANGED <<reloj, proceso, derechos, catalogo, votos, version, actas, bitacora, avisos>>
  BY DEF SinEscribir, compartidas
<1>2. Candados' /\ SinRespuesta'
  BY Control
<1>3. VidaDeLaFila' /\ Papeletas(votos, derechos, Existentes)'
  BY <1>1 DEF VidaDeLaFila, Papeletas, Existentes
<1>5. ASSUME NEW q \in Comite, q # p PROVE Situacion(q)'
  <2>1. Situacion(q)
    BY DEF Situaciones
  <2>2. paso'[q] = paso[q] /\ pedido'[q] = pedido[q] /\ foto'[q] = foto[q]
    BY <1>5 DEF Propio
  <2>3. (EdicionTardia' <=> EdicionTardia) /\ SinVoto' = SinVoto
    BY <1>1 DEF EdicionTardia, SinVoto
  <2>4. DeAbrir(q) => DeAbrir(q)'
    BY <1>1, <2>2 DEF DeAbrir
  <2>5. DeCerrar(q) => DeCerrar(q)'
    BY <1>1, <2>2, <2>3 DEF DeCerrar
  <2>6. DeConfirmar(q) => DeConfirmar(q)'
    BY <1>1, <2>2 DEF DeConfirmar
  <2>7. (DeReleer => DeReleer') /\ (DeAvisar(q) => DeAvisar(q)')
    BY <1>1, <2>2, <2>3 DEF DeReleer, DeAvisar
  <2>8. QED
    BY <2>1, <2>2, <2>4, <2>5, <2>6, <2>7 DEF Situacion
<1>6. Situaciones'
  BY <1>5 DEF Situaciones
<1>7. RastroCompleto'
  BY <1>1 DEF RastroCompleto, TypeOK, Veces, Propio
<1>8. EscrutinioCuadra'
  BY <1>1 DEF EscrutinioCuadra, Total
<1>9. AvisosDelPadron'
  <2>1. (\A e : Avisados(e)' = Avisados(e)) /\ SinVoto' = SinVoto
    BY <1>1 DEF Avisados, SinVoto
  <2>2. QED
    BY <1>1, <2>1 DEF AvisosDelPadron, Duenos
<1>10. QED
  BY <1>2, <1>3, <1>6, <1>7, <1>8, <1>9

\* A handler that answers, without writing.
LEMMA PasoContestar ==
  ASSUME TypeOK, Candados, NEW p \in Comite, NEW c \in Respuestas, Contestar(p, c), UNCHANGED pedido
  PROVE  /\ Propio(p) /\ Bloquea(p) /\ Situacion(p)'
         /\ paso'[p] = "terminado" /\ contestado'[p] = c /\ (candado' = candado \/ candado' = Nulo)
         /\ candado = p => candado' = Nulo
<1>1. paso'[p] = "terminado" /\ contestado'[p] = c
  BY DEF Contestar, Ir, TypeOK
<1>2. Propio(p)
  BY DEF Contestar, Ir, TypeOK, Propio, Pasos
<1>3. Bloquea(p)
  BY <1>1, ConstantesProcesos DEF Contestar, Bloquea
<1>4. Situacion(p)'
  BY <1>1 DEF Situacion
<1>5. QED
  BY <1>1, <1>2, <1>3, <1>4 DEF Contestar
\* The answer of a handler that writes nothing.
LEMMA PasoRespuesta ==
  ASSUME InvProcesos, NEW p \in Comite, NEW c \in Respuestas, Contestar(p, c), SinEscribir, UNCHANGED pedido
  PROVE  InvProcesos'
<1>1. /\ Propio(p) /\ Bloquea(p) /\ Situacion(p)' /\ paso'[p] = "terminado"
  BY PasoContestar DEF InvProcesos, RastroCompleto
<1>2. QED
  BY <1>1, PasoPropio DEF EnCurso

\* A step of a handler outside of its lock, whose snapshot says what it must.
LEMMA PasoSinCandado ==
  ASSUME InvProcesos, NEW p \in Comite, NEW a \in ({"nuevo"} \cup EnCurso) \ {"abriendo", "cerrando"}, Ir(p, a),
         paso[p] \in ({"nuevo"} \cup EnCurso) \ {"abriendo", "cerrando"},
         UNCHANGED <<candado, contestado>>, SinEscribir,
         pedido' \in [Comite -> Operaciones \cup {Nulo}], foto' \in [Comite -> Foto \cup {Nulo}],
         \A q \in Comite \ {p} : pedido'[q] = pedido[q] /\ foto'[q] = foto[q],
         Situacion(p)'
  PROVE  InvProcesos'
<1> USE DEF InvProcesos, RastroCompleto, TypeOK
<1>1. paso'[p] = a /\ paso' \in [Comite -> Pasos] /\ \A q \in Comite \ {p} : paso'[q] = paso[q]
  BY DEF Ir, Pasos, EnCurso
<1>2. Propio(p)
  BY <1>1 DEF Propio
<1>3. Bloquea(p)
  BY <1>1 DEF Bloquea, Candados
<1>4. contestado'[p] = Nulo
  BY DEF SinRespuesta
<1> HIDE DEF InvProcesos, RastroCompleto, TypeOK
<1>5. QED
  BY <1>2, <1>3, <1>4, PasoPropio

\* A proceso is in one of its states, and its rows are what they were read.
LEMMA DeLosTipos ==
  ASSUME InvProcesos, NEW p \in Comite
  PROVE  /\ TypeOK /\ version \in Nat /\ paso[p] \in Pasos /\ (foto[p] \in Foto \cup {Nulo})
         /\ derechos \subseteq Derechos /\ SinVoto \subseteq derechos /\ votos \subseteq Boleta
         /\ proceso \in Fila /\ Situacion(p)
         /\ [proceso |-> proceso, version |-> version, derechos |-> derechos,
             catalogo |-> Existentes, votos |-> votos] \in Foto
         /\ \A f \in Fila, ds \in SUBSET Derechos :
              [proceso |-> f, version |-> version, derechos |-> ds, catalogo |-> {}, votos |-> {}] \in Foto
<1>1. /\ TypeOK /\ version \in Nat /\ paso[p] \in Pasos /\ (foto[p] \in Foto \cup {Nulo})
      /\ derechos \subseteq Derechos /\ SinVoto \subseteq derechos /\ votos \subseteq Boleta
      /\ proceso \in Fila /\ Situacion(p)
  BY DEF InvProcesos, RastroCompleto, TypeOK, Situaciones, SinVoto
<1>2. Existentes \subseteq Listas
  BY DEF Existentes
<1>3. QED
  BY <1>1, <1>2 DEF Foto

\* Requests, refusals and reads.
LEMMA PasoLeer ==
  ASSUME InvProcesos, NEW p \in Comite,
         \/ Pedir(p) \/ Validar(p) \/ Fracasar(p) \/ AbrirSinFilas(p) \/ CerrarSinFilas(p)
         \/ CerrarConflicto(p) \/ Releer(p) \/ Listar(p) \/ ContarEmitidas(p) \/ Abortar(p)
  PROVE  InvProcesos'
<1>1. /\ TypeOK /\ paso[p] \in Pasos /\ foto \in [Comite -> Foto \cup {Nulo}]
      /\ pedido \in [Comite -> Operaciones \cup {Nulo}] /\ proceso \in Fila /\ Situacion(p)
  BY DeLosTipos DEF TypeOK
<1> USE DEF EnCurso
<1>2. ASSUME \E c \in Respuestas : Contestar(p, c), SinEscribir, UNCHANGED pedido PROVE InvProcesos'
  BY <1>2, PasoRespuesta
<1>3. CASE Pedir(p)
  <2>1. /\ Ir(p, "pedido") /\ paso[p] = "nuevo" /\ SinEscribir /\ UNCHANGED <<candado, foto, contestado>>
        /\ pedido' \in [Comite -> Operaciones \cup {Nulo}] /\ \A q \in Comite \ {p} : pedido'[q] = pedido[q]
    BY <1>1, <1>3 DEF Pedir
  <2>2. Situacion(p)'
    BY <1>1, <2>1 DEF Situacion, Ir, TypeOK
  <2>3. QED
    BY <1>1, <2>1, <2>2, PasoSinCandado
<1>4. CASE Validar(p)
  <2>1. SinEscribir /\ UNCHANGED pedido /\ paso[p] = "pedido"
    BY <1>4 DEF Validar
  <2>2. \/ \E c \in Respuestas : Contestar(p, c)
        \/ Ir(p, "validado") /\ UNCHANGED <<candado, foto, contestado>>
    BY <1>4 DEF Validar, Respuestas
  <2>3. ASSUME Ir(p, "validado"), UNCHANGED <<candado, foto, contestado>> PROVE InvProcesos'
    <3>1. Situacion(p)'
      BY <1>1, <2>3 DEF Situacion, Ir, TypeOK
    <3>2. QED
      BY <1>1, <2>1, <2>3, <3>1, PasoSinCandado
  <2>4. QED
    BY <1>2, <2>1, <2>2, <2>3
<1>5. CASE Fracasar(p) \/ Abortar(p)
  BY <1>2, <1>5 DEF Fracasar, Abortar, Respuestas
<1>6. CASE AbrirSinFilas(p)
  <2>1. \E c \in Respuestas : Contestar(p, c)
    BY <1>6 DEF AbrirSinFilas, Respuestas
  <2>2. QED
    BY <1>2, <1>6, <2>1 DEF AbrirSinFilas
<1>7. CASE CerrarSinFilas(p) \/ Releer(p)
  <2>1. \A e : RespuestaAlCerrar(e) \in Respuestas
    BY DEF RespuestaAlCerrar, Respuestas
  <2>2. QED
    BY <1>2, <1>7, <2>1 DEF CerrarSinFilas, Releer
<1>8. CASE CerrarConflicto(p)
  <2>1. /\ Ir(p, "conflicto") /\ paso[p] = "fotografiado" /\ SinEscribir /\ UNCHANGED <<candado, pedido, contestado>>
        /\ foto' = [foto EXCEPT ![p] = Nulo] /\ foto[p].proceso.estado = "abierto" /\ version # foto[p].version
    BY <1>8 DEF CerrarConflicto, FotoVigente
  <2>2. DeReleer
    BY <1>1, <2>1 DEF Situacion, DeCerrar, DeReleer
  <2>3. DeReleer'
    BY <2>1, <2>2 DEF DeReleer, EdicionTardia, SinEscribir, compartidas
  <2>4. Situacion(p)'
    BY <1>1, <2>1, <2>3 DEF Situacion, Ir, TypeOK
  <2>5. foto' \in [Comite -> Foto \cup {Nulo}] /\ \A q \in Comite \ {p} : foto'[q] = foto[q]
    BY <1>1, <2>1
  <2>6. QED
    BY <1>1, <2>1, <2>4, <2>5, PasoSinCandado
<1>9. CASE Listar(p) \/ ContarEmitidas(p)
  <2>1. /\ SinEscribir /\ UNCHANGED pedido /\ paso[p] \in {"pedido", "listado"} /\ pedido[p] \in EventosSweep
    BY <1>1, <1>9 DEF Listar, ContarEmitidas, Situacion
  <2>2. \/ \E c \in Respuestas : Contestar(p, c)
        \/ \E a \in {"listado", "contado"} : Ir(p, a) /\ UNCHANGED <<candado, foto, contestado>>
    BY <1>9 DEF Listar, ContarEmitidas, Respuestas
  <2>3. ASSUME NEW a \in {"listado", "contado"}, Ir(p, a), UNCHANGED <<candado, foto, contestado>>
        PROVE  InvProcesos'
    <3>1. Situacion(p)'
      BY <1>1, <2>1, <2>3 DEF Situacion, Ir, TypeOK
    <3>2. QED
      BY <1>1, <2>1, <2>3, <3>1, PasoSinCandado
  <2>4. QED
    BY <1>2, <2>1, <2>2, <2>3
<1>10. QED
  BY <1>3, <1>4, <1>5, <1>6, <1>7, <1>8, <1>9

\* Snapshots, locks and deaths.
LEMMA PasoFoto ==
  ASSUME InvProcesos, NEW p \in Comite,
         Fotografiar(p) \/ LeerPendientes(p) \/ Abrir(p) \/ Cerrar(p) \/ Caer(p)
  PROVE  InvProcesos'
<1>1. /\ TypeOK /\ paso[p] \in Pasos /\ foto \in [Comite -> Foto \cup {Nulo}] /\ version \in Nat
      /\ pedido \in [Comite -> Operaciones \cup {Nulo}] /\ proceso \in Fila /\ Situacion(p)
      /\ derechos \subseteq Derechos /\ SinVoto \subseteq derechos
  BY DeLosTipos DEF TypeOK
<1> USE DEF EnCurso
<1>2. CASE Fotografiar(p)
  <2> DEFINE f == [proceso |-> proceso, version |-> version, derechos |-> derechos,
                   catalogo |-> Existentes, votos |-> votos]
  <2>1. /\ Ir(p, "fotografiado") /\ paso[p] = "pedido" /\ SinEscribir /\ UNCHANGED <<candado, pedido, contestado>>
        /\ foto' = [foto EXCEPT ![p] = f]
    BY <1>2 DEF Fotografiar, Existentes
  <2>2. f \in Foto /\ foto'[p] = f
    BY <1>1, <2>1, DeLosTipos
  <2>3. /\ f.proceso = proceso /\ f.version = version /\ f.derechos = derechos
        /\ f.catalogo = Existentes /\ f.votos = votos
    OBVIOUS
  <2> HIDE DEF f
  <2>4. UNCHANGED <<proceso, derechos, votos, version, bitacora>>
    BY <2>1 DEF SinEscribir, compartidas
  <2>5. DeCerrar(p)'
    BY <1>1, <2>2, <2>3, <2>4 DEF DeCerrar, InvProcesos, VidaDeLaFila, Papeletas, Abiertos
  <2>6. Situacion(p)'
    BY <1>1, <2>1, <2>5 DEF Situacion, Ir, TypeOK
  <2>7. foto' \in [Comite -> Foto \cup {Nulo}] /\ \A q \in Comite \ {p} : foto'[q] = foto[q]
    BY <1>1, <2>1, <2>2
  <2>8. QED
    BY <1>1, <2>1, <2>6, <2>7, PasoSinCandado
<1>3. CASE LeerPendientes(p)
  <2> DEFINE f == [proceso |-> proceso, version |-> version, derechos |-> SinVoto, catalogo |-> {}, votos |-> {}]
  <2>1. CASE SinVoto = {}
    BY <1>3, <2>1, PasoRespuesta DEF LeerPendientes, Respuestas
  <2>2. CASE SinVoto # {}
    <3>1. /\ Ir(p, "avisando") /\ paso[p] = "contado" /\ SinEscribir /\ UNCHANGED <<candado, pedido, contestado>>
          /\ foto' = [foto EXCEPT ![p] = f]
      BY <1>3, <2>2 DEF LeerPendientes
    <3>2. SinVoto \in SUBSET Derechos
      BY <1>1
    <3>3. f \in Foto
      BY <1>1, <3>2, DeLosTipos
    <3>4. foto'[p] = f
      BY <1>1, <3>1
    <3>5. f.derechos = SinVoto
      OBVIOUS
    <3> HIDE DEF f
    <3>6. UNCHANGED <<derechos, votos, pedido>> /\ SinVoto' = SinVoto
      BY <3>1 DEF SinEscribir, compartidas, SinVoto
    <3>7. pedido[p] \in EventosSweep
      BY <1>1, <3>1 DEF Situacion
    <3>8. DeAvisar(p)'
      BY <1>1, <2>2, <3>3, <3>4, <3>5, <3>6, <3>7 DEF DeAvisar
    <3>9. Situacion(p)'
      BY <1>1, <3>1, <3>8 DEF Situacion, Ir, TypeOK
    <3>10. foto' \in [Comite -> Foto \cup {Nulo}] /\ \A q \in Comite \ {p} : foto'[q] = foto[q]
      BY <1>1, <3>1, <3>3
    <3>11. QED
      BY <1>1, <3>1, <3>9, <3>10, PasoSinCandado
  <2>3. QED
    BY <2>1, <2>2
<1>4. CASE Abrir(p)
  <2> DEFINE g == [proceso EXCEPT !.estado = "abierto", !.apertura_real = reloj]
             f == [proceso |-> g, version |-> version, derechos |-> {}, catalogo |-> {}, votos |-> {}]
  <2>1. /\ Ir(p, "abriendo") /\ paso[p] = "pedido" /\ SinEscribir /\ UNCHANGED <<pedido, contestado>>
        /\ foto' = [foto EXCEPT ![p] = f] /\ candado = Nulo /\ candado' = p /\ proceso.estado = "borrador"
    BY <1>4 DEF Abrir, Abrible
  <2>2. reloj \in Instantes /\ g \in Fila
    BY <1>1 DEF TypeOK, Fila, Estados
  <2>3. f \in Foto /\ f.proceso = g
    BY <2>2, DeLosTipos
  <2>4. foto'[p] = f
    BY <1>1, <2>1
  <2>5. UNCHANGED <<reloj, proceso>>
    BY <2>1 DEF SinEscribir, compartidas
  <2>6. DeAbrir(p)'
    <3>1. f.proceso = [proceso EXCEPT !.estado = "abierto", !.apertura_real = reloj]
      BY <2>3
    <3> HIDE DEF f, g
    <3>2. QED
      BY <2>1, <2>2, <2>3, <2>4, <2>5, <3>1 DEF DeAbrir
  <2>7. Situacion(p)'
    BY <1>1, <2>1, <2>6 DEF Situacion, Ir, TypeOK
  <2>8. Propio(p)
    BY <1>1, <2>1, <2>3 DEF Propio, Ir, TypeOK, Pasos
  <2>9. Bloquea(p)
    BY <1>1, <2>1 DEF Bloquea, Ir, TypeOK
  <2>10. contestado'[p] = Nulo
    BY <2>1 DEF InvProcesos, SinRespuesta
  <2>11. QED
    BY <2>1, <2>7, <2>8, <2>9, <2>10, PasoPropio
<1>5. CASE Cerrar(p)
  <2> DEFINE g == [proceso EXCEPT !.estado = "cerrado", !.cierre_real = reloj]
  <2>1. /\ Ir(p, "cerrando") /\ paso[p] = "fotografiado" /\ SinEscribir /\ UNCHANGED <<pedido, contestado>>
        /\ foto' = [foto EXCEPT ![p].proceso.estado = "cerrado", ![p].proceso.cierre_real = reloj]
        /\ candado = Nulo /\ candado' = p
        /\ foto[p].proceso.estado = "abierto" /\ version = foto[p].version
    BY <1>5 DEF Cerrar, FotoVigente
  <2>2. /\ foto[p] \in Foto /\ foto[p].proceso = proceso /\ foto[p].derechos = derechos
        /\ foto[p].votos \subseteq votos /\ Papeletas(foto[p].votos, foto[p].derechos, foto[p].catalogo)
    BY <1>1, <2>1 DEF Situacion, DeCerrar
  <2>3. reloj \in Instantes /\ g \in Fila
    BY <1>1 DEF TypeOK, Fila, Estados
  <2>4. foto' = [foto EXCEPT ![p] = [@ EXCEPT !.proceso = g]]
    BY <1>1, <2>1, <2>2
  <2>5. /\ foto'[p] \in Foto /\ foto'[p].proceso = g
        /\ foto'[p].derechos = foto[p].derechos /\ foto'[p].votos = foto[p].votos
        /\ foto'[p].catalogo = foto[p].catalogo
    BY <1>1, <2>2, <2>3, <2>4 DEF Foto
  <2>6. UNCHANGED <<reloj, proceso, derechos, votos>>
    BY <2>1 DEF SinEscribir, compartidas
  <2>7. DeConfirmar(p)'
    <3>1. foto'[p].proceso = [proceso EXCEPT !.estado = "cerrado", !.cierre_real = reloj]
      BY <2>5
    <3> HIDE DEF g
    <3>2. QED
      BY <2>1, <2>2, <2>3, <2>5, <2>6, <3>1 DEF DeConfirmar
  <2>8. Situacion(p)'
    BY <1>1, <2>1, <2>7 DEF Situacion, Ir, TypeOK
  <2>9. Propio(p)
    BY <1>1, <2>1, <2>4, <2>5 DEF Propio, Ir, TypeOK, Pasos
  <2>10. Bloquea(p)
    BY <1>1, <2>1 DEF Bloquea, Ir, TypeOK
  <2>11. contestado'[p] = Nulo
    BY <2>1 DEF InvProcesos, SinRespuesta
  <2>12. QED
    BY <2>1, <2>8, <2>9, <2>10, <2>11, PasoPropio
<1>6. CASE Caer(p)
  <2>1. /\ SinEscribir /\ paso'[p] = "caido" /\ Propio(p)
    BY <1>1, <1>6 DEF Caer, Propio, Ir, TypeOK, Pasos
  <2>2. Bloquea(p)
    BY <1>6, <2>1, ConstantesProcesos DEF Caer, Bloquea
  <2>3. Situacion(p)'
    BY <2>1 DEF Situacion
  <2>4. QED
    BY <2>1, <2>2, <2>3, PasoPropio
<1>7. QED
  BY <1>2, <1>3, <1>4, <1>5, <1>6
-----------------------------------------------------------------------------
(* The steps that write *)

\* Who has been told of each event.
LEMMA AvisadosPaso ==
  ASSUME NEW e, NEW ds, Avisar(e, ds), NEW g
  PROVE  Avisados(g)' = IF g = e THEN Avisados(g) \cup Duenos(ds) ELSE Avisados(g)
<1> DEFINE n(d) == [evento |-> e, usuario |-> DuenoDe[d]]
<1>1. \A u : u \in Avisados(g) <=> \E a \in avisos : a.evento = g /\ a.usuario = u
  BY DEF Avisados
<1>2. \A u : u \in Avisados(g)' <=> \E a \in avisos' : a.evento = g /\ a.usuario = u
  BY DEF Avisados
<1>3. \A a : a \in avisos' <=> a \in avisos \/ \E d \in ds : a = n(d)
  BY DEF Avisar
<1>4. \A u : u \in Duenos(ds) <=> \E d \in ds : u = DuenoDe[d]
  BY DEF Duenos
<1>5. \A d : n(d).evento = e /\ n(d).usuario = DuenoDe[d]
  OBVIOUS
<1> HIDE DEF n
<1>6. ASSUME NEW u PROVE u \in Avisados(g)' <=> u \in Avisados(g) \/ (g = e /\ u \in Duenos(ds))
  <2>1. u \in Avisados(g) => u \in Avisados(g)'
    BY <1>1, <1>2, <1>3
  <2>2. g = e /\ u \in Duenos(ds) => u \in Avisados(g)'
    BY <1>2, <1>3, <1>4, <1>5
  <2>3. u \in Avisados(g)' => u \in Avisados(g) \/ (g = e /\ u \in Duenos(ds))
    BY <1>1, <1>2, <1>3, <1>4, <1>5
  <2>4. QED
    BY <2>1, <2>2, <2>3
<1>7. QED
  BY <1>6

\* The notifications of owners of rights are of their type.
LEMMA AvisosTipo ==
  ASSUME TypeOK, NEW e \in {"inicio_votacion", "resultados"} \cup EventosSweep, NEW ds \in SUBSET Derechos, Avisar(e, ds)
  PROVE  avisos' \subseteq Aviso
BY ConstantesProcesos DEF Avisar, TypeOK, Aviso

\* The events of the log are of its types.
LEMMA SucesosTipo ==
  ASSUME NEW p \in Comite
  PROVE  \A t \in {"PROCESO_EDITADO", "PROCESO_ELIMINADO", "PROCESO_ABIERTO", "PROCESO_CERRADO"} :
           [tipo |-> t, pedido |-> p] \in Suceso
BY DEF Suceso

\* A write by a handler that does not hold the lock finds nobody holding it.
LEMMA Libre ==
  ASSUME InvProcesos, NEW p \in Comite, candado \in {Nulo, p}, paso[p] \notin {"abriendo", "cerrando"}
  PROVE  \A q \in Comite : paso[q] \notin {"abriendo", "cerrando"}
BY ConstantesProcesos DEF InvProcesos, Candados

\* A step on the row by a handler p that ends in it: what it owes.
LEMMA PasoEscribir ==
  ASSUME InvProcesos, NEW p \in Comite, NEW c \in Respuestas, Contestar(p, c), UNCHANGED pedido,
         RastroCompleto', VidaDeLaFila', Papeletas(votos, derechos, Existentes)',
         AvisosDelPadron', EscrutinioCuadra',
         \A q \in Comite \ {p} : Situacion(q)'
  PROVE  InvProcesos'
<1>1. Propio(p) /\ Bloquea(p) /\ Situacion(p)' /\ paso'[p] = "terminado"
  BY PasoContestar DEF InvProcesos, RastroCompleto
<1>2. Candados' /\ SinRespuesta'
  BY <1>1, Control DEF InvProcesos, EnCurso
<1>3. QED
  BY <1>1, <1>2 DEF InvProcesos, Situaciones

\* editar() writes neither estado nor the dates of the life of the proceso, and overtakes the
\* snapshots of those that are closing it.
LEMMA PasoEditar ==
  ASSUME InvProcesos, NEW p \in Comite, Editar(p)
  PROVE  InvProcesos'
<1> DEFINE f(a, c) == [proceso EXCEPT !.aulas = a, !.cierre_previsto = c]
<1>1. /\ TypeOK /\ version \in Nat /\ proceso \in Fila
  BY DeLosTipos DEF TypeOK
<1>2. PICK a \in SUBSET Aulas, c \in Instantes : Escribir(p, f(a, c))
  BY DEF Editar
<1>3. /\ proceso' \in Fila /\ proceso'.estado = proceso.estado
      /\ proceso'.apertura_real = proceso.apertura_real /\ proceso'.cierre_real = proceso.cierre_real
      /\ version' = version + 1 /\ candado \in {Nulo, p}
  BY <1>1, <1>2 DEF Escribir, Fila
<1> HIDE DEF f
<1>4. /\ Auditar(p, "PROCESO_EDITADO") /\ Contestar(p, "editado") /\ paso[p] = "validado"
      /\ UNCHANGED <<reloj, derechos, catalogo, votos, actas, avisos, pedido>>
  BY DEF Editar
<1>5. "editado" \in Respuestas /\ bitacora \in Seq(Suceso)
  BY <1>1 DEF Respuestas, TypeOK
<1>6. /\ Propio(p) /\ bitacora' \in Seq(Suceso)
      /\ \A t \in {"PROCESO_ABIERTO", "PROCESO_CERRADO", "PROCESO_ELIMINADO"} : Veces(t)' = Veces(t)
  <2>1. Propio(p)
    BY <1>1, <1>4, <1>5, PasoContestar DEF InvProcesos
  <2>2. bitacora' \in Seq(Suceso)
    BY <1>4, <1>5, SucesosTipo, VecesAuditar
  <2>3. \A t : t # "PROCESO_EDITADO" => Veces(t) \in Nat /\ Veces(t)' = Veces(t) + 0
    BY <1>4, <1>5, SucesosTipo, VecesAuditar
  <2>4. QED
    BY <2>1, <2>2, <2>3
<1>7. TypeOK'
  BY <1>1, <1>3, <1>4, <1>6 DEF TypeOK, Propio
<1>8. RastroCompleto'
  BY <1>3, <1>4, <1>6, <1>7 DEF InvProcesos, RastroCompleto
<1>9. VidaDeLaFila' /\ Papeletas(votos, derechos, Existentes)'
  BY <1>3, <1>4 DEF InvProcesos, VidaDeLaFila, Papeletas, Existentes
<1>10. AvisosDelPadron' /\ EscrutinioCuadra'
  <2>1. (\A e : Avisados(e)' = Avisados(e)) /\ SinVoto' = SinVoto
    BY <1>4 DEF Avisados, SinVoto
  <2>2. AvisosDelPadron'
    BY <1>4, <2>1 DEF InvProcesos, AvisosDelPadron, Duenos
  <2>3. EscrutinioCuadra'
    BY <1>4 DEF InvProcesos, EscrutinioCuadra, Total
  <2>4. QED
    BY <2>2, <2>3
<1>11. proceso.estado = "abierto" => EdicionTardia'
  <2>1. proceso.estado = "abierto" => Veces("PROCESO_ABIERTO") = 1
    BY DEF InvProcesos, VidaDeLaFila, Abiertos, RastroCompleto
  <2>2. QED
    BY <1>4, <1>5, <2>1, EditarTarde
<1>12. ASSUME NEW q \in Comite, q # p PROVE Situacion(q)'
  <2>1. /\ paso'[q] = paso[q] /\ pedido'[q] = pedido[q] /\ foto'[q] = foto[q] /\ Situacion(q)
        /\ paso[q] \notin {"abriendo", "cerrando"}
    BY <1>3, <1>4, <1>6, <1>12, DeLosTipos, Libre DEF Propio
  <2>2. DeCerrar(q) => DeCerrar(q)'
    <3>1. foto[q] \in Foto => foto[q].version \in Nat
      BY DEF Foto
    <3>2. QED
      BY <1>1, <1>3, <1>4, <1>11, <2>1, <3>1 DEF DeCerrar
  <2>3. (DeReleer => DeReleer') /\ (DeAvisar(q) => DeAvisar(q)')
    BY <1>3, <1>4, <1>11, <2>1 DEF DeReleer, DeAvisar, SinVoto
  <2>4. QED
    BY <2>1, <2>2, <2>3 DEF Situacion
<1>13. QED
  BY <1>4, <1>5, <1>8, <1>9, <1>10, <1>12, PasoEscribir

\* eliminar() finds no rights: nobody is closing, or reminding of, what it takes away.
LEMMA PasoEliminar ==
  ASSUME InvProcesos, NEW p \in Comite, Eliminar(p)
  PROVE  InvProcesos'
<1>1. /\ TypeOK /\ version \in Nat /\ proceso \in Fila
  BY DeLosTipos DEF TypeOK
<1>2. /\ proceso' = [proceso EXCEPT !.estado = "eliminado", !.aulas = {}]
      /\ version' = version + 1 /\ candado \in {Nulo, p}
      /\ derechos = {} /\ proceso.estado # "eliminado"
      /\ catalogo' = [l \in Listas |-> "ausente"]
      /\ Auditar(p, "PROCESO_ELIMINADO") /\ Contestar(p, "eliminado") /\ paso[p] = "validado"
      /\ UNCHANGED <<reloj, derechos, votos, actas, avisos, pedido>>
  BY DEF Eliminar, Escribir, SinHijosRestrictivos
<1>3. /\ proceso' \in Fila /\ proceso'.estado = "eliminado"
      /\ proceso'.apertura_real = proceso.apertura_real /\ proceso'.cierre_real = proceso.cierre_real
  BY <1>1, <1>2 DEF Fila, Estados
<1>4. proceso.estado \notin Abiertos /\ proceso.estado \notin Cerrados /\ votos = {}
  BY <1>2 DEF InvProcesos, VidaDeLaFila, Abiertos, Cerrados, Papeletas
<1>5. "eliminado" \in Respuestas /\ bitacora \in Seq(Suceso)
  BY <1>1 DEF Respuestas, TypeOK
<1>6. /\ Propio(p) /\ bitacora' \in Seq(Suceso)
      /\ Veces("PROCESO_ABIERTO")' = Veces("PROCESO_ABIERTO")
      /\ Veces("PROCESO_CERRADO")' = Veces("PROCESO_CERRADO")
      /\ Veces("PROCESO_ELIMINADO")' = 1
  <2>1. Propio(p)
    BY <1>1, <1>2, <1>5, PasoContestar DEF InvProcesos
  <2>2. bitacora' \in Seq(Suceso)
    BY <1>2, <1>5, SucesosTipo, VecesAuditar
  <2>3. \A t : Veces(t) \in Nat /\ Veces(t)' = Veces(t) + (IF t = "PROCESO_ELIMINADO" THEN 1 ELSE 0)
    BY <1>2, <1>5, SucesosTipo, VecesAuditar
  <2>4. Veces("PROCESO_ELIMINADO") = 0
    BY <1>2 DEF InvProcesos, RastroCompleto
  <2>5. QED
    BY <2>1, <2>2, <2>3, <2>4
<1>7. TypeOK'
  BY <1>1, <1>2, <1>3, <1>6 DEF TypeOK, Propio
<1>8. RastroCompleto'
  BY <1>2, <1>3, <1>4, <1>6, <1>7 DEF InvProcesos, RastroCompleto, Abiertos, Cerrados
<1>9. VidaDeLaFila' /\ Papeletas(votos, derechos, Existentes)'
  BY <1>2, <1>3, <1>4 DEF InvProcesos, VidaDeLaFila, Papeletas, Abiertos, Cerrados
<1>10. AvisosDelPadron' /\ EscrutinioCuadra'
  <2>1. (\A e : Avisados(e)' = Avisados(e)) /\ SinVoto' = SinVoto
    BY <1>2 DEF Avisados, SinVoto
  <2>2. AvisosDelPadron'
    BY <1>2, <2>1 DEF InvProcesos, AvisosDelPadron, Duenos
  <2>3. EscrutinioCuadra'
    BY <1>2 DEF InvProcesos, EscrutinioCuadra, Total
  <2>4. QED
    BY <2>2, <2>3
<1>11. ASSUME NEW q \in Comite, q # p PROVE Situacion(q)'
  <2>1. /\ paso'[q] = paso[q] /\ pedido'[q] = pedido[q] /\ foto'[q] = foto[q] /\ Situacion(q)
        /\ paso[q] \notin {"abriendo", "cerrando"}
    BY <1>2, <1>6, <1>11, DeLosTipos, Libre DEF Propio
  <2>2. DeCerrar(q) => DeCerrar(q)'
    <3>1. foto[q] \in Foto => foto[q].version \in Nat
      BY DEF Foto
    <3>2. QED
      BY <1>1, <1>2, <1>4, <2>1, <3>1 DEF DeCerrar
  <2>3. ~DeReleer /\ ~DeAvisar(q)
    BY <1>2, <1>4 DEF DeReleer, DeAvisar
  <2>4. QED
    BY <2>1, <2>2, <2>3 DEF Situacion
<1>12. QED
  BY <1>2, <1>5, <1>8, <1>9, <1>10, <1>11, PasoEscribir
\* abrir(): the roll, the row, the event and the notices appear together, over no roll at all.
LEMMA PasoAbrir ==
  ASSUME InvProcesos, NEW p \in Comite, AbrirConfirmar(p)
  PROVE  InvProcesos'
<1>1. /\ TypeOK /\ version \in Nat /\ proceso \in Fila /\ Situacion(p)
  BY DeLosTipos DEF TypeOK
<1>2. PICK ds \in SUBSET {d \in Derechos : AulaDe[d] \in proceso.aulas} :
         IF ds = {}
         THEN /\ Contestar(p, "sin_elegibles")
              /\ SinEscribir
         ELSE /\ derechos' = derechos \cup ds
              /\ Escribir(p, foto[p].proceso)
              /\ Auditar(p, "PROCESO_ABIERTO")
              /\ Avisar("inicio_votacion", ds)
              /\ Contestar(p, "abierto")
              /\ UNCHANGED <<reloj, catalogo, votos, actas>>
  BY DEF AbrirConfirmar
<1>3. paso[p] = "abriendo" /\ UNCHANGED pedido
  BY DEF AbrirConfirmar
<1>4. CASE ds = {}
  BY <1>2, <1>3, <1>4, PasoRespuesta DEF Respuestas
<1>5. CASE ds # {}
  <2>1. /\ derechos' = derechos \cup ds /\ proceso' = foto[p].proceso /\ version' = version + 1
        /\ Auditar(p, "PROCESO_ABIERTO") /\ Avisar("inicio_votacion", ds) /\ Contestar(p, "abierto")
        /\ UNCHANGED <<reloj, catalogo, votos, actas, pedido>>
    BY <1>2, <1>3, <1>5 DEF Escribir
  <2>2. PICK t \in Instantes : /\ proceso.estado = "borrador" /\ foto[p] \in Foto
                               /\ foto[p].proceso = [proceso EXCEPT !.estado = "abierto", !.apertura_real = t]
    BY <1>1, <1>3 DEF Situacion, DeAbrir
  <2>3. /\ proceso' \in Fila /\ proceso'.estado = "abierto" /\ proceso'.apertura_real # Nulo
        /\ proceso'.cierre_real = proceso.cierre_real
    BY <1>1, <2>1, <2>2, ConstantesProcesos DEF Fila, Foto
  <2>4. /\ proceso.estado \notin Abiertos /\ proceso.estado \notin Cerrados
        /\ derechos = {} /\ votos = {} /\ actas = Nulo
        /\ proceso.apertura_real = Nulo /\ proceso.cierre_real = Nulo
    BY <2>2 DEF InvProcesos, VidaDeLaFila, Abiertos, Cerrados, Papeletas
  <2>5. "abierto" \in Respuestas /\ bitacora \in Seq(Suceso) /\ ds \in SUBSET Derechos /\ derechos' = ds
    BY <1>1, <2>1, <2>4 DEF Respuestas, TypeOK
  <2>6. /\ Propio(p) /\ bitacora' \in Seq(Suceso) /\ avisos' \subseteq Aviso
        /\ Veces("PROCESO_ABIERTO")' = 1
        /\ Veces("PROCESO_CERRADO")' = Veces("PROCESO_CERRADO")
        /\ Veces("PROCESO_ELIMINADO")' = Veces("PROCESO_ELIMINADO")
    <3>1. Propio(p)
      BY <1>1, <2>1, <2>5, PasoContestar DEF InvProcesos
    <3>2. bitacora' \in Seq(Suceso)
      BY <2>1, <2>5, SucesosTipo, VecesAuditar
    <3>3. \A s : Veces(s) \in Nat /\ Veces(s)' = Veces(s) + (IF s = "PROCESO_ABIERTO" THEN 1 ELSE 0)
      BY <2>1, <2>5, SucesosTipo, VecesAuditar
    <3>4. Veces("PROCESO_ABIERTO") = 0
      BY <2>4 DEF InvProcesos, RastroCompleto
    <3>5. avisos' \subseteq Aviso
      BY <1>1, <2>1, <2>5, AvisosTipo
    <3>6. QED
      BY <3>1, <3>2, <3>3, <3>4, <3>5
  <2>7. TypeOK'
    BY <1>1, <2>1, <2>3, <2>5, <2>6 DEF TypeOK, Propio
  <2>8. RastroCompleto'
    BY <1>5, <2>1, <2>2, <2>3, <2>4, <2>5, <2>6, <2>7 DEF InvProcesos, RastroCompleto
  <2>9. VidaDeLaFila' /\ Papeletas(votos, derechos, Existentes)'
    BY <1>5, <2>1, <2>3, <2>4, <2>5 DEF VidaDeLaFila, Papeletas, Abiertos, Cerrados
  <2>10. EscrutinioCuadra'
    BY <2>1, <2>4 DEF EscrutinioCuadra
  <2>11. AvisosDelPadron'
    <3>1. \A g : Avisados(g)' = IF g = "inicio_votacion" THEN Avisados(g) \cup Duenos(ds) ELSE Avisados(g)
      BY <2>1, AvisadosPaso
    <3>2. Duenos({}) = {} /\ \A g \in EventosSweep : g # "inicio_votacion" /\ g # "resultados"
      BY DEF Duenos, EventosSweep
    <3>3. /\ Avisados("inicio_votacion") = {} /\ Avisados("resultados") = {}
          /\ \A g \in EventosSweep : Avisados(g) = {}
      BY <2>4, <3>2 DEF InvProcesos, AvisosDelPadron
    <3>4. Duenos(derechos)' = Duenos(ds)
      BY <2>5 DEF Duenos
    <3>5. /\ Avisados("inicio_votacion")' = Duenos(ds) /\ Avisados("resultados")' = {}
          /\ \A g \in EventosSweep : Avisados(g)' = {}
      BY <3>1, <3>2, <3>3
    <3>6. QED
      BY <2>1, <2>4, <3>4, <3>5 DEF AvisosDelPadron
  <2>12. ASSUME NEW q \in Comite, q # p PROVE Situacion(q)'
    <3>1. /\ paso'[q] = paso[q] /\ pedido'[q] = pedido[q] /\ foto'[q] = foto[q] /\ Situacion(q)
      BY <2>6, <2>12, DeLosTipos DEF Propio
    <3>2. paso[q] \notin {"abriendo", "cerrando"}
      BY <1>3, <2>12 DEF InvProcesos, Candados
    <3>3. DeCerrar(q) => DeCerrar(q)'
      <4>1. foto[q] \in Foto => foto[q].version \in Nat
        BY DEF Foto
      <4>2. QED
        BY <1>1, <2>1, <2>4, <3>1, <4>1 DEF DeCerrar
    <3>4. ~DeReleer /\ ~DeAvisar(q)
      BY <2>4 DEF DeReleer, DeAvisar
    <3>5. QED
      BY <3>1, <3>2, <3>3, <3>4 DEF Situacion
  <2>13. QED
    BY <2>1, <2>5, <2>8, <2>9, <2>10, <2>11, <2>12, PasoEscribir
<1>6. QED
  BY <1>4, <1>5

\* cerrar(): the row, the actas of its snapshot, the event and the notices appear together.
LEMMA PasoCerrar ==
  ASSUME InvProcesos, NEW p \in Comite, CerrarConfirmar(p)
  PROVE  InvProcesos'
<1>1. /\ TypeOK /\ version \in Nat /\ proceso \in Fila /\ Situacion(p)
  BY DeLosTipos DEF TypeOK
<1>2. /\ paso[p] = "cerrando" /\ proceso' = foto[p].proceso /\ version' = version + 1
      /\ actas' = Escrutinio(p) /\ Auditar(p, "PROCESO_CERRADO")
      /\ Avisar("resultados", foto[p].derechos) /\ Contestar(p, "cerrado")
      /\ UNCHANGED <<reloj, derechos, catalogo, votos, pedido>>
  BY DEF CerrarConfirmar, Escribir
<1>3. PICK t \in Instantes :
        /\ proceso.estado = "abierto" /\ foto[p] \in Foto /\ foto[p].derechos = derechos
        /\ foto[p].proceso = [proceso EXCEPT !.estado = "cerrado", !.cierre_real = t]
        /\ foto[p].votos \subseteq votos
        /\ Papeletas(foto[p].votos, foto[p].derechos, foto[p].catalogo)
  BY <1>1, <1>2 DEF Situacion, DeConfirmar
<1>4. /\ proceso' \in Fila /\ proceso'.estado = "cerrado" /\ proceso'.cierre_real # Nulo
      /\ proceso'.apertura_real = proceso.apertura_real
  BY <1>1, <1>2, <1>3, ConstantesProcesos DEF Fila, Foto
<1>5. /\ derechos # {} /\ actas = Nulo /\ proceso.cierre_real = Nulo /\ proceso.apertura_real # Nulo
  BY <1>3 DEF InvProcesos, VidaDeLaFila, Abiertos, Cerrados
<1>6. /\ actas' \in Actas /\ actas' # Nulo
      /\ actas'.blancos + Total' <= actas'.emitidos
      /\ (\A v \in votos : v.eleccion \in Contables \cup {Blanco}) => actas'.blancos + Total' = actas'.emitidos
      /\ actas'.emitidos <= actas'.padron
      /\ actas'.padron = Cardinality(derechos)
  <2>1. Total' = Cardinality(UNION {{l} \X (1 .. Escrutinio(p).desglose[l]) : l \in Contables})
    BY <1>2 DEF Total
  <2>2. (\A v \in votos : v.eleccion \in Contables \cup {Blanco}) =>
          \A v \in foto[p].votos : v.eleccion \in Contables \cup {Blanco}
    BY <1>3
  <2>3. /\ Escrutinio(p) \in Actas
        /\ Escrutinio(p).blancos + Total' <= Escrutinio(p).emitidos
        /\ (\A v \in foto[p].votos : v.eleccion \in Contables \cup {Blanco}) =>
             Escrutinio(p).blancos + Total' = Escrutinio(p).emitidos
        /\ Escrutinio(p).emitidos <= Escrutinio(p).padron
        /\ Escrutinio(p).padron = Cardinality(derechos)
    BY <1>3, <2>1, Balance
  <2>4. QED
    BY <1>2, <2>2, <2>3, NuloAparte
<1>7. "cerrado" \in Respuestas /\ bitacora \in Seq(Suceso) /\ derechos \in SUBSET Derechos
  BY <1>1 DEF Respuestas, TypeOK
<1>8. /\ Propio(p) /\ bitacora' \in Seq(Suceso) /\ avisos' \subseteq Aviso
      /\ Veces("PROCESO_ABIERTO")' = Veces("PROCESO_ABIERTO")
      /\ Veces("PROCESO_CERRADO")' = 1
      /\ Veces("PROCESO_ELIMINADO")' = Veces("PROCESO_ELIMINADO")
  <2>1. Propio(p)
    BY <1>1, <1>2, <1>7, PasoContestar DEF InvProcesos
  <2>2. bitacora' \in Seq(Suceso)
    BY <1>2, <1>7, SucesosTipo, VecesAuditar
  <2>3. \A s : Veces(s) \in Nat /\ Veces(s)' = Veces(s) + (IF s = "PROCESO_CERRADO" THEN 1 ELSE 0)
    BY <1>2, <1>7, SucesosTipo, VecesAuditar
  <2>4. Veces("PROCESO_CERRADO") = 0
    BY <1>5 DEF InvProcesos, RastroCompleto
  <2>5. avisos' \subseteq Aviso
    BY <1>1, <1>2, <1>3, <1>7, AvisosTipo
  <2>6. QED
    BY <2>1, <2>2, <2>3, <2>4, <2>5
<1>9. TypeOK'
  BY <1>1, <1>2, <1>4, <1>6, <1>8 DEF TypeOK, Propio
<1>10. RastroCompleto'
  BY <1>2, <1>3, <1>4, <1>5, <1>6, <1>8, <1>9 DEF InvProcesos, RastroCompleto
<1>11. VidaDeLaFila' /\ Papeletas(votos, derechos, Existentes)'
  BY <1>2, <1>4, <1>5, <1>6 DEF InvProcesos, VidaDeLaFila, Papeletas, Abiertos, Cerrados, Existentes
<1>12. EscrutinioCuadra'
  BY <1>2, <1>6 DEF EscrutinioCuadra
<1>13. AvisosDelPadron'
  <2>1. \A g : Avisados(g)' = IF g = "resultados" THEN Avisados(g) \cup Duenos(derechos) ELSE Avisados(g)
    BY <1>2, <1>3, AvisadosPaso
  <2>2. \A g \in EventosSweep : g # "inicio_votacion" /\ g # "resultados"
    BY DEF EventosSweep
  <2>3. SinVoto' = SinVoto /\ (\A ds : Duenos(ds)' = Duenos(ds))
    BY <1>2 DEF SinVoto, Duenos
  <2>4. /\ Avisados("inicio_votacion") = Duenos(derechos) /\ Avisados("resultados") = {}
    BY <1>5 DEF InvProcesos, AvisosDelPadron
  <2>5. /\ Avisados("inicio_votacion")' = Duenos(derechos) /\ Avisados("resultados")' = Duenos(derechos)
        /\ \A g \in EventosSweep : Avisados(g)' = Avisados(g)
    BY <2>1, <2>2, <2>4
  <2>6. QED
    BY <1>2, <1>6, <2>3, <2>5 DEF InvProcesos, AvisosDelPadron, Duenos
<1>14. ASSUME NEW q \in Comite, q # p PROVE Situacion(q)'
  <2>1. /\ paso'[q] = paso[q] /\ pedido'[q] = pedido[q] /\ foto'[q] = foto[q] /\ Situacion(q)
    BY <1>8, <1>14, DeLosTipos DEF Propio
  <2>2. paso[q] \notin {"abriendo", "cerrando"}
    BY <1>2, <1>14 DEF InvProcesos, Candados
  <2>3. DeCerrar(q) => DeCerrar(q)'
    <3>1. foto[q] \in Foto => foto[q].version \in Nat
      BY DEF Foto
    <3>2. QED
      BY <1>1, <1>2, <1>4, <2>1, <3>1 DEF DeCerrar, Abiertos
  <2>4. DeReleer' /\ (DeAvisar(q) => DeAvisar(q)')
    BY <1>2, <1>4, <2>1 DEF DeReleer, DeAvisar, Abiertos, SinVoto
  <2>5. QED
    BY <2>1, <2>2, <2>3, <2>4 DEF Situacion
<1>15. QED
  BY <1>2, <1>7, <1>10, <1>11, <1>12, <1>13, <1>14, PasoEscribir
\* Notices of the sweep reach at least those who still have to vote.
LEMMA PasoRecordar ==
  ASSUME InvProcesos, NEW p \in Comite, Recordar(p)
  PROVE  InvProcesos'
<1> DEFINE e == pedido[p]
<1>1. /\ TypeOK /\ Situacion(p) /\ derechos \subseteq Derechos
  BY DeLosTipos
<1>2. /\ paso[p] = "avisando" /\ Avisar(e, foto[p].derechos) /\ Contestar(p, "barrido")
      /\ UNCHANGED <<reloj, proceso, derechos, catalogo, votos, version, actas, bitacora, pedido>>
  BY DEF Recordar, compartidas
<1>3. /\ e \in EventosSweep /\ foto[p] \in Foto
      /\ foto[p].derechos \subseteq derechos /\ SinVoto \subseteq foto[p].derechos
  BY <1>1, <1>2 DEF Situacion, DeAvisar
<1>4. "barrido" \in Respuestas /\ Propio(p)
  BY <1>1, <1>2, PasoContestar DEF InvProcesos, Respuestas
<1>5. avisos' \subseteq Aviso
  BY <1>1, <1>2, <1>3, AvisosTipo
<1>6. RastroCompleto'
  <2>1. TypeOK'
    BY <1>1, <1>2, <1>4, <1>5 DEF TypeOK, Propio
  <2>2. QED
    BY <1>2, <2>1 DEF InvProcesos, RastroCompleto, Veces
<1>7. VidaDeLaFila' /\ Papeletas(votos, derechos, Existentes)' /\ EscrutinioCuadra'
  BY <1>2 DEF InvProcesos, VidaDeLaFila, Papeletas, Existentes, EscrutinioCuadra, Total
<1>8. AvisosDelPadron'
  <2>1. \A g : Avisados(g)' = IF g = e THEN Avisados(g) \cup Duenos(foto[p].derechos) ELSE Avisados(g)
    BY <1>2, AvisadosPaso
  <2>2. "inicio_votacion" # e /\ "resultados" # e
    BY <1>3 DEF EventosSweep
  <2>3. Duenos(SinVoto) \subseteq Duenos(foto[p].derechos) /\ Duenos(foto[p].derechos) \subseteq Duenos(derechos)
    BY <1>3 DEF Duenos
  <2>4. SinVoto' = SinVoto /\ (\A ds : Duenos(ds)' = Duenos(ds)) /\ derechos' = derechos
    BY <1>2 DEF SinVoto, Duenos
  <2> HIDE DEF e
  <2>5. ASSUME NEW g \in EventosSweep, Avisados(g)' # {}
        PROVE  Duenos(SinVoto) \subseteq Avisados(g)' /\ Avisados(g)' \subseteq Duenos(derechos)
    BY <2>1, <2>3, <2>5 DEF InvProcesos, AvisosDelPadron
  <2>6. /\ Avisados("inicio_votacion")' = Avisados("inicio_votacion")
        /\ Avisados("resultados")' = Avisados("resultados")
    BY <2>1, <2>2
  <2>7. QED
    BY <1>2, <2>4, <2>5, <2>6 DEF InvProcesos, AvisosDelPadron, Duenos
<1>9. ASSUME NEW q \in Comite, q # p PROVE Situacion(q)'
  <2>1. /\ paso'[q] = paso[q] /\ pedido'[q] = pedido[q] /\ foto'[q] = foto[q] /\ Situacion(q)
    BY <1>4, <1>9, DeLosTipos DEF Propio
  <2>2. /\ DeAbrir(q) => DeAbrir(q)'
        /\ DeConfirmar(q) => DeConfirmar(q)'
    BY <1>2, <2>1 DEF DeAbrir, DeConfirmar
  <2>3. EdicionTardia' <=> EdicionTardia
    BY <1>2 DEF EdicionTardia
  <2>4. /\ DeCerrar(q) => DeCerrar(q)'
        /\ DeReleer => DeReleer'
        /\ DeAvisar(q) => DeAvisar(q)'
    BY <1>2, <2>1, <2>3 DEF DeCerrar, DeReleer, DeAvisar, SinVoto
  <2>5. QED
    BY <2>1, <2>2, <2>4 DEF Situacion
<1>10. QED
  BY <1>2, <1>4, <1>6, <1>7, <1>8, <1>9, PasoEscribir

\* Time, votes, the catalogue and the worker find every handler where it was.
LEMMA PasoEntorno ==
  ASSUME InvProcesos, Entorno
  PROVE  InvProcesos'
<1>1. /\ TypeOK /\ version \in Nat /\ proceso \in Fila /\ votos \subseteq Boleta
  BY DEF InvProcesos, RastroCompleto, TypeOK
<1>2. UNCHANGED <<derechos, actas, bitacora, avisos, candado, paso, pedido, foto, contestado>>
  BY DEF Entorno, Tic, Votar, Depurar, EmitirActas, propias
<1>3. /\ Candados' /\ SinRespuesta' /\ (EdicionTardia' <=> EdicionTardia)
      /\ (\A t : Veces(t)' = Veces(t)) /\ (\A e : Avisados(e)' = Avisados(e)) /\ Total' = Total
      /\ (\A ds : Duenos(ds)' = Duenos(ds))
  BY <1>2 DEF InvProcesos, Candados, SinRespuesta, EdicionTardia, Veces, Avisados, Total, Duenos
<1>4. ASSUME UNCHANGED <<proceso, version>>, votos \subseteq votos', reloj' \in Instantes,
             catalogo' \in [Listas -> {"activo", "baja", "ausente"}], votos' \subseteq Boleta,
             Papeletas(votos, derechos, Existentes)'
      PROVE  InvProcesos'
  <2>1. TypeOK'
    BY <1>1, <1>2, <1>4 DEF TypeOK
  <2>2. RastroCompleto' /\ VidaDeLaFila'
    BY <1>2, <1>3, <1>4, <2>1 DEF InvProcesos, RastroCompleto, VidaDeLaFila
  <2>3. SinVoto' \subseteq SinVoto
    BY <1>2, <1>4 DEF SinVoto
  <2>4. AvisosDelPadron'
    <3>1. Duenos(SinVoto') \subseteq Duenos(SinVoto)
      BY <2>3 DEF Duenos
    <3>2. QED
      BY <1>2, <1>3, <3>1 DEF InvProcesos, AvisosDelPadron
  <2>5. EscrutinioCuadra'
    BY <1>2, <1>3, <1>4 DEF InvProcesos, EscrutinioCuadra
  <2>6. ASSUME NEW q \in Comite PROVE Situacion(q)'
    <3>1. Situacion(q)
      BY DEF InvProcesos, Situaciones
    <3>2. /\ DeAbrir(q) => DeAbrir(q)'
          /\ DeConfirmar(q) => DeConfirmar(q)'
      BY <1>2, <1>4 DEF DeAbrir, DeConfirmar
    <3>3. /\ DeCerrar(q) => DeCerrar(q)'
          /\ DeReleer => DeReleer'
      BY <1>2, <1>3, <1>4 DEF DeCerrar, DeReleer
    <3>4. DeAvisar(q) => DeAvisar(q)'
      BY <1>2, <2>3 DEF DeAvisar
    <3>5. QED
      BY <1>2, <3>1, <3>2, <3>3, <3>4 DEF Situacion
  <2>7. QED
    BY <1>3, <1>4, <2>2, <2>4, <2>5, <2>6 DEF InvProcesos, Situaciones
<1>5. CASE Tic
  <2>1. UNCHANGED <<proceso, version, votos, catalogo, derechos>> /\ reloj' \in Instantes
    BY <1>1, <1>5, ConstantesProcesos DEF Tic, propias, TypeOK, Instantes
  <2>2. Papeletas(votos, derechos, Existentes)'
    BY <2>1 DEF InvProcesos, Papeletas, Existentes
  <2>3. QED
    BY <1>1, <1>4, <2>1, <2>2 DEF TypeOK
<1>6. CASE Votar
  <2>1. PICK d \in derechos, o \in {Blanco} \cup Existentes :
          /\ \A v \in votos : v.derecho # d
          /\ votos' = votos \cup {[derecho |-> d, eleccion |-> o]}
    BY <1>6 DEF Votar, Existentes
  <2>2. UNCHANGED <<proceso, version, catalogo, derechos, reloj>>
    BY <1>6 DEF Votar, propias
  <2>3. Papeletas(votos, derechos, Existentes)'
    BY <2>1, <2>2 DEF InvProcesos, Papeletas, Existentes
  <2>4. [derecho |-> d, eleccion |-> o] \in Boleta
    BY <1>1, <2>1 DEF TypeOK, Boleta, Opciones, Existentes
  <2>5. QED
    BY <1>1, <1>4, <2>1, <2>2, <2>3, <2>4 DEF TypeOK
<1>7. CASE Depurar
  <2>1. PICK l \in Listas, x \in {"activo", "baja", "ausente"} :
          /\ x = "ausente" => \A v \in votos : v.eleccion # l
          /\ catalogo' = [catalogo EXCEPT ![l] = x]
    BY <1>7 DEF Depurar
  <2>2. UNCHANGED <<proceso, version, votos, derechos, reloj>>
    BY <1>7 DEF Depurar, propias
  <2>3. catalogo' \in [Listas -> {"activo", "baja", "ausente"}]
    BY <1>1, <2>1 DEF TypeOK
  <2>4. Papeletas(votos, derechos, Existentes)'
    BY <1>1, <2>1, <2>2 DEF InvProcesos, Papeletas, Existentes, TypeOK
  <2>5. QED
    BY <1>1, <1>4, <2>2, <2>3, <2>4 DEF TypeOK
<1>8. CASE EmitirActas
  <2>1. /\ proceso' = [proceso EXCEPT !.estado = "acta_emitida"] /\ version' = version + 1
        /\ proceso.estado = "cerrado" /\ candado = Nulo
        /\ UNCHANGED <<reloj, derechos, catalogo, votos>>
    BY <1>8 DEF EmitirActas
  <2>2. /\ proceso' \in Fila /\ proceso'.estado = "acta_emitida"
        /\ proceso'.apertura_real = proceso.apertura_real /\ proceso'.cierre_real = proceso.cierre_real
    BY <1>1, <2>1 DEF Fila, Estados
  <2>3. TypeOK'
    BY <1>1, <1>2, <2>1, <2>2 DEF TypeOK
  <2>4. RastroCompleto' /\ VidaDeLaFila'
    BY <1>2, <1>3, <2>1, <2>2, <2>3 DEF InvProcesos, RastroCompleto, VidaDeLaFila, Abiertos, Cerrados
  <2>5. SinVoto' = SinVoto /\ Papeletas(votos, derechos, Existentes)'
    BY <2>1 DEF SinVoto, InvProcesos, Papeletas, Existentes
  <2>6. AvisosDelPadron' /\ EscrutinioCuadra'
    BY <1>2, <1>3, <2>1, <2>5 DEF InvProcesos, AvisosDelPadron, EscrutinioCuadra
  <2>7. ASSUME NEW q \in Comite PROVE Situacion(q)'
    <3>1. Situacion(q)
      BY DEF InvProcesos, Situaciones
    <3>2. paso[q] \notin {"abriendo", "cerrando"}
      BY <2>1, ConstantesProcesos DEF InvProcesos, Candados
    <3>3. DeCerrar(q) => DeCerrar(q)'
      <4>1. foto[q] \in Foto => foto[q].version \in Nat
        BY DEF Foto
      <4>2. QED
        BY <1>1, <1>2, <2>1, <2>2, <4>1 DEF DeCerrar, Abiertos
    <3>4. DeReleer' /\ (DeAvisar(q) => DeAvisar(q)')
      BY <1>2, <2>2, <2>5 DEF DeReleer, DeAvisar, Abiertos
    <3>5. QED
      BY <1>2, <3>1, <3>2, <3>3, <3>4 DEF Situacion
  <2>8. QED
    BY <1>3, <2>4, <2>5, <2>6, <2>7 DEF InvProcesos, Situaciones
<1>9. QED
  BY <1>5, <1>6, <1>7, <1>8 DEF Entorno
-----------------------------------------------------------------------------
(* The theorems *)

\* crear() leaves a borrador without roll, votes or actas.
LEMMA InicioProcesos == Init => InvProcesos
<1> SUFFICES ASSUME Init PROVE InvProcesos
  OBVIOUS
<1>1. /\ proceso \in Fila /\ proceso.estado = "borrador"
      /\ proceso.apertura_real = Nulo /\ proceso.cierre_real = Nulo
  BY DEF Init, Fila, Estados
<1>2. TypeOK
  BY <1>1, ConstantesProcesos DEF Init, TypeOK, Pasos, Instantes
<1>3. \A t : Veces(t) = 0
  <2>1. \A t : {i \in 1 .. Len(bitacora) : bitacora[i].tipo = t} = {}
    BY DEF Init
  <2>2. QED
    BY <2>1, FS_EmptySet, Zenon DEF Veces
<1>4. RastroCompleto
  BY <1>1, <1>2, <1>3 DEF Init, RastroCompleto
<1>5. Candados /\ VidaDeLaFila /\ SinRespuesta /\ Papeletas(votos, derechos, Existentes) /\ Situaciones
  BY <1>1, ConstantesProcesos DEF Init, Candados, VidaDeLaFila, SinRespuesta, Papeletas, Situaciones, Situacion,
     Abiertos, Cerrados
<1>6. AvisosDelPadron /\ EscrutinioCuadra
  BY DEF Init, AvisosDelPadron, Avisados, Duenos, EscrutinioCuadra
<1>7. QED
  BY <1>4, <1>5, <1>6 DEF InvProcesos

\* One step of the system.
LEMMA PasoProcesos ==
  ASSUME InvProcesos, Next
  PROVE  InvProcesos'
<1>1. CASE Entorno
  BY <1>1, PasoEntorno
<1>2. ASSUME NEW p \in Comite, Atender(p) PROVE InvProcesos'
  <2>1. CASE \/ Pedir(p) \/ Validar(p) \/ Fracasar(p) \/ AbrirSinFilas(p) \/ CerrarSinFilas(p)
             \/ CerrarConflicto(p) \/ Releer(p) \/ Listar(p) \/ ContarEmitidas(p) \/ Abortar(p)
    BY <2>1, PasoLeer
  <2>2. CASE Fotografiar(p) \/ LeerPendientes(p) \/ Abrir(p) \/ Cerrar(p) \/ Caer(p)
    BY <2>2, PasoFoto
  <2>3. CASE Editar(p) \/ Eliminar(p) \/ AbrirConfirmar(p) \/ CerrarConfirmar(p) \/ Recordar(p)
    BY <2>3, PasoEditar, PasoEliminar, PasoAbrir, PasoCerrar, PasoRecordar
  <2>4. QED
    BY <1>2, <2>1, <2>2, <2>3, Zenon DEF Atender, Avanzar
<1>3. QED
  BY <1>1, <1>2 DEF Next

\* A step that changes nothing.
LEMMA QuietoProcesos ==
  ASSUME InvProcesos, UNCHANGED vars
  PROVE  InvProcesos'
<1>1. UNCHANGED <<reloj, proceso, derechos, catalogo, votos, version, actas, bitacora, avisos,
                  candado, paso, pedido, foto, contestado>>
  BY DEF vars, compartidas, propias
<1>2. /\ EdicionTardia' <=> EdicionTardia
      /\ SinVoto' = SinVoto /\ (\A t : Veces(t)' = Veces(t)) /\ (\A e : Avisados(e)' = Avisados(e))
      /\ Total' = Total
  BY <1>1 DEF EdicionTardia, SinVoto, Veces, Avisados, Total
<1>3. Situaciones'
  <2>1. ASSUME NEW q \in Comite PROVE Situacion(q)'
    <3>1. Situacion(q)
      BY DEF InvProcesos, Situaciones
    <3>2. (DeAbrir(q) => DeAbrir(q)') /\ (DeConfirmar(q) => DeConfirmar(q)')
      BY <1>1 DEF DeAbrir, DeConfirmar
    <3>3. (DeCerrar(q) => DeCerrar(q)') /\ (DeReleer => DeReleer') /\ (DeAvisar(q) => DeAvisar(q)')
      BY <1>1, <1>2 DEF DeCerrar, DeReleer, DeAvisar
    <3>4. QED
      BY <1>1, <3>1, <3>2, <3>3 DEF Situacion
  <2>2. QED
    BY <2>1 DEF Situaciones
<1>4. RastroCompleto' /\ AvisosDelPadron' /\ EscrutinioCuadra'
  BY <1>1, <1>2 DEF InvProcesos, RastroCompleto, TypeOK, AvisosDelPadron, EscrutinioCuadra, Duenos
<1>5. Candados' /\ VidaDeLaFila' /\ SinRespuesta' /\ Papeletas(votos, derechos, Existentes)'
  BY <1>1 DEF InvProcesos, Candados, VidaDeLaFila, SinRespuesta, Papeletas, Existentes
<1>6. QED
  BY <1>3, <1>4, <1>5 DEF InvProcesos

\* The row, its lock, the snapshots of the handlers and everything that hangs from them.
THEOREM InvarianteProcesos == Spec => []InvProcesos
<1>1. Init => InvProcesos
  BY InicioProcesos
<1>2. InvProcesos /\ [Next]_vars => InvProcesos'
  BY PasoProcesos, QuietoProcesos
<1>3. QED
  BY <1>1, <1>2, PTL DEF Spec

\* The audit log tells the life of the row, and the roll belongs to a proceso that was opened,
\* however many requests of the committee cross.
THEOREM RastroSiempreCompleto == Spec => []RastroCompleto
<1>1. InvProcesos => RastroCompleto
  BY DEF InvProcesos
<1>2. QED
  BY <1>1, InvarianteProcesos, PTL

\* The acta balances for any catalogue and any number of votes, those that commit while
\* cerrar() counts included.
THEOREM EscrutinioSiempreCuadra == Spec => []EscrutinioCuadra
<1>1. InvProcesos => EscrutinioCuadra
  BY DEF InvProcesos
<1>2. QED
  BY <1>1, InvarianteProcesos, PTL

\* The owners of the roll, and nobody else, are told; the shortcut of the sweep forgets nobody.
THEOREM AvisosSiempreDelPadron == Spec => []AvisosDelPadron
<1>1. InvProcesos => AvisosDelPadron
  BY DEF InvProcesos
<1>2. QED
  BY <1>1, InvarianteProcesos, PTL
\* Which steps write the row, the roll or the actas, and what they write.
LEMMA QuienEscribe ==
  ASSUME InvProcesos, Next
  PROVE  \/ UNCHANGED <<proceso, derechos, actas>>
         \/ \E p \in Comite : Editar(p) \/ Eliminar(p) \/ (AbrirConfirmar(p) /\ ~SinEscribir) \/ CerrarConfirmar(p)
         \/ EmitirActas
<1>1. CASE Tic \/ Votar \/ Depurar
  BY <1>1 DEF Tic, Votar, Depurar, propias
<1>2. ASSUME NEW p \in Comite,
             \/ Pedir(p) \/ Validar(p) \/ Fracasar(p) \/ AbrirSinFilas(p) \/ CerrarSinFilas(p)
             \/ CerrarConflicto(p) \/ Releer(p) \/ Listar(p) \/ ContarEmitidas(p) \/ Abortar(p)
             \/ Fotografiar(p) \/ LeerPendientes(p) \/ Abrir(p) \/ Cerrar(p) \/ Caer(p)
      PROVE  SinEscribir
  BY <1>2 DEF Pedir, Validar, Fracasar, AbrirSinFilas, CerrarSinFilas, CerrarConflicto, Releer, Listar,
     ContarEmitidas, Abortar, Fotografiar, LeerPendientes, Abrir, Cerrar, Caer
<1>3. SinEscribir => UNCHANGED <<proceso, derechos, actas>>
  BY DEF SinEscribir, compartidas
<1>4. \A p \in Comite : Recordar(p) => UNCHANGED <<proceso, derechos, actas>>
  BY DEF Recordar, compartidas
<1>5. QED
  BY <1>1, <1>2, <1>3, <1>4, Zenon DEF Next, Entorno, Atender, Avanzar

\* Opened once, closed once, and sealed: estado only moves forward, whatever requests cross.
THEOREM VidaUnica == Spec => UnaSolaVida
<1> DEFINE Paso ==
      /\ <<proceso.estado, proceso'.estado>> \in
          {<<e, e>> : e \in Estados} \cup
          {<<"borrador", "abierto">>, <<"borrador", "eliminado">>,
           <<"abierto", "cerrado">>, <<"cerrado", "acta_emitida">>}
      /\ proceso.apertura_real # Nulo =>
           proceso'.apertura_real = proceso.apertura_real /\ derechos' = derechos
      /\ proceso.cierre_real # Nulo =>
           proceso'.cierre_real = proceso.cierre_real /\ actas' = actas
<1>1. ASSUME InvProcesos, Next PROVE Paso
  <2>1. /\ proceso \in Fila /\ proceso.estado \in Estados
        /\ proceso.apertura_real # Nulo <=> proceso.estado \in Abiertos
        /\ proceso.cierre_real # Nulo <=> proceso.estado \in Cerrados
        /\ derechos # {} <=> proceso.estado \in Abiertos
    BY <1>1 DEF InvProcesos, RastroCompleto, TypeOK, Fila, VidaDeLaFila
  <2>2. CASE UNCHANGED <<proceso, derechos, actas>>
    BY <2>1, <2>2
  <2>3. ASSUME NEW p \in Comite, Editar(p) PROVE Paso
    <3>1. PICK a, c : proceso' = [proceso EXCEPT !.aulas = a, !.cierre_previsto = c]
      BY <2>3 DEF Editar, Escribir
    <3>2. /\ proceso'.estado = proceso.estado /\ proceso'.apertura_real = proceso.apertura_real
          /\ proceso'.cierre_real = proceso.cierre_real
      BY <2>1, <3>1 DEF Fila
    <3>3. UNCHANGED <<derechos, actas>>
      BY <2>3 DEF Editar
    <3>4. QED
      BY <2>1, <3>2, <3>3
  <2>4. ASSUME NEW p \in Comite, Eliminar(p) PROVE Paso
    <3>1. /\ proceso' = [proceso EXCEPT !.estado = "eliminado", !.aulas = {}]
          /\ derechos = {} /\ proceso.estado # "eliminado" /\ UNCHANGED <<derechos, actas>>
      BY <2>4 DEF Eliminar, Escribir, SinHijosRestrictivos
    <3>2. /\ proceso'.estado = "eliminado" /\ proceso'.apertura_real = proceso.apertura_real
          /\ proceso'.cierre_real = proceso.cierre_real
      BY <2>1, <3>1 DEF Fila
    <3>3. proceso.estado = "borrador"
      BY <2>1, <3>1 DEF Abiertos, Estados
    <3>4. QED
      BY <2>1, <3>1, <3>2, <3>3
  <2>5. ASSUME NEW p \in Comite, AbrirConfirmar(p), ~SinEscribir PROVE Paso
    <3>1. proceso' = foto[p].proceso /\ paso[p] = "abriendo"
      BY <2>5 DEF AbrirConfirmar, Escribir
    <3>2. PICK t \in Instantes : /\ proceso.estado = "borrador"
                                 /\ foto[p].proceso = [proceso EXCEPT !.estado = "abierto", !.apertura_real = t]
      BY <1>1, <3>1, DeLosTipos DEF Situacion, DeAbrir
    <3>3. proceso'.estado = "abierto" /\ proceso.apertura_real = Nulo /\ proceso.cierre_real = Nulo
      BY <2>1, <3>1, <3>2 DEF Fila, Abiertos, Cerrados
    <3>4. QED
      BY <3>2, <3>3
  <2>6. ASSUME NEW p \in Comite, CerrarConfirmar(p) PROVE Paso
    <3>1. proceso' = foto[p].proceso /\ paso[p] = "cerrando" /\ derechos' = derechos
      BY <2>6 DEF CerrarConfirmar, Escribir
    <3>2. PICK t \in Instantes : /\ proceso.estado = "abierto"
                                 /\ foto[p].proceso = [proceso EXCEPT !.estado = "cerrado", !.cierre_real = t]
      BY <1>1, <3>1, DeLosTipos DEF Situacion, DeConfirmar
    <3>3. /\ proceso'.estado = "cerrado" /\ proceso'.apertura_real = proceso.apertura_real
          /\ proceso.cierre_real = Nulo
      BY <2>1, <3>1, <3>2 DEF Fila, Abiertos, Cerrados
    <3>4. QED
      BY <3>1, <3>2, <3>3
  <2>7. CASE EmitirActas
    <3>1. /\ proceso' = [proceso EXCEPT !.estado = "acta_emitida"] /\ proceso.estado = "cerrado"
          /\ UNCHANGED <<derechos, actas>>
      BY <2>7 DEF EmitirActas
    <3>2. /\ proceso'.estado = "acta_emitida" /\ proceso'.apertura_real = proceso.apertura_real
          /\ proceso'.cierre_real = proceso.cierre_real
      BY <2>1, <3>1 DEF Fila
    <3>3. QED
      BY <3>1, <3>2
  <2> HIDE DEF Paso
  <2>8. QED
    BY <1>1, <2>2, <2>3, <2>4, <2>5, <2>6, <2>7, QuienEscribe
<1>2. InvProcesos /\ [Next]_vars => [Paso]_vars
  BY <1>1
<1>3. QED
  BY <1>2, InvarianteProcesos, PTL DEF Spec, UnaSolaVida

\* A cerrar() that lost with 40001 says that the proceso cannot be closed only after a late editar().
THEOREM ConflictoBienContestado == Spec => ConflictoSinPerdida
<1> DEFINE Paso == \A p \in Comite :
       (paso[p] = "conflicto" /\ contestado'[p] = "no_cerrable") => EdicionTardia
<1>1. ASSUME InvProcesos, Next, NEW p \in Comite, paso[p] = "conflicto", contestado'[p] = "no_cerrable"
      PROVE  EdicionTardia
  <2>1. contestado[p] = Nulo /\ Nulo # "no_cerrable"
    BY <1>1, NuloAparte DEF InvProcesos, SinRespuesta, EnCurso, Respuestas
  <2>2. TypeOK /\ DeReleer
    BY <1>1, DeLosTipos DEF Situacion
  <2>3. ~Entorno
    BY <1>1, <2>1 DEF Entorno, Tic, Votar, Depurar, EmitirActas, propias
  <2>4. PICK q \in Comite : Atender(q)
    BY <1>1, <2>3 DEF Next
  <2>5. contestado' = contestado \/ \E c : Contestar(q, c)
    <3>1. CASE Pedir(q) \/ Validar(q) \/ Fracasar(q) \/ Abrir(q) \/ AbrirSinFilas(q) \/ Fotografiar(q)
                 \/ CerrarSinFilas(q) \/ Cerrar(q) \/ CerrarConflicto(q) \/ Releer(q) \/ Listar(q)
                 \/ ContarEmitidas(q) \/ LeerPendientes(q) \/ Recordar(q) \/ Abortar(q) \/ Caer(q)
      BY <3>1 DEF Pedir, Validar, Fracasar, Abrir, AbrirSinFilas, Fotografiar, CerrarSinFilas, Cerrar,
         CerrarConflicto, Releer, Listar, ContarEmitidas, LeerPendientes, Recordar, Abortar, Caer
    <3>2. CASE Editar(q) \/ Eliminar(q) \/ AbrirConfirmar(q) \/ CerrarConfirmar(q)
      BY <3>2 DEF Editar, Eliminar, AbrirConfirmar, CerrarConfirmar
    <3>3. QED
      BY <2>4, <3>1, <3>2, Zenon DEF Atender, Avanzar
  <2>6. q = p
    BY <1>1, <2>1, <2>2, <2>5 DEF Contestar, TypeOK
  <2>7. ~Abortar(p) /\ ~Caer(p)
    BY <1>1, <2>1, <2>2 DEF Abortar, Caer, Contestar, TypeOK
  <2>8. Releer(p)
    BY <1>1, <2>4, <2>6, <2>7
    DEF Atender, Avanzar, Pedir, Validar, Fracasar, Abrir, AbrirSinFilas, Fotografiar, CerrarSinFilas, Cerrar,
        CerrarConflicto, Listar, ContarEmitidas, LeerPendientes, Recordar, Editar, Eliminar, AbrirConfirmar,
        CerrarConfirmar
  <2>9. RespuestaAlCerrar(proceso.estado) = "no_cerrable"
    BY <1>1, <2>2, <2>8 DEF Releer, Contestar, TypeOK
  <2>10. proceso.estado = "abierto"
    BY <2>2, <2>9 DEF RespuestaAlCerrar, DeReleer, Abiertos
  <2>11. QED
    BY <2>2, <2>10 DEF DeReleer
<1>2. InvProcesos /\ [Next]_vars => [Paso]_vars
  BY <1>1
<1>3. QED
  BY <1>2, InvarianteProcesos, PTL DEF Spec, ConflictoSinPerdida
=============================================================================
