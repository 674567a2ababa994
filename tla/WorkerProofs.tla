----------------------------- MODULE WorkerProofs ----------------------------
(***************************************************************************)
(* Theorems about the worker process: what every queue keeps, whatever its *)
(* processor does (one lemma per operation of Cola), and on it the worker  *)
(* of the actas and the one of the outbox, for any number of jobs and      *)
(* executions and any budget of attempts, stalls and crashes.              *)
(***************************************************************************)
EXTENDS Actas, Outbox, FiniteSetTheorems, TLAPS
-----------------------------------------------------------------------------
(* The queue: the types, and a job is never handed out again once its attempts are spent. *)

\* An execution that is not free has a job; a job that may still run has attempts
\* left; the listener only gives up jobs that spent them all.
ColaSana ==
  /\ \A e \in Ejecutores : ~En(e, "libre") => Mio(e) \in Trabajos
  /\ \A j \in Trabajos :
       cola[j].estado \in {"ausente", "espera", "activa"} => cola[j].intentos < MaxIntentos
  /\ \A m \in porMarcar : cola[m[2]].intentos = MaxIntentos

\* The attempts of a job that has spent them never change again.
Gastado == \A j \in Trabajos :
             cola[j].intentos = MaxIntentos => cola'[j].intentos = MaxIntentos

\* The queue starts empty.
LEMMA ColaInicio ==
  ASSUME NEW F, InitCola
  PROVE  TipoCola(F) /\ ColaSana
<1> USE ConstantesCola
<1>1. TipoCola(F)
  BY DEF InitCola, TipoCola, Trabajo
<1>2. ColaSana
  BY DEF InitCola, ColaSana, En
<1>3. QED
  BY <1>1, <1>2

\* A poll adds jobs that have made no attempt.
LEMMA ColaDespachar ==
  ASSUME NEW F, TipoCola(F), ColaSana, NEW P, NEW lote, Despachar(P, lote)
  PROVE  TipoCola(F)' /\ ColaSana' /\ Gastado
<1> USE ConstantesCola
<1>1. PICK S \in SUBSET P :
        cola' = [j \in Trabajos |->
                   IF j \in S /\ ~YaEncolado(j)
                   THEN [cola[j] EXCEPT !.estado = "espera", !.dueno = Nulo] ELSE cola[j]]
  BY DEF Despachar
<1>2. \A j \in Trabajos : cola'[j] \in Trabajo /\ cola'[j].intentos = cola[j].intentos
  <2>1. \A x \in Trabajo : /\ [x EXCEPT !.estado = "espera", !.dueno = Nulo] \in Trabajo
                          /\ [x EXCEPT !.estado = "espera", !.dueno = Nulo].intentos = x.intentos
    BY DEF Trabajo
  <2>2. \A j \in Trabajos : cola[j] \in Trabajo
    BY DEF TipoCola
  <2>3. QED
    BY <1>1, <2>1, <2>2
<1>3. UNCHANGED <<obra, porMarcar, caidas>>
  BY DEF Despachar
<1>4. TipoCola(F)'
  <2>1. cola' \in [Trabajos -> Trabajo]
    BY <1>1, <1>2
  <2>2. QED
    BY <1>3, <2>1 DEF TipoCola
<1>5. \A j \in Trabajos : cola'[j].estado \in {"ausente", "espera", "activa"} =>
                             cola[j].estado \in {"ausente", "espera", "activa"}
  BY <1>1 DEF YaEncolado, TipoCola, Trabajo
<1>6. ColaSana'
  BY <1>2, <1>3, <1>5 DEF ColaSana, En, Mio, TipoCola
<1>7. QED
  BY <1>2, <1>4, <1>6 DEF Gastado

\* A free execution takes a waiting job.
LEMMA ColaRecoger ==
  ASSUME NEW F, TipoCola(F), ColaSana, NEW e \in Ejecutores, NEW j \in Trabajos,
         NEW fase \in F, Recoger(e, j, fase)
  PROVE  TipoCola(F)' /\ ColaSana' /\ Gastado
<1> USE ConstantesCola
<1>1. /\ cola' = [cola EXCEPT ![j].estado = "activa", ![j].dueno = e]
      /\ obra' = [obra EXCEPT ![e] = [trabajo |-> j, fase |-> fase]]
      /\ UNCHANGED <<porMarcar, caidas>> /\ cola[j].estado = "espera"
  BY DEF Recoger
<1>2. \A k \in Trabajos : cola'[k] \in Trabajo /\ cola'[k].intentos = cola[k].intentos
  <2>1. \A x \in Trabajo : /\ [x EXCEPT !.estado = "activa", !.dueno = e] \in Trabajo
                          /\ [x EXCEPT !.estado = "activa", !.dueno = e].intentos = x.intentos
    BY DEF Trabajo
  <2>2. cola \in [Trabajos -> Trabajo]
    BY DEF TipoCola
  <2>3. \A k \in Trabajos : cola'[k] = IF k = j THEN [cola[j] EXCEPT !.estado = "activa", !.dueno = e] ELSE cola[k]
    BY <1>1, <2>2
  <2>4. cola[j] \in Trabajo /\ \A k \in Trabajos : cola[k] \in Trabajo
    BY <2>2
  <2>5. QED
    BY <2>1, <2>3, <2>4, Zenon
<1>3. TipoCola(F)'
  BY <1>1, <1>2 DEF TipoCola
<1>4. ColaSana'
  BY <1>1, <1>2 DEF ColaSana, En, Mio, TipoCola
<1>5. QED
  BY <1>2, <1>3, <1>4 DEF Gastado

\* A busy execution goes on to another phase.
LEMMA ColaSeguir ==
  ASSUME NEW F, TipoCola(F), ColaSana, NEW e \in Ejecutores, NEW fase \in F,
         ~En(e, "libre"), Seguir(e, fase)
  PROVE  TipoCola(F)' /\ ColaSana' /\ Gastado
<1>1. obra' = [obra EXCEPT ![e].fase = fase] /\ UNCHANGED <<cola, porMarcar, caidas>>
  BY DEF Seguir
<1>2. TipoCola(F)'
  BY <1>1 DEF TipoCola
<1>3. ColaSana'
  BY <1>1 DEF ColaSana, En, Mio, TipoCola
<1>4. QED
  BY <1>1, <1>2, <1>3 DEF Gastado

\* The processor returns.
LEMMA ColaCompletar ==
  ASSUME NEW F, TipoCola(F), ColaSana, NEW e \in Ejecutores, ~En(e, "libre"), Completar(e)
  PROVE  TipoCola(F)' /\ ColaSana' /\ Gastado
<1>0. Mio(e) \in Trabajos
  BY DEF ColaSana
<1>1. /\ cola' = IF Dueno(e) THEN [cola EXCEPT ![Mio(e)].estado = "completada"] ELSE cola
      /\ obra' = [obra EXCEPT ![e] = [trabajo |-> Nulo, fase |-> "libre"]]
      /\ UNCHANGED <<porMarcar, caidas>>
  BY DEF Completar, Soltar
<1>2. \A k \in Trabajos : /\ cola'[k] \in Trabajo /\ cola'[k].intentos = cola[k].intentos
                          /\ cola'[k].estado \in {cola[k].estado, "completada"}
  BY <1>0, <1>1 DEF TipoCola, Trabajo
<1>3. TipoCola(F)'
  BY <1>0, <1>1, <1>2 DEF TipoCola
<1>4. ColaSana'
  BY <1>1, <1>2 DEF ColaSana, En, Mio, TipoCola
<1>5. QED
  BY <1>2, <1>3, <1>4 DEF Gastado

\* The processor throws: a job that had attempts left has one less.
LEMMA ColaLanzar ==
  ASSUME NEW F, TipoCola(F), ColaSana, NEW e \in Ejecutores, ~En(e, "libre"), Lanzar(e)
  PROVE  TipoCola(F)' /\ ColaSana' /\ Gastado
<1> USE ConstantesCola
<1>0. Mio(e) \in Trabajos
  BY DEF ColaSana
<1>1. obra' = [obra EXCEPT ![e] = [trabajo |-> Nulo, fase |-> "libre"]] /\ caidas' = caidas
  BY DEF Lanzar, Soltar
<1>2. CASE ~Dueno(e)
  <2>1. UNCHANGED <<cola, porMarcar>>
    BY <1>2 DEF Lanzar
  <2>2. TipoCola(F)'
    BY <1>1, <2>1 DEF TipoCola
  <2>3. ColaSana'
    BY <1>1, <2>1 DEF ColaSana, En, Mio, TipoCola
  <2>4. QED
    BY <2>1, <2>2, <2>3 DEF Gastado
<1>3. CASE Dueno(e)
  <2> DEFINE j == Mio(e)
             n == cola[j].intentos + 1
  <2>1. cola[j].estado = "activa" /\ cola[j].intentos < MaxIntentos /\ cola[j] \in Trabajo
    BY <1>0, <1>3 DEF Dueno, ColaSana, TipoCola
  <2>2. n \in 1 .. MaxIntentos
    BY <2>1 DEF Trabajo
  <2>3. /\ cola' = [cola EXCEPT ![j].intentos = n, ![j].dueno = Nulo,
                      ![j].estado = IF n >= MaxIntentos THEN "fallida" ELSE "espera"]
        /\ porMarcar' = IF Agotado(n) THEN porMarcar \cup {<<e, j>>} ELSE porMarcar
    BY <1>3 DEF Lanzar
  <2> HIDE DEF j
  <2>4. j \in Trabajos
    BY <1>0 DEF j
  <2>5. cola'[j] = [cola[j] EXCEPT !.intentos = n, !.dueno = Nulo,
                      !.estado = IF n >= MaxIntentos THEN "fallida" ELSE "espera"]
    BY <2>3, <2>4 DEF TipoCola
  <2>6. \A k \in Trabajos \ {j} : cola'[k] = cola[k]
    BY <2>3, <2>4 DEF TipoCola
  <2>7. cola'[j] \in Trabajo /\ cola'[j].intentos = n
        /\ cola'[j].estado = IF n >= MaxIntentos THEN "fallida" ELSE "espera"
    <3> DEFINE est == IF n >= MaxIntentos THEN "fallida" ELSE "espera"
    <3>1. n \in 0 .. MaxIntentos /\ est \in {"ausente", "espera", "activa", "completada", "fallida"}
      BY <2>2
    <3>2. cola'[j] = [cola[j] EXCEPT !.intentos = n, !.dueno = Nulo, !.estado = est]
      BY <2>5
    <3> HIDE DEF n, est
    <3>3. cola'[j] \in Trabajo /\ cola'[j].intentos = n /\ cola'[j].estado = est
      BY <2>1, <3>1, <3>2 DEF Trabajo
    <3>4. QED
      BY <3>3 DEF est
  <2>8. TipoCola(F)'
    BY <1>1, <2>3, <2>4, <2>6, <2>7 DEF TipoCola
  <2>9. \A m \in porMarcar : m \in Ejecutores \X Trabajos /\ m[2] # j
    BY <2>1 DEF TipoCola, ColaSana
  <2>10. \A m \in porMarcar' : m \in Ejecutores \X Trabajos /\ cola'[m[2]].intentos = MaxIntentos
    <3>1. \A m \in porMarcar : cola'[m[2]].intentos = MaxIntentos
      BY <2>6, <2>9 DEF ColaSana
    <3>2. Agotado(n) => cola'[j].intentos = MaxIntentos
      BY <2>2, <2>7 DEF Agotado
    <3>3. QED
      <4>1. CASE Agotado(n)
        <5>1. porMarcar' = porMarcar \cup {<<e, j>>} /\ <<e, j>>[2] = j
              /\ <<e, j>> \in Ejecutores \X Trabajos
          BY <2>3, <2>4, <4>1
        <5>2. QED
          BY <2>9, <3>1, <3>2, <4>1, <5>1
      <4>2. CASE ~Agotado(n)
        BY <2>3, <2>9, <3>1, <4>2
      <4>3. QED
        BY <4>1, <4>2
  <2>11. \A k \in Trabajos :
           cola'[k].estado \in {"ausente", "espera", "activa"} => cola'[k].intentos < MaxIntentos
    BY <2>2, <2>6, <2>7 DEF ColaSana
  <2>12. \A d \in Ejecutores : ~En(d, "libre")' => Mio(d)' \in Trabajos
    BY <1>1 DEF ColaSana, En, Mio, TipoCola
  <2>13. ColaSana'
    BY <2>10, <2>11, <2>12 DEF ColaSana
  <2>14. QED
    BY <2>1, <2>6, <2>8, <2>13 DEF Gastado, Trabajo
<1>4. QED
  BY <1>2, <1>3

\* The lock of an active job expires.
LEMMA ColaAtascar ==
  ASSUME NEW F, TipoCola(F), ColaSana, NEW j \in Trabajos, Atascar(j)
  PROVE  TipoCola(F)' /\ ColaSana' /\ Gastado
<1> USE ConstantesCola
<1>1. /\ cola' = [cola EXCEPT ![j].atascos = @ + 1, ![j].dueno = Nulo,
                    ![j].estado = IF cola[j].atascos = 0 THEN "espera" ELSE "fallida"]
      /\ UNCHANGED <<obra, porMarcar, caidas>> /\ cola[j].estado = "activa"
  BY DEF Atascar
<1>2. \A k \in Trabajos : /\ cola'[k] \in Trabajo /\ cola'[k].intentos = cola[k].intentos
                          /\ k # j => cola'[k] = cola[k]
  BY <1>1 DEF TipoCola, Trabajo
<1>3. TipoCola(F)'
  BY <1>1, <1>2 DEF TipoCola
<1>4. ColaSana'
  BY <1>1, <1>2 DEF ColaSana, En, Mio, TipoCola
<1>5. QED
  BY <1>2, <1>3, <1>4 DEF Gastado

\* A worker process dies.
LEMMA ColaMorir ==
  ASSUME NEW F, TipoCola(F), ColaSana, NEW e \in Ejecutores, Morir(e)
  PROVE  TipoCola(F)' /\ ColaSana' /\ Gastado
<1> USE ConstantesCola
<1>1. /\ obra' = [obra EXCEPT ![e] = [trabajo |-> Nulo, fase |-> "libre"]]
      /\ cola' = cola /\ porMarcar' \subseteq porMarcar
      /\ caidas < MaxCaidas /\ caidas' = caidas + 1
  BY DEF Morir, Soltar
<1>2. TipoCola(F)'
  BY <1>1 DEF TipoCola
<1>3. ColaSana'
  BY <1>1 DEF ColaSana, En, Mio, TipoCola
<1>4. QED
  BY <1>1, <1>2, <1>3 DEF Gastado

\* The listener of a process writes a terminal state.
LEMMA ColaMarcado ==
  ASSUME NEW F, TipoCola(F), ColaSana, NEW e \in Ejecutores, NEW j \in Trabajos, Marcado(e, j)
  PROVE  TipoCola(F)' /\ ColaSana' /\ Gastado /\ cola[j].intentos = MaxIntentos
<1>1. /\ UNCHANGED <<cola, obra, caidas>> /\ porMarcar' \subseteq porMarcar
      /\ <<e, j>> \in porMarcar
  BY DEF Marcado
<1>2. QED
  BY <1>1 DEF TipoCola, ColaSana, Gastado, En, Mio
-----------------------------------------------------------------------------
(* The worker of the actas: what the row lock of the proceso protects. *)

\* Only the holder of the row lock is inside finalizar(), on an acta still in borrador.
CandadoDeLaTransaccion ==
  \A e \in Ejecutores : EnTransaccion(e) => candado = e /\ acta[Mio(e)] = "borrador"

\* What a transaction counted is still the count when it commits.
CuentaVigente ==
  \A e \in Ejecutores :
    En(e, "contada") => contadas[e] = Cardinality(Emitidas \cup {Mio(e)})

\* One ACTA_GENERADA event per emitted acta, all the attempts spent on a failed one.
ActasCuadran ==
  \A t \in Trabajos :
    /\ generadas[t] = IF acta[t] = "emitida" THEN 1 ELSE 0
    /\ acta[t] = "fallido" => cola[t].intentos = MaxIntentos

InvActas ==
  /\ TypeOK /\ ColaSana
  /\ CandadoDeLaTransaccion /\ CuentaVigente /\ ActasCuadran /\ EmisionCompleta
-----------------------------------------------------------------------------
\* cerrar() leaves every acta in borrador and at least one of them.
LEMMA InicioActas == Init => InvActas
<1> SUFFICES ASSUME Init PROVE InvActas
  OBVIOUS
<1> USE ConstantesCola, ConstantesActas
<1>1. TipoCola(Fases) /\ ColaSana
  BY ColaInicio DEF Init
<1>2. TypeOK
  BY <1>1 DEF Init, TypeOK
<1>3. CandadoDeLaTransaccion /\ CuentaVigente
  BY DEF Init, InitCola, CandadoDeLaTransaccion, CuentaVigente, EnTransaccion, En
<1>4. ActasCuadran /\ EmisionCompleta
  BY DEF Init, ActasCuadran, EmisionCompleta, Emitidas
<1>5. QED
  BY <1>1, <1>2, <1>3, <1>4 DEF InvActas
-----------------------------------------------------------------------------
\* The queue keeps its types and its bounds in every step of the worker.
LEMMA PasoDeCola ==
  ASSUME TypeOK, ColaSana, Next
  PROVE  TipoCola(Fases)' /\ ColaSana' /\ Gastado
<1> USE DEF TypeOK
<1>1. CASE DespacharLote
  BY <1>1, ColaDespachar DEF DespacharLote
<1>2. ASSUME NEW e \in Ejecutores, NEW t \in Trabajos, Tomar(e, t)
      PROVE  TipoCola(Fases)' /\ ColaSana' /\ Gastado
  BY <1>2, ColaRecoger DEF Tomar, Fases
<1>3. ASSUME NEW e \in Ejecutores, Leer(e) \/ Renderizar(e) \/ Marcar(e) \/ Contar(e) \/ Confirmar(e)
      PROVE  TipoCola(Fases)' /\ ColaSana' /\ Gastado
  <2>1. ~En(e, "libre") /\ \E f \in Fases : Seguir(e, f)
    BY <1>3 DEF Leer, Renderizar, Marcar, Contar, Confirmar, Comprometer, En, Fases
  <2>2. QED
    BY <2>1, ColaSeguir
<1>4. ASSUME NEW e \in Ejecutores, Terminar(e)
      PROVE  TipoCola(Fases)' /\ ColaSana' /\ Gastado
  BY <1>4, ColaCompletar DEF Terminar, En
<1>5. ASSUME NEW e \in Ejecutores, ConfirmarSinRespuesta(e) \/ Fracasar(e)
      PROVE  TipoCola(Fases)' /\ ColaSana' /\ Gastado
  BY <1>5, ColaLanzar DEF ConfirmarSinRespuesta, Comprometer, Fracasar, En
<1>6. ASSUME NEW e \in Ejecutores, Caer(e)
      PROVE  TipoCola(Fases)' /\ ColaSana' /\ Gastado
  BY <1>6, ColaMorir DEF Caer
<1>7. ASSUME NEW e \in Ejecutores, NEW t \in Trabajos, MarcarFallido(e, t)
      PROVE  TipoCola(Fases)' /\ ColaSana' /\ Gastado
  BY <1>7, ColaMarcado DEF MarcarFallido
<1>8. ASSUME NEW t \in Trabajos, Reentregar(t)
      PROVE  TipoCola(Fases)' /\ ColaSana' /\ Gastado
  BY <1>8, ColaAtascar DEF Reentregar
<1>9. QED
  BY <1>1, <1>2, <1>3, <1>4, <1>5, <1>6, <1>7, <1>8 DEF Next, Avanzar

\* The parts of the invariant that are about the rows.
Filas == CandadoDeLaTransaccion /\ CuentaVigente /\ ActasCuadran /\ EmisionCompleta

\* A transaction that goes on without noticing: same execution, same count, same lock.
Intacta(e) == obra'[e] = obra[e] /\ contadas'[e] = contadas[e] /\ (candado = e => candado' = e)

\* A step that writes no acta and opens no transaction keeps the rows in order.
LEMMA SinEscribir ==
  ASSUME InvActas, Gastado, UNCHANGED <<acta, proceso, generadas>>,
         \A e \in Ejecutores : EnTransaccion(e)' => Intacta(e)
  PROVE  Filas'
<1> USE DEF InvActas
<1>1. CandadoDeLaTransaccion'
  BY DEF CandadoDeLaTransaccion, EnTransaccion, Intacta, Mio
<1>2. CuentaVigente'
  <2>1. \A e \in Ejecutores : En(e, "contada")' =>
          /\ En(e, "contada") /\ Mio(e)' = Mio(e) /\ contadas'[e] = contadas[e]
    BY DEF EnTransaccion, Intacta, En, Mio
  <2>2. Emitidas' = Emitidas
    BY DEF Emitidas
  <2>3. QED
    BY <2>1, <2>2 DEF CuentaVigente
<1>3. ActasCuadran'
  BY DEF ActasCuadran, Gastado
<1>4. EmisionCompleta'
  BY DEF EmisionCompleta, Emitidas
<1>5. QED
  BY <1>1, <1>2, <1>3, <1>4 DEF Filas

\* The columns that the worker writes keep their types.
LEMMA TipoActas ==
  ASSUME InvActas, Next
  PROVE  TypeOK'
<1> USE ConstantesCola DEF InvActas, TypeOK
<1>0. TipoCola(Fases)'
  BY PasoDeCola
<1>1. CASE UNCHANGED varsActas
  BY <1>0, <1>1 DEF varsActas
<1>2. ASSUME NEW e \in Ejecutores, Marcar(e) PROVE TypeOK'
  BY <1>0, <1>2 DEF Marcar
<1>3. ASSUME NEW e \in Ejecutores, Contar(e) PROVE TypeOK'
  <2>1. Emitidas \cup {Mio(e)} \in SUBSET Trabajos
    BY <1>3 DEF Contar, ColaSana, En, Emitidas
  <2>2. Cardinality(Emitidas \cup {Mio(e)}) \in Nat
    BY <2>1, FS_Subset, FS_CardinalityType
  <2>3. QED
    BY <1>0, <1>3, <2>2 DEF Contar
<1>4. ASSUME NEW e \in Ejecutores, Comprometer(e) PROVE TypeOK'
  BY <1>0, <1>4 DEF Comprometer, ColaSana, En
<1>5. ASSUME NEW e \in Ejecutores, Fracasar(e) \/ Caer(e) PROVE TypeOK'
  BY <1>0, <1>5 DEF Fracasar, Caer, Deshacer
<1>6. ASSUME NEW e \in Ejecutores, NEW t \in Trabajos, MarcarFallido(e, t) PROVE TypeOK'
  BY <1>0, <1>6 DEF MarcarFallido, MarcarFila
<1>7. QED
  BY <1>1, <1>2, <1>3, <1>4, <1>5, <1>6 DEF Next, Avanzar, DespacharLote, Tomar, Leer,
     Renderizar, Confirmar, ConfirmarSinRespuesta, Terminar, Reentregar

\* The steps outside of finalizar(), and the ones that leave it without a commit.
LEMMA FilasFuera ==
  ASSUME InvActas, Gastado,
         \/ DespacharLote
         \/ \E e \in Ejecutores : \/ \E t \in Trabajos : Tomar(e, t)
                                 \/ Leer(e) \/ Renderizar(e) \/ Terminar(e)
                                 \/ Fracasar(e) \/ Caer(e)
         \/ \E t \in Trabajos : Reentregar(t)
  PROVE  Filas'
<1> USE DEF InvActas, TypeOK, TipoCola, Intacta, EnTransaccion, varsActas
<1>1. ASSUME DespacharLote \/ \E t \in Trabajos : Reentregar(t) PROVE Filas'
  BY <1>1, SinEscribir DEF DespacharLote, Despachar, Reentregar, Atascar
<1>2. ASSUME NEW e \in Ejecutores, NEW t \in Trabajos, Tomar(e, t) PROVE Filas'
  BY <1>2, SinEscribir DEF Tomar, Recoger
<1>3. ASSUME NEW e \in Ejecutores, Leer(e) \/ Renderizar(e) PROVE Filas'
  BY <1>3, SinEscribir DEF Leer, Renderizar, Seguir
<1>4. ASSUME NEW e \in Ejecutores, Terminar(e) PROVE Filas'
  BY <1>4, SinEscribir DEF Terminar, Completar, Soltar
<1>5. ASSUME NEW e \in Ejecutores, Fracasar(e) \/ Caer(e) PROVE Filas'
  <2>1. obra' = [obra EXCEPT ![e] = [trabajo |-> Nulo, fase |-> "libre"]]
    BY <1>5 DEF Fracasar, Caer, Lanzar, Morir, Soltar
  <2>2. /\ candado' = IF candado = e THEN Nulo ELSE candado
        /\ contadas' = [contadas EXCEPT ![e] = 0]
        /\ UNCHANGED <<acta, proceso, generadas>>
    BY <1>5 DEF Fracasar, Caer, Deshacer
  <2>3. \A d \in Ejecutores : EnTransaccion(d)' => Intacta(d)
    BY <2>1, <2>2
  <2>4. QED
    BY <2>2, <2>3, SinEscribir
<1>6. QED
  BY <1>1, <1>2, <1>3, <1>4, <1>5

\* finalizar() takes the lock and finds its acta in borrador, or leaves it alone.
LEMMA FilasMarcar ==
  ASSUME InvActas, Gastado, NEW e \in Ejecutores, Marcar(e)
  PROVE  Filas'
<1> USE DEF InvActas, TypeOK, TipoCola
<1>1. /\ UNCHANGED <<acta, proceso, generadas, contadas>>
      /\ candado = Nulo
  BY DEF Marcar, PuedeBloquear
<1>2. CASE ~Gana(e)
  <2>1. \A d \in Ejecutores : EnTransaccion(d)' => Intacta(d)
    BY <1>1, <1>2 DEF Marcar, Seguir, EnTransaccion, Intacta
  <2>2. QED
    BY <1>1, <2>1, SinEscribir
<1>3. CASE Gana(e)
  <2>1. candado' = e /\ obra' = [obra EXCEPT ![e].fase = "marcada"] /\ acta[Mio(e)] = "borrador"
    BY <1>3 DEF Marcar, Seguir, Gana
  <2>2. \A d \in Ejecutores : ~EnTransaccion(d)
    BY <1>1, ConstantesCola DEF CandadoDeLaTransaccion
  <2>3. \A d \in Ejecutores : EnTransaccion(d)' => d = e
    BY <2>1, <2>2 DEF EnTransaccion
  <2>4. Mio(e)' = Mio(e) /\ ~En(e, "contada")'
    BY <2>1 DEF Mio, En
  <2>5. CandadoDeLaTransaccion'
    BY <1>1, <2>1, <2>3, <2>4 DEF CandadoDeLaTransaccion
  <2>6. CuentaVigente'
    BY <2>3, <2>4 DEF CuentaVigente, En, EnTransaccion
  <2>7. ActasCuadran' /\ EmisionCompleta'
    BY <1>1 DEF ActasCuadran, EmisionCompleta, Emitidas, Gastado
  <2>8. QED
    BY <2>5, <2>6, <2>7 DEF Filas
<1>4. QED
  BY <1>2, <1>3

\* The count is taken under the lock.
LEMMA FilasContar ==
  ASSUME InvActas, Gastado, NEW e \in Ejecutores, Contar(e)
  PROVE  Filas'
<1> USE DEF InvActas, TypeOK, TipoCola
<1>1. /\ UNCHANGED <<acta, proceso, generadas, candado>>
      /\ contadas' = [contadas EXCEPT ![e] = Cardinality(Emitidas \cup {Mio(e)})]
      /\ obra' = [obra EXCEPT ![e].fase = "contada"] /\ EnTransaccion(e)
  BY DEF Contar, Seguir, En, EnTransaccion
<1>2. \A d \in Ejecutores : EnTransaccion(d) => d = e
  BY <1>1 DEF CandadoDeLaTransaccion
<1>3. \A d \in Ejecutores : Mio(d)' = Mio(d) /\ (EnTransaccion(d)' => d = e)
  BY <1>1, <1>2 DEF Mio, EnTransaccion
<1>4. Emitidas' = Emitidas
  BY <1>1 DEF Emitidas
<1>5. CandadoDeLaTransaccion'
  BY <1>1, <1>3 DEF CandadoDeLaTransaccion
<1>6. CuentaVigente'
  BY <1>1, <1>3, <1>4 DEF CuentaVigente, En, EnTransaccion
<1>7. ActasCuadran' /\ EmisionCompleta'
  BY <1>1, <1>4 DEF ActasCuadran, EmisionCompleta, Gastado
<1>8. QED
  BY <1>5, <1>6, <1>7 DEF Filas

\* The commit, answered or not: the count says "all of them" exactly when it is so.
LEMMA FilasConfirmar ==
  ASSUME InvActas, Gastado, NEW e \in Ejecutores, Confirmar(e) \/ ConfirmarSinRespuesta(e)
  PROVE  Filas'
<1> USE DEF InvActas, TypeOK, TipoCola
<1> DEFINE t == Mio(e)
<1>1. /\ acta' = [acta EXCEPT ![t] = "emitida"]
      /\ generadas' = [generadas EXCEPT ![t] = @ + 1]
      /\ proceso' = IF contadas[e] = Cardinality(Trabajos) /\ proceso = "cerrado"
                    THEN "acta_emitida" ELSE proceso
      /\ En(e, "contada") /\ EnTransaccion(e)
  BY DEF Confirmar, ConfirmarSinRespuesta, Comprometer, En, EnTransaccion
<1>2. t \in Trabajos /\ acta[t] = "borrador"
  BY <1>1 DEF ColaSana, CandadoDeLaTransaccion, En
<1>3. \A d \in Ejecutores : ~EnTransaccion(d)'
  <2>1. \/ obra' = [obra EXCEPT ![e].fase = "hecha"]
        \/ obra' = [obra EXCEPT ![e] = [trabajo |-> Nulo, fase |-> "libre"]]
    BY DEF Confirmar, ConfirmarSinRespuesta, Seguir, Lanzar, Soltar
  <2>2. obra'[e].fase \in {"hecha", "libre"} /\ \A d \in Ejecutores \ {e} : obra'[d] = obra[d]
    BY <2>1
  <2>3. QED
    BY <1>1, <2>2 DEF CandadoDeLaTransaccion, EnTransaccion
<1>4. CandadoDeLaTransaccion' /\ CuentaVigente'
  BY <1>3 DEF CandadoDeLaTransaccion, CuentaVigente, EnTransaccion, En
<1>5. ActasCuadran'
  <2>1. \A s \in Trabajos \ {t} : acta'[s] = acta[s] /\ generadas'[s] = generadas[s]
    BY <1>1, <1>2
  <2>2. acta'[t] = "emitida" /\ generadas[t] = 0 /\ generadas'[t] = 1
    BY <1>1, <1>2 DEF ActasCuadran
  <2> HIDE DEF t
  <2>3. QED
    BY <2>1, <2>2 DEF ActasCuadran, Gastado
<1>6. EmisionCompleta'
  <2>1. Emitidas' = Emitidas \cup {t} /\ t \notin Emitidas
    BY <1>1, <1>2 DEF Emitidas
  <2>2. contadas[e] = Cardinality(Emitidas')
    BY <1>1, <2>1 DEF CuentaVigente
  <2>3. Emitidas' \in SUBSET Trabajos
    BY DEF Emitidas
  <2>4. Emitidas' = Trabajos <=> contadas[e] = Cardinality(Trabajos)
    BY <2>2, <2>3, FS_Subset, ConstantesCola
  <2>5. proceso = "cerrado"
    BY <1>2, <2>1 DEF EmisionCompleta
  <2>6. QED
    BY <1>1, <2>4, <2>5 DEF EmisionCompleta
<1>7. QED
  BY <1>4, <1>5, <1>6 DEF Filas

\* The listener gives up an acta in borrador that no transaction has written, and only
\* when every attempt was spent.
LEMMA FilasFallido ==
  ASSUME InvActas, Gastado, NEW e \in Ejecutores, NEW t \in Trabajos, MarcarFallido(e, t)
  PROVE  Filas'
<1> USE DEF InvActas, TypeOK, TipoCola
<1>1. /\ UNCHANGED <<proceso, generadas, candado, contadas, obra>>
      /\ cola[t].intentos = MaxIntentos /\ cola' = cola
      /\ \A s \in Trabajos : \/ acta'[s] = acta[s]
                             \/ s = t /\ acta[s] = "borrador" /\ acta'[s] = "fallido"
      /\ \A d \in Ejecutores : EnTransaccion(d) => Mio(d) # t
  BY ColaMarcado DEF MarcarFallido, MarcarFila, Marcado, Bloqueada
<1>2. \A d \in Ejecutores : EnTransaccion(d) => acta'[Mio(d)] = acta[Mio(d)]
  BY <1>1 DEF ColaSana, EnTransaccion, En
<1>3. Emitidas' = Emitidas
  BY <1>1 DEF Emitidas
<1>4. CandadoDeLaTransaccion'
  BY <1>1, <1>2 DEF CandadoDeLaTransaccion, EnTransaccion, Mio
<1>5. CuentaVigente'
  BY <1>1, <1>3 DEF CuentaVigente, En, Mio
<1>6. ActasCuadran'
  BY <1>1 DEF ActasCuadran
<1>7. EmisionCompleta'
  BY <1>1, <1>3 DEF EmisionCompleta
<1>8. QED
  BY <1>4, <1>5, <1>6, <1>7 DEF Filas

\* Every step of the worker preserves the invariant.
LEMMA PasoActas == InvActas /\ [Next]_vars => InvActas'
<1> SUFFICES ASSUME InvActas, [Next]_vars PROVE InvActas'
  OBVIOUS
<1>1. CASE Next
  <2>1. TypeOK' /\ ColaSana' /\ Gastado
    BY <1>1, TipoActas, PasoDeCola DEF InvActas
  <2>2. Filas'
    BY <1>1, <2>1, FilasFuera, FilasMarcar, FilasContar, FilasConfirmar, FilasFallido
       DEF Next, Avanzar
  <2>3. QED
    BY <2>1, <2>2 DEF InvActas, Filas
<1>2. CASE UNCHANGED vars
  BY <1>2 DEF vars, varsCola, varsActas, InvActas, TypeOK, TipoCola, ColaSana, En, Mio,
     CandadoDeLaTransaccion, EnTransaccion, CuentaVigente, Emitidas, ActasCuadran, EmisionCompleta
<1>3. QED
  BY <1>1, <1>2

\* A step writes an acta only while it is in borrador.
LEMMA FinalPaso ==
  ASSUME InvActas, [Next]_vars, NEW t \in Trabajos, acta[t] # "borrador"
  PROVE  acta'[t] = acta[t]
<1> USE DEF InvActas, TypeOK
<1>1. ASSUME NEW e \in Ejecutores, Comprometer(e) PROVE acta'[t] = acta[t]
  <2>1. acta[Mio(e)] = "borrador" /\ acta' = [acta EXCEPT ![Mio(e)] = "emitida"]
    BY <1>1 DEF Comprometer, CandadoDeLaTransaccion, EnTransaccion, En
  <2>2. QED
    BY <2>1
<1>2. ASSUME NEW e \in Ejecutores, NEW s \in Trabajos, MarcarFallido(e, s) PROVE acta'[t] = acta[t]
  BY <1>2 DEF MarcarFallido, MarcarFila
<1>3. CASE UNCHANGED acta
  BY <1>3
<1>4. QED
  BY <1>1, <1>2, <1>3 DEF Next, Avanzar, vars, varsActas, DespacharLote, Tomar, Leer, Renderizar,
     Marcar, Contar, Confirmar, ConfirmarSinRespuesta, Terminar, Fracasar, Caer, Deshacer, Reentregar
-----------------------------------------------------------------------------
(* The theorems *)

\* The invariant of the worker of the actas, in every reachable state.
THEOREM InvarianteActas == Spec => []InvActas
  BY InicioActas, PasoActas, PTL DEF Spec

\* The proceso is acta_emitida exactly when all its actas are emitida, for any number of
\* actas finished side by side, with executions that crash, stall or are repeated.
THEOREM EmisionCompletaSiempre == Spec => []EmisionCompleta
<1>1. InvActas => EmisionCompleta
  BY DEF InvActas
<1>2. QED
  BY <1>1, InvarianteActas, PTL

\* An acta is generated at most once, exactly once if it is emitida, and is given up only
\* after every attempt.
THEOREM UnaGeneracionPorActa == Spec => []UnaGeneracion
<1>1. InvActas => UnaGeneracion
  BY DEF InvActas, UnaGeneracion, ActasCuadran
<1>2. QED
  BY <1>1, InvarianteActas, PTL

\* emitida and fallido are final.
THEOREM EstadosFinales == Spec => EstadoFinal
<1>1. InvActas /\ [Next]_vars => [\A t \in Trabajos : acta[t] # "borrador" => acta'[t] = acta[t]]_vars
  BY FinalPaso
<1>2. QED
  BY <1>1, InvarianteActas, PTL DEF Spec, EstadoFinal
-----------------------------------------------------------------------------
(* The outbox *)

(* The inductive invariant: an account of deliveries, claims and mails.      *)

\* The executions of a job that have still to count their attempt in the row, and the
\* ones that have counted it and have still to send the mail.
PorReclamar(j) == {e \in Ejecutores : Mio(e) = j /\ obra[e].fase \in {"tomada", "leida"}}
PorEnviar(j)   == {e \in Ejecutores : Mio(e) = j /\ En(e, "reclamada")}

\* How often BullMQ can have handed the job out: a failure or a stall puts it back.
Entregas(j) ==
  cola[j].intentos + cola[j].atascos + (IF cola[j].estado \in {"ausente", "espera"} THEN 0 ELSE 1)

\* A claim that is still to come has its delivery already, a mail its claim.
ReclamosAcotados == \A j \in Trabajos : intentos[j] + Cardinality(PorReclamar(j)) <= Entregas(j)
EnviosAcotados   == \A j \in Trabajos : entregados[j] + Cardinality(PorEnviar(j)) <= intentos[j]

\* A row is marked enviado after its mail.
EnviadoDespues ==
  /\ \A e \in Ejecutores : En(e, "enviada") => entregados[Mio(e)] >= 1
  /\ \A j \in Trabajos : correo[j] = "enviado" => entregados[j] >= 1

InvOutbox == TipoCorreos /\ ColaSana /\ ReclamosAcotados /\ EnviosAcotados /\ EnviadoDespues
-----------------------------------------------------------------------------
\* How the number of executions in a situation changes with one of them.
LEMMA Cuentas ==
  ASSUME NEW S \in SUBSET Ejecutores, NEW T \in SUBSET Ejecutores, NEW e
  PROVE  /\ Cardinality(S) \in Nat /\ Cardinality(T) \in Nat
         /\ S \subseteq T => Cardinality(S) <= Cardinality(T)
         /\ S \subseteq T \cup {e} => Cardinality(S) <= Cardinality(T) + 1
         /\ e \in T /\ S \subseteq T \ {e} => Cardinality(S) + 1 <= Cardinality(T)
<1>1. IsFiniteSet(S) /\ IsFiniteSet(T)
  BY FS_Subset, ConstantesCola
<1>2. Cardinality(S) \in Nat /\ Cardinality(T) \in Nat
  BY <1>1, FS_CardinalityType
<1>3. S \subseteq T => Cardinality(S) <= Cardinality(T)
  BY <1>1, FS_Subset
<1>4. S \subseteq T \cup {e} => Cardinality(S) <= Cardinality(T) + 1
  <2>1. /\ IsFiniteSet(T \cup {e})
        /\ Cardinality(T \cup {e}) = IF e \in T THEN Cardinality(T) ELSE Cardinality(T) + 1
    BY <1>1, FS_AddElement
  <2>2. S \subseteq T \cup {e} => Cardinality(S) <= Cardinality(T \cup {e})
    BY <2>1, FS_Subset
  <2>3. Cardinality(T \cup {e}) <= Cardinality(T) + 1
    BY <1>2, <2>1
  <2>4. QED
    BY <1>2, <2>1, <2>2, <2>3
<1>5. e \in T /\ S \subseteq T \ {e} => Cardinality(S) + 1 <= Cardinality(T)
  <2>1. e \in T => IsFiniteSet(T \ {e}) /\ Cardinality(T \ {e}) = Cardinality(T) - 1
    BY <1>1, FS_RemoveElement
  <2>2. e \in T /\ S \subseteq T \ {e} => Cardinality(S) <= Cardinality(T \ {e})
    BY <2>1, FS_Subset
  <2>3. QED
    BY <1>2, <2>1, <2>2
<1>6. QED
  BY <1>2, <1>3, <1>4, <1>5

\* The queue and the rows start empty.
LEMMA InicioOutbox == InitCorreos => InvOutbox
<1> SUFFICES ASSUME InitCorreos PROVE InvOutbox
  OBVIOUS
<1> USE ConstantesCola
<1>1. TipoCola(FasesCorreo) /\ ColaSana
  BY ColaInicio DEF InitCorreos
<1>2. TipoCorreos
  BY <1>1 DEF InitCorreos, TipoCorreos
<1>3. \A j \in Trabajos : PorReclamar(j) = {} /\ PorEnviar(j) = {}
  BY DEF InitCorreos, InitCola, PorReclamar, PorEnviar, En
<1>4. Cardinality({}) = 0
  BY FS_EmptySet
<1>5. ReclamosAcotados /\ EnviosAcotados
  <2>1. \A j \in Trabajos : Entregas(j) = 0 /\ intentos[j] = 0 /\ entregados[j] = 0
    BY DEF InitCorreos, InitCola, Entregas
  <2>2. QED
    <3>1. \A j \in Trabajos : Cardinality(PorReclamar(j)) = 0 /\ Cardinality(PorEnviar(j)) = 0
      BY <1>3, <1>4, Zenon
    <3>2. QED
      BY <2>1, <3>1 DEF ReclamosAcotados, EnviosAcotados
<1>6. EnviadoDespues
  BY DEF InitCorreos, InitCola, EnviadoDespues, En
<1>7. QED
  BY <1>1, <1>2, <1>5, <1>6 DEF InvOutbox
-----------------------------------------------------------------------------
\* The queue keeps its types and its bounds in every step of the worker.
LEMMA PasoDeColaCorreos ==
  ASSUME TipoCorreos, ColaSana, NextCorreos
  PROVE  TipoCola(FasesCorreo)' /\ ColaSana'
<1> USE DEF TipoCorreos
<1>1. CASE DespacharCorreos
  BY <1>1, ColaDespachar DEF DespacharCorreos
<1>2. ASSUME NEW e \in Ejecutores, NEW j \in Trabajos, TomarCorreo(e, j)
      PROVE  TipoCola(FasesCorreo)' /\ ColaSana'
  BY <1>2, ColaRecoger DEF TomarCorreo, FasesCorreo
<1>3. ASSUME NEW e \in Ejecutores, LeerCorreo(e) \/ Reclamar(e) \/ Enviar(e) \/ MarcarEnviado(e)
      PROVE  TipoCola(FasesCorreo)' /\ ColaSana'
  <2>1. ~En(e, "libre") /\ \E f \in FasesCorreo : Seguir(e, f)
    BY <1>3 DEF LeerCorreo, Reclamar, Enviar, MarcarEnviado, En, FasesCorreo
  <2>2. QED
    BY <2>1, ColaSeguir
<1>4. ASSUME NEW e \in Ejecutores, TerminarCorreo(e)
      PROVE  TipoCola(FasesCorreo)' /\ ColaSana'
  BY <1>4, ColaCompletar DEF TerminarCorreo, En
<1>5. ASSUME NEW e \in Ejecutores, Fallar(e)
      PROVE  TipoCola(FasesCorreo)' /\ ColaSana'
  BY <1>5, ColaLanzar DEF Fallar, FracasarCorreo, EnviarSinRespuesta, MarcarSinRespuesta, En
<1>6. ASSUME NEW e \in Ejecutores, CaerConCorreo(e)
      PROVE  TipoCola(FasesCorreo)' /\ ColaSana'
  BY <1>6, ColaMorir DEF CaerConCorreo
<1>7. ASSUME NEW e \in Ejecutores, NEW j \in Trabajos, MarcarCorreoFallido(e, j)
      PROVE  TipoCola(FasesCorreo)' /\ ColaSana'
  BY <1>7, ColaMarcado DEF MarcarCorreoFallido
<1>8. ASSUME NEW j \in Trabajos, ReentregarCorreo(j)
      PROVE  TipoCola(FasesCorreo)' /\ ColaSana'
  BY <1>8, ColaAtascar DEF ReentregarCorreo
<1>9. QED
  BY <1>1, <1>2, <1>3, <1>4, <1>5, <1>6, <1>7, <1>8 DEF NextCorreos, AvanzarCorreo

\* The columns that the worker writes keep their types.
LEMMA TipoOutbox ==
  ASSUME InvOutbox, NextCorreos
  PROVE  TipoCorreos'
<1> USE DEF InvOutbox, TipoCorreos
<1>0. TipoCola(FasesCorreo)'
  BY PasoDeColaCorreos
<1>a. \A e \in Ejecutores : ~En(e, "libre") => Mio(e) \in Trabajos
  BY DEF ColaSana
<1>1. CASE UNCHANGED varsOutbox
  BY <1>0, <1>1 DEF varsOutbox
<1>2. ASSUME NEW e \in Ejecutores, Reclamar(e) PROVE TipoCorreos'
  BY <1>0, <1>a, <1>2 DEF Reclamar, En
<1>3. ASSUME NEW e \in Ejecutores, Enviar(e) \/ EnviarSinRespuesta(e) PROVE TipoCorreos'
  BY <1>0, <1>a, <1>3 DEF Enviar, EnviarSinRespuesta, Entregar, En
<1>4. ASSUME NEW e \in Ejecutores, MarcarEnviado(e) \/ MarcarSinRespuesta(e) PROVE TipoCorreos'
  BY <1>0, <1>a, <1>4 DEF MarcarEnviado, MarcarSinRespuesta, MarcarPendiente, En
<1>5. ASSUME NEW e \in Ejecutores, NEW j \in Trabajos, MarcarCorreoFallido(e, j) PROVE TipoCorreos'
  BY <1>0, <1>5 DEF MarcarCorreoFallido
<1>6. QED
  BY <1>1, <1>2, <1>3, <1>4, <1>5 DEF NextCorreos, AvanzarCorreo, Fallar, DespacharCorreos, TomarCorreo, LeerCorreo, TerminarCorreo,
     FracasarCorreo, CaerConCorreo, ReentregarCorreo
-----------------------------------------------------------------------------
\* The account of a job is that of its row, its deliveries and its executions.
LEMMA CuentaTipo ==
  ASSUME TipoCorreos, NEW j \in Trabajos
  PROVE  /\ Entregas(j) \in Nat /\ intentos[j] \in Nat /\ entregados[j] \in Nat
         /\ PorReclamar(j) \in SUBSET Ejecutores /\ PorEnviar(j) \in SUBSET Ejecutores
  BY ConstantesCola DEF TipoCorreos, TipoCola, Trabajo, Entregas, PorReclamar, PorEnviar

\* No operation of the queue loses a delivery of a job, and Recoger adds one.
LEMMA EntregasCrecen ==
  ASSUME TipoCorreos, ColaSana, NEW j \in Trabajos, NextCorreos
  PROVE  /\ Entregas(j)' >= Entregas(j)
         /\ \A e \in Ejecutores : TomarCorreo(e, j) => Entregas(j)' = Entregas(j) + 1
<1>0. Entregas(j) \in Nat
  BY CuentaTipo
<1>a. cola \in [Trabajos -> Trabajo] /\ cola[j] \in Trabajo
  BY DEF TipoCorreos, TipoCola
<1>1. ASSUME cola'[j] = cola[j] PROVE Entregas(j)' = Entregas(j)
  BY <1>1 DEF Entregas
<1>2. ASSUME DespacharCorreos PROVE Entregas(j)' >= Entregas(j)
  <2>1. PICK S \in SUBSET CorreosPendientes :
          cola' = [k \in Trabajos |->
                     IF k \in S /\ ~YaEncolado(k)
                     THEN [cola[k] EXCEPT !.estado = "espera", !.dueno = Nulo] ELSE cola[k]]
    BY <1>2 DEF DespacharCorreos, Despachar
  <2>2. CASE ~(j \in S /\ ~YaEncolado(j))
    <3>1. cola'[j] = cola[j]
      BY <2>1, <2>2
    <3>2. QED
      BY <1>0, <1>1, <3>1
  <2>3. CASE j \in S /\ ~YaEncolado(j)
    <3>1. cola'[j] = [cola[j] EXCEPT !.estado = "espera", !.dueno = Nulo] /\ cola[j].estado = "ausente"
      BY <2>1, <2>3 DEF YaEncolado
    <3>2. /\ cola'[j].intentos = cola[j].intentos /\ cola'[j].atascos = cola[j].atascos
          /\ cola'[j].estado = "espera"
      BY <1>a, <3>1 DEF Trabajo
    <3>3. Entregas(j)' = Entregas(j)
      BY <3>1, <3>2 DEF Entregas
    <3>4. QED
      BY <1>0, <3>3
  <2>4. QED
    BY <2>2, <2>3
<1>3. ASSUME NEW e \in Ejecutores, NEW k \in Trabajos, TomarCorreo(e, k)
      PROVE  Entregas(j)' = Entregas(j) + (IF j = k THEN 1 ELSE 0)
  BY <1>a, <1>3 DEF TomarCorreo, Recoger, Entregas, Trabajo
<1>4. ASSUME NEW e \in Ejecutores, TerminarCorreo(e) PROVE Entregas(j)' = Entregas(j)
  <2>1. Mio(e) \in Trabajos
    BY <1>4 DEF TerminarCorreo, ColaSana, En
  <2>2. QED
    BY <1>a, <1>4, <2>1 DEF TerminarCorreo, Completar, Dueno, Entregas, Trabajo
<1>5. ASSUME NEW e \in Ejecutores, Fallar(e) PROVE Entregas(j)' >= Entregas(j)
  <2>1. Lanzar(e) /\ Mio(e) \in Trabajos
    BY <1>5 DEF Fallar, FracasarCorreo, EnviarSinRespuesta, MarcarSinRespuesta, ColaSana, En
  <2>2. CASE ~Dueno(e) \/ Mio(e) # j
    <3>1. cola'[j] = cola[j]
      BY <1>a, <2>1, <2>2 DEF Lanzar
    <3>2. QED
      BY <1>0, <1>1, <3>1
  <2>3. CASE Dueno(e) /\ Mio(e) = j
    BY ConstantesCola, <1>a, <2>1, <2>3 DEF Lanzar, Dueno, Entregas, Trabajo
  <2>4. QED
    BY <2>2, <2>3
<1>6. ASSUME NEW k \in Trabajos, ReentregarCorreo(k) PROVE Entregas(j)' >= Entregas(j)
  BY ConstantesCola, <1>a, <1>6 DEF ReentregarCorreo, Atascar, Entregas, Trabajo
<1>7. Entregas(j)' >= Entregas(j)
  <2>1. ASSUME NEW e \in Ejecutores,
               LeerCorreo(e) \/ Reclamar(e) \/ Enviar(e) \/ MarcarEnviado(e) \/ CaerConCorreo(e)
        PROVE  cola' = cola
    BY <2>1 DEF LeerCorreo, Reclamar, Enviar, MarcarEnviado, Seguir, CaerConCorreo, Morir
  <2>2. ASSUME NEW e \in Ejecutores, NEW k \in Trabajos, MarcarCorreoFallido(e, k) PROVE cola' = cola
    BY <2>2 DEF MarcarCorreoFallido, Marcado
  <2>3. cola' = cola => Entregas(j)' >= Entregas(j)
    BY <1>0, <1>1
  <2>4. ASSUME NEW e \in Ejecutores, NEW k \in Trabajos, TomarCorreo(e, k) PROVE Entregas(j)' >= Entregas(j)
    BY <1>0, <1>3, <2>4
  <2>5. ASSUME NEW e \in Ejecutores, TerminarCorreo(e) PROVE Entregas(j)' >= Entregas(j)
    BY <1>0, <1>4, <2>5
  <2>6. QED
    BY <1>2, <1>5, <1>6, <2>1, <2>2, <2>3, <2>4, <2>5 DEF NextCorreos, AvanzarCorreo
<1>8. QED
  BY <1>3, <1>7

\* The account of one job.
Cuenta(j) ==
  /\ intentos[j] + Cardinality(PorReclamar(j)) <= Entregas(j)
  /\ entregados[j] + Cardinality(PorEnviar(j)) <= intentos[j]

\* A step that counts no claim and no mail of a job, and gives it to nobody.
LEMMA SinContar ==
  ASSUME InvOutbox, TipoCorreos', NEW j \in Trabajos, Entregas(j)' >= Entregas(j),
         intentos'[j] = intentos[j], entregados'[j] = entregados[j],
         PorReclamar(j)' \subseteq PorReclamar(j), PorEnviar(j)' \subseteq PorEnviar(j)
  PROVE  Cuenta(j)'
<1>1. Cuenta(j)
  BY DEF InvOutbox, ReclamosAcotados, EnviosAcotados, Cuenta
<1>2. /\ Entregas(j) \in Nat /\ intentos[j] \in Nat /\ entregados[j] \in Nat
      /\ PorReclamar(j) \in SUBSET Ejecutores /\ PorEnviar(j) \in SUBSET Ejecutores
  BY CuentaTipo DEF InvOutbox
<1>3. Entregas(j)' \in Nat
  BY ConstantesCola DEF TipoCorreos, TipoCola, Trabajo, Entregas
<1>4. /\ Cardinality(PorReclamar(j)') <= Cardinality(PorReclamar(j))
      /\ Cardinality(PorEnviar(j)') <= Cardinality(PorEnviar(j))
      /\ Cardinality(PorReclamar(j)') \in Nat /\ Cardinality(PorReclamar(j)) \in Nat
      /\ Cardinality(PorEnviar(j)') \in Nat /\ Cardinality(PorEnviar(j)) \in Nat
  <2>1. PorReclamar(j)' \in SUBSET Ejecutores /\ PorEnviar(j)' \in SUBSET Ejecutores
    BY <1>2
  <2>2. QED
    BY <1>2, <2>1, Cuentas
<1>5. QED
  BY <1>1, <1>2, <1>3, <1>4 DEF Cuenta

\* The account of a job after each step of the worker.
LEMMA CuentaPaso ==
  ASSUME InvOutbox, NextCorreos, TipoCorreos', NEW j \in Trabajos
  PROVE  Cuenta(j)'
<1> USE DEF InvOutbox
<1>a. Entregas(j)' >= Entregas(j) /\ \A e \in Ejecutores : TomarCorreo(e, j) => Entregas(j)' = Entregas(j) + 1
  BY EntregasCrecen
<1>b. /\ Entregas(j) \in Nat /\ intentos[j] \in Nat /\ entregados[j] \in Nat
      /\ PorReclamar(j) \in SUBSET Ejecutores /\ PorEnviar(j) \in SUBSET Ejecutores
  BY CuentaTipo
<1>c. PorReclamar(j)' \in SUBSET Ejecutores /\ PorEnviar(j)' \in SUBSET Ejecutores
  BY DEF PorReclamar, PorEnviar
<1>d. Cuenta(j)
  BY DEF ReclamosAcotados, EnviosAcotados, Cuenta
<1>e. obra \in [Ejecutores -> [trabajo : Trabajos \cup {Nulo}, fase : FasesCorreo \cup {"libre"}]]
      /\ intentos \in [Trabajos -> Nat] /\ entregados \in [Trabajos -> Nat]
  BY DEF TipoCorreos, TipoCola
<1>f. \A e \in Ejecutores : ~En(e, "libre") => Mio(e) \in Trabajos
  BY DEF ColaSana
<1>1. ASSUME DespacharCorreos \/ (\E k \in Trabajos : ReentregarCorreo(k))
             \/ (\E e \in Ejecutores, k \in Trabajos : MarcarCorreoFallido(e, k))
      PROVE  Cuenta(j)'
  <2>1. UNCHANGED <<obra, intentos, entregados>>
    BY <1>1 DEF DespacharCorreos, Despachar, ReentregarCorreo, Atascar, MarcarCorreoFallido, Marcado, varsOutbox
  <2>2. PorReclamar(j)' = PorReclamar(j) /\ PorEnviar(j)' = PorEnviar(j)
    BY <2>1 DEF PorReclamar, PorEnviar, Mio, En
  <2>3. QED
    BY <1>a, <2>1, <2>2, SinContar
<1>2. ASSUME NEW e \in Ejecutores,
             TerminarCorreo(e) \/ MarcarSinRespuesta(e) \/ FracasarCorreo(e) \/ CaerConCorreo(e)
      PROVE  Cuenta(j)'
  <2>1. UNCHANGED <<intentos, entregados>>
        /\ obra' = [obra EXCEPT ![e] = [trabajo |-> Nulo, fase |-> "libre"]]
    BY <1>2 DEF TerminarCorreo, Completar, MarcarSinRespuesta, FracasarCorreo, Lanzar, CaerConCorreo, Morir, Soltar, varsOutbox
  <2>2. PorReclamar(j)' \subseteq PorReclamar(j) /\ PorEnviar(j)' \subseteq PorEnviar(j)
    BY <1>e, <2>1 DEF PorReclamar, PorEnviar, Mio, En
  <2>3. QED
    BY <1>a, <2>1, <2>2, SinContar
<1>3. ASSUME NEW e \in Ejecutores, LeerCorreo(e) \/ MarcarEnviado(e) PROVE Cuenta(j)'
  <2>1. /\ UNCHANGED <<intentos, entregados>> /\ obra[e].fase \in {"tomada", "enviada"}
        /\ \/ obra' = [obra EXCEPT ![e].fase = "hecha"]
           \/ obra' = [obra EXCEPT ![e].fase = "leida"] /\ obra[e].fase = "tomada"
    BY <1>3 DEF LeerCorreo, MarcarEnviado, Seguir, En, varsOutbox
  <2>2. PorReclamar(j)' \subseteq PorReclamar(j) /\ PorEnviar(j)' \subseteq PorEnviar(j)
    BY <1>e, <2>1 DEF PorReclamar, PorEnviar, Mio, En
  <2>3. QED
    BY <1>a, <2>1, <2>2, SinContar
<1>4. ASSUME NEW e \in Ejecutores, NEW k \in Trabajos, TomarCorreo(e, k) PROVE Cuenta(j)'
  <2>1. UNCHANGED <<intentos, entregados>>
        /\ obra' = [obra EXCEPT ![e] = [trabajo |-> k, fase |-> "tomada"]]
    BY <1>4 DEF TomarCorreo, Recoger, varsOutbox
  <2>2. PorEnviar(j)' \subseteq PorEnviar(j) /\ PorReclamar(j)' \subseteq PorReclamar(j) \cup {e}
        /\ (j # k => PorReclamar(j)' \subseteq PorReclamar(j))
    BY <1>e, <2>1 DEF PorReclamar, PorEnviar, Mio, En
  <2>3. CASE j # k
    BY <1>a, <2>1, <2>2, <2>3, SinContar
  <2>4. CASE j = k
    <3>1. Entregas(j)' = Entregas(j) + 1
      BY <1>4, <1>a, <2>4
    <3>2. /\ Cardinality(PorReclamar(j)') <= Cardinality(PorReclamar(j)) + 1
          /\ Cardinality(PorEnviar(j)') <= Cardinality(PorEnviar(j))
          /\ Cardinality(PorReclamar(j)') \in Nat /\ Cardinality(PorReclamar(j)) \in Nat
          /\ Cardinality(PorEnviar(j)') \in Nat /\ Cardinality(PorEnviar(j)) \in Nat
      BY <1>b, <1>c, <2>2, Cuentas
    <3>3. QED
      BY <1>b, <1>d, <2>1, <3>1, <3>2 DEF Cuenta
  <2>5. QED
    BY <2>3, <2>4
<1>5. ASSUME NEW e \in Ejecutores, Reclamar(e) PROVE Cuenta(j)'
  <2>0. En(e, "leida") /\ entregados' = entregados /\ Mio(e) \in Trabajos
    BY <1>5, <1>f DEF Reclamar, En
  <2>1. CASE correo[Mio(e)] # "pendiente" \/ Mio(e) # j
    <3>1. /\ intentos'[j] = intentos[j]
          /\ \/ obra' = [obra EXCEPT ![e].fase = "hecha"]
             \/ obra' = [obra EXCEPT ![e].fase = "reclamada"] /\ Mio(e) # j
      BY <1>5, <1>e, <2>0, <2>1 DEF Reclamar, Seguir
    <3>2. PorReclamar(j)' \subseteq PorReclamar(j) /\ PorEnviar(j)' \subseteq PorEnviar(j)
      BY <1>e, <3>1 DEF PorReclamar, PorEnviar, Mio, En
    <3>3. QED
      BY <1>a, <2>0, <3>1, <3>2, SinContar
  <2>2. CASE correo[Mio(e)] = "pendiente" /\ Mio(e) = j
    <3>1. intentos'[j] = intentos[j] + 1 /\ obra' = [obra EXCEPT ![e].fase = "reclamada"]
      BY <1>5, <1>e, <2>2 DEF Reclamar, Seguir
    <3>2. e \in PorReclamar(j) /\ PorReclamar(j)' \subseteq PorReclamar(j) \ {e}
          /\ PorEnviar(j)' \subseteq PorEnviar(j) \cup {e}
      BY <1>e, <2>0, <2>2, <3>1 DEF PorReclamar, PorEnviar, Mio, En
    <3>3. /\ Cardinality(PorReclamar(j)') + 1 <= Cardinality(PorReclamar(j))
          /\ Cardinality(PorEnviar(j)') <= Cardinality(PorEnviar(j)) + 1
          /\ Cardinality(PorReclamar(j)') \in Nat /\ Cardinality(PorReclamar(j)) \in Nat
          /\ Cardinality(PorEnviar(j)') \in Nat /\ Cardinality(PorEnviar(j)) \in Nat
      BY <1>b, <1>c, <3>2, Cuentas
    <3>4. Entregas(j)' \in Nat
      BY ConstantesCola DEF TipoCorreos, TipoCola, Trabajo, Entregas
    <3>5. QED
      BY <1>a, <1>b, <1>d, <2>0, <3>1, <3>3, <3>4 DEF Cuenta
  <2>3. QED
    BY <2>1, <2>2
<1>6. ASSUME NEW e \in Ejecutores, Enviar(e) \/ EnviarSinRespuesta(e) PROVE Cuenta(j)'
  <2>0. /\ En(e, "reclamada") /\ intentos' = intentos /\ Mio(e) \in Trabajos
        /\ entregados' = [entregados EXCEPT ![Mio(e)] = @ + 1]
        /\ \/ obra' = [obra EXCEPT ![e].fase = "enviada"]
           \/ obra' = [obra EXCEPT ![e] = [trabajo |-> Nulo, fase |-> "libre"]]
    BY <1>6, <1>f DEF Enviar, EnviarSinRespuesta, Entregar, Seguir, Lanzar, Soltar, En
  <2>1. PorReclamar(j)' \subseteq PorReclamar(j) /\ PorEnviar(j)' \subseteq PorEnviar(j) \ {e}
    BY <1>e, <2>0 DEF PorReclamar, PorEnviar, Mio, En
  <2>2. CASE Mio(e) # j
    BY <1>a, <1>e, <2>0, <2>1, <2>2, SinContar
  <2>3. CASE Mio(e) = j
    <3>1. entregados'[j] = entregados[j] + 1 /\ e \in PorEnviar(j)
      BY <1>e, <2>0, <2>3 DEF PorEnviar
    <3>2. /\ Cardinality(PorReclamar(j)') <= Cardinality(PorReclamar(j))
          /\ Cardinality(PorEnviar(j)') + 1 <= Cardinality(PorEnviar(j))
          /\ Cardinality(PorReclamar(j)') \in Nat /\ Cardinality(PorReclamar(j)) \in Nat
          /\ Cardinality(PorEnviar(j)') \in Nat /\ Cardinality(PorEnviar(j)) \in Nat
      BY <1>b, <1>c, <2>1, <3>1, Cuentas
    <3>3. Entregas(j)' \in Nat
      BY ConstantesCola DEF TipoCorreos, TipoCola, Trabajo, Entregas
    <3>4. QED
      BY <1>a, <1>b, <1>d, <2>0, <3>1, <3>2, <3>3 DEF Cuenta
  <2>4. QED
    BY <2>2, <2>3
<1>7. QED
  BY <1>1, <1>2, <1>3, <1>4, <1>5, <1>6 DEF NextCorreos, AvanzarCorreo, Fallar

\* A row says enviado, and an execution is past sending, only after a mail.
LEMMA EnviadoPaso ==
  ASSUME InvOutbox, NextCorreos
  PROVE  EnviadoDespues'
<1> USE DEF InvOutbox
<1>a. /\ obra \in [Ejecutores -> [trabajo : Trabajos \cup {Nulo}, fase : FasesCorreo \cup {"libre"}]]
      /\ entregados \in [Trabajos -> Nat] /\ correo \in [Trabajos -> {"pendiente", "enviado", "fallido"}]
      /\ \A e \in Ejecutores : ~En(e, "libre") => Mio(e) \in Trabajos
  BY DEF TipoCorreos, TipoCola, ColaSana
<1>b. Nulo \notin Trabajos
  BY ConstantesCola
<1>c. \A j \in Trabajos : entregados[j] \in Nat
  BY <1>a
<1>1. ASSUME \A j \in Trabajos : entregados'[j] = entregados[j] \/ entregados'[j] = entregados[j] + 1,
             \A e \in Ejecutores : En(e, "enviada")' =>
               Mio(e)' \in Trabajos /\ (entregados'[Mio(e)'] >= 1 \/ (En(e, "enviada") /\ Mio(e)' = Mio(e))),
             \A j \in Trabajos : correo'[j] = "enviado" => correo[j] = "enviado" \/ entregados[j] >= 1
      PROVE  EnviadoDespues'
  <2>1. \A j \in Trabajos : entregados[j] >= 1 => entregados'[j] >= 1
    BY <1>1, <1>c
  <2>2. QED
    BY <1>1, <2>1 DEF EnviadoDespues
<1>2. ASSUME DespacharCorreos \/ (\E k \in Trabajos : ReentregarCorreo(k))
      PROVE  EnviadoDespues'
  BY <1>2 DEF DespacharCorreos, Despachar, ReentregarCorreo, Atascar, varsOutbox, EnviadoDespues, En, Mio
<1>3. ASSUME NEW e \in Ejecutores, NEW k \in Trabajos, MarcarCorreoFallido(e, k) PROVE EnviadoDespues'
  BY <1>a, <1>3 DEF MarcarCorreoFallido, Marcado, EnviadoDespues, En, Mio
<1>4. ASSUME NEW e \in Ejecutores, TerminarCorreo(e) \/ FracasarCorreo(e) \/ CaerConCorreo(e) PROVE EnviadoDespues'
  <2>1. UNCHANGED <<correo, entregados>>
        /\ obra' = [obra EXCEPT ![e] = [trabajo |-> Nulo, fase |-> "libre"]]
    BY <1>4 DEF TerminarCorreo, Completar, FracasarCorreo, Lanzar, CaerConCorreo, Morir, Soltar, varsOutbox
  <2>2. QED
    BY <1>a, <2>1 DEF EnviadoDespues, En, Mio
<1>5. ASSUME NEW e \in Ejecutores, NEW k \in Trabajos, TomarCorreo(e, k) PROVE EnviadoDespues'
  BY <1>a, <1>5 DEF TomarCorreo, Recoger, varsOutbox, EnviadoDespues, En, Mio
<1>6. ASSUME NEW e \in Ejecutores, LeerCorreo(e) \/ Reclamar(e) PROVE EnviadoDespues'
  BY <1>a, <1>6 DEF LeerCorreo, Reclamar, Seguir, varsOutbox, EnviadoDespues, En, Mio
<1>7. ASSUME NEW e \in Ejecutores, Enviar(e) \/ EnviarSinRespuesta(e) PROVE EnviadoDespues'
  <2>1. /\ correo' = correo /\ Mio(e) \in Trabajos
        /\ entregados' = [entregados EXCEPT ![Mio(e)] = @ + 1]
        /\ \/ obra' = [obra EXCEPT ![e].fase = "enviada"]
           \/ obra' = [obra EXCEPT ![e] = [trabajo |-> Nulo, fase |-> "libre"]]
    BY <1>7, <1>a DEF Enviar, EnviarSinRespuesta, Entregar, Seguir, Lanzar, Soltar, En
  <2>2. \A j \in Trabajos : entregados'[j] = entregados[j] \/ entregados'[j] = entregados[j] + 1
    BY <1>a, <2>1
  <2>3. entregados'[Mio(e)] >= 1
    BY <1>a, <1>c, <2>1
  <2>4. \A d \in Ejecutores : En(d, "enviada")' =>
          Mio(d)' = Mio(d) /\ Mio(d) \in Trabajos /\ (En(d, "enviada") \/ d = e)
    BY <1>a, <2>1 DEF En, Mio
  <2>5. QED
    BY <1>1, <2>1, <2>2, <2>3, <2>4
<1>8. ASSUME NEW e \in Ejecutores, MarcarEnviado(e) \/ MarcarSinRespuesta(e) PROVE EnviadoDespues'
  <2>1. /\ entregados' = entregados /\ En(e, "enviada") /\ Mio(e) \in Trabajos
        /\ \A j \in Trabajos : correo'[j] = correo[j] \/ j = Mio(e)
        /\ \/ obra' = [obra EXCEPT ![e].fase = "hecha"]
           \/ obra' = [obra EXCEPT ![e] = [trabajo |-> Nulo, fase |-> "libre"]]
    BY <1>8, <1>a DEF MarcarEnviado, MarcarSinRespuesta, MarcarPendiente, Seguir, Lanzar, Soltar, En
  <2>2. entregados[Mio(e)] >= 1
    BY <2>1 DEF EnviadoDespues
  <2>3. \A d \in Ejecutores : En(d, "enviada")' =>
          Mio(d)' = Mio(d) /\ Mio(d) \in Trabajos /\ En(d, "enviada")
    BY <1>a, <2>1 DEF En, Mio
  <2>4. QED
    BY <1>1, <2>1, <2>2, <2>3 DEF EnviadoDespues
<1>9. QED
  BY <1>2, <1>3, <1>4, <1>5, <1>6, <1>7, <1>8 DEF NextCorreos, AvanzarCorreo, Fallar

\* Every step of the worker preserves the invariant.
LEMMA PasoOutbox == InvOutbox /\ [NextCorreos]_varsCorreos => InvOutbox'
<1> SUFFICES ASSUME InvOutbox, [NextCorreos]_varsCorreos PROVE InvOutbox'
  OBVIOUS
<1>1. CASE NextCorreos
  <2>1. TipoCorreos' /\ ColaSana' /\ EnviadoDespues'
    BY <1>1, TipoOutbox, PasoDeColaCorreos, EnviadoPaso DEF InvOutbox
  <2>2. \A j \in Trabajos : Cuenta(j)'
    BY <1>1, <2>1, CuentaPaso
  <2>3. QED
    BY <2>1, <2>2 DEF InvOutbox, ReclamosAcotados, EnviosAcotados, Cuenta
<1>2. CASE UNCHANGED varsCorreos
  BY <1>2 DEF varsCorreos, varsCola, varsOutbox, InvOutbox, TipoCorreos, TipoCola, ColaSana, En, Mio,
     ReclamosAcotados, EnviosAcotados, EnviadoDespues, PorReclamar, PorEnviar, Entregas
<1>3. QED
  BY <1>1, <1>2
-----------------------------------------------------------------------------
(* The theorems *)

\* The account of deliveries, claims and mails holds in every reachable state.
THEOREM InvarianteOutbox == SpecCorreos => []InvOutbox
  BY InicioOutbox, PasoOutbox, PTL DEF SpecCorreos

\* The price of at least once: a row has at most as many mails as it counts attempts,
\* and counts at most one per failure or stall of its job and one more; enviado is
\* never said of a row without a mail.
THEOREM CorreosAcotadosSiempre == SpecCorreos => []CorreosAcotados
<1>1. InvOutbox => CorreosAcotados
  <2> SUFFICES ASSUME InvOutbox, NEW j \in Trabajos
               PROVE  /\ entregados[j] <= intentos[j]
                      /\ intentos[j] <= cola[j].intentos + cola[j].atascos + 1
                      /\ correo[j] = "enviado" => entregados[j] >= 1
    BY DEF CorreosAcotados, InvOutbox
  <2>1. /\ Entregas(j) \in Nat /\ intentos[j] \in Nat /\ entregados[j] \in Nat
        /\ PorReclamar(j) \in SUBSET Ejecutores /\ PorEnviar(j) \in SUBSET Ejecutores
    BY CuentaTipo DEF InvOutbox
  <2>2. Cardinality(PorReclamar(j)) \in Nat /\ Cardinality(PorEnviar(j)) \in Nat
    BY <2>1, Cuentas
  <2>3. /\ intentos[j] + Cardinality(PorReclamar(j)) <= Entregas(j)
        /\ entregados[j] + Cardinality(PorEnviar(j)) <= intentos[j]
    BY DEF InvOutbox, ReclamosAcotados, EnviosAcotados
  <2>4. Entregas(j) <= cola[j].intentos + cola[j].atascos + 1
    BY ConstantesCola DEF InvOutbox, TipoCorreos, TipoCola, Trabajo, Entregas
  <2>5. cola[j].intentos \in Nat /\ cola[j].atascos \in Nat
    BY ConstantesCola DEF InvOutbox, TipoCorreos, TipoCola, Trabajo
  <2>6. correo[j] = "enviado" => entregados[j] >= 1
    BY DEF InvOutbox, EnviadoDespues
  <2>7. QED
    BY <2>1, <2>2, <2>3, <2>4, <2>5, <2>6
<1>2. QED
  BY <1>1, InvarianteOutbox, PTL
=============================================================================
