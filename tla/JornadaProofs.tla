----------------------------- MODULE JornadaProofs ---------------------------
(***************************************************************************)
(* The election day for any number of requests, rights and sessions of the *)
(* committee: what each service assumes of the other is what the other     *)
(* does, and every vote falls inside the frozen window and scope.          *)
(***************************************************************************)
EXTENDS Jornada, TLAPS

\* The theorems about each service, over the tables that they share.
VP == INSTANCE VotosProofs WITH proceso <- ParaVotar
PP == INSTANCE ProcesosProofs WITH votos <- Boletas

(* Constants *)

\* The assumptions of the theorems about the votes.
LEMMA ConstantesDeVotos == VP!ConstantesVotos
BY ConstantesJornada DEF VP!ConstantesVotos, V!ConstantesVotos, VP!Entrada, V!Entrada,
   VP!Opciones, V!Opciones, VP!Instantes, V!Instantes

\* The assumptions of the theorems about the committee.
LEMMA ConstantesDeProcesos == PP!ConstantesProcesos /\ PP!NuloAparte
<1>1. PP!ConstantesProcesos
  BY ConstantesJornada DEF PP!ConstantesProcesos, P!ConstantesProcesos, PP!Instantes, P!Instantes,
     PP!EventosSweep, P!EventosSweep, PP!IsFiniteSet, P!IsFiniteSet
<1>2. PP!NuloAparte
  BY ConstantesJornada, Zenon DEF PP!NuloAparte, P!NuloAparte, PP!Actas, P!Actas, PP!Respuestas, P!Respuestas
<1>3. QED
  BY <1>1, <1>2
-----------------------------------------------------------------------------
(* The actions of Jornada are those that the theorems speak of *)

\* The handler of a vote.
LEMMA MismoEmitir == ASSUME NEW r \in Peticiones PROVE V!Emitir(r) <=> VP!Emitir(r)
BY DEF V!Emitir, VP!Emitir, V!Avanzar, VP!Avanzar,
   V!Comenzar, VP!Comenzar, V!Leer, VP!Leer, V!Bloquear, VP!Bloquear, V!Prohibir, VP!Prohibir,
   V!Repetir, VP!Repetir, V!Rechazar, VP!Rechazar, V!RegistrarRechazo, VP!RegistrarRechazo,
   V!Validar, VP!Validar, V!Insertar, VP!Insertar, V!Confirmar, VP!Confirmar,
   V!Responder, VP!Responder, V!Recuperar, VP!Recuperar, V!Presentar, VP!Presentar,
   V!Abortar, VP!Abortar, V!Caer, VP!Caer,
   V!Ir, VP!Ir, V!Contestar, VP!Contestar, V!Resolver, VP!Resolver, V!Olvidar, VP!Olvidar,
   V!FilaDe, VP!FilaDe, V!IdDe, VP!IdDe, V!Derecho, VP!Derecho, V!Clave, VP!Clave,
   V!Libre, VP!Libre, V!MotivoDe, VP!MotivoDe, V!EleccionValida, VP!EleccionValida,
   V!Chocan, VP!Chocan, V!Colision, VP!Colision, V!EnVuelo, VP!EnVuelo, V!Ajeno, VP!Ajeno,
   V!EleccionExiste, VP!EleccionExiste, V!Votado, VP!Votado,
   V!compartidas, VP!compartidas, V!tablas, VP!tablas, V!locales, VP!locales,
   V!ConCandado, VP!ConCandado, V!EnTransaccion, VP!EnTransaccion, V!EnMarcha, VP!EnMarcha, V!Opciones, VP!Opciones

\* The clock, the catalogue and the commits of the committee as the votes see them.
LEMMA MismoEntornoDeVotos ==
  /\ V!Tic <=> VP!Tic
  /\ \A l \in Listas : (V!CambiarEstado(l) <=> VP!CambiarEstado(l)) /\ (V!Eliminar(l) <=> VP!Eliminar(l))
  /\ V!AbrirProceso <=> VP!AbrirProceso
  /\ V!EditarProceso <=> VP!EditarProceso
  /\ V!EliminarProceso <=> VP!EliminarProceso
BY DEF V!Tic, VP!Tic, V!CambiarEstado, VP!CambiarEstado, V!Eliminar, VP!Eliminar,
   V!Referenciada, VP!Referenciada,
   V!AbrirProceso, VP!AbrirProceso, V!EditarProceso, VP!EditarProceso, V!EliminarProceso, VP!EliminarProceso,
   V!Instantes, VP!Instantes, V!tablas, VP!tablas, V!locales, VP!locales

\* The world of the votes.
LEMMA MismoVotos == [V!Next]_(V!vars) <=> [VP!Next]_(VP!vars)
BY MismoEmitir, MismoEntornoDeVotos DEF V!Next, VP!Next, V!Entorno, VP!Entorno,
   V!vars, VP!vars, V!compartidas, VP!compartidas, V!tablas, VP!tablas, V!locales, VP!locales

\* The helpers of the handlers of the committee.
LEMMA MismosPasosDeProcesos ==
  ASSUME NEW p \in Comite
  PROVE  /\ \A a : P!Ir(p, a) <=> PP!Ir(p, a)
         /\ \A c : P!Contestar(p, c) <=> PP!Contestar(p, c)
         /\ \A f : P!Escribir(p, f) <=> PP!Escribir(p, f)
         /\ \A t : P!Auditar(p, t) <=> PP!Auditar(p, t)
         /\ \A e, ds : P!Avisar(e, ds) <=> PP!Avisar(e, ds)
         /\ P!SinEscribir <=> PP!SinEscribir
         /\ P!Escrutinio(p) = PP!Escrutinio(p)
         /\ P!compartidas = PP!compartidas /\ P!EventosSweep = PP!EventosSweep
         /\ P!Instantes = PP!Instantes /\ P!SinVoto = PP!SinVoto
         /\ P!propias = PP!propias /\ P!EnCurso = PP!EnCurso
<1>1. \A a : P!Ir(p, a) <=> PP!Ir(p, a)
  BY DEF P!Ir, PP!Ir
<1>2. \A c : P!Contestar(p, c) <=> PP!Contestar(p, c)
  BY DEF P!Ir, PP!Ir, P!Contestar, PP!Contestar
<1>3. \A f : P!Escribir(p, f) <=> PP!Escribir(p, f)
  BY DEF P!Escribir, PP!Escribir
<1>4. \A t : P!Auditar(p, t) <=> PP!Auditar(p, t)
  BY DEF P!Auditar, PP!Auditar
<1>5. \A e, ds : P!Avisar(e, ds) <=> PP!Avisar(e, ds)
  BY DEF P!Avisar, PP!Avisar
<1>6. P!compartidas = PP!compartidas /\ P!propias = PP!propias
  BY DEF P!compartidas, PP!compartidas, P!propias, PP!propias
<1>7. P!SinEscribir <=> PP!SinEscribir
  BY DEF P!SinEscribir, PP!SinEscribir, P!compartidas, PP!compartidas
<1>8. P!Escrutinio(p) = PP!Escrutinio(p)
  <2>1. \A S : P!Cardinality(S) = PP!Cardinality(S)
    BY DEF P!Cardinality, PP!Cardinality
  <2>2. QED
    BY <2>1 DEF P!Escrutinio, PP!Escrutinio, P!VotosDelDesglose, PP!VotosDelDesglose, P!Cuantos, PP!Cuantos,
       P!Cardinality, PP!Cardinality
<1>9. /\ P!EventosSweep = PP!EventosSweep /\ P!EnCurso = PP!EnCurso
      /\ P!Instantes = PP!Instantes /\ P!SinVoto = PP!SinVoto
  BY DEF P!EventosSweep, PP!EventosSweep, P!EnCurso, PP!EnCurso, P!Instantes, PP!Instantes,
     P!SinVoto, PP!SinVoto
<1>10. QED
  BY <1>1, <1>2, <1>3, <1>4, <1>5, <1>6, <1>7, <1>8, <1>9

\* The handlers of the committee.
LEMMA MismoAtender == ASSUME NEW p \in Comite PROVE P!Atender(p) <=> PP!Atender(p)
<1>1. (P!Pedir(p) <=> PP!Pedir(p)) /\ (P!Validar(p) <=> PP!Validar(p))
  BY MismosPasosDeProcesos DEF P!Pedir, PP!Pedir, P!Validar, PP!Validar
<1>2. (P!Editar(p) <=> PP!Editar(p)) /\ (P!Eliminar(p) <=> PP!Eliminar(p)) /\ (P!Fracasar(p) <=> PP!Fracasar(p))
  BY MismosPasosDeProcesos DEF P!Editar, PP!Editar, P!Eliminar, PP!Eliminar, P!Fracasar, PP!Fracasar,
     P!SinHijosRestrictivos, PP!SinHijosRestrictivos
<1>3. (P!Abrir(p) <=> PP!Abrir(p)) /\ (P!AbrirSinFilas(p) <=> PP!AbrirSinFilas(p))
      /\ (P!AbrirConfirmar(p) <=> PP!AbrirConfirmar(p))
  BY MismosPasosDeProcesos DEF P!Abrir, PP!Abrir, P!AbrirSinFilas, PP!AbrirSinFilas,
     P!AbrirConfirmar, PP!AbrirConfirmar, P!Abrible, PP!Abrible
<1>4. (P!Fotografiar(p) <=> PP!Fotografiar(p)) /\ (P!CerrarSinFilas(p) <=> PP!CerrarSinFilas(p))
      /\ (P!Cerrar(p) <=> PP!Cerrar(p)) /\ (P!CerrarConflicto(p) <=> PP!CerrarConflicto(p))
      /\ (P!Releer(p) <=> PP!Releer(p)) /\ (P!CerrarConfirmar(p) <=> PP!CerrarConfirmar(p))
  BY MismosPasosDeProcesos DEF P!Fotografiar, PP!Fotografiar, P!CerrarSinFilas, PP!CerrarSinFilas,
     P!Cerrar, PP!Cerrar, P!CerrarConflicto, PP!CerrarConflicto, P!Releer, PP!Releer,
     P!CerrarConfirmar, PP!CerrarConfirmar, P!RespuestaAlCerrar, PP!RespuestaAlCerrar,
     P!FotoVigente, PP!FotoVigente
<1>5. (P!Listar(p) <=> PP!Listar(p)) /\ (P!ContarEmitidas(p) <=> PP!ContarEmitidas(p))
  BY MismosPasosDeProcesos DEF P!Listar, PP!Listar, P!ContarEmitidas, PP!ContarEmitidas
<1>6. P!LeerPendientes(p) <=> PP!LeerPendientes(p)
  BY MismosPasosDeProcesos DEF P!LeerPendientes, PP!LeerPendientes
<1>7. P!Recordar(p) <=> PP!Recordar(p)
  BY MismosPasosDeProcesos DEF P!Recordar, PP!Recordar, P!compartidas, PP!compartidas
<1>8. (P!Abortar(p) <=> PP!Abortar(p)) /\ (P!Caer(p) <=> PP!Caer(p))
  BY MismosPasosDeProcesos DEF P!Abortar, PP!Abortar, P!Caer, PP!Caer
<1>9. QED
  BY <1>1, <1>2, <1>3, <1>4, <1>5, <1>6, <1>7, <1>8, Zenon DEF P!Atender, PP!Atender, P!Avanzar, PP!Avanzar

\* The clock, the catalogue and the votes as the committee sees them.
LEMMA MismoEntornoDeProcesos ==
  /\ P!Tic <=> PP!Tic
  /\ P!Votar <=> PP!Votar
  /\ P!Depurar <=> PP!Depurar
  /\ P!EmitirActas <=> PP!EmitirActas
BY DEF P!Tic, PP!Tic, P!Votar, PP!Votar, P!Depurar, PP!Depurar, P!EmitirActas, PP!EmitirActas,
   P!propias, PP!propias

\* The world of the committee.
LEMMA MismoProcesos == [P!Next]_(P!vars) <=> [PP!Next]_(PP!vars)
BY MismoAtender, MismoEntornoDeProcesos DEF P!Next, PP!Next, P!Entorno, PP!Entorno,
   P!vars, PP!vars, P!compartidas, PP!compartidas, P!propias, PP!propias
-----------------------------------------------------------------------------
(* The inductive invariant *)

\* abrir() stamps apertura_real with the clock, and commits later.
AperturasPasadas ==
  \A p \in Comite : paso[p] = "abriendo" => foto[p].proceso.apertura_real \in 0 .. reloj

EnPlazo(i, d) == i < proceso.cierre_previsto /\ AulaDe[d] \in proceso.aulas

\* What a handler found of the window and the scope of an open proceso is still so.
LecturaEnPlazo(r) ==
  /\ (pc[r] \in {"esperando", "bloqueada"} /\ ~fila[r].aun_no_abierto) =>
       /\ (~fila[r].cerrado_por_hora) => inicio[r] < proceso.cierre_previsto
       /\ fila[r].aula_valida => AulaDe[peticion[r].derecho] \in proceso.aulas
  /\ pc[r] \in {"validada", "insertada"} => EnPlazo(inicio[r], peticion[r].derecho)

EnVentana ==
  /\ \A v \in votos : EnPlazo(v.inicio, v.derecho)
  /\ \A r \in Peticiones : LecturaEnPlazo(r)

InvJornada ==
  /\ VP!Inv /\ VP!EleccionFirme /\ PP!InvProcesos
  /\ AperturasPasadas
  /\ PP!EdicionTardia \/ EnVentana
-----------------------------------------------------------------------------
(* The steps of the committee *)

\* The steps of the committee that write the row, the roll or the catalogue, or open the proceso.
LEMMA EscrituraDeAtender ==
  ASSUME NEW p \in Comite, PP!Atender(p)
  PROVE  \/ UNCHANGED <<reloj, proceso, derechos, catalogo, bitacora>>
         \/ PP!Editar(p) \/ PP!Eliminar(p) \/ (PP!AbrirConfirmar(p) /\ ~PP!SinEscribir) \/ PP!CerrarConfirmar(p)
<1>1. ASSUME \/ PP!Pedir(p) \/ PP!Validar(p) \/ PP!Fracasar(p) \/ PP!AbrirSinFilas(p) \/ PP!CerrarSinFilas(p)
             \/ PP!CerrarConflicto(p) \/ PP!Releer(p) \/ PP!Listar(p) \/ PP!ContarEmitidas(p) \/ PP!Abortar(p)
             \/ PP!Fotografiar(p) \/ PP!LeerPendientes(p) \/ PP!Abrir(p) \/ PP!Cerrar(p) \/ PP!Caer(p)
      PROVE  PP!SinEscribir
  BY <1>1 DEF PP!Pedir, PP!Validar, PP!Fracasar, PP!AbrirSinFilas, PP!CerrarSinFilas, PP!CerrarConflicto,
     PP!Releer, PP!Listar, PP!ContarEmitidas, PP!Abortar, PP!Fotografiar, PP!LeerPendientes, PP!Abrir,
     PP!Cerrar, PP!Caer
<1>2. PP!SinEscribir \/ PP!Recordar(p) => UNCHANGED <<reloj, proceso, derechos, catalogo, bitacora>>
  BY DEF PP!SinEscribir, PP!Recordar, PP!compartidas
<1>3. QED
  BY <1>1, <1>2, Zenon DEF PP!Atender, PP!Avanzar

\* Only abrir() puts a handler between its UPDATE and its commit, and stamps the clock there.
LEMMA SelloDeAtender ==
  ASSUME PP!TypeOK, NEW p \in Comite, PP!Atender(p), NEW q \in Comite, paso'[q] = "abriendo"
  PROVE  \/ paso[q] = "abriendo" /\ foto'[q] = foto[q]
         \/ foto'[q].proceso.apertura_real = reloj
<1> USE DEF PP!TypeOK, PP!Ir, PP!Contestar
<1>1. CASE PP!Pedir(p) \/ PP!Validar(p) \/ PP!Fracasar(p) \/ PP!AbrirSinFilas(p) \/ PP!CerrarSinFilas(p)
  BY <1>1 DEF PP!Pedir, PP!Validar, PP!Fracasar, PP!AbrirSinFilas, PP!CerrarSinFilas
<1>2. CASE PP!CerrarConflicto(p) \/ PP!Releer(p) \/ PP!Listar(p) \/ PP!ContarEmitidas(p) \/ PP!Abortar(p)
  BY <1>2 DEF PP!CerrarConflicto, PP!Releer, PP!Listar, PP!ContarEmitidas, PP!Abortar
<1>3. CASE PP!Fotografiar(p) \/ PP!LeerPendientes(p) \/ PP!Caer(p) \/ PP!Recordar(p)
  BY <1>3 DEF PP!Fotografiar, PP!LeerPendientes, PP!Caer, PP!Recordar
<1>4. CASE PP!Editar(p) \/ PP!Eliminar(p) \/ PP!AbrirConfirmar(p) \/ PP!CerrarConfirmar(p)
  BY <1>4 DEF PP!Editar, PP!Eliminar, PP!AbrirConfirmar, PP!CerrarConfirmar
<1>5. CASE PP!Cerrar(p)
  BY <1>5 DEF PP!Cerrar
<1>6. CASE PP!Abrir(p)
  <2>1. CASE q # p
    BY <1>6, <2>1 DEF PP!Abrir
  <2>2. CASE q = p
    <3> DEFINE f == [proceso EXCEPT !.estado = "abierto", !.apertura_real = reloj]
    <3>1. f.apertura_real = reloj
      BY DEF PP!Fila
    <3>2. foto'[p].proceso = f
      BY <1>6 DEF PP!Abrir
    <3>3. QED
      BY <2>2, <3>1, <3>2
  <2>3. QED
    BY <2>1, <2>2
<1>7. QED
  BY <1>1, <1>2, <1>3, <1>4, <1>5, <1>6, Zenon DEF PP!Atender, PP!Avanzar

\* Once the proceso is open only a late editar() moves the window or the scope.
Congela ==
  /\ PP!EdicionTardia => PP!EdicionTardia'
  /\ \/ PP!EdicionTardia'
     \/ proceso.apertura_real = Nulo
     \/ proceso'.cierre_previsto = proceso.cierre_previsto /\ proceso'.aulas = proceso.aulas

\* The events that the handlers add to the log.
LEMMA SucesoDe ==
  ASSUME PP!InvProcesos, NEW p \in Comite,
         NEW t \in {"PROCESO_EDITADO", "PROCESO_ELIMINADO", "PROCESO_ABIERTO", "PROCESO_CERRADO"},
         PP!Auditar(p, t)
  PROVE  PP!EdicionTardia => PP!EdicionTardia'
<1>1. bitacora \in Seq(PP!Suceso)
  BY DEF PP!InvProcesos, PP!RastroCompleto, PP!TypeOK
<1>2. [tipo |-> t, pedido |-> p] \in PP!Suceso
  BY DEF PP!Suceso
<1>3. QED
  BY <1>1, <1>2, PP!VecesAuditar, ConstantesDeProcesos

\* editar(): the votes see a proceso with another window and another scope.
LEMMA EfectoDeEditar ==
  ASSUME InvJornada, NEW p \in Comite, PP!Editar(p), UNCHANGED deVotos
  PROVE  VP!EditarProceso /\ Congela
<1>1. proceso \in PP!Fila /\ bitacora \in Seq(PP!Suceso)
  BY DEF InvJornada, PP!InvProcesos, PP!RastroCompleto, PP!TypeOK
<1>2. PICK a \in (SUBSET Aulas) \ {{}}, c \in PP!Instantes :
         proceso' = [proceso EXCEPT !.aulas = a, !.cierre_previsto = c]
  BY DEF PP!Editar, PP!Escribir
<1>3. /\ proceso'.aulas = a /\ proceso'.cierre_previsto = c
      /\ proceso'.apertura_real = proceso.apertura_real
  BY <1>1, <1>2 DEF PP!Fila
<1>4. c \in VP!Instantes
  BY DEF PP!Instantes, VP!Instantes
<1>5. ParaVotar' = [ParaVotar EXCEPT !.aulas = a, !.cierre_previsto = c]
  <2> DEFINE nuevo == [ParaVotar EXCEPT !.aulas = a, !.cierre_previsto = c]
  <2>1. ParaVotar \in VP!Proceso
    BY DEF InvJornada, VP!Inv, VP!TypeOK
  <2>2. nuevo \in VP!Proceso
    BY <1>4, <2>1 DEF VP!Proceso
  <2>3. nuevo.apertura_real = ParaVotar.apertura_real /\ nuevo.cierre_previsto = c /\ nuevo.aulas = a
    BY <2>1 DEF VP!Proceso
  <2>4. ParaVotar' = [apertura_real |-> ParaVotar.apertura_real, cierre_previsto |-> c, aulas |-> a]
    BY <1>3 DEF ParaVotar
  <2> HIDE DEF nuevo
  <2>5. ParaVotar' = nuevo
    BY <2>2, <2>3, <2>4 DEF VP!Proceso
  <2>6. QED
    BY <2>5 DEF nuevo
<1>6. VP!EditarProceso
  BY <1>4, <1>5 DEF VP!EditarProceso, PP!Editar, deVotos, VP!tablas, VP!locales
<1>7. PP!Auditar(p, "PROCESO_EDITADO")
  BY DEF PP!Editar
<1>8. PP!EdicionTardia => PP!EdicionTardia'
  BY <1>7, SucesoDe DEF InvJornada
<1>9. proceso.apertura_real # Nulo => PP!EdicionTardia'
  <2>1. proceso.apertura_real # Nulo => PP!Veces("PROCESO_ABIERTO") = 1
    BY DEF InvJornada, PP!InvProcesos, PP!RastroCompleto
  <2>2. QED
    BY <1>1, <1>7, <2>1, PP!EditarTarde, ConstantesDeProcesos
<1>10. QED
  BY <1>6, <1>8, <1>9 DEF Congela

\* eliminar(): no proceso that has a roll.
LEMMA EfectoDeEliminar ==
  ASSUME InvJornada, NEW p \in Comite, PP!Eliminar(p), UNCHANGED deVotos
  PROVE  VP!EliminarProceso /\ Congela
<1>1. proceso \in PP!Fila /\ PP!VidaDeLaFila
  BY DEF InvJornada, PP!InvProcesos, PP!RastroCompleto, PP!TypeOK
<1>2. /\ proceso' = [proceso EXCEPT !.estado = "eliminado", !.aulas = {}]
      /\ catalogo' = [l \in Listas |-> "ausente"] /\ derechos = {}
      /\ UNCHANGED <<reloj, derechos>>
  BY DEF PP!Eliminar, PP!Escribir, PP!SinHijosRestrictivos
<1>3. /\ proceso'.aulas = {} /\ proceso'.cierre_previsto = proceso.cierre_previsto
      /\ proceso'.apertura_real = proceso.apertura_real
  BY <1>1, <1>2 DEF PP!Fila
<1>4. ParaVotar' = [ParaVotar EXCEPT !.aulas = {}]
  BY <1>3 DEF ParaVotar
<1>5. VP!EliminarProceso
  BY <1>2, <1>4 DEF VP!EliminarProceso, deVotos, VP!tablas, VP!locales
<1>6. PP!EdicionTardia => PP!EdicionTardia'
  BY SucesoDe DEF InvJornada, PP!Eliminar
<1>7. proceso.apertura_real = Nulo
  BY <1>1, <1>2 DEF PP!VidaDeLaFila
<1>8. QED
  BY <1>5, <1>6, <1>7 DEF Congela

\* abrir(): stamped before its commit, with the rights of the frozen scope.
LEMMA EfectoDeAbrir ==
  ASSUME InvJornada, NEW p \in Comite, PP!AbrirConfirmar(p), ~PP!SinEscribir, UNCHANGED deVotos
  PROVE  VP!AbrirProceso /\ Congela
<1>1. /\ proceso \in PP!Fila /\ PP!VidaDeLaFila
      /\ paso[p] = "abriendo" /\ PP!DeAbrir(p)
  BY DEF InvJornada, PP!InvProcesos, PP!RastroCompleto, PP!TypeOK, PP!AbrirConfirmar,
     PP!Situaciones, PP!Situacion
<1>2. PICK t : foto[p].proceso = [proceso EXCEPT !.estado = "abierto", !.apertura_real = t]
  BY <1>1 DEF PP!DeAbrir
<1>3. foto[p].proceso.apertura_real = t
  BY <1>1, <1>2 DEF PP!Fila
<1>4. t \in 0 .. reloj
  BY <1>1, <1>3 DEF InvJornada, AperturasPasadas
<1>5. PICK ds \in SUBSET {d \in Derechos : AulaDe[d] \in proceso.aulas} :
        /\ ds # {} /\ derechos' = derechos \cup ds /\ proceso' = foto[p].proceso
        /\ PP!Auditar(p, "PROCESO_ABIERTO") /\ UNCHANGED <<reloj, catalogo>>
  BY DEF PP!AbrirConfirmar, PP!Escribir
<1>6. proceso.apertura_real = Nulo /\ derechos = {}
  BY <1>1 DEF PP!DeAbrir, PP!VidaDeLaFila, PP!Abiertos
<1>7. /\ proceso'.aulas = proceso.aulas /\ proceso'.cierre_previsto = proceso.cierre_previsto
      /\ proceso'.apertura_real = t
  BY <1>1, <1>2, <1>5 DEF PP!Fila
<1>8. ParaVotar' = [ParaVotar EXCEPT !.apertura_real = t]
  BY <1>7 DEF ParaVotar
<1>9. derechos' \in (SUBSET {d \in Derechos : AulaDe[d] \in ParaVotar.aulas}) \ {{}}
  BY <1>5, <1>6 DEF ParaVotar
<1>10. VP!AbrirProceso
  BY <1>4, <1>5, <1>6, <1>8, <1>9 DEF VP!AbrirProceso, ParaVotar, deVotos, VP!tablas, VP!locales
<1>11. PP!EdicionTardia => PP!EdicionTardia'
  BY <1>5, SucesoDe DEF InvJornada
<1>12. QED
  BY <1>6, <1>10, <1>11 DEF Congela

\* cerrar() writes no column that a vote reads.
LEMMA EfectoDeCerrar ==
  ASSUME InvJornada, NEW p \in Comite, PP!CerrarConfirmar(p), UNCHANGED deVotos
  PROVE  UNCHANGED VP!vars /\ Congela
<1>1. /\ proceso \in PP!Fila
      /\ paso[p] = "cerrando" /\ PP!DeConfirmar(p)
  BY DEF InvJornada, PP!InvProcesos, PP!RastroCompleto, PP!TypeOK, PP!CerrarConfirmar,
     PP!Situaciones, PP!Situacion
<1>2. PICK t : proceso' = [proceso EXCEPT !.estado = "cerrado", !.cierre_real = t]
  BY <1>1 DEF PP!DeConfirmar, PP!CerrarConfirmar, PP!Escribir
<1>3. /\ proceso'.aulas = proceso.aulas /\ proceso'.cierre_previsto = proceso.cierre_previsto
      /\ proceso'.apertura_real = proceso.apertura_real
  BY <1>1, <1>2 DEF PP!Fila
<1>4. ParaVotar' = ParaVotar
  BY <1>3 DEF ParaVotar
<1>5. UNCHANGED VP!vars
  BY <1>4 DEF PP!CerrarConfirmar, VP!vars, VP!compartidas, VP!tablas, VP!locales, deVotos
<1>6. PP!EdicionTardia => PP!EdicionTardia'
  BY SucesoDe DEF InvJornada, PP!CerrarConfirmar
<1>7. QED
  BY <1>3, <1>5, <1>6 DEF Congela

\* What the votes see of a step of the committee is a step of the world they assume.
LEMMA AtenderEsEntorno ==
  ASSUME InvJornada, NEW p \in Comite, PP!Atender(p), UNCHANGED deVotos
  PROVE  (VP!Entorno \/ UNCHANGED VP!vars) /\ Congela
<1>1. CASE UNCHANGED <<reloj, proceso, derechos, catalogo, bitacora>>
  <2>1. UNCHANGED VP!vars
    BY <1>1 DEF ParaVotar, VP!vars, VP!compartidas, VP!tablas, VP!locales, deVotos
  <2>2. Congela
    BY <1>1 DEF Congela, PP!EdicionTardia
  <2>3. QED
    BY <2>1, <2>2
<1>2. CASE PP!Editar(p) \/ PP!Eliminar(p) \/ (PP!AbrirConfirmar(p) /\ ~PP!SinEscribir)
  BY <1>2, EfectoDeEditar, EfectoDeEliminar, EfectoDeAbrir DEF VP!Entorno
<1>3. CASE PP!CerrarConfirmar(p)
  BY <1>3, EfectoDeCerrar
<1>4. QED
  BY <1>1, <1>2, <1>3, EscrituraDeAtender

\* While nobody moves the window or the scope of an open proceso, what was found stays so; and
\* before it opens nobody has found it open.
LEMMA VentanaQuieta ==
  ASSUME InvJornada, EnVentana, UNCHANGED deVotos, Congela
  PROVE  PP!EdicionTardia' \/ EnVentana'
<1>1. UNCHANGED <<votos, pc, peticion, inicio, fila>>
  BY DEF deVotos
<1>2. CASE proceso'.cierre_previsto = proceso.cierre_previsto /\ proceso'.aulas = proceso.aulas
  BY <1>1, <1>2 DEF EnVentana, EnPlazo, LecturaEnPlazo
<1>3. CASE proceso.apertura_real = Nulo
  <2>1. \A r \in Peticiones : ~VP!Abierto(r)
    BY <1>3 DEF VP!Abierto, ParaVotar
  <2>2. votos = {}
    BY <1>3 DEF InvJornada, VP!Inv, VP!VotoLegitimo, ParaVotar
  <2>3. ASSUME NEW r \in Peticiones
        PROVE  /\ pc[r] \in {"esperando", "bloqueada"} => fila[r].aun_no_abierto
               /\ pc[r] \notin {"validada", "insertada"}
    <3>1. pc[r] \in {"esperando", "bloqueada"} => VP!FilaVigente(r)
      BY DEF InvJornada, VP!Inv, VP!LecturaVigente
    <3>2. pc[r] \in {"validada", "insertada"} => VP!Abierto(r)
      BY DEF InvJornada, VP!Inv, VP!LecturaVigente
    <3>3. VP!FilaVigente(r) => (~fila[r].aun_no_abierto => VP!Abierto(r))
      BY DEF VP!FilaVigente, VP!Vigente
    <3>4. QED
      BY <2>1, <3>1, <3>2, <3>3
  <2>4. \A r \in Peticiones : LecturaEnPlazo(r)'
    BY <1>1, <2>3 DEF LecturaEnPlazo
  <2>5. QED
    BY <1>1, <2>2, <2>4 DEF EnVentana
<1>4. QED
  BY <1>2, <1>3 DEF Congela
-----------------------------------------------------------------------------
(* The steps of the votes *)

\* The commit of a vote is the one vote per right that the committee assumes, and nothing else that
\* a handler of a vote does is seen by it.
LEMMA EmitirEsEntorno ==
  ASSUME InvJornada, NEW r \in Peticiones, VP!Emitir(r), UNCHANGED deProcesos
  PROVE  PP!Votar \/ UNCHANGED PP!vars
<1>1. UNCHANGED <<reloj, catalogo>>
  BY VP!SoloLoSuyo, ConstantesDeVotos DEF InvJornada, VP!Inv, VP!compartidas
<1>2. ASSUME votos' = votos PROVE UNCHANGED PP!vars
  BY <1>1, <1>2 DEF Boletas, PP!vars, PP!compartidas, PP!propias, deProcesos
<1>3. VP!RegistrarRechazo(r) \/ UNCHANGED VP!tablas => votos' = votos
  BY DEF VP!RegistrarRechazo, VP!tablas
<1>4. CASE VP!Confirmar(r)
  <2> DEFINE d == peticion[r].derecho
             o == peticion[r].eleccion
  <2>1. pc[r] = "insertada"
    BY <1>4 DEF VP!Confirmar
  <2>2. PICK v : votos' = votos \cup {v} /\ v.derecho = d /\ v.eleccion = o
    BY <1>4, VP!NuevoVoto, ConstantesDeVotos DEF VP!Derecho
  <2>3. Boletas' = Boletas \cup {[derecho |-> d, eleccion |-> o]}
    BY <2>2 DEF Boletas
  <2>4. d \in derechos
    BY <2>1 DEF InvJornada, VP!Inv, VP!LecturaVigente, VP!Derecho
  <2>5. peticion[r] \in VP!Entrada
    BY <2>1, ConstantesDeVotos DEF InvJornada, VP!Inv, VP!ConPeticion, VP!ConstantesVotos
  <2>6. o \in {Blanco} \cup {l \in Listas : catalogo[l] # "ausente"}
    BY <2>1, <2>5 DEF InvJornada, VP!EleccionFirme, VP!EleccionExiste, VP!Entrada, VP!Opciones
  <2>7. \A w \in votos : w.derecho # d
    BY <2>1 DEF InvJornada, VP!Inv, VP!IndicesUnicos, VP!Colision, VP!Chocan, VP!Derecho
  <2>8. \A b \in Boletas : b.derecho # d
    BY <2>7 DEF Boletas
  <2> HIDE DEF d, o
  <2>9. PP!Votar
    BY <1>1, <2>3, <2>4, <2>6, <2>8 DEF PP!Votar, PP!propias, deProcesos
  <2>10. QED
    BY <2>9
<1>5. QED
  BY <1>2, <1>3, <1>4, VP!RastroEmitir, ConstantesDeVotos DEF InvJornada, VP!Inv

\* A handler reads the window and the scope in one statement, and inserts only inside of them.
LEMMA VentanaEmitir ==
  ASSUME InvJornada, EnVentana, NEW r \in Peticiones, VP!Emitir(r), UNCHANGED deProcesos
  PROVE  EnVentana'
<1>1. /\ proceso' = proceso /\ UNCHANGED ParaVotar
      /\ \A q \in Peticiones \ {r} : /\ pc'[q] = pc[q] /\ peticion'[q] = peticion[q]
                                     /\ inicio'[q] = inicio[q] /\ fila'[q] = fila[q]
  BY VP!SoloLoSuyo, ConstantesDeVotos DEF InvJornada, VP!Inv, deProcesos, ParaVotar
<1>2. \A i, d : EnPlazo(i, d)' <=> EnPlazo(i, d)
  BY <1>1 DEF EnPlazo
<1>3. ASSUME NEW q \in Peticiones \ {r} PROVE LecturaEnPlazo(q)'
  <2>1. LecturaEnPlazo(q)
    BY DEF EnVentana
  <2>2. QED
    BY <1>1, <2>1 DEF LecturaEnPlazo, EnPlazo
<1>4. LecturaEnPlazo(r)
  BY DEF EnVentana
<1>5. LecturaEnPlazo(r)'
  <2> USE DEF InvJornada, VP!Inv, VP!TypeOK, VP!Ir, VP!Contestar, VP!Resolver
  <2>1. CASE VP!Leer(r)
    <3>1. /\ fila'[r] = VP!FilaDe(r) /\ UNCHANGED <<inicio, peticion>> /\ pc'[r] = "esperando"
      BY <2>1 DEF VP!Leer
    <3>2. VP!FilaDe(r).aula_valida = (AulaDe[peticion[r].derecho] \in proceso.aulas)
      BY DEF VP!FilaDe, VP!Derecho, ParaVotar
    <3>3. VP!FilaDe(r).cerrado_por_hora = (inicio[r] >= proceso.cierre_previsto)
      BY DEF VP!FilaDe, ParaVotar
    <3>4. inicio[r] \in Int /\ proceso.cierre_previsto \in Int
      BY DEF VP!Instantes, VP!Proceso, ParaVotar
    <3>5. ~(inicio[r] >= proceso.cierre_previsto) => inicio[r] < proceso.cierre_previsto
      BY <3>4
    <3>6. /\ ~VP!FilaDe(r).cerrado_por_hora => inicio[r] < proceso.cierre_previsto
          /\ VP!FilaDe(r).aula_valida => AulaDe[peticion[r].derecho] \in proceso.aulas
      BY <3>2, <3>3, <3>5, Zenon
    <3>7. QED
      BY <1>1, <3>1, <3>6 DEF LecturaEnPlazo
  <2>2. CASE VP!Bloquear(r)
    <3>1. /\ fila'[r] = fila[r] /\ UNCHANGED <<inicio, peticion>> /\ pc'[r] = "bloqueada" /\ pc[r] = "esperando"
      BY <2>2 DEF VP!Bloquear
    <3>2. QED
      BY <1>1, <1>4, <3>1 DEF LecturaEnPlazo
  <2>3. CASE VP!Validar(r)
    <3>1. CASE ~VP!EleccionValida(peticion[r].eleccion)
      <4>1. pc'[r] = "respondida"
        BY <2>3, <3>1 DEF VP!Validar
      <4>2. QED
        BY <4>1 DEF LecturaEnPlazo
    <3>2. CASE VP!EleccionValida(peticion[r].eleccion)
      <4>1. /\ pc[r] = "bloqueada" /\ pc'[r] = "validada" /\ UNCHANGED <<inicio, peticion>>
            /\ VP!MotivoDe(fila[r]) = "ninguno"
        BY <2>3, <3>2 DEF VP!Validar
      <4>2. fila[r].aula_valida /\ ~fila[r].cerrado_por_hora /\ ~fila[r].aun_no_abierto
        BY <4>1 DEF VP!MotivoDe
      <4>3. QED
        BY <1>1, <1>4, <4>1, <4>2 DEF LecturaEnPlazo, EnPlazo
    <3>3. QED
      BY <3>1, <3>2
  <2>4. CASE VP!Insertar(r)
    <3>1. pc[r] = "validada" /\ UNCHANGED peticion
          /\ (pc'[r] \in {"colision", "respondida"} \/ (pc'[r] = "insertada" /\ UNCHANGED inicio))
      BY <2>4 DEF VP!Insertar
    <3>2. QED
      BY <1>1, <1>4, <3>1 DEF LecturaEnPlazo, EnPlazo
  <2>5. CASE VP!Comenzar(r) \/ VP!Prohibir(r) \/ VP!Repetir(r) \/ VP!Rechazar(r) \/ VP!RegistrarRechazo(r)
    <3>1. pc'[r] \notin {"esperando", "bloqueada", "validada", "insertada"}
      BY <2>5 DEF VP!Comenzar, VP!Prohibir, VP!Repetir, VP!Rechazar, VP!RegistrarRechazo
    <3>2. QED
      BY <3>1 DEF LecturaEnPlazo
  <2>6. CASE \/ VP!Confirmar(r) \/ VP!Responder(r) \/ VP!Recuperar(r) \/ VP!Presentar(r) \/ VP!Abortar(r)
             \/ VP!Caer(r)
    <3>1. pc'[r] \notin {"esperando", "bloqueada", "validada", "insertada"}
      BY <2>6 DEF VP!Confirmar, VP!Responder, VP!Recuperar, VP!Presentar, VP!Abortar, VP!Caer
    <3>2. QED
      BY <3>1 DEF LecturaEnPlazo
  <2>7. QED
    BY <2>1, <2>2, <2>3, <2>4, <2>5, <2>6, Zenon DEF VP!Emitir, VP!Avanzar
<1>6. \A v \in votos' : EnPlazo(v.inicio, v.derecho)
  <2>1. CASE votos' = votos
    BY <2>1 DEF EnVentana
  <2>2. CASE VP!Confirmar(r)
    <3> DEFINE nuevo == [id |-> r, derecho |-> peticion[r].derecho, clave |-> peticion[r].clave,
                         eleccion |-> peticion[r].eleccion, inicio |-> inicio[r]]
    <3>1. votos' = votos \cup {nuevo} /\ pc[r] = "insertada"
      BY <2>2 DEF VP!Confirmar, VP!Derecho, VP!Clave
    <3>2. nuevo.inicio = inicio[r] /\ nuevo.derecho = peticion[r].derecho
      OBVIOUS
    <3> HIDE DEF nuevo
    <3>3. EnPlazo(nuevo.inicio, nuevo.derecho)
      BY <1>4, <3>1, <3>2 DEF LecturaEnPlazo
    <3>4. QED
      BY <3>1, <3>3 DEF EnVentana
  <2>3. VP!RegistrarRechazo(r) \/ UNCHANGED VP!tablas => votos' = votos
    BY DEF VP!RegistrarRechazo, VP!tablas
  <2>4. QED
    BY <2>1, <2>2, <2>3, VP!RastroEmitir, ConstantesDeVotos DEF InvJornada, VP!Inv
<1>7. QED
  BY <1>2, <1>3, <1>5, <1>6 DEF EnVentana
-----------------------------------------------------------------------------
(* Every step *)

\* The day starts as each service assumes.
LEMMA InicioJornada == Init => V!Init /\ P!Init /\ InvJornada
<1> SUFFICES ASSUME Init PROVE V!Init /\ P!Init /\ InvJornada
  OBVIOUS
<1>1. P!Init /\ votos = {} /\ pc = [r \in Peticiones |-> "nueva"] /\ paso = [p \in Comite |-> "nuevo"]
  BY DEF Init, P!Init
<1>2. V!Init
  <2>1. /\ proceso \in [estado: {"borrador"}, apertura_real: {Nulo}, cierre_real: {Nulo},
                        cierre_previsto: V!Instantes \ {0}, aulas: (SUBSET Aulas) \ {{}}]
        /\ reloj = 0 /\ derechos = {} /\ catalogo \in [Listas -> {"activo", "baja"}]
    BY <1>1 DEF P!Init, P!Instantes, V!Instantes
  <2>2. ParaVotar \in [apertura_real: {Nulo}, cierre_previsto: V!Instantes \ {0}, aulas: (SUBSET Aulas) \ {{}}]
    BY <2>1 DEF ParaVotar
  <2>3. QED
    BY <2>1, <2>2 DEF V!Init, Init
<1>3. VP!Init /\ PP!Init
  BY <1>1, <1>2 DEF V!Init, VP!Init, P!Init, PP!Init, V!Instantes, VP!Instantes, P!Instantes, PP!Instantes
<1>4. VP!Inv /\ PP!InvProcesos
  BY <1>3, VP!InitInv, PP!InicioProcesos, ConstantesDeVotos, ConstantesDeProcesos
<1>5. VP!EleccionFirme /\ AperturasPasadas /\ EnVentana
  BY <1>1 DEF VP!EleccionFirme, AperturasPasadas, EnVentana, LecturaEnPlazo
<1>6. QED
  BY <1>1, <1>2, <1>4, <1>5 DEF InvJornada

\* apertura_real is never in the future, from its stamp to its commit.
LEMMA SelloPasado ==
  ASSUME InvJornada, Next
  PROVE  AperturasPasadas'
<1> USE DEF InvJornada, AperturasPasadas
<1>1. reloj \in Nat
  BY ConstantesDeVotos DEF VP!Inv, VP!TypeOK, VP!Instantes, VP!ConstantesVotos
<1>2. ASSUME UNCHANGED <<paso, foto>>, reloj' = reloj \/ reloj' = reloj + 1 PROVE AperturasPasadas'
  BY <1>1, <1>2
<1>3. ASSUME NEW p \in Comite, Atender(p) PROVE AperturasPasadas'
  <2>1. PP!Atender(p)
    BY <1>3, MismoAtender DEF Atender
  <2>2. reloj' = reloj
    BY <2>1, EscrituraDeAtender
    DEF PP!Editar, PP!Eliminar, PP!AbrirConfirmar, PP!SinEscribir, PP!CerrarConfirmar
  <2>3. ASSUME NEW q \in Comite, paso'[q] = "abriendo" PROVE foto'[q].proceso.apertura_real \in 0 .. reloj'
    <3>1. \/ paso[q] = "abriendo" /\ foto'[q] = foto[q]
          \/ foto'[q].proceso.apertura_real = reloj
      BY <2>1, <2>3, SelloDeAtender DEF PP!InvProcesos, PP!RastroCompleto
    <3>2. QED
      BY <1>1, <2>2, <3>1
  <2>4. QED
    BY <2>3
<1>4. ASSUME NEW r \in Peticiones, Emitir(r) PROVE AperturasPasadas'
  <2>1. reloj' = reloj
    BY <1>4, MismoEmitir, VP!SoloLoSuyo, ConstantesDeVotos DEF Emitir, VP!Inv, VP!compartidas
  <2>2. QED
    BY <1>2, <1>4, <2>1 DEF Emitir, deProcesos
<1>5. CASE Tic \/ EmitirActas \/ \E l \in Listas : Depurar(l)
  BY <1>2, <1>5 DEF Tic, EmitirActas, Depurar, V!Tic, P!EmitirActas, V!CambiarEstado, V!Eliminar, deProcesos
<1>6. QED
  BY <1>3, <1>4, <1>5 DEF Next

\* Every step of the day is a step, or nothing at all, of the world of the votes and of that of the
\* committee; and what it leaves of the window and the scope.
LEMMA PasoDeLosMundos ==
  ASSUME InvJornada, Next
  PROVE  /\ VP!Next \/ UNCHANGED VP!vars
         /\ PP!Next \/ UNCHANGED PP!vars
         /\ PP!EdicionTardia \/ EnVentana => PP!EdicionTardia' \/ EnVentana'
<1>1. ASSUME NEW r \in Peticiones, Emitir(r)
      PROVE  /\ VP!Next /\ (PP!Next \/ UNCHANGED PP!vars)
             /\ PP!EdicionTardia \/ EnVentana => PP!EdicionTardia' \/ EnVentana'
  <2>1. VP!Emitir(r) /\ UNCHANGED deProcesos
    BY <1>1, MismoEmitir DEF Emitir
  <2>2. PP!EdicionTardia => PP!EdicionTardia'
    BY <2>1 DEF PP!EdicionTardia, deProcesos
  <2>3. QED
    BY <2>1, <2>2, EmitirEsEntorno, VentanaEmitir DEF VP!Next, PP!Next, PP!Entorno
<1>2. ASSUME NEW p \in Comite, Atender(p)
      PROVE  /\ VP!Next \/ UNCHANGED VP!vars
             /\ PP!Next
             /\ PP!EdicionTardia \/ EnVentana => PP!EdicionTardia' \/ EnVentana'
  <2>1. PP!Atender(p) /\ UNCHANGED deVotos
    BY <1>2, MismoAtender DEF Atender
  <2>2. (VP!Entorno \/ UNCHANGED VP!vars) /\ Congela
    BY <2>1, AtenderEsEntorno
  <2>3. QED
    BY <2>1, <2>2, VentanaQuieta DEF VP!Next, PP!Next, Congela
<1>3. ASSUME UNCHANGED <<deVotos, proceso, bitacora>>
      PROVE  PP!EdicionTardia \/ EnVentana => PP!EdicionTardia' \/ EnVentana'
  <2>1. Congela
    BY <1>3 DEF Congela, PP!EdicionTardia
  <2>2. QED
    BY <1>3, <2>1, VentanaQuieta DEF Congela
<1>4. ASSUME NEW l \in Listas, Depurar(l) PROVE VP!Next /\ PP!Next /\ UNCHANGED <<deVotos, proceso, bitacora>>
  <2>1. UNCHANGED deProcesos /\ (VP!CambiarEstado(l) \/ VP!Eliminar(l))
    BY <1>4, MismoEntornoDeVotos DEF Depurar
  <2>2. UNCHANGED <<deVotos, reloj>> /\ catalogo[l] # "ausente"
    BY <2>1 DEF VP!CambiarEstado, VP!Eliminar, VP!tablas, VP!locales, deVotos
  <2>3. \E e \in {"activo", "baja", "ausente"} :
          /\ e = "ausente" => \A v \in Boletas : v.eleccion # l
          /\ catalogo' = [catalogo EXCEPT ![l] = e]
    BY <2>1 DEF VP!CambiarEstado, VP!Eliminar, VP!Referenciada, Boletas
  <2>4. PP!Depurar
    BY <2>1, <2>2, <2>3 DEF PP!Depurar, PP!propias, deProcesos, deVotos, Boletas
  <2>5. QED
    BY <2>1, <2>2, <2>4 DEF VP!Next, VP!Entorno, PP!Next, PP!Entorno, deProcesos
<1>5. CASE Tic
  <2>1. VP!Tic /\ UNCHANGED deProcesos
    BY <1>5, MismoEntornoDeVotos DEF Tic
  <2>2. UNCHANGED deVotos
    BY <2>1 DEF VP!Tic, VP!tablas, VP!locales, deVotos
  <2>3. PP!Tic
    BY <2>1, <2>2 DEF VP!Tic, PP!Tic, PP!propias, deProcesos, deVotos, Boletas
  <2>4. QED
    BY <1>3, <2>1, <2>2, <2>3 DEF VP!Next, VP!Entorno, PP!Next, PP!Entorno, deProcesos
<1>6. CASE EmitirActas
  <2>1. PP!EmitirActas /\ UNCHANGED deVotos
    BY <1>6, MismoEntornoDeProcesos DEF EmitirActas
  <2>2. /\ proceso'.aulas = proceso.aulas /\ proceso'.cierre_previsto = proceso.cierre_previsto
        /\ proceso'.apertura_real = proceso.apertura_real
    BY <2>1 DEF PP!EmitirActas, InvJornada, PP!InvProcesos, PP!RastroCompleto, PP!TypeOK, PP!Fila
  <2>3. UNCHANGED VP!vars
    BY <2>1, <2>2 DEF PP!EmitirActas, ParaVotar, VP!vars, VP!compartidas, VP!tablas, VP!locales, deVotos
  <2>4. Congela
    BY <2>1, <2>2 DEF PP!EmitirActas, Congela, PP!EdicionTardia
  <2>5. QED
    BY <2>1, <2>3, <2>4, VentanaQuieta DEF PP!Next, PP!Entorno, Congela
<1>7. QED
  BY <1>1, <1>2, <1>3, <1>4, <1>5, <1>6 DEF Next

\* The invariant, and the two worlds, step by step.
LEMMA PasoJornada ==
  ASSUME InvJornada, [Next]_vars
  PROVE  InvJornada' /\ [V!Next]_(V!vars) /\ [P!Next]_(P!vars)
<1>1. CASE Next
  <2>1. /\ VP!Next \/ UNCHANGED VP!vars
        /\ PP!Next \/ UNCHANGED PP!vars
        /\ PP!EdicionTardia' \/ EnVentana'
    BY <1>1, PasoDeLosMundos DEF InvJornada
  <2>2. VP!Inv' /\ VP!EleccionFirme'
    BY <2>1, VP!NextInv, VP!EleccionPaso, ConstantesDeVotos DEF InvJornada
  <2>3. PP!InvProcesos'
    BY <2>1, PP!PasoProcesos, PP!QuietoProcesos, ConstantesDeProcesos DEF InvJornada
  <2>4. AperturasPasadas'
    BY <1>1, SelloPasado
  <2>5. QED
    BY <2>1, <2>2, <2>3, <2>4, MismoVotos, MismoProcesos DEF InvJornada
<1>2. CASE UNCHANGED vars
  <2>1. UNCHANGED VP!vars /\ UNCHANGED PP!vars
    BY <1>2 DEF vars, deVotos, deProcesos, ParaVotar, Boletas, VP!vars, VP!compartidas, VP!tablas, VP!locales,
       PP!vars, PP!compartidas, PP!propias
  <2>2. VP!Inv' /\ VP!EleccionFirme'
    BY <2>1, VP!NextInv, VP!EleccionPaso, ConstantesDeVotos DEF InvJornada
  <2>3. PP!InvProcesos'
    BY <2>1, PP!QuietoProcesos, ConstantesDeProcesos DEF InvJornada
  <2>4. AperturasPasadas'
    BY <1>2 DEF vars, deProcesos, InvJornada, AperturasPasadas
  <2>5. PP!EdicionTardia' \/ EnVentana'
    <3>1. Congela /\ UNCHANGED deVotos
      BY <1>2 DEF vars, deProcesos, Congela, PP!EdicionTardia
    <3>2. QED
      BY <3>1, VentanaQuieta DEF InvJornada, Congela
  <2>6. QED
    BY <2>1, <2>2, <2>3, <2>4, <2>5, MismoVotos, MismoProcesos DEF InvJornada
<1>3. QED
  BY <1>1, <1>2
-----------------------------------------------------------------------------
(* The theorems *)

\* What every handler of the day has read, and every vote, in every reachable state.
THEOREM InvarianteJornada == Spec => []InvJornada
<1>1. Init => InvJornada
  BY InicioJornada
<1>2. InvJornada /\ [Next]_vars => InvJornada'
  BY PasoJornada
<1>3. QED
  BY <1>1, <1>2, PTL DEF Spec

\* Every vote was cast inside the frozen window and by an aula of the frozen scope, unless an
\* editar() that had read borrador committed after abrir().
THEOREM VotosEnPlazo == Spec => []VotoEnPlazo
<1>1. InvJornada => VotoEnPlazo
  <2> SUFFICES ASSUME InvJornada PROVE VotoEnPlazo
    OBVIOUS
  <2>1. PP!EdicionTardia => P!EdicionTardia
    BY DEF PP!EdicionTardia, P!EdicionTardia
  <2>2. \A v \in votos : v.inicio >= proceso.apertura_real
    BY DEF InvJornada, VP!Inv, VP!VotoLegitimo, ParaVotar
  <2>3. EnVentana => \A v \in votos : v.inicio < proceso.cierre_previsto /\ AulaDe[v.derecho] \in proceso.aulas
    BY DEF EnVentana, EnPlazo
  <2>4. QED
    BY <2>1, <2>2, <2>3 DEF InvJornada, VotoEnPlazo
<1>2. QED
  BY <1>1, InvarianteJornada, PTL

\* What Votos assumes of the committee, the clock and the catalogue around its handlers is all that
\* they do: everything that is proved of Votos holds of the real day.
THEOREM VotosEnSuMundo == Spec => MundoDeVotos
<1>1. Init => V!Init
  BY InicioJornada
<1>2. InvJornada /\ [Next]_vars => [V!Next]_(V!vars)
  BY PasoJornada
<1>3. QED
  BY <1>1, <1>2, InvarianteJornada, PTL DEF Spec, MundoDeVotos, V!Spec

\* What Procesos assumes of the votes and the catalogue around its handlers is all that they do:
\* everything that is proved of Procesos holds of the real day.
THEOREM ProcesosEnSuMundo == Spec => MundoDeProcesos
<1>1. Init => P!Init
  BY InicioJornada
<1>2. InvJornada /\ [Next]_vars => [P!Next]_(P!vars)
  BY PasoJornada
<1>3. QED
  BY <1>1, <1>2, InvarianteJornada, PTL DEF Spec, MundoDeProcesos, P!Spec
=============================================================================
