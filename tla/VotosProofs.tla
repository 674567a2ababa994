----------------------------- MODULE VotosProofs -----------------------------
(***************************************************************************)
(* Theorems about Votos for any number of requests, rights and keys: types, *)
(* the safety of the tables, that emitir() implements the ballot box of     *)
(* Urna, and what a receipt says.                                           *)
(***************************************************************************)
EXTENDS Votos, TLAPS

(* The inductive invariant.  Each part says what a handler may rely on at    *)
(* the step it has reached, in spite of what others commit meanwhile.        *)

\* A handler past its first step serves one of the bodies.
ConPeticion == \A r \in Peticiones : pc[r] # "nueva" => peticion[r] \in Entradas

\* A Voto row is the committed work of its request, which inserts nothing more.
VotoDeSuPeticion ==
  \A v \in votos :
    /\ pc[v.id] \in {"confirmada", "respondida", "caida"}
    /\ v.derecho = Derecho(v.id)
    /\ v.clave = Clave(v.id)

\* The unique indexes: an uncommitted row conflicts with no committed row and with
\* no other uncommitted one.
IndicesUnicos ==
  /\ \A r \in Peticiones : pc[r] = "insertada" => ~Colision(r)
  /\ \A r, q \in Peticiones :
       (pc[r] = "insertada" /\ pc[q] = "insertada" /\
        Chocan(Derecho(r), Clave(r), Derecho(q), Clave(q))) => r = q

\* now() of the handler is not before the opening.
Abierto(r) == proceso.apertura_real # Nulo /\ inicio[r] >= proceso.apertura_real

\* What a handler read stays true until it uses it: votes and rights are never
\* withdrawn and the opening is sealed once, so a stale FilaValidacion can only say
\* less than the tables do.
Vigente(r, f) ==
  /\ f \in FilaValidacion
  /\ f.existe => Derecho(r) \in derechos
  /\ ~f.aun_no_abierto => Abierto(r)
  /\ f.voto # Nulo => \E v \in votos : v.id = f.voto /\ v.derecho = Derecho(r)
  /\ f.por_clave # Nulo => \E v \in votos : v.id = f.por_clave /\ v.clave = Clave(r)

FilaVigente(r) == Vigente(r, fila[r])

LecturaVigente ==
  \A r \in Peticiones :
    /\ pc[r] \in {"esperando", "bloqueada", "rechazada"} => FilaVigente(r)
    /\ pc[r] = "bloqueada" => fila[r].existe
    /\ pc[r] = "rechazada" => MotivoDe(fila[r]) # "ninguno"
    /\ pc[r] \in {"validada", "insertada"} => ~Ajeno(r) /\ Derecho(r) \in derechos /\ Abierto(r)

\* No right is materialised before the proceso opens.
PadronAlAbrir == proceso.apertura_real = Nulo => derechos = {}

Inv ==
  /\ TypeOK
  /\ ConPeticion /\ VotoDeSuPeticion /\ IndicesUnicos /\ VotoUnico
  /\ LecturaVigente /\ PadronAlAbrir /\ VotoLegitimo
-----------------------------------------------------------------------------
\* The invariant holds before the first request, whatever the proceso and its catalogue.
LEMMA InitInv == Init => Inv
<1> SUFFICES ASSUME Init PROVE Inv
  OBVIOUS
<1> USE ConstantesVotos
<1>1. TypeOK
  <2>1. proceso \in Proceso
    BY DEF Init, Proceso, Instantes
  <2>2. QED
    BY <2>1 DEF Init, TypeOK, Instantes, Pasos, Proceso
<1>2. ConPeticion /\ VotoDeSuPeticion /\ IndicesUnicos /\ VotoUnico
  BY DEF Init, ConPeticion, VotoDeSuPeticion, IndicesUnicos, VotoUnico
<1>3. LecturaVigente /\ PadronAlAbrir /\ VotoLegitimo
  BY DEF Init, LecturaVigente, PadronAlAbrir, VotoLegitimo
<1>4. QED
  BY <1>1, <1>2, <1>3 DEF Inv
-----------------------------------------------------------------------------
\* A scalar subquery over Voto rows gives the id of one of them, or NULL.
LEMMA IdDeTipo ==
  ASSUME NEW F, F \subseteq Voto
  PROVE  /\ IdDe(F) \in Peticiones \cup {Nulo}
         /\ IdDe(F) # Nulo => \E v \in F : v.id = IdDe(F)
<1>1. CASE F = {}
  BY <1>1 DEF IdDe
<1>2. CASE F # {}
  <2>1. (CHOOSE v \in F : TRUE) \in F
    BY <1>2
  <2>2. IdDe(F) = (CHOOSE v \in F : TRUE).id
    BY <1>2 DEF IdDe
  <2>3. \A v \in F : v.id \in Peticiones
    BY DEF Voto
  <2>4. QED
    BY <2>1, <2>2, <2>3
<1>3. QED
  BY <1>1, <1>2

\* The locking SELECT of emitir() brings back a FilaValidacion.
LEMMA FilaTipo ==
  ASSUME TypeOK, NEW r \in Peticiones, peticion[r] \in Entradas
  PROVE  FilaDe(r) \in FilaValidacion
<1>1. IdDe({v \in votos : v.derecho = Derecho(r)}) \in Peticiones \cup {Nulo}
  BY IdDeTipo DEF TypeOK
<1>2. IdDe({v \in votos : v.clave = Clave(r)}) \in Peticiones \cup {Nulo}
  BY IdDeTipo DEF TypeOK
<1>3. QED
  BY <1>1, <1>2 DEF FilaDe, FilaValidacion

\* A handler writes its own locals only, and no Voto row is ever withdrawn.
LEMMA SoloLoSuyo ==
  ASSUME TypeOK, NEW r \in Peticiones, Emitir(r)
  PROVE  /\ \A q \in Peticiones \ {r} :
              /\ pc'[q] = pc[q] /\ peticion'[q] = peticion[q]
              /\ inicio'[q] = inicio[q] /\ fila'[q] = fila[q]
         /\ pc[r] # "nueva" => peticion'[r] = peticion[r]
         /\ votos \subseteq votos'
         /\ UNCHANGED compartidas
<1> USE DEF TypeOK, Ir, Olvidar, Contestar, Resolver, compartidas, tablas
<1>1. CASE Comenzar(r) \/ Leer(r) \/ Bloquear(r) \/ Prohibir(r) \/ Repetir(r)
  BY <1>1 DEF Comenzar, Leer, Bloquear, Prohibir, Repetir
<1>2. CASE Rechazar(r) \/ RegistrarRechazo(r) \/ Validar(r) \/ Insertar(r)
  BY <1>2 DEF Rechazar, RegistrarRechazo, Validar, Insertar
<1>3. CASE Confirmar(r) \/ Responder(r) \/ Recuperar(r) \/ Presentar(r)
           \/ Abortar(r) \/ Caer(r)
  BY <1>3 DEF Confirmar, Responder, Recuperar, Presentar, Abortar, Caer
<1>4. QED
  BY <1>1, <1>2, <1>3 DEF Emitir, Avanzar

\* The type of the state that a step of one handler writes.
LEMMA TipoEmitir ==
  ASSUME Inv, NEW r \in Peticiones, Emitir(r)
  PROVE  TypeOK'
<1> USE ConstantesVotos
    DEF Inv, TypeOK, Pasos, ConCandado, EnTransaccion, Ir, Olvidar, compartidas, tablas,
        Instantes, Respuesta
<1>1. CASE Comenzar(r)
  BY <1>1 DEF Comenzar
<1>2. CASE Leer(r)
  <2>1. FilaDe(r) \in FilaValidacion
    BY <1>2, FilaTipo DEF Leer, ConPeticion
  <2>2. QED
    BY <1>2, <2>1 DEF Leer
<1>3. CASE Bloquear(r)
  BY <1>3 DEF Bloquear
<1>4. CASE Prohibir(r)
  BY <1>4 DEF Prohibir, Contestar
<1>5. CASE Repetir(r)
  <2>1. fila[r] \in FilaValidacion
    BY <1>5 DEF Repetir, LecturaVigente, FilaVigente, Vigente
  <2>2. QED
    BY <1>5, <2>1 DEF Repetir, Resolver, FilaValidacion
<1>6. CASE Rechazar(r)
  BY <1>6 DEF Rechazar
<1>7. CASE RegistrarRechazo(r)
  <2>1. fila[r] \in FilaValidacion /\ MotivoDe(fila[r]) \in Motivos
    BY <1>7 DEF RegistrarRechazo, LecturaVigente, FilaVigente, Vigente, MotivoDe, Motivos
  <2>2. peticion[r] \in Entrada
    BY <1>7 DEF RegistrarRechazo, ConPeticion
  <2>3. auditoria' \subseteq Evento
    BY <1>7, <2>1, <2>2 DEF RegistrarRechazo, Evento, Entrada, Derecho
  <2>4. respuesta' \in [Peticiones -> Respuesta \cup {Nulo}]
    BY <1>7, <2>1 DEF RegistrarRechazo, Contestar, Resolver, FilaValidacion, MotivoDe
  <2>5. QED
    BY <1>7, <2>3, <2>4 DEF RegistrarRechazo, Contestar, Resolver
<1>8. CASE Validar(r)
  BY <1>8 DEF Validar, Contestar
<1>9. CASE Insertar(r)
  BY <1>9 DEF Insertar, Contestar
<1>10. CASE Confirmar(r)
  <2>1. peticion[r] \in Entrada
    BY <1>10 DEF Confirmar, ConPeticion
  <2>2. votos' \subseteq Voto
    BY <1>10, <2>1 DEF Confirmar, Voto, Entrada, Derecho, Clave
  <2>3. auditoria' \subseteq Evento
    BY <1>10, <2>1 DEF Confirmar, Evento, Entrada, Derecho
  <2>4. correos' \subseteq Correo
    BY <1>10, <2>1 DEF Confirmar, Correo, Entrada, Derecho
  <2>5. QED
    BY <1>10, <2>2, <2>3, <2>4 DEF Confirmar
<1>11. CASE Responder(r)
  BY <1>11 DEF Responder, Contestar
<1>12. CASE Recuperar(r)
  BY <1>12, IdDeTipo DEF Recuperar, Contestar, Resolver
<1>13. CASE Abortar(r)
  BY <1>13 DEF Abortar, Contestar
<1>14. CASE Caer(r)
  BY <1>14 DEF Caer
<1>15. CASE Presentar(r)
  BY <1>15 DEF Presentar
<1>16. QED
  BY <1>1, <1>2, <1>3, <1>4, <1>5, <1>6, <1>7, <1>8, <1>9, <1>10, <1>11, <1>12,
     <1>13, <1>14, <1>15 DEF Emitir, Avanzar

\* The commits of the other services keep the tables in their types.
LEMMA TipoEntorno ==
  ASSUME TypeOK, Entorno
  PROVE  TypeOK'
<1> USE ConstantesVotos DEF TypeOK, Instantes, tablas, locales
<1>1. CASE Tic
  BY <1>1 DEF Tic
<1>2. CASE AbrirProceso
  <2>1. PICK t \in 0 .. reloj : proceso' = [proceso EXCEPT !.apertura_real = t]
    BY <1>2 DEF AbrirProceso
  <2>2. proceso' \in Proceso
    BY <2>1 DEF Proceso
  <2>3. QED
    BY <1>2, <2>2 DEF AbrirProceso
<1>3. CASE EditarProceso
  <2>1. PICK a \in (SUBSET Aulas) \ {{}}, c \in Instantes :
           proceso' = [proceso EXCEPT !.aulas = a, !.cierre_previsto = c]
    BY <1>3 DEF EditarProceso
  <2>2. proceso' \in Proceso
    BY <2>1 DEF Proceso
  <2>3. QED
    BY <1>3, <2>2 DEF EditarProceso
<1>4. ASSUME NEW l \in Listas, CambiarEstado(l) \/ Eliminar(l) PROVE TypeOK'
  BY <1>4 DEF CambiarEstado, Eliminar
<1>5. CASE EliminarProceso
  BY <1>5 DEF EliminarProceso, Proceso
<1>6. QED
  BY <1>1, <1>2, <1>3, <1>4, <1>5 DEF Entorno
-----------------------------------------------------------------------------
\* The steps of a handler that insert nothing, neither committed nor pending.
SinInsertar(r) ==
  \/ Comenzar(r) \/ Leer(r) \/ Bloquear(r) \/ Prohibir(r) \/ Repetir(r)
  \/ Rechazar(r) \/ RegistrarRechazo(r) \/ Validar(r)
  \/ Responder(r) \/ Recuperar(r) \/ Presentar(r) \/ Abortar(r) \/ Caer(r)

\* Such a step adds no row and leaves no insertion pending.
LEMMA SinInsertarDeja ==
  ASSUME TypeOK, NEW r \in Peticiones, SinInsertar(r)
  PROVE  /\ votos' = votos
         /\ pc'[r] # "insertada"
         /\ pc[r] \in {"confirmada", "respondida", "caida"} =>
              pc'[r] \in {"confirmada", "respondida", "caida"}
         /\ pc'[r] # "nueva"
         /\ pc[r] = "nueva" => peticion'[r] \in Entradas
<1> USE DEF TypeOK, Ir, Contestar, Resolver, tablas, ConCandado, EnTransaccion, EnMarcha
<1>1. CASE Comenzar(r) \/ Leer(r) \/ Bloquear(r) \/ Prohibir(r) \/ Repetir(r)
  BY <1>1 DEF Comenzar, Leer, Bloquear, Prohibir, Repetir
<1>2. CASE Rechazar(r) \/ RegistrarRechazo(r) \/ Validar(r)
  BY <1>2 DEF Rechazar, RegistrarRechazo, Validar
<1>3. CASE Responder(r) \/ Recuperar(r) \/ Presentar(r) \/ Abortar(r) \/ Caer(r)
  BY <1>3 DEF Responder, Recuperar, Presentar, Abortar, Caer
<1>4. QED
  BY <1>1, <1>2, <1>3 DEF SinInsertar

\* A step of a handler keeps the unique indexes: INSERT waits for a pending
\* conflicting row and aborts on a committed one, so a commit cannot collide.
LEMMA UnicidadEmitir ==
  ASSUME Inv, NEW r \in Peticiones, Emitir(r)
  PROVE  ConPeticion' /\ VotoDeSuPeticion' /\ IndicesUnicos' /\ VotoUnico'
<1> USE DEF Inv
<1>0. /\ votos \subseteq votos'
      /\ \A q \in Peticiones \ {r} : pc'[q] = pc[q] /\ peticion'[q] = peticion[q]
      /\ pc[r] # "nueva" => peticion'[r] = peticion[r]
  BY SoloLoSuyo
<1>a. \A v \in votos : v.id \in Peticiones /\ pc[v.id] # "nueva"
  BY DEF TypeOK, Voto, VotoDeSuPeticion
<1>1. CASE SinInsertar(r)
  <2>1. /\ votos' = votos /\ pc'[r] # "insertada" /\ pc'[r] # "nueva"
        /\ pc[r] \in {"confirmada", "respondida", "caida"} =>
             pc'[r] \in {"confirmada", "respondida", "caida"}
        /\ pc[r] = "nueva" => peticion'[r] \in Entradas
    BY <1>1, SinInsertarDeja
  <2>2. ConPeticion'
    BY <1>0, <2>1 DEF ConPeticion
  <2>3. VotoDeSuPeticion'
    BY <1>0, <1>a, <2>1 DEF VotoDeSuPeticion, Derecho, Clave
  <2>4. IndicesUnicos'
    <3>1. \A q \in Peticiones : pc'[q] = "insertada" =>
            q # r /\ pc[q] = "insertada" /\ peticion'[q] = peticion[q]
      BY <1>0, <2>1
    <3>2. QED
      BY <3>1, <2>1 DEF IndicesUnicos, Colision, Derecho, Clave
  <2>5. VotoUnico'
    BY <2>1 DEF VotoUnico
  <2>6. QED
    BY <2>2, <2>3, <2>4, <2>5
<1>2. CASE Insertar(r)
  <2>1. /\ votos' = votos /\ peticion' = peticion /\ pc[r] = "validada"
        /\ ~EnVuelo(r)
        /\ pc'[r] = "insertada" => ~Colision(r)
        /\ pc'[r] # "nueva"
    BY <1>2 DEF Insertar, Contestar, Ir, tablas, TypeOK
  <2>2. ConPeticion'
    BY <1>0, <2>1 DEF ConPeticion
  <2>3. VotoDeSuPeticion'
    BY <1>0, <1>a, <2>1 DEF VotoDeSuPeticion, Derecho, Clave
  <2>4. IndicesUnicos'
    <3>1. \A q \in Peticiones : Derecho(q)' = Derecho(q) /\ Clave(q)' = Clave(q)
      BY <2>1 DEF Derecho, Clave
    <3>2. \A q \in Peticiones : Colision(q)' <=> Colision(q)
      BY <2>1, <3>1 DEF Colision
    <3>3. \A q \in Peticiones : pc'[q] = "insertada" => ~Colision(q)
      BY <1>0, <2>1 DEF IndicesUnicos
    <3>4. \A p, q \in Peticiones :
            (pc'[p] = "insertada" /\ pc'[q] = "insertada"
             /\ Chocan(Derecho(p), Clave(p), Derecho(q), Clave(q))) => p = q
      BY <1>0, <2>1 DEF IndicesUnicos, EnVuelo, Chocan
    <3>5. QED
      BY <3>1, <3>2, <3>3, <3>4 DEF IndicesUnicos, Chocan
  <2>5. VotoUnico'
    BY <2>1 DEF VotoUnico
  <2>6. QED
    BY <2>2, <2>3, <2>4, <2>5
<1>3. CASE Confirmar(r)
  <2> DEFINE nuevo == [id |-> r, derecho |-> Derecho(r), clave |-> Clave(r),
                       eleccion |-> peticion[r].eleccion, inicio |-> inicio[r]]
  <2>1. /\ votos' = votos \cup {nuevo} /\ peticion' = peticion /\ pc[r] = "insertada"
        /\ pc'[r] = "confirmada"
    BY <1>3 DEF Confirmar, Ir, TypeOK
  <2>2. ~Colision(r)
    BY <2>1 DEF IndicesUnicos
  <2>3. ConPeticion'
    BY <1>0, <2>1 DEF ConPeticion
  <2>4. VotoDeSuPeticion'
    BY <1>0, <1>a, <2>1 DEF VotoDeSuPeticion, Derecho, Clave
  <2>5. IndicesUnicos'
    <3>1. ASSUME NEW q \in Peticiones, pc'[q] = "insertada"
          PROVE  q # r /\ pc[q] = "insertada" /\ ~Chocan(Derecho(q), Clave(q), Derecho(r), Clave(r))
      BY <1>0, <2>1, <3>1 DEF IndicesUnicos
    <3>2. \A q \in Peticiones : Derecho(q)' = Derecho(q) /\ Clave(q)' = Clave(q)
      BY <2>1 DEF Derecho, Clave
    <3>3. \A q \in Peticiones : pc'[q] = "insertada" => ~Colision(q)'
      BY <2>1, <3>1, <3>2 DEF IndicesUnicos, Colision
    <3>4. QED
      BY <3>1, <3>2, <3>3 DEF IndicesUnicos, Chocan
  <2>6. VotoUnico'
    BY <2>1, <2>2 DEF VotoUnico, Colision, Chocan
  <2>7. QED
    BY <2>3, <2>4, <2>5, <2>6
<1>4. QED
  BY <1>1, <1>2, <1>3 DEF Emitir, Avanzar, SinInsertar
-----------------------------------------------------------------------------
\* The steps that keep what the other handlers read: no right and no vote goes away
\* and the opening, once sealed, stays.
Conserva ==
  /\ derechos \subseteq derechos'
  /\ votos \subseteq votos'
  /\ proceso.apertura_real # Nulo => proceso'.apertura_real = proceso.apertura_real

\* What a handler read is still true after a step that conserves votes, rights and opening.
LEMMA VigenciaEstable ==
  ASSUME Conserva, NEW q \in Peticiones,
         peticion'[q] = peticion[q], inicio'[q] = inicio[q]
  PROVE  /\ fila'[q] = fila[q] /\ FilaVigente(q) => FilaVigente(q)'
         /\ Abierto(q) => Abierto(q)'
         /\ Derecho(q) \in derechos => Derecho(q)' \in derechos'
         /\ Ajeno(q)' <=> Ajeno(q)
  BY DEF Conserva, FilaVigente, Vigente, Abierto, Derecho, Clave, Ajeno

\* What the locking SELECT says is true of its snapshot.
LEMMA FilaRecienLeida ==
  ASSUME TypeOK, NEW r \in Peticiones, peticion[r] \in Entradas
  PROVE  Vigente(r, FilaDe(r))
<1>1. FilaDe(r) \in FilaValidacion
  BY FilaTipo
<1>2. LET F == {v \in votos : v.derecho = Derecho(r)}
      IN  IdDe(F) # Nulo => \E v \in F : v.id = IdDe(F)
  BY IdDeTipo DEF TypeOK
<1>3. LET F == {v \in votos : v.clave = Clave(r)}
      IN  IdDe(F) # Nulo => \E v \in F : v.id = IdDe(F)
  BY IdDeTipo DEF TypeOK
<1>4. (~FilaDe(r).aun_no_abierto) => Abierto(r)
  <2>1. FilaDe(r).aun_no_abierto
          = (proceso.apertura_real = Nulo \/ inicio[r] < proceso.apertura_real)
    BY DEF FilaDe
  <2>2. inicio[r] \in Int /\ (proceso.apertura_real # Nulo => proceso.apertura_real \in Int)
    BY ConstantesVotos DEF TypeOK, Proceso, Instantes
  <2>3. CASE proceso.apertura_real = Nulo \/ inicio[r] < proceso.apertura_real
    <3>1. FilaDe(r).aun_no_abierto
      BY <2>1, <2>3, Zenon
    <3>2. QED
      BY <3>1
  <2>4. CASE proceso.apertura_real # Nulo /\ ~(inicio[r] < proceso.apertura_real)
    BY <2>2, <2>4 DEF Abierto
  <2>5. QED
    BY <2>3, <2>4
<1>5. FilaDe(r).existe => Derecho(r) \in derechos
  <2>1. FilaDe(r).existe = (Derecho(r) \in derechos)
    BY DEF FilaDe
  <2>2. QED
    BY <2>1, Zenon
<1>6. FilaDe(r).voto = IdDe({v \in votos : v.derecho = Derecho(r)})
  BY DEF FilaDe
<1>7. FilaDe(r).por_clave = IdDe({v \in votos : v.clave = Clave(r)})
  BY DEF FilaDe
<1>8. QED
  BY <1>1, <1>2, <1>3, <1>4, <1>5, <1>6, <1>7 DEF Vigente

\* A step of a handler keeps true what every handler read, its own included.
LEMMA LecturaEmitir ==
  ASSUME Inv, NEW r \in Peticiones, Emitir(r)
  PROVE  LecturaVigente' /\ PadronAlAbrir' /\ VotoLegitimo'
<1> USE DEF Inv
<1>0. /\ Conserva /\ UNCHANGED compartidas
      /\ \A q \in Peticiones \ {r} :
           /\ pc'[q] = pc[q] /\ peticion'[q] = peticion[q]
           /\ inicio'[q] = inicio[q] /\ fila'[q] = fila[q]
      /\ pc[r] # "nueva" => peticion'[r] = peticion[r]
  BY SoloLoSuyo DEF Conserva, compartidas
<1>1. PadronAlAbrir'
  BY <1>0 DEF PadronAlAbrir, compartidas
<1> DEFINE Parte(q) ==
      /\ pc[q] \in {"esperando", "bloqueada", "rechazada"} => FilaVigente(q)
      /\ pc[q] = "bloqueada" => fila[q].existe
      /\ pc[q] = "rechazada" => MotivoDe(fila[q]) # "ninguno"
      /\ pc[q] \in {"validada", "insertada"} => ~Ajeno(q) /\ Derecho(q) \in derechos /\ Abierto(q)
<1>2. \A q \in Peticiones \ {r} : Parte(q)'
  <2> SUFFICES ASSUME NEW q \in Peticiones \ {r} PROVE Parte(q)'
    OBVIOUS
  <2>1. Parte(q)
    BY DEF LecturaVigente
  <2>2. pc'[q] = pc[q] /\ fila'[q] = fila[q]
    BY <1>0
  <2>3. /\ FilaVigente(q) => FilaVigente(q)'
        /\ Abierto(q) => Abierto(q)'
        /\ Derecho(q) \in derechos => Derecho(q)' \in derechos'
        /\ Ajeno(q)' <=> Ajeno(q)
    BY <1>0, VigenciaEstable
  <2>4. MotivoDe(fila[q])' = MotivoDe(fila[q])
    BY <2>2 DEF MotivoDe
  <2>5. QED
    BY <2>1, <2>2, <2>3, <2>4
<1>3. Parte(r)
  BY DEF LecturaVigente
<1>4. Parte(r)'
  <2> USE DEF TypeOK, Ir
  <2>a. ASSUME pc[r] # "nueva", inicio'[r] = inicio[r]
        PROVE  /\ fila'[r] = fila[r] /\ FilaVigente(r) => FilaVigente(r)'
               /\ Abierto(r) => Abierto(r)'
               /\ Derecho(r) \in derechos => Derecho(r)' \in derechos'
               /\ Ajeno(r)' <=> Ajeno(r)
    BY <1>0, <2>a, VigenciaEstable
  <2>1. CASE Comenzar(r)
    BY <2>1 DEF Comenzar
  <2>2. CASE Leer(r)
    <3>1. peticion[r] \in Entradas
      BY <2>2 DEF Leer, ConPeticion
    <3>2. Vigente(r, FilaDe(r))
      BY <3>1, FilaRecienLeida
    <3>3. UNCHANGED <<proceso, derechos, votos, peticion, inicio>> /\ fila'[r] = FilaDe(r)
      BY <2>2 DEF Leer, compartidas, tablas
    <3>4. FilaVigente(r)'
      BY <3>2, <3>3 DEF FilaVigente, Vigente, Abierto, Derecho, Clave
    <3>5. QED
      BY <2>2, <3>4 DEF Leer
  <2>3. CASE Bloquear(r)
    BY <1>3, <2>3, <2>a DEF Bloquear
  <2>4. CASE Rechazar(r)
    <3>1. MotivoDe(fila[r])' = MotivoDe(fila[r])
      BY <2>4 DEF Rechazar, MotivoDe
    <3>2. QED
      BY <1>3, <2>4, <2>a, <3>1 DEF Rechazar
  <2>5. CASE Validar(r)
    <3>1. CASE ~EleccionValida(peticion[r].eleccion)
      BY <2>5, <3>1 DEF Validar, Contestar
    <3>2. CASE EleccionValida(peticion[r].eleccion)
      <4>1. ~Ajeno(r) /\ fila[r].existe /\ ~fila[r].aun_no_abierto /\ FilaVigente(r)
        BY <1>3, <2>5 DEF Validar, MotivoDe
      <4>2. Derecho(r) \in derechos /\ Abierto(r)
        BY <4>1 DEF FilaVigente, Vigente
      <4>3. QED
        BY <2>5, <2>a, <3>2, <4>1, <4>2 DEF Validar
    <3>3. QED
      BY <3>1, <3>2
  <2>6. CASE Insertar(r)
    BY <1>3, <2>6, <2>a DEF Insertar, Contestar
  <2>7. CASE Confirmar(r)
    BY <2>7 DEF Confirmar
  <2>8. CASE Prohibir(r) \/ Repetir(r) \/ RegistrarRechazo(r) \/ Responder(r)
             \/ Recuperar(r) \/ Presentar(r) \/ Abortar(r) \/ Caer(r)
    BY <2>8 DEF Prohibir, Repetir, RegistrarRechazo, Responder, Recuperar, Presentar, Abortar,
                Caer, Contestar, Resolver
  <2>9. QED
    BY <2>1, <2>2, <2>3, <2>4, <2>5, <2>6, <2>7, <2>8 DEF Emitir, Avanzar
<1>5. LecturaVigente'
  BY <1>2, <1>4 DEF LecturaVigente
<1>6. VotoLegitimo'
  <2> DEFINE Legitimo(v) ==
        /\ v.derecho \in derechos
        /\ DuenoDe[v.derecho] = peticion[v.id].usuario
        /\ proceso.apertura_real # Nulo
        /\ v.inicio >= proceso.apertura_real
  <2>1. \A v \in votos : Legitimo(v)
    BY DEF VotoLegitimo
  <2>2. ASSUME NEW v \in votos PROVE Legitimo(v)'
    <3>1. peticion'[v.id] = peticion[v.id]
      BY <1>0 DEF TypeOK, Voto, VotoDeSuPeticion
    <3>2. QED
      BY <1>0, <2>1, <3>1 DEF Conserva
  <2>3. CASE votos' = votos
    BY <2>2, <2>3 DEF VotoLegitimo
  <2>4. CASE Confirmar(r)
    <3> DEFINE nuevo == [id |-> r, derecho |-> Derecho(r), clave |-> Clave(r),
                         eleccion |-> peticion[r].eleccion, inicio |-> inicio[r]]
    <3>1. /\ votos' = votos \cup {nuevo} /\ peticion' = peticion /\ UNCHANGED compartidas
          /\ pc[r] = "insertada"
      BY <2>4 DEF Confirmar
    <3>2. ~Ajeno(r) /\ Derecho(r) \in derechos /\ Abierto(r)
      BY <1>3, <3>1
    <3>3. /\ nuevo.derecho \in derechos
          /\ DuenoDe[nuevo.derecho] = peticion[nuevo.id].usuario
          /\ proceso.apertura_real # Nulo
          /\ nuevo.inicio >= proceso.apertura_real
      BY <3>2 DEF Ajeno, Abierto
    <3> HIDE DEF nuevo
    <3>4. UNCHANGED <<proceso, derechos>>
      BY <3>1 DEF compartidas
    <3>5. QED
      BY <2>2, <3>1, <3>3, <3>4 DEF VotoLegitimo
  <2>5. QED
    <3>1. CASE SinInsertar(r)
      BY <2>3, <3>1, SinInsertarDeja
    <3>2. CASE Insertar(r)
      BY <2>3, <3>2 DEF Insertar, tablas
    <3>3. QED
      BY <2>4, <3>1, <3>2 DEF Emitir, Avanzar, SinInsertar
<1>7. QED
  BY <1>1, <1>5, <1>6
-----------------------------------------------------------------------------
\* What the rest of the system does between two steps of the handlers.
LEMMA EntornoConserva ==
  ASSUME Inv, Entorno
  PROVE  /\ Conserva /\ PadronAlAbrir'
         /\ UNCHANGED tablas /\ UNCHANGED locales
         /\ (proceso.apertura_real # Nulo) => derechos' = derechos
<1> USE ConstantesVotos DEF Inv, TypeOK, Proceso, Conserva, PadronAlAbrir, tablas, Instantes
<1>1. CASE Tic
  BY <1>1 DEF Tic
<1>2. CASE AbrirProceso
  <2>1. PICK t \in 0 .. reloj : proceso' = [proceso EXCEPT !.apertura_real = t]
    BY <1>2 DEF AbrirProceso
  <2>2. proceso'.apertura_real = t
    BY <2>1
  <2>3. QED
    BY <1>2, <2>2 DEF AbrirProceso
<1>3. CASE EditarProceso
  BY <1>3 DEF EditarProceso
<1>4. ASSUME NEW l \in Listas, CambiarEstado(l) \/ Eliminar(l)
      PROVE  UNCHANGED <<proceso, derechos, tablas, locales>>
  BY <1>4 DEF CambiarEstado, Eliminar
<1>5. CASE EliminarProceso
  BY <1>5 DEF EliminarProceso
<1>6. QED
  BY <1>1, <1>2, <1>3, <1>4, <1>5 DEF Entorno

\* A step of the rest of the system, or none, preserves the invariant.
LEMMA InvQuieta ==
  ASSUME Inv, TypeOK', Conserva, PadronAlAbrir', UNCHANGED tablas, UNCHANGED locales
  PROVE  Inv'
<1> USE DEF Inv, tablas, locales
<1>1. ConPeticion'
  BY DEF ConPeticion
<1>2. VotoDeSuPeticion'
  BY DEF VotoDeSuPeticion, Derecho, Clave
<1>3. IndicesUnicos' /\ VotoUnico'
  BY DEF IndicesUnicos, VotoUnico, Colision, Derecho, Clave, Chocan
<1>4. LecturaVigente'
  <2>1. ASSUME NEW q \in Peticiones
        PROVE  /\ FilaVigente(q) => FilaVigente(q)'
               /\ Abierto(q) => Abierto(q)'
               /\ Derecho(q) \in derechos => Derecho(q)' \in derechos'
               /\ Ajeno(q)' <=> Ajeno(q)
               /\ MotivoDe(fila[q])' = MotivoDe(fila[q])
    BY VigenciaEstable DEF MotivoDe
  <2>2. QED
    BY <2>1 DEF LecturaVigente
<1>5. VotoLegitimo'
  BY DEF VotoLegitimo, Conserva
<1>6. QED
  BY <1>1, <1>2, <1>3, <1>4, <1>5

\* Every step of the system preserves the invariant.
LEMMA NextInv == Inv /\ [Next]_vars => Inv'
<1> SUFFICES ASSUME Inv, [Next]_vars PROVE Inv'
  OBVIOUS
<1>1. ASSUME NEW r \in Peticiones, Emitir(r) PROVE Inv'
  BY <1>1, TipoEmitir, UnicidadEmitir, LecturaEmitir DEF Inv
<1>2. CASE Entorno
  <2>1. TypeOK'
    BY <1>2, TipoEntorno DEF Inv
  <2>2. QED
    BY <1>2, <2>1, EntornoConserva, InvQuieta
<1>3. CASE UNCHANGED vars
  <2>1. TypeOK' /\ Conserva /\ PadronAlAbrir' /\ UNCHANGED tablas /\ UNCHANGED locales
    BY <1>3 DEF vars, compartidas, tablas, locales, Inv, TypeOK, Conserva, PadronAlAbrir
  <2>2. QED
    BY <2>1, InvQuieta
<1>4. QED
  BY <1>1, <1>2, <1>3 DEF Next
-----------------------------------------------------------------------------
(* What the votes leave in the other tables *)

\* The row that a commit adds.
LEMMA NuevoVoto ==
  ASSUME NEW r \in Peticiones, Confirmar(r)
  PROVE  \E v : /\ votos' = votos \cup {v}
                /\ v.id = r /\ v.derecho = Derecho(r) /\ v.eleccion = peticion[r].eleccion
<1> DEFINE v == [id |-> r, derecho |-> Derecho(r), clave |-> Clave(r),
                 eleccion |-> peticion[r].eleccion, inicio |-> inicio[r]]
<1>1. votos' = votos \cup {v}
  BY DEF Confirmar
<1>2. v.id = r /\ v.derecho = Derecho(r) /\ v.eleccion = peticion[r].eleccion
  OBVIOUS
<1> HIDE DEF v
<1>3. QED
  BY <1>1, <1>2

\* Only the commit of a vote adds a VOTO event or a mail job, and only the rejection
\* of a handler that has inserted nothing adds a RECHAZO.
LEMMA RastroEmitir ==
  ASSUME TypeOK, NEW r \in Peticiones, Emitir(r)
  PROVE  \/ Confirmar(r)
         \/ RegistrarRechazo(r)
         \/ UNCHANGED tablas
<1>1. CASE Comenzar(r) \/ Leer(r) \/ Bloquear(r) \/ Prohibir(r) \/ Repetir(r)
  BY <1>1 DEF Comenzar, Leer, Bloquear, Prohibir, Repetir
<1>2. CASE Rechazar(r) \/ Validar(r) \/ Insertar(r)
  BY <1>2 DEF Rechazar, Validar, Insertar
<1>3. CASE Responder(r) \/ Recuperar(r) \/ Presentar(r) \/ Abortar(r) \/ Caer(r)
  BY <1>3 DEF Responder, Recuperar, Presentar, Abortar, Caer
<1>4. QED
  BY <1>1, <1>2, <1>3 DEF Emitir, Avanzar

\* The VOTO events and the mail jobs follow the votes, one for one.
LEMMA RastroPaso ==
  ASSUME Inv, VotoConRastro, [Next]_vars
  PROVE  VotoConRastro'
<1>1. ASSUME UNCHANGED tablas PROVE VotoConRastro'
  BY <1>1 DEF tablas, VotoConRastro
<1>2. ASSUME NEW r \in Peticiones, Confirmar(r) PROVE VotoConRastro'
  <2> DEFINE nuevo == [id |-> r, derecho |-> Derecho(r), clave |-> Clave(r),
                       eleccion |-> peticion[r].eleccion, inicio |-> inicio[r]]
             evento == [tipo |-> "VOTO", peticion |-> r, actor |-> peticion[r].usuario,
                        derecho |-> Derecho(r), motivo |-> "ninguno"]
             correo == [voto |-> r, usuario |-> DuenoDe[Derecho(r)]]
  <2>1. /\ votos' = votos \cup {nuevo}
        /\ auditoria' = auditoria \cup {evento}
        /\ correos' = correos \cup {correo}
    BY <1>2 DEF Confirmar
  <2>2. nuevo.id = r /\ nuevo.derecho = Derecho(r) /\ evento.tipo = "VOTO" /\ evento.peticion = r
    OBVIOUS
  <2>3. correo = [voto |-> nuevo.id, usuario |-> DuenoDe[nuevo.derecho]]
    BY <2>2
  <2> HIDE DEF nuevo, evento, correo
  <2>4. {[voto |-> v.id, usuario |-> DuenoDe[v.derecho]] : v \in votos'}
          = {[voto |-> v.id, usuario |-> DuenoDe[v.derecho]] : v \in votos} \cup {correo}
    BY <2>1, <2>3
  <2>5. {e.peticion : e \in {x \in auditoria' : x.tipo = "VOTO"}}
          = {e.peticion : e \in {x \in auditoria : x.tipo = "VOTO"}} \cup {r}
    BY <2>1, <2>2
  <2>6. {v.id : v \in votos'} = {v.id : v \in votos} \cup {r}
    BY <2>1, <2>2
  <2>7. QED
    BY <2>1, <2>4, <2>5, <2>6 DEF VotoConRastro
<1>3. ASSUME NEW r \in Peticiones, RegistrarRechazo(r) PROVE VotoConRastro'
  <2> DEFINE evento == [tipo |-> "RECHAZO", peticion |-> r, actor |-> peticion[r].usuario,
                        derecho |-> Derecho(r), motivo |-> MotivoDe(fila[r])]
  <2>1. UNCHANGED <<votos, correos>> /\ auditoria' = auditoria \cup {evento}
    BY <1>3 DEF RegistrarRechazo
  <2>2. evento.tipo # "VOTO"
    OBVIOUS
  <2> HIDE DEF evento
  <2>3. {x \in auditoria' : x.tipo = "VOTO"} = {x \in auditoria : x.tipo = "VOTO"}
    BY <2>1, <2>2
  <2>4. QED
    BY <2>1, <2>3 DEF VotoConRastro
<1>4. CASE Entorno
  BY <1>1, <1>4, EntornoConserva
<1>5. QED
  BY <1>1, <1>2, <1>3, <1>4, RastroEmitir DEF Next, vars, Inv

\* The request of a RECHAZO is past every step that could insert: nothing it ever
\* read, not even a stale subquery, lets it vote afterwards.
RechazoFundado ==
  \A e \in auditoria :
    e.tipo = "RECHAZO" =>
      /\ pc[e.peticion] \in {"resuelta", "respondida", "caida"}
      /\ \A v \in votos : v.id # e.peticion
      /\ e.motivo = "derecho_ya_ejercido" => Votado(e.derecho)

\* A request that has its answer never goes back.
LEMMA ContestadaQueda ==
  ASSUME TypeOK, NEW r \in Peticiones, Emitir(r), pc[r] \in {"resuelta", "respondida", "caida"}
  PROVE  pc'[r] \in {"resuelta", "respondida", "caida"} /\ UNCHANGED tablas
<1> USE DEF TypeOK, Ir, EnMarcha, EnTransaccion, ConCandado
<1>1. Presentar(r) \/ Abortar(r) \/ Caer(r)
  BY DEF Emitir, Avanzar, Comenzar, Leer, Bloquear, Prohibir, Repetir, Rechazar,
         RegistrarRechazo, Validar, Insertar, Confirmar, Responder, Recuperar
<1>2. QED
  BY <1>1 DEF Presentar, Abortar, Contestar, Caer

\* Every step of the system leaves the RECHAZO events founded.
LEMMA RechazoPaso ==
  ASSUME Inv, RechazoFundado, [Next]_vars
  PROVE  RechazoFundado'
<1> USE DEF Inv
<1> DEFINE Fundado(e) ==
      e.tipo = "RECHAZO" =>
        /\ pc[e.peticion] \in {"resuelta", "respondida", "caida"}
        /\ \A v \in votos : v.id # e.peticion
        /\ e.motivo = "derecho_ya_ejercido" => Votado(e.derecho)
<1>1. ASSUME UNCHANGED tablas, UNCHANGED pc PROVE RechazoFundado'
  BY <1>1 DEF tablas, RechazoFundado, Votado
<1>2. ASSUME NEW r \in Peticiones, Emitir(r) PROVE RechazoFundado'
  <2>a. /\ votos \subseteq votos'
        /\ \A q \in Peticiones \ {r} : pc'[q] = pc[q]
    BY <1>2, SoloLoSuyo
  <2>b. \A d : Votado(d) => Votado(d)'
    BY <2>a DEF Votado
  <2>c. \A e \in auditoria : Fundado(e)
    BY DEF RechazoFundado
  <2>d. \A e \in auditoria : e.peticion \in Peticiones
    BY DEF TypeOK, Evento
  <2>1. \A v \in votos' : v \notin votos => Confirmar(r) /\ v.id = r
    <3>1. CASE Confirmar(r)
      BY <3>1, NuevoVoto
    <3>2. CASE RegistrarRechazo(r) \/ UNCHANGED tablas
      BY <3>2 DEF RegistrarRechazo, tablas
    <3>3. QED
      BY <1>2, <3>1, <3>2, RastroEmitir
  <2>2. \A e \in auditoria : Fundado(e)'
    <3> SUFFICES ASSUME NEW e \in auditoria, e.tipo = "RECHAZO"
                 PROVE  /\ pc'[e.peticion] \in {"resuelta", "respondida", "caida"}
                        /\ \A v \in votos' : v.id # e.peticion
                        /\ e.motivo = "derecho_ya_ejercido" => Votado(e.derecho)'
      OBVIOUS
    <3>1. /\ pc[e.peticion] \in {"resuelta", "respondida", "caida"}
          /\ \A v \in votos : v.id # e.peticion
          /\ e.motivo = "derecho_ya_ejercido" => Votado(e.derecho)
      BY <2>c
    <3>2. pc'[e.peticion] \in {"resuelta", "respondida", "caida"}
      BY <1>2, <2>a, <2>d, <3>1, ContestadaQueda
    <3>3. \A v \in votos' : v.id # e.peticion
      BY <2>1, <3>1 DEF Confirmar
    <3>4. QED
      BY <2>b, <3>1, <3>2, <3>3
  <2>3. CASE RegistrarRechazo(r)
    <3>1. PICK e : /\ auditoria' = auditoria \cup {e} /\ e.peticion = r
                   /\ e.derecho = Derecho(r) /\ e.motivo = MotivoDe(fila[r])
      <4> DEFINE evento == [tipo |-> "RECHAZO", peticion |-> r, actor |-> peticion[r].usuario,
                            derecho |-> Derecho(r), motivo |-> MotivoDe(fila[r])]
      <4>1. auditoria' = auditoria \cup {evento}
        BY <2>3 DEF RegistrarRechazo
      <4>2. evento.peticion = r /\ evento.derecho = Derecho(r) /\ evento.motivo = MotivoDe(fila[r])
        OBVIOUS
      <4> HIDE DEF evento
      <4>3. QED
        BY <4>1, <4>2
    <3>2. votos' = votos /\ pc[r] = "rechazada"
      BY <2>3 DEF RegistrarRechazo
    <3>3. pc'[r] \in {"resuelta", "respondida"}
      BY <2>3 DEF RegistrarRechazo, Resolver, Contestar, Ir, TypeOK
    <3>4. \A v \in votos : v.id # r
      BY <3>2 DEF VotoDeSuPeticion
    <3>5. MotivoDe(fila[r]) = "derecho_ya_ejercido" => Votado(Derecho(r))
      BY <3>2 DEF LecturaVigente, FilaVigente, Vigente, MotivoDe, Votado
    <3>6. Fundado(e)'
      BY <2>b, <3>1, <3>2, <3>3, <3>4, <3>5
    <3>7. QED
      BY <2>2, <3>1, <3>6 DEF RechazoFundado
  <2>4. CASE Confirmar(r)
    <3> DEFINE evento == [tipo |-> "VOTO", peticion |-> r, actor |-> peticion[r].usuario,
                          derecho |-> Derecho(r), motivo |-> "ninguno"]
    <3>1. auditoria' = auditoria \cup {evento} /\ evento.tipo = "VOTO"
      BY <2>4 DEF Confirmar
    <3> HIDE DEF evento
    <3>2. QED
      BY <2>2, <3>1 DEF RechazoFundado
  <2>5. CASE UNCHANGED tablas
    BY <2>2, <2>5 DEF RechazoFundado, tablas
  <2>6. QED
    BY <1>2, <2>3, <2>4, <2>5, RastroEmitir
<1>3. CASE Entorno
  BY <1>1, <1>3, EntornoConserva DEF locales
<1>4. QED
  BY <1>1, <1>2, <1>3 DEF Next, vars, tablas, locales
-----------------------------------------------------------------------------
(* The ballots and the catalogue *)

\* From the moment the foreign key has been checked, uncommitted votes included, the
\* row a ballot names stays.
EleccionFirme ==
  /\ \A v \in votos : EleccionExiste(v.eleccion)
  /\ \A q \in Peticiones : pc[q] = "insertada" => EleccionExiste(peticion[q].eleccion)

\* A handler does not touch the catalogue, and inserts only what exists.
LEMMA EleccionEmitir ==
  ASSUME Inv, EleccionFirme, NEW r \in Peticiones, Emitir(r)
  PROVE  EleccionFirme'
<1> USE DEF Inv
<1>0. /\ catalogo' = catalogo
      /\ \A q \in Peticiones \ {r} : pc'[q] = pc[q] /\ peticion'[q] = peticion[q]
      /\ pc[r] # "nueva" => peticion'[r] = peticion[r]
  BY SoloLoSuyo DEF compartidas
<1>a. \A o : EleccionExiste(o)' <=> EleccionExiste(o)
  BY <1>0 DEF EleccionExiste
<1>1. CASE SinInsertar(r)
  <2>1. votos' = votos /\ pc'[r] # "insertada"
    BY <1>1, SinInsertarDeja
  <2>2. QED
    BY <1>0, <1>a, <2>1 DEF EleccionFirme
<1>2. CASE Insertar(r)
  <2>1. votos' = votos /\ peticion' = peticion
        /\ (pc'[r] = "insertada" => EleccionExiste(peticion[r].eleccion))
    BY <1>2 DEF Insertar, tablas, Ir, Contestar, TypeOK
  <2>2. QED
    BY <1>0, <1>a, <2>1 DEF EleccionFirme
<1>3. CASE Confirmar(r)
  <2>1. PICK v : votos' = votos \cup {v} /\ v.eleccion = peticion[r].eleccion
    BY <1>3, NuevoVoto
  <2>2. pc[r] = "insertada" /\ pc'[r] = "confirmada"
    BY <1>3 DEF Confirmar, Ir, TypeOK
  <2>3. QED
    BY <1>0, <1>a, <2>1, <2>2 DEF EleccionFirme
<1>4. QED
  BY <1>1, <1>2, <1>3 DEF Emitir, Avanzar, SinInsertar

\* eliminar() of a row waits for the votes that name it, and eliminar() of the proceso
\* for the rights: while there are none there is no vote, committed or not.
LEMMA EleccionEntorno ==
  ASSUME Inv, EleccionFirme, Entorno
  PROVE  EleccionFirme'
<1> USE DEF Inv
<1>0. UNCHANGED tablas /\ UNCHANGED locales
  BY EntornoConserva
<1>1. CASE Tic \/ AbrirProceso \/ EditarProceso
  <2>1. catalogo' = catalogo
    BY <1>1 DEF Tic, AbrirProceso, EditarProceso
  <2>2. QED
    BY <1>0, <2>1 DEF EleccionFirme, EleccionExiste, tablas, locales
<1>2. CASE EliminarProceso
  <2>1. derechos = {}
    BY <1>2 DEF EliminarProceso
  <2>2. votos = {} /\ \A q \in Peticiones : pc[q] # "insertada"
    BY <2>1 DEF VotoLegitimo, LecturaVigente
  <2>3. QED
    BY <1>0, <2>2 DEF EleccionFirme, tablas, locales
<1>3. ASSUME NEW l \in Listas, CambiarEstado(l) PROVE EleccionFirme'
  <2>1. \A o \in Listas : catalogo[o] # "ausente" => catalogo'[o] # "ausente"
    BY <1>3 DEF CambiarEstado, TypeOK
  <2>2. \A v \in votos : v.eleccion \in Opciones
    BY DEF TypeOK, Voto
  <2>3. \A q \in Peticiones : pc[q] = "insertada" => peticion[q].eleccion \in Opciones
    BY ConstantesVotos DEF ConPeticion, Entrada
  <2>4. \A o \in Opciones : EleccionExiste(o) => EleccionExiste(o)'
    BY <2>1 DEF EleccionExiste, Opciones
  <2>5. QED
    BY <1>0, <2>2, <2>3, <2>4 DEF EleccionFirme, tablas, locales
<1>4. ASSUME NEW l \in Listas, Eliminar(l) PROVE EleccionFirme'
  <2>1. \A o : o # l => (EleccionExiste(o) => EleccionExiste(o)')
    BY <1>4 DEF Eliminar, EleccionExiste, TypeOK
  <2>2. ~Referenciada(l)
    BY <1>4 DEF Eliminar
  <2>3. QED
    BY <1>0, <2>1, <2>2 DEF EleccionFirme, Referenciada, tablas, locales
<1>5. QED
  BY <1>1, <1>2, <1>3, <1>4 DEF Entorno

\* Every step of the system keeps the rows that the ballots name.
LEMMA EleccionPaso ==
  ASSUME Inv, EleccionFirme, [Next]_vars
  PROVE  EleccionFirme'
<1>1. CASE UNCHANGED vars
  BY <1>1 DEF vars, compartidas, tablas, locales, EleccionFirme, EleccionExiste
<1>2. QED
  BY <1>1, EleccionEmitir, EleccionEntorno DEF Next
-----------------------------------------------------------------------------
(* The theorems *)

\* The inductive invariant holds in every reachable state of emitir().
THEOREM Invariante == Spec => []Inv
<1>1. Init => Inv
  BY InitInv
<1>2. Inv /\ [Next]_vars => Inv'
  BY NextInv
<1>3. QED
  BY <1>1, <1>2, PTL DEF Spec

\* The tables, the handlers' locals and the answers have their types in every
\* reachable state of emitir().
THEOREM Tipos == Spec => []TypeOK
<1>1. Inv => TypeOK
  BY DEF Inv
<1>2. QED
  BY <1>1, Invariante, PTL

\* "0 votos duplicados": for any number of requests, rights and keys, two rows of Voto
\* share neither the right nor the idempotency key.
THEOREM UnVotoPorDerecho == Spec => []VotoUnico
<1>1. Inv => VotoUnico
  BY DEF Inv
<1>2. QED
  BY <1>1, Invariante, PTL

\* Every row of Voto was inserted for the owner of a materialised right by a
\* transaction that began after the opening, even when editar() runs late.
THEOREM VotosLegitimos == Spec => []VotoLegitimo
<1>1. Inv => VotoLegitimo
  BY DEF Inv
<1>2. QED
  BY <1>1, Invariante, PTL

\* Votes, VOTO events and comprobante jobs stay in one-to-one correspondence: what
\* emitir() commits, it commits together, and what fails leaves nothing behind.
THEOREM RastroDelVoto == Spec => []VotoConRastro
<1>1. Init => VotoConRastro
  BY DEF Init, VotoConRastro
<1>2. Inv /\ VotoConRastro /\ [Next]_vars => VotoConRastro'
  BY RastroPaso
<1>3. QED
  BY <1>1, <1>2, Invariante, PTL DEF Spec

\* A RECHAZO is never audited for a request that votes, before or after it, and
\* "derecho_ya_ejercido" is only audited of a right whose vote is in the table,
\* although the cause was decided on a snapshot older than the lock.
THEOREM RechazosVeraces == Spec => []RechazoVeraz
<1>1. Init => RechazoFundado
  BY DEF Init, RechazoFundado
<1>2. Inv /\ RechazoFundado /\ [Next]_vars => RechazoFundado'
  BY RechazoPaso
<1>3. RechazoFundado => RechazoVeraz
  BY DEF RechazoFundado, RechazoVeraz, Votado
<1>4. QED
  BY <1>1, <1>2, <1>3, Invariante, PTL DEF Spec

\* No vote names a lista or candidato that eliminar() took away between the
\* validation of the ballot and its insertion.
THEOREM ReferenciasVivas == Spec => []ReferenciaViva
<1>1. Init => EleccionFirme
  BY DEF Init, EleccionFirme
<1>2. Inv /\ EleccionFirme /\ [Next]_vars => EleccionFirme'
  BY EleccionPaso
<1>3. EleccionFirme => ReferenciaViva
  BY DEF EleccionFirme, ReferenciaViva
<1>4. QED
  BY <1>1, <1>2, <1>3, Invariante, PTL DEF Spec
-----------------------------------------------------------------------------
(* emitir() implements the ballot box of module Urna: AbrirProceso is         *)
(* Inscribir, Confirmar is Votar, giving a receipt is Acusar, and every other *)
(* step of the handlers and of the rest of the system stutters.               *)

\* What a receipt says, from the moment it is owed: the vote it names is in the table.
Guardado(id) == \E v \in votos : v.id = id
ReciboDe(q) ==
  /\ pc[q] = "confirmada" => Guardado(q)
  /\ pc[q] \in {"resuelta", "respondida"} =>
       respuesta[q] \in Respuesta /\ (respuesta[q].voto # Nulo => Guardado(respuesta[q].voto))
RecibosFundados == \A q \in Peticiones : ReciboDe(q)

InvUrna == Inv /\ RecibosFundados
-----------------------------------------------------------------------------
\* A step of r leaves the receipts of the others as they were.
LEMMA RespuestaAjena ==
  ASSUME TypeOK, NEW r \in Peticiones, Emitir(r), NEW q \in Peticiones \ {r}
  PROVE  respuesta'[q] = respuesta[q]
<1> USE DEF TypeOK, Contestar, Resolver
<1>1. CASE Comenzar(r) \/ Leer(r) \/ Bloquear(r) \/ Prohibir(r) \/ Repetir(r)
  BY <1>1 DEF Comenzar, Leer, Bloquear, Prohibir, Repetir
<1>2. CASE Rechazar(r) \/ RegistrarRechazo(r) \/ Validar(r) \/ Insertar(r)
  BY <1>2 DEF Rechazar, RegistrarRechazo, Validar, Insertar
<1>3. CASE Confirmar(r) \/ Responder(r) \/ Recuperar(r) \/ Presentar(r) \/ Abortar(r) \/ Caer(r)
  BY <1>3 DEF Confirmar, Responder, Recuperar, Presentar, Abortar, Caer
<1>4. QED
  BY <1>1, <1>2, <1>3 DEF Emitir, Avanzar

\* What a step of r makes of its own receipt.
LEMMA ReciboPropio ==
  ASSUME Inv, RecibosFundados, NEW r \in Peticiones, Emitir(r)
  PROVE  ReciboDe(r)' /\ pc[r] # "respondida"
<1> USE DEF Inv, TypeOK, Ir, Respuesta
<1>a. TypeOK' /\ votos \subseteq votos'
  BY TipoEmitir, SoloLoSuyo
<1>b. \A id : Guardado(id) => Guardado(id)'
  BY <1>a DEF Guardado
<1>1. CASE Comenzar(r) \/ Leer(r) \/ Bloquear(r) \/ Rechazar(r) \/ Caer(r)
  BY <1>1 DEF Comenzar, Leer, Bloquear, Rechazar, Caer, ReciboDe, EnMarcha, EnTransaccion, ConCandado
<1>2. CASE Prohibir(r) \/ Validar(r) \/ Insertar(r) \/ Abortar(r)
  BY <1>2 DEF Prohibir, Validar, Insertar, Abortar, Contestar, ReciboDe, EnMarcha, EnTransaccion, ConCandado
<1>3. CASE Repetir(r)
  <2>1. pc[r] = "bloqueada" /\ fila[r] \in FilaValidacion
        /\ fila[r].por_clave # Nulo /\ Guardado(fila[r].por_clave)
    BY <1>3 DEF Repetir, LecturaVigente, FilaVigente, Vigente, Guardado
  <2>2. respuesta'[r] = [tipo |-> "existente", voto |-> fila[r].por_clave]
        /\ pc'[r] = "resuelta"
    BY <1>3 DEF Repetir, Resolver
  <2>3. QED
    BY <1>b, <2>1, <2>2 DEF ReciboDe, FilaValidacion
<1>4. CASE RegistrarRechazo(r)
  <2>1. pc[r] = "rechazada" /\ FilaVigente(r)
    BY <1>4 DEF RegistrarRechazo, LecturaVigente
  <2>2. CASE MotivoDe(fila[r]) = "derecho_ya_ejercido"
    <3>1. fila[r] \in FilaValidacion /\ fila[r].voto # Nulo /\ Guardado(fila[r].voto)
      BY <2>1, <2>2 DEF FilaVigente, Vigente, MotivoDe, Guardado
    <3>2. respuesta'[r] = [tipo |-> "existente", voto |-> fila[r].voto] /\ pc'[r] = "resuelta"
      BY <1>4, <2>2 DEF RegistrarRechazo, Resolver
    <3>3. QED
      BY <1>b, <2>1, <3>1, <3>2 DEF ReciboDe, FilaValidacion
  <2>3. CASE MotivoDe(fila[r]) # "derecho_ya_ejercido"
    BY <1>4, <2>1, <2>3 DEF RegistrarRechazo, Contestar, ReciboDe
  <2>4. QED
    BY <2>2, <2>3
<1>5. CASE Confirmar(r)
  <2>1. Guardado(r)'
    <3>1. PICK v \in votos' : v.id = r
      BY <1>5, NuevoVoto
    <3>2. QED
      BY <3>1 DEF Guardado
  <2>2. QED
    BY <1>5, <2>1 DEF Confirmar, ReciboDe
<1>6. CASE Responder(r)
  BY <1>6, <1>b DEF Responder, Contestar, RecibosFundados, ReciboDe
<1>7. CASE Recuperar(r)
  <2> DEFINE F == {v \in votos : v.derecho = Derecho(r)}
  <2>1. IdDe(F) \in Peticiones \cup {Nulo} /\ (IdDe(F) # Nulo => Guardado(IdDe(F)))
    BY IdDeTipo DEF Guardado
  <2> HIDE DEF F
  <2>2. CASE IdDe(F) = Nulo
    BY <1>7, <2>2 DEF Recuperar, Contestar, ReciboDe, F
  <2>3. CASE IdDe(F) # Nulo
    <3>1. respuesta'[r] = [tipo |-> "existente", voto |-> IdDe(F)] /\ pc'[r] = "resuelta"
          /\ pc[r] = "colision"
      BY <1>7, <2>3 DEF Recuperar, Resolver, F
    <3>2. QED
      BY <1>b, <2>1, <2>3, <3>1 DEF ReciboDe
  <2>4. QED
    BY <2>2, <2>3
<1>8. CASE Presentar(r)
  BY <1>8, <1>b DEF Presentar, RecibosFundados, ReciboDe
<1>9. QED
  BY <1>1, <1>2, <1>3, <1>4, <1>5, <1>6, <1>7, <1>8 DEF Emitir, Avanzar

\* A step of a handler keeps every receipt founded.
LEMMA RecibosEmitir ==
  ASSUME Inv, RecibosFundados, NEW r \in Peticiones, Emitir(r)
  PROVE  RecibosFundados'
<1>1. ReciboDe(r)'
  BY ReciboPropio
<1>2. ASSUME NEW q \in Peticiones \ {r} PROVE ReciboDe(q)'
  <2>1. pc'[q] = pc[q] /\ respuesta'[q] = respuesta[q] /\ votos \subseteq votos'
    BY SoloLoSuyo, RespuestaAjena DEF Inv
  <2>2. ReciboDe(q)
    BY DEF RecibosFundados
  <2>3. QED
    BY <2>1, <2>2 DEF ReciboDe, Guardado
<1>3. QED
  BY <1>1, <1>2 DEF RecibosFundados
-----------------------------------------------------------------------------
(* What each kind of step does to the abstract state *)

\* Who has a receipt after a step of r that commits no vote: those who had one and,
\* perhaps, the right of a vote that is in the box.
LEMMA AcusarEmitir ==
  ASSUME Inv, RecibosFundados, NEW r \in Peticiones, Emitir(r), votos' = votos
  PROVE  [UrnaAbstracta!Acusar]_(UrnaAbstracta!vars)
<1> USE DEF Inv
<1>1. UNCHANGED compartidas /\ Papeletas' = Papeletas
  BY SoloLoSuyo DEF Papeletas
<1>2. \A v \in votos : v.id \in Peticiones /\ peticion'[v.id] = peticion[v.id]
                       /\ v.derecho = Derecho(v.id)
  BY SoloLoSuyo DEF TypeOK, Voto, VotoDeSuPeticion
<1>3. \A id : Guardado(id) => Derecho(id)' = Derecho(id) /\ Derecho(id) \in UrnaAbstracta!Ejercidos
  <2> SUFFICES ASSUME NEW id, Guardado(id)
               PROVE  Derecho(id)' = Derecho(id) /\ Derecho(id) \in UrnaAbstracta!Ejercidos
    OBVIOUS
  <2>1. PICK v \in votos : v.id = id
    BY DEF Guardado
  <2>2. Derecho(id)' = Derecho(id) /\ v.derecho = Derecho(id)
    BY <1>2, <2>1 DEF Derecho
  <2>3. <<v.derecho, v.eleccion>> \in Papeletas
    BY DEF Papeletas
  <2>4. v.derecho \in UrnaAbstracta!Ejercidos
    BY <2>3 DEF UrnaAbstracta!Ejercidos
  <2>5. QED
    BY <2>2, <2>4
<1>4. \A q \in ConRecibo : Guardado(respuesta[q].voto)
  BY DEF ConRecibo, RecibosFundados, ReciboDe
<1>5. RecibosFundados'
  BY RecibosEmitir
<1>6. r \notin ConRecibo
  BY ReciboPropio DEF ConRecibo
<1>7. \A q \in Peticiones \ {r} : pc'[q] = pc[q] /\ respuesta'[q] = respuesta[q]
  BY SoloLoSuyo, RespuestaAjena
<1>8. \A q \in Peticiones \ {r} : q \in ConRecibo' <=> q \in ConRecibo
  BY <1>7 DEF ConRecibo
<1>9. \A q \in ConRecibo : Derecho(respuesta[q].voto)' = Derecho(respuesta[q].voto)
  <2> SUFFICES ASSUME NEW q \in ConRecibo
               PROVE  Derecho(respuesta[q].voto)' = Derecho(respuesta[q].voto)
    OBVIOUS
  <2>1. q \in Peticiones \ {r}
    BY <1>6 DEF ConRecibo
  <2>2. respuesta'[q] = respuesta[q]
    BY <1>7, <2>1
  <2>3. QED
    BY <1>3, <1>4, <2>2 DEF Derecho
<1>10. CASE r \notin ConRecibo'
  <2>1. ConRecibo' = ConRecibo
    BY <1>6, <1>8, <1>10 DEF ConRecibo
  <2>2. Acusados' = Acusados
    BY <1>9, <2>1 DEF Acusados
  <2>3. QED
    BY <1>1, <2>2 DEF UrnaAbstracta!vars, compartidas
<1>11. CASE r \in ConRecibo'
  <2> DEFINE d == Derecho(respuesta'[r].voto)
  <2>1. ConRecibo' = ConRecibo \cup {r}
    BY <1>8, <1>11 DEF ConRecibo
  <2>2. Guardado(respuesta'[r].voto)
    BY <1>5, <1>11 DEF ConRecibo, RecibosFundados, ReciboDe, Guardado
  <2>3. d \in UrnaAbstracta!Ejercidos /\ Derecho(respuesta[r].voto)' = d
    BY <1>3, <2>2 DEF Derecho
  <2>4. Acusados' = Acusados \cup {d}
    BY <1>9, <2>1, <2>3 DEF Acusados
  <2>5. QED
    BY <1>1, <2>3, <2>4 DEF UrnaAbstracta!Acusar, compartidas
<1>12. QED
  BY <1>10, <1>11

\* The commit of a vote puts one ballot of a registered, unspent right in the box.
LEMMA VotarConfirmar ==
  ASSUME Inv, RecibosFundados, NEW r \in Peticiones, Confirmar(r)
  PROVE  UrnaAbstracta!Votar
<1> USE DEF Inv
<1> DEFINE d == Derecho(r)
           o == peticion[r].eleccion
<1>1. pc[r] = "insertada" /\ UNCHANGED <<derechos, peticion, respuesta>>
  BY DEF Confirmar, compartidas
<1>2. d \in derechos /\ o \in Opciones
  BY <1>1, ConstantesVotos DEF LecturaVigente, ConPeticion, Entrada
<1>3. d \notin UrnaAbstracta!Ejercidos
  BY <1>1 DEF IndicesUnicos, Colision, Chocan, UrnaAbstracta!Ejercidos, Papeletas
<1>4. Papeletas' = Papeletas \cup {<<d, o>>}
  <2>1. PICK v : votos' = votos \cup {v} /\ v.derecho = d /\ v.eleccion = o
    BY NuevoVoto
  <2>2. QED
    BY <2>1 DEF Papeletas
<1>5. pc' = [pc EXCEPT ![r] = "confirmada"]
  BY DEF Confirmar, Ir
<1>6. ConRecibo' = ConRecibo
  BY <1>1, <1>5 DEF ConRecibo, TypeOK
<1>7. Acusados' = Acusados
  BY <1>1, <1>6 DEF Acusados, Derecho
<1>8. QED
  BY <1>1, <1>2, <1>3, <1>4, <1>7 DEF UrnaAbstracta!Votar

\* The other services only enter rights into the register.
LEMMA InscribirEntorno ==
  ASSUME Inv, Entorno
  PROVE  UrnaAbstracta!Inscribir
<1>1. derechos \subseteq derechos' /\ UNCHANGED tablas /\ UNCHANGED locales
  BY EntornoConserva DEF Conserva
<1>2. derechos' \in SUBSET Derechos
  BY TipoEntorno DEF Inv, TypeOK
<1>3. Papeletas' = Papeletas /\ Acusados' = Acusados
  BY <1>1 DEF Papeletas, Acusados, ConRecibo, Derecho, tablas, locales
<1>4. QED
  BY <1>1, <1>2, <1>3 DEF UrnaAbstracta!Inscribir
-----------------------------------------------------------------------------
\* Every initial state of emitir() is an empty ballot box, and the receipts are
\* founded because there are none.
LEMMA InicioUrna == Init => InvUrna /\ UrnaAbstracta!Init
<1> SUFFICES ASSUME Init PROVE InvUrna /\ UrnaAbstracta!Init
  OBVIOUS
<1>1. Inv
  BY InitInv
<1>2. RecibosFundados
  BY DEF Init, RecibosFundados, ReciboDe
<1>3. UrnaAbstracta!Init
  BY DEF Init, UrnaAbstracta!Init, Papeletas, Acusados, ConRecibo
<1>4. QED
  BY <1>1, <1>2, <1>3 DEF InvUrna

\* A step of the system keeps the receipts founded and is a step of Urna, or none.
LEMMA PasoUrna == InvUrna /\ [Next]_vars => InvUrna' /\ [UrnaAbstracta!Next]_(UrnaAbstracta!vars)
<1> SUFFICES ASSUME InvUrna, [Next]_vars
             PROVE  InvUrna' /\ [UrnaAbstracta!Next]_(UrnaAbstracta!vars)
  OBVIOUS
<1>a. Inv /\ RecibosFundados
  BY DEF InvUrna
<1>b. Inv'
  BY <1>a, NextInv
<1>1. ASSUME NEW r \in Peticiones, Emitir(r)
      PROVE  RecibosFundados' /\ [UrnaAbstracta!Next]_(UrnaAbstracta!vars)
  <2>1. RecibosFundados'
    BY <1>1, <1>a, RecibosEmitir
  <2>2. CASE Confirmar(r)
    BY <1>a, <2>1, <2>2, VotarConfirmar DEF UrnaAbstracta!Next
  <2>3. CASE SinInsertar(r)
    <3>1. votos' = votos
      BY <1>a, <2>3, SinInsertarDeja DEF Inv
    <3>2. QED
      BY <1>1, <1>a, <2>1, <3>1, AcusarEmitir DEF UrnaAbstracta!Next
  <2>4. CASE Insertar(r)
    <3>1. votos' = votos
      BY <2>4 DEF Insertar, tablas
    <3>2. QED
      BY <1>1, <1>a, <2>1, <3>1, AcusarEmitir DEF UrnaAbstracta!Next
  <2>5. QED
    BY <1>1, <2>2, <2>3, <2>4 DEF Emitir, Avanzar, SinInsertar
<1>2. CASE Entorno
  <2>1. UrnaAbstracta!Inscribir
    BY <1>2, <1>a, InscribirEntorno
  <2>2. UNCHANGED tablas /\ UNCHANGED locales
    BY <1>2, <1>a, EntornoConserva
  <2>3. RecibosFundados'
    BY <1>a, <2>2 DEF RecibosFundados, ReciboDe, Guardado, tablas, locales
  <2>4. QED
    BY <1>b, <2>1, <2>3 DEF UrnaAbstracta!Next, InvUrna
<1>3. CASE UNCHANGED vars
  <2>1. UNCHANGED <<derechos, votos, pc, peticion, respuesta>>
    BY <1>3 DEF vars, compartidas, tablas, locales
  <2>2. RecibosFundados'
    BY <1>a, <2>1 DEF RecibosFundados, ReciboDe, Guardado
  <2>3. UNCHANGED UrnaAbstracta!vars
    BY <2>1 DEF UrnaAbstracta!vars, Papeletas, Acusados, ConRecibo, Derecho
  <2>4. QED
    BY <1>b, <2>2, <2>3 DEF InvUrna
<1>4. QED
  BY <1>1, <1>2, <1>3, <1>b DEF Next, InvUrna

\* emitir(), with its snapshots, locks, retries and crashes, implements the abstract
\* ballot box: a right is exercised once and for good, and a receipt is only ever given
\* for a ballot that is in the box.
THEOREM Refina == Spec => ImplementaUrna
<1>1. Init => InvUrna /\ UrnaAbstracta!Init
  BY InicioUrna
<1>2. InvUrna /\ [Next]_vars => InvUrna' /\ [UrnaAbstracta!Next]_(UrnaAbstracta!vars)
  BY PasoUrna
<1>3. QED
  BY <1>1, <1>2, PTL DEF Spec, ImplementaUrna, UrnaAbstracta!Spec
-----------------------------------------------------------------------------
(* What a receipt says *)

\* The vote a receipt names was found by the right or by the key of its request.
Avala(v, q) == v.id = respuesta[q].voto /\ (v.derecho = Derecho(q) \/ v.clave = Clave(q))

\* A found vote is never the request's own, which has not voted while it is resolving;
\* that decides "creado" or "existente" once and for all.
ReciboCierto(q) ==
  /\ pc[q] = "confirmada" => \E v \in votos : v.id = q
  /\ pc[q] = "resuelta" => respuesta[q].tipo = "existente" /\ \E v \in votos : Avala(v, q)
  /\ (pc[q] = "respondida" /\ respuesta[q].tipo \in {"creado", "existente"}) =>
       /\ \E v \in votos : Avala(v, q) /\ (respuesta[q].tipo = "creado" <=> v.id = q)
       /\ Votado(Derecho(q))

RecibosCiertos == \A q \in Peticiones : ReciboCierto(q)

\* What is true of a receipt stays true while votes are only added.
LEMMA ReciboEstable ==
  ASSUME NEW q \in Peticiones, ReciboCierto(q), votos \subseteq votos',
         pc'[q] = pc[q], peticion'[q] = peticion[q], respuesta'[q] = respuesta[q]
  PROVE  ReciboCierto(q)'
<1>1. Votado(Derecho(q)) => Votado(Derecho(q))'
  BY DEF Votado, Derecho
<1>2. \A v \in votos : Avala(v, q) => Avala(v, q)'
  BY DEF Avala, Derecho, Clave
<1>3. QED
  BY <1>1, <1>2 DEF ReciboCierto

\* A vote that a handler finds, by its right or by its key, gives a true receipt.
LEMMA ReciboResuelto ==
  ASSUME Inv, NEW r \in Peticiones, NEW id, Resolver(r, id), UNCHANGED <<votos, peticion>>,
         \E v \in votos : v.id = id /\ (v.derecho = Derecho(r) \/ v.clave = Clave(r))
  PROVE  ReciboCierto(r)'
<1>1. pc'[r] = "resuelta" /\ respuesta'[r] = [tipo |-> "existente", voto |-> id]
  BY DEF Resolver, Ir, Inv, TypeOK
<1>2. \E v \in votos' : Avala(v, r)'
  BY <1>1 DEF Avala, Derecho, Clave
<1>3. QED
  BY <1>1, <1>2 DEF ReciboCierto

\* What a step of r makes of its own receipt.
LEMMA ReciboCiertoPropio ==
  ASSUME Inv, RecibosCiertos, NEW r \in Peticiones, Emitir(r)
  PROVE  ReciboCierto(r)'
<1> USE DEF Inv, TypeOK, Ir
<1>a. ReciboCierto(r)
  BY DEF RecibosCiertos
<1>1. CASE Comenzar(r) \/ Leer(r) \/ Bloquear(r) \/ Rechazar(r) \/ Caer(r)
  BY <1>1 DEF Comenzar, Leer, Bloquear, Rechazar, Caer, ReciboCierto, EnMarcha, EnTransaccion, ConCandado
<1>2. CASE Prohibir(r) \/ Validar(r) \/ Insertar(r) \/ Abortar(r)
  BY <1>2 DEF Prohibir, Validar, Insertar, Abortar, Contestar, ReciboCierto, EnMarcha, EnTransaccion, ConCandado
<1>3. CASE Repetir(r)
  <2>1. pc[r] = "bloqueada" /\ fila[r].por_clave # Nulo /\ Resolver(r, fila[r].por_clave)
        /\ UNCHANGED <<votos, peticion>>
    BY <1>3 DEF Repetir, tablas
  <2>2. \E v \in votos : v.id = fila[r].por_clave /\ v.clave = Clave(r)
    BY <2>1 DEF LecturaVigente, FilaVigente, Vigente
  <2>3. QED
    BY <2>1, <2>2, ReciboResuelto
<1>4. CASE RegistrarRechazo(r)
  <2>1. pc[r] = "rechazada" /\ UNCHANGED <<votos, peticion>>
    BY <1>4 DEF RegistrarRechazo
  <2>2. CASE MotivoDe(fila[r]) = "derecho_ya_ejercido"
    <3>1. fila[r].voto # Nulo
      BY <2>2 DEF MotivoDe
    <3>2. \E v \in votos : v.id = fila[r].voto /\ v.derecho = Derecho(r)
      BY <2>1, <3>1 DEF LecturaVigente, FilaVigente, Vigente
    <3>3. Resolver(r, fila[r].voto)
      BY <1>4, <2>2 DEF RegistrarRechazo
    <3>4. QED
      BY <2>1, <3>2, <3>3, ReciboResuelto
  <2>3. CASE MotivoDe(fila[r]) # "derecho_ya_ejercido"
    BY <1>4, <2>3 DEF RegistrarRechazo, Contestar, ReciboCierto
  <2>4. QED
    BY <2>2, <2>3
<1>5. CASE Confirmar(r)
  <2>1. \E v \in votos' : v.id = r
    BY <1>5, NuevoVoto
  <2>2. pc'[r] = "confirmada"
    BY <1>5 DEF Confirmar
  <2>3. QED
    BY <2>1, <2>2 DEF ReciboCierto
<1>6. CASE Responder(r)
  <2>1. PICK v \in votos : v.id = r
    BY <1>a, <1>6 DEF Responder, ReciboCierto
  <2>2. v.derecho = Derecho(r)
    BY <2>1 DEF VotoDeSuPeticion
  <2>3. /\ UNCHANGED <<votos, peticion>> /\ pc'[r] = "respondida"
        /\ respuesta'[r] = [tipo |-> "creado", voto |-> r]
    BY <1>6 DEF Responder, Contestar, tablas
  <2>4. Avala(v, r)' /\ Votado(Derecho(r))'
    BY <2>1, <2>2, <2>3 DEF Avala, Votado, Derecho, Clave
  <2>5. QED
    BY <2>1, <2>3, <2>4 DEF ReciboCierto
<1>7. CASE Recuperar(r)
  <2> DEFINE F == {v \in votos : v.derecho = Derecho(r)}
  <2>1. pc[r] = "colision" /\ UNCHANGED <<votos, peticion>>
    BY <1>7 DEF Recuperar, tablas
  <2>2. IdDe(F) # Nulo => \E v \in F : v.id = IdDe(F)
    BY IdDeTipo
  <2>3. CASE IdDe(F) = Nulo
    BY <1>7, <2>3 DEF Recuperar, Contestar, ReciboCierto
  <2>4. CASE IdDe(F) # Nulo
    <3>1. Resolver(r, IdDe(F))
      BY <1>7, <2>4 DEF Recuperar
    <3>2. \E v \in votos : v.id = IdDe(F) /\ v.derecho = Derecho(r)
      BY <2>2, <2>4
    <3> HIDE DEF F
    <3>3. QED
      BY <2>1, <3>1, <3>2, ReciboResuelto
  <2>5. QED
    BY <2>3, <2>4
<1>8. CASE Presentar(r)
  <2>1. /\ pc[r] = "resuelta" /\ pc'[r] = "respondida" /\ UNCHANGED <<votos, peticion>>
        /\ IF Votado(Derecho(r)) THEN respuesta' = respuesta
           ELSE respuesta'[r] = [tipo |-> "error", voto |-> Nulo]
    BY <1>8 DEF Presentar, tablas
  <2>2. CASE ~Votado(Derecho(r))
    BY <2>1, <2>2 DEF ReciboCierto
  <2>3. CASE Votado(Derecho(r))
    <3>1. PICK v \in votos : Avala(v, r)
      BY <1>a, <2>1 DEF ReciboCierto
    <3>2. v.id # r /\ respuesta[r].tipo = "existente"
      BY <1>a, <2>1 DEF VotoDeSuPeticion, ReciboCierto
    <3>3. Avala(v, r)' /\ Votado(Derecho(r))'
      BY <2>1, <2>3, <3>1 DEF Avala, Votado, Derecho, Clave
    <3>4. QED
      BY <2>1, <2>3, <3>2, <3>3 DEF ReciboCierto
  <2>4. QED
    BY <2>2, <2>3
<1>9. QED
  BY <1>1, <1>2, <1>3, <1>4, <1>5, <1>6, <1>7, <1>8 DEF Emitir, Avanzar

\* Every step of the system keeps every receipt true.
LEMMA RecibosCiertosPaso ==
  ASSUME Inv, RecibosCiertos, [Next]_vars
  PROVE  RecibosCiertos'
<1>1. ASSUME NEW r \in Peticiones, Emitir(r), NEW q \in Peticiones PROVE ReciboCierto(q)'
  <2>1. CASE q = r
    BY <1>1, <2>1, ReciboCiertoPropio
  <2>2. CASE q # r
    <3>1. /\ pc'[q] = pc[q] /\ peticion'[q] = peticion[q] /\ respuesta'[q] = respuesta[q]
          /\ votos \subseteq votos'
      BY <1>1, <2>2, SoloLoSuyo, RespuestaAjena DEF Inv
    <3>2. QED
      BY <3>1, ReciboEstable DEF RecibosCiertos
  <2>3. QED
    BY <2>1, <2>2
<1>2. CASE Entorno \/ UNCHANGED vars
  <2>1. UNCHANGED tablas /\ UNCHANGED locales
    BY <1>2, EntornoConserva DEF vars
  <2>2. QED
    BY <2>1, ReciboEstable DEF RecibosCiertos, tablas, locales
<1>3. QED
  BY <1>1, <1>2 DEF Next, RecibosCiertos

\* A receipt names a vote that is in the table, the request's own exactly when it says
\* "creado", and the right whose ballot it describes has been exercised, whichever
\* retries, collisions and crashes came before it.
THEOREM ComprobantesVeraces == Spec => []ComprobanteVeraz
<1>1. Init => RecibosCiertos
  BY DEF Init, RecibosCiertos, ReciboCierto
<1>2. Inv /\ RecibosCiertos /\ [Next]_vars => RecibosCiertos'
  BY RecibosCiertosPaso
<1>3. RecibosCiertos => ComprobanteVeraz
  BY DEF RecibosCiertos, ReciboCierto, Avala, ComprobanteVeraz
<1>4. QED
  BY <1>1, <1>2, <1>3, Invariante, PTL DEF Spec
=============================================================================
