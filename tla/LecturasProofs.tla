---------------------------- MODULE LecturasProofs ---------------------------
(***************************************************************************)
(* Theorems about what is read of a proceso while it runs, for any number  *)
(* of clients, rights, aulas, hours, reports, executions, votes and late   *)
(* edits.                                                                  *)
(***************************************************************************)
EXTENDS Lecturas, FiniteSetTheorems, TLAPS

(* The inductive invariant *)

Listas  == {"desglose", "aulas", "franjas"}
Vistas  == {"resultados", "resumen", "avance", "votos-hora", "proyeccion", "archivo", Nulo} \cup Trabajos
Fases   == {"libre", "buscar", "contar", "agrupar", "guardar", "servir"}
Voto    == [derecho : Derechos, papeleta : Papeletas, hora : Nat]
Escrita == [oculto : BOOLEAN, aulas : SUBSET Aulas, hora : Nat]
Sumas   == UNION {[S -> Nat] : S \in SUBSET Listas}
Foto    == [votos : SUBSET Voto, version : Nat]
Carga   == [vista : Vistas, total : Nat \cup {Nulo}, partes : Sumas, hora : Nat, desde : Nat, hasta : Nat,
            desglose : BOOLEAN]
Lector  == [fase : Fases, vista : Vistas, desde : Nat, cierre : Nat \cup {Nulo}, ahora : Nat,
            foto : Foto \cup {Nulo}, carga : Carga \cup {Nulo}]
Seccion == Sensibles \cup {"resumen", "por_aula", "votantes", "abstenciones", "candidatos", "consultas"}
Informe == [estado : {"sin_solicitar", "borrador", "emitida", "fallido"},
            contenido : SUBSET Seccion, archivo : SUBSET Seccion, gate : BOOLEAN]

\* The proceso: a vote is not earlier than the opening, the close is written once.
TiposProceso ==
  /\ estado \in {"borrador", "abierto", "cerrado"}
  /\ versiones \in Seq(Escrita) /\ Version \in Nat /\ Version >= 1
  /\ padron \subseteq Derechos
  /\ votos \subseteq Voto /\ IsFiniteSet(votos)
  /\ apertura \in Nat /\ reloj \in Nat /\ cierre \in Nat \cup {Nulo}
  /\ estado = "borrador" => votos = {}
  /\ estado # "cerrado" => cierre = Nulo
  /\ \A v \in votos : apertura <= v.hora
TiposTablero ==
  /\ cache \in [ConCache -> Carga \cup {Nulo}]
  /\ lector \in [Lectores -> Lector]
  /\ respuesta \in [Lectores -> Carga \cup {Nulo}]
TiposReportes ==
  /\ reporte \in [Trabajos -> Informe]
  /\ leido \in [Ejecutores -> BOOLEAN]
Tipos == TiposProceso /\ TiposTablero /\ TiposReportes /\ agenda \in Agendas

\* The policy was visible at some version from the one of the request on.
Mostrable(c, hasta) == c.desglose => \E v \in c.desde .. hasta : ~versiones[v].oculto

\* The lists of a payload against its total.
Cuadra(c) ==
  c.total # Nulo => \A p \in DOMAIN c.partes : c.partes[p] <= c.total /\ (Cubre(p, c) => c.partes[p] = c.total)

\* A payload that adds up, computed under a policy that showed it.
Buena(c, hasta) == c \in Carga /\ c.desde >= 1 /\ Cuadra(c) /\ Mostrable(c, hasta)

\* What a request has read so far is of before, and still true of the part of the past it read.
Veraz(l) ==
  /\ l.fase # "libre" => l.desde \in 1 .. Version
  /\ l.fase \in {"buscar", "contar", "agrupar"} => l.cierre \in {Nulo, cierre}
  /\ l.fase = "agrupar" =>
       /\ l.foto \in Foto /\ l.foto.votos \subseteq votos /\ l.foto.version \in l.desde .. Version
       /\ l.carga \in Carga /\ l.carga.desde = l.desde /\ l.carga.hora = l.ahora
       /\ l.carga.total \in {Nulo, Cardinality(l.foto.votos)}
       /\ Mostrable(l.carga, Version)
  /\ l.fase = "guardar" => l.vista \in ConCache /\ Buena(l.carga, Version)
  /\ l.fase = "servir" => l.vista \in Trabajos
LectoresVeraces == \A h \in Lectores : Veraz(lector[h])

CacheVeraz == \A k \in ConCache : cache[k] # Nulo => Buena(cache[k], Version)

RespuestaVeraz ==
  \A h \in Lectores : LET r == respuesta[h] IN r # Nulo => r.hasta <= Version /\ Buena(r, r.hasta)

\* Only a report of a sensitive dimension has sensitive sections, and its file only if it was
\* written with the gate open.
ReporteVeraz ==
  \A t \in Trabajos :
    /\ reporte[t].contenido \cap Sensibles # {} => EsSensible(Dimension[t])
    /\ reporte[t].archivo \cap Sensibles # {} => EsSensible(Dimension[t]) /\ ~reporte[t].gate

InvLecturas == Tipos /\ LectoresVeraces /\ CacheVeraz /\ RespuestaVeraz /\ ReporteVeraz
-----------------------------------------------------------------------------
\* A request that is not being answered has read nothing.
LEMMA ParadoVeraz == Parado \in Lector /\ Parado.fase = "libre" /\ Veraz(Parado)
<1>1. Nulo \in Vistas
  BY DEF Vistas
<1>2. Parado \in Lector /\ Parado.fase = "libre"
  BY <1>1 DEF Parado, Lector, Fases
<1> HIDE DEF Parado
<1>3. QED
  BY <1>2 DEF Veraz

\* Nothing has been read yet: no payload, no file.
LEMMA InicioLecturas == ConstantesLecturas /\ Init => InvLecturas
<1> SUFFICES ASSUME ConstantesLecturas, Init PROVE InvLecturas
  OBVIOUS
<1>1. TiposProceso
  <2>1. PICK e \in agenda.ediciones : versiones = <<[oculto |-> e.oculto, aulas |-> e.aulas, hora |-> 0]>>
    BY DEF Init
  <2>2. e \in Edicion
    BY <2>1 DEF Init, ConstantesLecturas, Agenda
  <2> DEFINE w == [oculto |-> e.oculto, aulas |-> e.aulas, hora |-> 0]
  <2>3. w \in Escrita
    BY <2>2 DEF Edicion, Escrita
  <2> HIDE DEF w
  <2>4. versiones = <<w>>
    BY <2>1 DEF w
  <2>5. versiones \in Seq(Escrita) /\ Len(versiones) = 1
    BY <2>3, <2>4
  <2>6. IsFiniteSet({})
    BY FS_EmptySet
  <2>7. QED
    BY <2>5, <2>6 DEF Init, TiposProceso, Version
<1>2. TiposTablero
  BY ParadoVeraz DEF Init, TiposTablero
<1>3. TiposReportes
  BY DEF Init, TiposReportes, Informe
<1>4. LectoresVeraces
  <2>1. \A h \in Lectores : lector[h] = Parado
    BY DEF Init
  <2>2. QED
    BY <2>1, ParadoVeraz DEF LectoresVeraces
<1>5. CacheVeraz /\ RespuestaVeraz /\ ReporteVeraz
  BY DEF Init, CacheVeraz, RespuestaVeraz, ReporteVeraz
<1>6. agenda \in Agendas
  BY DEF Init
<1>7. QED
  BY <1>1, <1>2, <1>3, <1>4, <1>5, <1>6 DEF InvLecturas, Tipos
-----------------------------------------------------------------------------
(* The proceso *)

\* The votes and the edits are only added to, and the close is written once.
Crece ==
  /\ votos \subseteq votos'
  /\ Version <= Version'
  /\ \A v \in 1 .. Version : versiones'[v] = versiones[v]
  /\ cierre # Nulo => cierre' = cierre

\* An edit is one version more.
LEMMA EditarCrece ==
  ASSUME TiposProceso, NEW e \in Edicion, Editar(e)
  PROVE  TiposProceso' /\ Crece
<1> DEFINE w == [oculto |-> e.oculto, aulas |-> e.aulas, hora |-> reloj]
<1>1. w \in Escrita
  BY DEF Edicion, Escrita, TiposProceso
<1> HIDE DEF w
<1>2. versiones' = Append(versiones, w) /\ UNCHANGED <<estado, padron, votos, apertura, cierre, reloj>>
  BY DEF Editar, w
<1>3. versiones \in Seq(Escrita) /\ Len(versiones) \in Nat /\ Len(versiones) >= 1
  BY DEF TiposProceso, Version
<1>4. versiones' \in Seq(Escrita) /\ Len(versiones') = Len(versiones) + 1
  BY <1>1, <1>2, <1>3
<1>5. \A v \in 1 .. Len(versiones) : versiones'[v] = versiones[v]
  BY <1>1, <1>2, <1>3
<1>6. TiposProceso'
  BY <1>2, <1>3, <1>4 DEF TiposProceso, Version
<1>7. QED
  BY <1>2, <1>3, <1>4, <1>5, <1>6 DEF Crece, Version

\* A vote is of the hour of its BEGIN, which is not before the opening.
LEMMA VotarCrece ==
  ASSUME TiposProceso, NEW d, NEW p \in Papeletas, NEW hora \in apertura .. reloj, Votar(d, p, hora)
  PROVE  TiposProceso' /\ Crece
<1> DEFINE w == [derecho |-> d, papeleta |-> p, hora |-> hora]
<1>1. d \in Derechos /\ hora \in Nat /\ apertura <= hora /\ estado # "borrador"
  BY DEF Votar, TiposProceso
<1>2. w \in Voto /\ w.hora = hora
  BY <1>1 DEF Voto
<1> HIDE DEF w
<1>3. votos' = votos \cup {w} /\ UNCHANGED <<estado, versiones, padron, apertura, cierre, reloj>>
  BY DEF Votar, w
<1>4. IsFiniteSet(votos')
  BY <1>3, FS_AddElement DEF TiposProceso
<1>5. TiposProceso'
  BY <1>1, <1>2, <1>3, <1>4 DEF TiposProceso, Version
<1>6. QED
  BY <1>3, <1>5 DEF Crece, Version, TiposProceso

\* Whatever happens to the proceso, what was read of it stays true.
LEMMA ProcesoCrece ==
  ASSUME ConstantesLecturas, Tipos, Proceso
  PROVE  TiposProceso' /\ Crece
<1>1. TiposProceso /\ agenda \in Agenda
  BY DEF Tipos, ConstantesLecturas
<1>2. ASSUME Abrir PROVE TiposProceso' /\ Crece
  <2>1. /\ padron' \subseteq Derechos /\ apertura' \in Nat /\ estado' = "abierto" /\ votos = {}
        /\ UNCHANGED <<versiones, votos, cierre, reloj>>
    BY <1>1, <1>2 DEF Abrir, TiposProceso
  <2>2. estado # "cerrado"
    BY <1>2 DEF Abrir
  <2>3. QED
    BY <1>1, <2>1, <2>2 DEF TiposProceso, Version, Crece
<1>3. ASSUME Cerrar PROVE TiposProceso' /\ Crece
  <2>1. /\ cierre' \in Nat /\ estado' = "cerrado" /\ cierre = Nulo
        /\ UNCHANGED <<versiones, padron, votos, apertura, reloj>>
    BY <1>1, <1>3 DEF Cerrar, TiposProceso
  <2>2. QED
    BY <1>1, <2>1 DEF TiposProceso, Version, Crece
<1>4. ASSUME DarLaHora PROVE TiposProceso' /\ Crece
  <2>1. reloj' \in Nat /\ UNCHANGED <<estado, versiones, padron, votos, apertura, cierre>>
    BY <1>1, <1>4 DEF DarLaHora, TiposProceso
  <2>2. QED
    BY <1>1, <2>1 DEF TiposProceso, Version, Crece
<1>5. agenda.papeletas \subseteq Papeletas /\ agenda.ediciones \subseteq Edicion
  BY <1>1 DEF Agenda
<1>6. QED
  BY <1>1, <1>2, <1>3, <1>4, <1>5, EditarCrece, VotarCrece DEF Proceso

\* What was visible stays so.
LEMMA MostrableSigue ==
  ASSUME TiposProceso, TiposProceso', Crece, NEW c, c.desde \in Nat, c.desde >= 1, NEW n \in Nat, n <= Version,
         Mostrable(c, n)
  PROVE  Mostrable(c, n)' /\ Mostrable(c, Version)'
<1>1. Version \in Nat /\ Version' \in Nat /\ Version <= Version' /\ \A v \in 1 .. Version : versiones'[v] = versiones[v]
  BY DEF Crece, TiposProceso
<1>2. ASSUME c.desglose PROVE \E v \in c.desde .. n : v \in c.desde .. Version' /\ ~versiones'[v].oculto
  <2>1. PICK v \in c.desde .. n : ~versiones[v].oculto
    BY <1>2 DEF Mostrable
  <2>2. v \in 1 .. Version /\ v \in c.desde .. Version'
    BY <1>1, <2>1
  <2>3. versiones'[v] = versiones[v]
    BY <1>1, <2>2
  <2>4. QED
    BY <2>1, <2>2, <2>3
<1>3. QED
  BY <1>2 DEF Mostrable

\* A list that is about every vote now was about every vote before.
LEMMA CubreAntes ==
  ASSUME TiposProceso, TiposProceso', Crece, NEW c, c.desde \in Nat, c.desde >= 1, NEW p, Cubre(p, c)'
  PROVE  Cubre(p, c)
<1>1. Version \in Nat /\ Version' \in Nat /\ Version <= Version' /\ votos \subseteq votos'
  BY DEF Crece, TiposProceso
<1>2. ASSUME NEW v \in votos, NEW i \in c.desde .. Version
      PROVE  v \in votos' /\ i \in c.desde .. Version' /\ versiones'[i] = versiones[i]
  <2>1. i \in 1 .. Version /\ i \in c.desde .. Version'
    BY <1>1, <1>2
  <2>2. QED
    BY <1>1, <2>1 DEF Crece
<1>3. CASE p = "desglose"
  BY <1>1, <1>3 DEF Cubre
<1>4. CASE p = "aulas"
  <2>1. \A v \in votos' : \A i \in c.desde .. Version' : AulaDe[v.derecho] \in versiones'[i].aulas
    BY <1>4 DEF Cubre
  <2>2. \A v \in votos : \A i \in c.desde .. Version : AulaDe[v.derecho] \in versiones[i].aulas
    BY <1>2, <2>1
  <2>3. QED
    BY <1>4, <2>2 DEF Cubre
<1>5. CASE p # "desglose" /\ p # "aulas"
  <2>1. \A v \in votos' : v.hora <= c.hora /\ (cierre' # Nulo => v.hora <= cierre')
    BY <1>5 DEF Cubre
  <2>2. \A v \in votos : v.hora <= c.hora /\ (cierre # Nulo => v.hora <= cierre)
    BY <1>1, <2>1 DEF Crece
  <2>3. QED
    BY <1>5, <2>2 DEF Cubre
<1>6. QED
  BY <1>3, <1>4, <1>5

\* A payload that was good stays so, whatever commits afterwards.
LEMMA BuenaSigue ==
  ASSUME TiposProceso, TiposProceso', Crece, NEW c, NEW n \in Nat, n <= Version, Buena(c, n)
  PROVE  Buena(c, n)' /\ Buena(c, Version)'
<1>1. c \in Carga /\ c.desde \in Nat /\ c.desde >= 1 /\ Cuadra(c) /\ Mostrable(c, n)
  BY DEF Buena, Carga
<1>2. Cuadra(c)'
  <2>1. ASSUME NEW p, Cubre(p, c)' PROVE Cubre(p, c)
    BY <1>1, <2>1, CubreAntes
  <2>2. QED
    BY <1>1, <2>1 DEF Cuadra
<1>3. QED
  BY <1>1, <1>2, MostrableSigue DEF Buena

\* A request that did not move knows as much as before.
LEMMA VerazSigue ==
  ASSUME TiposProceso, TiposProceso', Crece, NEW l \in Lector, Veraz(l)
  PROVE  Veraz(l)'
<1>1. Version \in Nat /\ Version' \in Nat /\ Version <= Version' /\ votos \subseteq votos'
  BY DEF Crece, TiposProceso
<1>2. l.fase # "libre" => l.desde \in 1 .. Version'
  BY <1>1 DEF Veraz
<1>3. l.fase \in {"buscar", "contar", "agrupar"} => l.cierre \in {Nulo, cierre'}
  BY DEF Veraz, Crece
<1>4. ASSUME l.fase = "agrupar"
      PROVE  /\ l.foto.votos \subseteq votos' /\ l.foto.version \in l.desde .. Version'
             /\ Mostrable(l.carga, Version)'
  <2>1. /\ l.foto.votos \subseteq votos /\ l.foto.version \in l.desde .. Version /\ l.carga \in Carga
        /\ l.carga.desde = l.desde /\ l.desde \in 1 .. Version /\ Mostrable(l.carga, Version)
    BY <1>4 DEF Veraz
  <2>2. Mostrable(l.carga, Version)'
    BY <1>1, <2>1, MostrableSigue
  <2>3. QED
    BY <1>1, <2>1, <2>2
<1>5. ASSUME l.fase = "guardar" PROVE l.vista \in ConCache /\ Buena(l.carga, Version)'
  BY <1>1, <1>5, BuenaSigue DEF Veraz
<1>6. QED
  BY <1>2, <1>3, <1>4, <1>5 DEF Veraz

\* A late edit, a vote, the clock and the close take nothing back from what is cached, answered or under way.
LEMMA ProcesoConserva ==
  ASSUME ConstantesLecturas, InvLecturas, Proceso
  PROVE  InvLecturas'
<1>1. TiposProceso /\ TiposProceso' /\ Crece /\ Tipos
  BY ProcesoCrece DEF InvLecturas, Tipos
<1>2. UNCHANGED <<cache, lector, respuesta, reporte, leido, agenda>>
  BY DEF Proceso, varsTablero, varsReportes
<1>3. Version \in Nat /\ Version' \in Nat /\ Version <= Version'
  BY <1>1 DEF Crece, TiposProceso
<1>4. Tipos'
  BY <1>1, <1>2 DEF Tipos, TiposTablero, TiposReportes
<1>5. CacheVeraz'
  <2>1. ASSUME NEW k \in ConCache, cache[k] # Nulo PROVE Buena(cache[k], Version)'
    <3>1. PICK c : c = cache[k]
      OBVIOUS
    <3>2. Buena(c, Version)
      BY <2>1, <3>1 DEF InvLecturas, CacheVeraz
    <3>3. Buena(c, Version)'
      BY <1>1, <1>3, <3>2, BuenaSigue
    <3>4. QED
      BY <1>2, <3>1, <3>3
  <2>2. QED
    BY <1>2, <2>1 DEF CacheVeraz
<1>6. RespuestaVeraz'
  <2>1. ASSUME NEW h \in Lectores, respuesta[h] # Nulo
        PROVE  respuesta[h].hasta <= Version' /\ Buena(respuesta[h], respuesta[h].hasta)'
    <3>1. PICK r : r = respuesta[h]
      OBVIOUS
    <3>2. Buena(r, r.hasta) /\ r.hasta <= Version
      BY <2>1, <3>1 DEF InvLecturas, RespuestaVeraz
    <3>3. r.hasta \in Nat
      BY <3>2 DEF Buena, Carga
    <3>4. Buena(r, r.hasta)'
      BY <1>1, <3>2, <3>3, BuenaSigue
    <3>5. QED
      BY <1>2, <1>3, <3>1, <3>2, <3>3, <3>4
  <2>2. QED
    BY <1>2, <2>1 DEF RespuestaVeraz
<1>7. LectoresVeraces'
  <2>1. ASSUME NEW h \in Lectores PROVE Veraz(lector[h])'
    <3>1. PICK l : l = lector[h]
      OBVIOUS
    <3>2. l \in Lector /\ Veraz(l)
      BY <3>1 DEF InvLecturas, Tipos, TiposTablero, LectoresVeraces
    <3>3. Veraz(l)'
      BY <1>1, <3>2, VerazSigue
    <3>4. QED
      BY <1>2, <3>1, <3>3
  <2>2. QED
    BY <2>1 DEF LectoresVeraces
<1>8. ReporteVeraz'
  BY <1>2 DEF InvLecturas, ReporteVeraz
<1>9. QED
  BY <1>4, <1>5, <1>6, <1>7, <1>8 DEF InvLecturas
-----------------------------------------------------------------------------
(* The tablero and the panel *)

\* Without a step of the proceso, whatever was true of what was read is true.
LEMMA Quieto ==
  ASSUME UNCHANGED varsProceso
  PROVE  /\ \A c, n : Buena(c, n) <=> Buena(c, n)'
         /\ \A l : Veraz(l) <=> Veraz(l)'
         /\ Version' = Version /\ (TiposProceso => TiposProceso')
<1>1. UNCHANGED <<estado, versiones, padron, votos, apertura, cierre, reloj>>
  BY DEF varsProceso
<1>2. Version' = Version /\ (TiposProceso => TiposProceso')
  BY <1>1 DEF Version, TiposProceso
<1>3. \A p, c : Cubre(p, c) <=> Cubre(p, c)'
  BY <1>1, <1>2 DEF Cubre
<1>4. \A c, n : Mostrable(c, n) <=> Mostrable(c, n)'
  BY <1>1 DEF Mostrable
<1>5. \A c, n : Buena(c, n) <=> Buena(c, n)'
  BY <1>3, <1>4 DEF Buena, Cuadra
<1>6. \A l : Veraz(l) <=> Veraz(l)'
  BY <1>1, <1>2, <1>4, <1>5 DEF Veraz
<1>7. QED
  BY <1>2, <1>5, <1>6

\* The step of one client that leaves true what it has read, its answer and the cache.
LEMMA PasoConserva ==
  ASSUME InvLecturas, UNCHANGED <<varsProceso, varsReportes, agenda>>,
         lector' \in [Lectores -> Lector], \A h \in Lectores : Veraz(lector'[h]),
         respuesta' \in [Lectores -> Carga \cup {Nulo}],
         \A h \in Lectores : respuesta'[h] # Nulo =>
           respuesta'[h].hasta <= Version /\ Buena(respuesta'[h], respuesta'[h].hasta),
         cache' \in [ConCache -> Carga \cup {Nulo}],
         \A k \in ConCache : cache'[k] # Nulo => Buena(cache'[k], Version)
  PROVE  InvLecturas'
<1>1. /\ \A c, n : Buena(c, n) <=> Buena(c, n)'
      /\ \A l : Veraz(l) <=> Veraz(l)'
      /\ Version' = Version /\ (TiposProceso => TiposProceso')
  BY Quieto
<1>2. UNCHANGED <<reporte, leido, agenda>>
  BY DEF varsReportes
<1>3. Tipos'
  BY <1>1, <1>2 DEF InvLecturas, Tipos, TiposTablero, TiposReportes
<1>4. LectoresVeraces'
  <2>1. ASSUME NEW h \in Lectores PROVE Veraz(lector[h])'
    <3>1. PICK l : l = lector'[h]
      OBVIOUS
    <3>2. Veraz(l)'
      BY <1>1, <3>1
    <3>3. QED
      BY <3>1, <3>2
  <2>2. QED
    BY <2>1 DEF LectoresVeraces
<1>5. RespuestaVeraz'
  <2>1. ASSUME NEW h \in Lectores, respuesta'[h] # Nulo
        PROVE  respuesta'[h].hasta <= Version' /\ Buena(respuesta[h], respuesta[h].hasta)'
    <3>1. PICK r : r = respuesta'[h]
      OBVIOUS
    <3>2. Buena(r, r.hasta)'
      BY <1>1, <2>1, <3>1
    <3>3. QED
      BY <1>1, <2>1, <3>1, <3>2
  <2>2. QED
    BY <2>1 DEF RespuestaVeraz
<1>6. CacheVeraz'
  <2>1. ASSUME NEW k \in ConCache, cache'[k] # Nulo PROVE Buena(cache[k], Version)'
    <3>1. PICK c : c = cache'[k]
      OBVIOUS
    <3>2. Buena(c, Version)'
      BY <1>1, <2>1, <3>1
    <3>3. QED
      BY <3>1, <3>2
  <2>2. QED
    BY <2>1 DEF CacheVeraz
<1>7. ReporteVeraz'
  BY <1>2 DEF InvLecturas, ReporteVeraz
<1>8. QED
  BY <1>3, <1>4, <1>5, <1>6, <1>7 DEF InvLecturas

\* A request that goes on, on its own.
LEMMA AnotarConserva ==
  ASSUME InvLecturas, NEW h \in Lectores, NEW l \in Lector, Veraz(l), Anotar(h, l)
  PROVE  lector' \in [Lectores -> Lector] /\ \A q \in Lectores : Veraz(lector'[q])
<1>1. lector \in [Lectores -> Lector] /\ lector' = [lector EXCEPT ![h] = l]
  BY DEF InvLecturas, Tipos, TiposTablero, Anotar
<1>2. \A q \in Lectores : lector'[q] = IF q = h THEN l ELSE lector[q]
  BY <1>1
<1>3. QED
  BY <1>1, <1>2 DEF InvLecturas, LectoresVeraces

\* A good payload is a good answer, and ends the request.
LEMMA ContestarConserva ==
  ASSUME InvLecturas, NEW h \in Lectores, NEW c, Buena(c, Version), Contestar(h, c)
  PROVE  /\ lector' \in [Lectores -> Lector] /\ \A q \in Lectores : Veraz(lector'[q])
         /\ respuesta' \in [Lectores -> Carga \cup {Nulo}]
         /\ \A q \in Lectores : respuesta'[q] # Nulo =>
              respuesta'[q].hasta <= Version /\ Buena(respuesta'[q], respuesta'[q].hasta)
<1> DEFINE r == [c EXCEPT !.hasta = Version]
<1>1. Version \in Nat /\ c \in Carga /\ respuesta \in [Lectores -> Carga \cup {Nulo}]
  BY DEF InvLecturas, Tipos, TiposProceso, TiposTablero, Buena
<1>2. /\ r \in Carga /\ r.hasta = Version /\ r.partes = c.partes /\ r.total = c.total
      /\ r.desde = c.desde /\ r.desglose = c.desglose /\ r.hora = c.hora
  BY <1>1 DEF Carga
<1> HIDE DEF r
<1>3. respuesta' = [respuesta EXCEPT ![h] = r] /\ Anotar(h, Parado)
  BY DEF Contestar, r
<1>4. Cuadra(r)
  <2>1. \A p : Cubre(p, r) <=> Cubre(p, c)
    BY <1>2 DEF Cubre
  <2>2. QED
    BY <1>2, <2>1 DEF Buena, Cuadra
<1>5. Buena(r, Version)
  BY <1>2, <1>4 DEF Buena, Mostrable
<1>6. \A q \in Lectores : respuesta'[q] = IF q = h THEN r ELSE respuesta[q]
  BY <1>1, <1>3
<1>7. respuesta' \in [Lectores -> Carga \cup {Nulo}]
  BY <1>1, <1>2, <1>3
<1>8. ASSUME NEW q \in Lectores, respuesta'[q] # Nulo
      PROVE  respuesta'[q].hasta <= Version /\ Buena(respuesta'[q], respuesta'[q].hasta)
  <2>1. CASE q = h
    BY <1>1, <1>2, <1>5, <1>6, <2>1
  <2>2. CASE q # h
    BY <1>6, <1>8, <2>2 DEF InvLecturas, RespuestaVeraz
  <2>3. QED
    BY <2>1, <2>2
<1>9. QED
  BY <1>3, <1>7, <1>8, ParadoVeraz, AnotarConserva

\* A request that does not answer leaves the other answers.
LEMMA RespuestaQuieta ==
  ASSUME InvLecturas,
         UNCHANGED respuesta \/ \E h \in Lectores : respuesta' = [respuesta EXCEPT ![h] = Nulo]
  PROVE  /\ respuesta' \in [Lectores -> Carga \cup {Nulo}]
         /\ \A q \in Lectores : respuesta'[q] # Nulo =>
              respuesta'[q].hasta <= Version /\ Buena(respuesta'[q], respuesta'[q].hasta)
<1>1. respuesta \in [Lectores -> Carga \cup {Nulo}] /\ RespuestaVeraz
  BY DEF InvLecturas, Tipos, TiposTablero
<1>2. respuesta' \in [Lectores -> Carga \cup {Nulo}]
  BY <1>1
<1>3. \A q \in Lectores : respuesta'[q] # Nulo => respuesta'[q] = respuesta[q]
  BY <1>1
<1>4. QED
  BY <1>1, <1>2, <1>3 DEF RespuestaVeraz

\* A request reads the proceso before anything else.
LEMMA PedirVeraz ==
  ASSUME InvLecturas, NEW f \in {"buscar", "servir"}, NEW v \in Vistas, NEW x \in {Nulo, cierre},
         f = "servir" => v \in Trabajos
  PROVE  LET l == [Parado EXCEPT !.fase = f, !.vista = v, !.desde = Version, !.cierre = x] IN l \in Lector /\ Veraz(l)
<1> DEFINE l == [Parado EXCEPT !.fase = f, !.vista = v, !.desde = Version, !.cierre = x]
<1>1. Version \in Nat /\ Version >= 1 /\ cierre \in Nat \cup {Nulo}
  BY DEF InvLecturas, Tipos, TiposProceso
<1>2. l \in Lector /\ l.fase = f /\ l.vista = v /\ l.desde = Version /\ l.cierre = x
  BY <1>1, ParadoVeraz DEF Lector, Fases
<1> HIDE DEF l
<1>3. Veraz(l)
  BY <1>1, <1>2 DEF Veraz
<1>4. QED
  BY <1>2, <1>3 DEF l

\* A hit is the answer; a miss leaves the request with what it read of the proceso.
LEMMA BuscarConserva ==
  ASSUME InvLecturas, NEW h \in Lectores, Buscar(h)
  PROVE  /\ lector' \in [Lectores -> Lector] /\ \A q \in Lectores : Veraz(lector'[q])
         /\ respuesta' \in [Lectores -> Carga \cup {Nulo}]
         /\ \A q \in Lectores : respuesta'[q] # Nulo =>
              respuesta'[q].hasta <= Version /\ Buena(respuesta'[q], respuesta'[q].hasta)
<1> DEFINE v == lector[h].vista
           l == [lector[h] EXCEPT !.fase = "contar", !.ahora = reloj]
<1>1. /\ lector[h] \in Lector /\ Veraz(lector[h]) /\ lector[h].fase = "buscar" /\ reloj \in Nat
  BY DEF InvLecturas, Tipos, TiposTablero, TiposProceso, LectoresVeraces, Buscar, EnFase
<1>2. CASE v \in ConCache /\ cache[v] # Nulo /\ Contestar(h, cache[v])
  BY <1>2, ContestarConserva DEF InvLecturas, CacheVeraz
<1>3. CASE Anotar(h, l) /\ UNCHANGED respuesta
  <2>1. l \in Lector /\ l.fase = "contar" /\ l.desde = lector[h].desde /\ l.cierre = lector[h].cierre
    BY <1>1 DEF Lector, Fases
  <2> HIDE DEF l
  <2>2. Veraz(l)
    BY <1>1, <2>1 DEF Veraz
  <2>3. QED
    BY <1>3, <2>1, <2>2, AnotarConserva, RespuestaQuieta
<1>4. QED
  BY <1>2, <1>3 DEF Buscar

\* The desglose is decided by a policy of this very moment, or by the one the request read; the
\* snapshot is of this moment.
LEMMA ContarConserva ==
  ASSUME InvLecturas, NEW h \in Lectores, Contar(h)
  PROVE  lector' \in [Lectores -> Lector] /\ \A q \in Lectores : Veraz(lector'[q])
<1> DEFINE s == [votos |-> votos, version |-> Version]
           n == IF lector[h].vista = "votos-hora" THEN Nulo ELSE Cardinality(votos)
           b == Desglosa(h)
           c == [vista |-> lector[h].vista, total |-> n, partes |-> [p \in {} |-> 0], hora |-> lector[h].ahora,
                 desde |-> lector[h].desde, hasta |-> 0, desglose |-> b]
           l == [lector[h] EXCEPT !.fase = "agrupar", !.foto = s, !.carga = c]
<1>1. /\ TiposProceso /\ lector[h] \in Lector /\ Veraz(lector[h]) /\ lector[h].fase = "contar"
  BY DEF InvLecturas, Tipos, TiposTablero, LectoresVeraces, Contar, EnFase
<1>2. lector[h].desde \in 1 .. Version /\ lector[h].cierre \in {Nulo, cierre} /\ Version \in Nat
  BY <1>1 DEF Veraz, TiposProceso
<1>3. s \in Foto /\ s.votos = votos /\ s.version = Version
  BY <1>1 DEF Foto, TiposProceso
<1>4. n \in {Nulo, Cardinality(votos)} /\ n \in Nat \cup {Nulo}
  BY <1>1, FS_CardinalityType DEF TiposProceso
<1>5. b \in BOOLEAN
  BY DEF Desglosa
<1>6. [p \in {} |-> 0] \in Sumas
  <2>1. [p \in {} |-> 0] \in [{} -> Nat] /\ {} \in SUBSET Listas
    OBVIOUS
  <2>2. QED
    BY <2>1 DEF Sumas
<1>7. b => \E v \in lector[h].desde .. Version : ~versiones[v].oculto
  <2>1. ASSUME b PROVE ~versiones[Version].oculto \/ ~versiones[lector[h].desde].oculto
    BY <2>1 DEF Desglosa, Oculto, Actual
  <2>2. Version \in lector[h].desde .. Version /\ lector[h].desde \in lector[h].desde .. Version
    BY <1>2
  <2>3. QED
    BY <2>1, <2>2
<1>8. Anotar(h, l)
  BY DEF Contar
<1> HIDE DEF s, n, b
<1>9. /\ c \in Carga /\ c.desde = lector[h].desde /\ c.total = n /\ c.hora = lector[h].ahora /\ c.desglose = b
  BY <1>1, <1>2, <1>4, <1>5, <1>6 DEF Carga, Lector
<1> HIDE DEF c
<1>10. /\ l \in Lector /\ l.fase = "agrupar" /\ l.foto = s /\ l.carga = c /\ l.desde = lector[h].desde
       /\ l.ahora = lector[h].ahora /\ l.cierre = lector[h].cierre
  BY <1>1, <1>3, <1>9 DEF Lector, Fases
<1> HIDE DEF l
<1>11. Mostrable(c, Version)
  BY <1>7, <1>9 DEF Mostrable
<1>12. Veraz(l)
  <2>1. l.fase = "agrupar" /\ l.desde \in 1 .. Version /\ l.cierre \in {Nulo, cierre}
    BY <1>2, <1>10
  <2>2. l.foto \in Foto /\ l.foto.votos \subseteq votos /\ l.foto.version \in l.desde .. Version
    BY <1>2, <1>3, <1>10
  <2>3. /\ l.carga \in Carga /\ l.carga.desde = l.desde /\ l.carga.hora = l.ahora
        /\ l.carga.total \in {Nulo, Cardinality(l.foto.votos)} /\ Mostrable(l.carga, Version)
    BY <1>3, <1>4, <1>9, <1>10, <1>11
  <2>4. QED
    BY <2>1, <2>2, <2>3 DEF Veraz
<1>13. QED
  BY <1>8, <1>10, <1>12, AnotarConserva

\* The votes in the rows of a list are votes of the snapshot; all of them, if the list is about all.
LEMMA AgrupadosCubren ==
  ASSUME InvLecturas, NEW h \in Lectores, lector[h].fase = "agrupar", NEW p \in Listas,
         NEW c, c.desde = lector[h].desde, c.hora = lector[h].ahora
  PROVE  /\ Agrupados(h, p) \subseteq lector[h].foto.votos
         /\ Cubre(p, c) => Agrupados(h, p) = lector[h].foto.votos
<1> DEFINE l == lector[h]
           V == l.foto.votos
<1>1. /\ TiposProceso /\ l \in Lector /\ l.foto \in Foto /\ V \subseteq votos /\ l.cierre \in {Nulo, cierre}
      /\ l.foto.version \in l.desde .. Version
  BY DEF InvLecturas, Tipos, TiposTablero, LectoresVeraces, Veraz
<1>2. \A v \in V : v \in votos /\ v.papeleta \in Papeletas /\ v.hora \in Nat /\ apertura <= v.hora
  BY <1>1 DEF TiposProceso, Voto
<1>3. CASE p = "desglose"
  <2>1. Agrupados(h, p) = {v \in V : v.papeleta = "catalogo"} \cup {v \in V : v.papeleta = "blanco"}
    BY <1>3 DEF Agrupados, Ve
  <2>2. Cubre(p, c) => \A v \in V : v.papeleta = "catalogo" \/ v.papeleta = "blanco"
    BY <1>2, <1>3 DEF Cubre, Papeletas
  <2>3. QED
    BY <2>1, <2>2
<1>4. CASE p = "aulas"
  <2>1. Agrupados(h, p) = {v \in V : AulaDe[v.derecho] \in versiones[l.foto.version].aulas}
    BY <1>4 DEF Agrupados, Ve
  <2>2. Cubre(p, c) => \A v \in V : AulaDe[v.derecho] \in versiones[l.foto.version].aulas
    BY <1>1, <1>2, <1>4 DEF Cubre
  <2>3. QED
    BY <2>1, <2>2
<1>5. CASE p = "franjas"
  <2>1. Agrupados(h, p) = {v \in V : v.hora \in apertura .. Ultima(h)}
    BY <1>5 DEF Agrupados, Ve
  <2>2. Ultima(h) = l.ahora \/ (cierre # Nulo /\ Ultima(h) = cierre)
    BY <1>1 DEF Ultima
  <2>3. ASSUME Cubre(p, c), NEW v \in V PROVE v.hora \in apertura .. Ultima(h)
    <3>1. v.hora <= c.hora /\ (cierre # Nulo => v.hora <= cierre)
      BY <1>2, <1>5, <2>3 DEF Cubre
    <3>2. c.hora \in Nat /\ Ultima(h) \in Nat /\ apertura \in Nat
      BY <1>1, <2>2 DEF Lector, TiposProceso
    <3>3. QED
      BY <1>2, <2>2, <3>1, <3>2
  <2>4. QED
    BY <2>1, <2>3
<1>6. QED
  BY <1>3, <1>4, <1>5 DEF Listas

\* The lists are summed in the snapshot of the total.
LEMMA AgruparConserva ==
  ASSUME InvLecturas, NEW h \in Lectores, Agrupar(h)
  PROVE  /\ lector' \in [Lectores -> Lector] /\ \A q \in Lectores : Veraz(lector'[q])
         /\ respuesta' \in [Lectores -> Carga \cup {Nulo}]
         /\ \A q \in Lectores : respuesta'[q] # Nulo =>
              respuesta'[q].hasta <= Version /\ Buena(respuesta'[q], respuesta'[q].hasta)
<1> DEFINE k == lector[h].carga
           S == Partes(k)
           f == [p \in S |-> Cardinality(Agrupados(h, p))]
           c == [k EXCEPT !.partes = f]
           l == [lector[h] EXCEPT !.fase = "guardar", !.foto = Nulo, !.carga = c]
<1>1. /\ TiposProceso /\ lector[h] \in Lector /\ Veraz(lector[h]) /\ lector[h].fase = "agrupar"
  BY DEF InvLecturas, Tipos, TiposTablero, LectoresVeraces, Agrupar, EnFase
<1>2. /\ k \in Carga /\ k.desde = lector[h].desde /\ k.hora = lector[h].ahora
      /\ k.total \in {Nulo, Cardinality(lector[h].foto.votos)} /\ Mostrable(k, Version)
      /\ lector[h].desde \in 1 .. Version /\ lector[h].foto.votos \subseteq votos
  BY <1>1 DEF Veraz
<1>3. S \subseteq Listas
  BY DEF Partes, Listas
<1>4. IF lector[h].vista \in ConCache THEN Anotar(h, l) /\ UNCHANGED respuesta ELSE Contestar(h, c)
  BY DEF Agrupar
<1> HIDE DEF S
<1>5. ASSUME NEW p \in S
      PROVE  /\ Cardinality(Agrupados(h, p)) \in Nat
             /\ Cardinality(Agrupados(h, p)) <= Cardinality(lector[h].foto.votos)
             /\ Cubre(p, k) => Cardinality(Agrupados(h, p)) = Cardinality(lector[h].foto.votos)
  <2>1. /\ Agrupados(h, p) \subseteq lector[h].foto.votos
        /\ Cubre(p, k) => Agrupados(h, p) = lector[h].foto.votos
    BY <1>1, <1>2, <1>3, AgrupadosCubren
  <2>2. IsFiniteSet(lector[h].foto.votos)
    BY <1>1, <1>2, FS_Subset DEF TiposProceso
  <2>3. QED
    BY <2>1, <2>2, FS_Subset, FS_CardinalityType
<1>6. f \in Sumas /\ DOMAIN f = S /\ \A p \in S : f[p] = Cardinality(Agrupados(h, p))
  <2>1. f \in [S -> Nat]
    BY <1>5
  <2>2. QED
    BY <1>3, <2>1 DEF Sumas
<1> HIDE DEF f, k
<1>7. /\ c \in Carga /\ c.partes = f /\ c.total = k.total /\ c.desde = k.desde /\ c.hora = k.hora
      /\ c.desglose = k.desglose
  BY <1>2, <1>6 DEF Carga
<1> HIDE DEF c
<1>8. Cuadra(c)
  <2>1. \A p : Cubre(p, c) <=> Cubre(p, k)
    BY <1>7 DEF Cubre
  <2>2. QED
    BY <1>2, <1>5, <1>6, <1>7, <2>1 DEF Cuadra
<1>9. Buena(c, Version)
  BY <1>2, <1>7, <1>8 DEF Buena, Mostrable
<1>10. CASE lector[h].vista \in ConCache
  <2>1. /\ l \in Lector /\ l.fase = "guardar" /\ l.carga = c /\ l.desde = lector[h].desde /\ l.vista = lector[h].vista
    BY <1>1, <1>7 DEF Lector, Fases
  <2> HIDE DEF l
  <2>2. Veraz(l)
    BY <1>2, <1>9, <1>10, <2>1 DEF Veraz
  <2>3. Anotar(h, l) /\ UNCHANGED respuesta
    BY <1>4, <1>10
  <2>4. QED
    BY <2>1, <2>2, <2>3, AnotarConserva, RespuestaQuieta
<1>11. CASE lector[h].vista \notin ConCache
  BY <1>4, <1>9, <1>11, ContestarConserva
<1>12. QED
  BY <1>10, <1>11

\* The payload that is answered may also be cached.
LEMMA GuardarConserva ==
  ASSUME InvLecturas, NEW h \in Lectores, Guardar(h)
  PROVE  /\ lector' \in [Lectores -> Lector] /\ \A q \in Lectores : Veraz(lector'[q])
         /\ respuesta' \in [Lectores -> Carga \cup {Nulo}]
         /\ \A q \in Lectores : respuesta'[q] # Nulo =>
              respuesta'[q].hasta <= Version /\ Buena(respuesta'[q], respuesta'[q].hasta)
         /\ cache' \in [ConCache -> Carga \cup {Nulo}]
         /\ \A k \in ConCache : cache'[k] # Nulo => Buena(cache'[k], Version)
<1> DEFINE c == lector[h].carga
           v == lector[h].vista
<1>1. Veraz(lector[h]) /\ lector[h].fase = "guardar" /\ cache \in [ConCache -> Carga \cup {Nulo}] /\ CacheVeraz
  BY DEF InvLecturas, Tipos, TiposTablero, LectoresVeraces, Guardar, EnFase
<1>2. Buena(c, Version) /\ v \in ConCache /\ c \in Carga
  BY <1>1 DEF Veraz, Buena
<1>3. Contestar(h, c) /\ (UNCHANGED cache \/ cache' = [cache EXCEPT ![v] = c])
  BY DEF Guardar
<1> HIDE DEF c, v
<1>4. cache' \in [ConCache -> Carga \cup {Nulo}]
  BY <1>1, <1>2, <1>3
<1>5. \A k \in ConCache : cache'[k] = cache[k] \/ cache'[k] = c
  BY <1>1, <1>3
<1>6. \A k \in ConCache : cache'[k] # Nulo => Buena(cache'[k], Version)
  BY <1>1, <1>2, <1>5 DEF CacheVeraz
<1>7. QED
  BY <1>2, <1>3, <1>4, <1>6, ContestarConserva

\* A step of the tablero keeps the invariant.
LEMMA TableroConserva ==
  ASSUME InvLecturas, ConstantesLecturas, NEW h \in Lectores, Tablero(h)
  PROVE  InvLecturas'
<1>1. UNCHANGED <<varsProceso, varsReportes, agenda>>
  BY DEF Tablero
<1>2. UNCHANGED cache => /\ cache' \in [ConCache -> Carga \cup {Nulo}]
                         /\ \A k \in ConCache : cache'[k] # Nulo => Buena(cache'[k], Version)
  BY DEF InvLecturas, Tipos, TiposTablero, CacheVeraz
<1>3. ASSUME NEW v \in agenda.vistas \ {"archivo"}, Pedir(h, v) PROVE InvLecturas'
  <2> DEFINE l == [Parado EXCEPT !.fase = "buscar", !.vista = v, !.desde = Version, !.cierre = cierre]
  <2>1. v \in Vistas
    <3>1. agenda \in Agenda
      BY DEF InvLecturas, Tipos, ConstantesLecturas
    <3>2. QED
      BY <1>3, <3>1 DEF Agenda, Vistas
  <2>2. l \in Lector /\ Veraz(l)
    BY <2>1, PedirVeraz
  <2>3. Anotar(h, l) /\ respuesta' = [respuesta EXCEPT ![h] = Nulo] /\ UNCHANGED cache
    BY <1>3 DEF Pedir
  <2> HIDE DEF l
  <2>4. QED
    BY <1>1, <1>2, <2>2, <2>3, AnotarConserva, RespuestaQuieta, PasoConserva
<1>4. CASE Buscar(h)
  BY <1>1, <1>2, <1>4, BuscarConserva, PasoConserva DEF Buscar
<1>5. CASE Contar(h)
  <2>1. UNCHANGED cache /\ UNCHANGED respuesta
    BY <1>5 DEF Contar
  <2>2. QED
    BY <1>1, <1>2, <1>5, <2>1, ContarConserva, RespuestaQuieta, PasoConserva
<1>6. CASE Agrupar(h)
  <2>1. UNCHANGED cache
    BY <1>6 DEF Agrupar
  <2>2. QED
    BY <1>1, <1>2, <1>6, <2>1, AgruparConserva, PasoConserva
<1>7. CASE Guardar(h)
  BY <1>1, <1>7, GuardarConserva, PasoConserva
<1>8. QED
  BY <1>3, <1>4, <1>5, <1>6, <1>7 DEF Tablero

\* The TTL of a key.
LEMMA ExpirarConserva ==
  ASSUME InvLecturas, NEW k \in ConCache, Expirar(k)
  PROVE  InvLecturas'
<1>1. /\ cache' = [cache EXCEPT ![k] = Nulo] /\ UNCHANGED <<lector, respuesta, varsProceso, varsReportes, agenda>>
  BY DEF Expirar
<1>2. cache \in [ConCache -> Carga \cup {Nulo}] /\ CacheVeraz /\ lector \in [Lectores -> Lector] /\ LectoresVeraces
  BY DEF InvLecturas, Tipos, TiposTablero
<1>3. cache' \in [ConCache -> Carga \cup {Nulo}]
  BY <1>1, <1>2
<1>4. \A q \in ConCache : cache'[q] # Nulo => cache'[q] = cache[q]
  BY <1>1, <1>2
<1>5. \A q \in ConCache : cache'[q] # Nulo => Buena(cache'[q], Version)
  BY <1>2, <1>4 DEF CacheVeraz
<1>6. QED
  BY <1>1, <1>2, <1>3, <1>5, RespuestaQuieta, PasoConserva DEF LectoresVeraces
-----------------------------------------------------------------------------
(* The reports *)

\* The sections that a closed gate leaves out are those of the sensitive dimensions.
LEMMA SeccionesSensibles ==
  ASSUME ConstantesLecturas, NEW t \in Trabajos, NEW g \in BOOLEAN
  PROVE  /\ Secciones(Dimension[t], g) \in SUBSET Seccion
         /\ Secciones(Dimension[t], g) \cap Sensibles # {} => EsSensible(Dimension[t])
<1>1. Dimension[t] \in {"participacion", "votantes", "abstenciones", "resultados", "candidatos", "consultas"}
  BY DEF ConstantesLecturas
<1>2. CASE Dimension[t] \in {"participacion", "resultados"}
  <2>1. EsSensible(Dimension[t])
    BY <1>2 DEF EsSensible
  <2>2. Secciones(Dimension[t], g) \in SUBSET Seccion
    <3>1. CASE Dimension[t] = "participacion"
      BY <3>1 DEF Secciones, Seccion, Sensibles
    <3>2. CASE Dimension[t] = "resultados"
      BY <3>2 DEF Secciones, Seccion, Sensibles
    <3>3. QED
      BY <1>2, <3>1, <3>2
  <2>3. QED
    BY <2>1, <2>2
<1>3. CASE Dimension[t] \in {"votantes", "abstenciones", "candidatos", "consultas"}
  <2>1. Secciones(Dimension[t], g) = {Dimension[t]}
    BY <1>3 DEF Secciones
  <2>2. Dimension[t] \notin Sensibles /\ Dimension[t] \in Seccion
    BY <1>3 DEF Sensibles, Seccion
  <2>3. QED
    BY <2>1, <2>2
<1>4. QED
  BY <1>1, <1>2, <1>3

\* The row of a report that changes, on its own.
LEMMA InformeConserva ==
  ASSUME TiposReportes, ReporteVeraz, NEW t, NEW f \in Informe, reporte' = [reporte EXCEPT ![t] = f],
         t \in Trabajos => /\ f.contenido \cap Sensibles # {} => EsSensible(Dimension[t])
                           /\ f.archivo \cap Sensibles # {} => EsSensible(Dimension[t]) /\ ~f.gate
  PROVE  reporte' \in [Trabajos -> Informe] /\ ReporteVeraz'
<1>1. reporte \in [Trabajos -> Informe]
  BY DEF TiposReportes
<1>2. reporte' \in [Trabajos -> Informe]
  BY <1>1
<1>3. \A x \in Trabajos : reporte'[x] = IF x = t THEN f ELSE reporte[x]
  BY <1>1
<1>4. QED
  BY <1>2, <1>3 DEF ReporteVeraz

\* A request of a report, its execution and its failure.
LEMMA ReportesConserva ==
  ASSUME ConstantesLecturas, InvLecturas, Reportes
  PROVE  InvLecturas'
<1>1. UNCHANGED <<varsTablero, varsProceso, agenda>>
  BY DEF Reportes
<1>2. TiposReportes /\ ReporteVeraz /\ reporte \in [Trabajos -> Informe] /\ leido \in [Ejecutores -> BOOLEAN]
  BY DEF InvLecturas, Tipos, TiposReportes
<1> DEFINE Bien == TiposReportes' /\ ReporteVeraz'
<1>3. UNCHANGED reporte /\ leido' \in [Ejecutores -> BOOLEAN] => Bien
  BY <1>2 DEF TiposReportes, ReporteVeraz
<1>4. UNCHANGED varsReportes => Bien
  BY <1>2, <1>3 DEF varsReportes
<1>5. ASSUME NEW t, NEW f \in Informe, reporte' = [reporte EXCEPT ![t] = f], UNCHANGED leido,
             t \in Trabajos => /\ f.contenido \cap Sensibles # {} => EsSensible(Dimension[t])
                               /\ f.archivo \cap Sensibles # {} => EsSensible(Dimension[t]) /\ ~f.gate
      PROVE  Bien
  BY <1>2, <1>5, InformeConserva DEF TiposReportes
<1> HIDE DEF Bien
<1>6. ASSUME NEW t \in Trabajos, Solicitar(t) PROVE Bien
  <2> DEFINE S == Secciones(Dimension[t], Gate(t))
             f == [reporte[t] EXCEPT !.estado = "borrador", !.contenido = S]
  <2>1. S \in SUBSET Seccion /\ (S \cap Sensibles # {} => EsSensible(Dimension[t]))
    <3>1. Gate(t) \in BOOLEAN
      BY DEF Gate
    <3>2. QED
      BY <3>1, SeccionesSensibles
  <2>2. reporte' = [reporte EXCEPT ![t] = f] /\ UNCHANGED leido
    BY <1>2, <1>6 DEF Solicitar
  <2> HIDE DEF S
  <2>3. f \in Informe /\ f.contenido = S /\ f.archivo = reporte[t].archivo /\ f.gate = reporte[t].gate
    BY <1>2, <2>1 DEF Informe
  <2> HIDE DEF f
  <2>4. QED
    BY <1>2, <1>5, <2>1, <2>2, <2>3 DEF ReporteVeraz
<1>7. ASSUME NEW e \in Ejecutores, LeerGate(e) PROVE Bien
  <2>1. UNCHANGED reporte /\ leido' = [leido EXCEPT ![e] = Gate(Mio(e))] /\ Gate(Mio(e)) \in BOOLEAN
    BY <1>7 DEF LeerGate, Gate
  <2>2. leido' \in [Ejecutores -> BOOLEAN]
    BY <1>2, <2>1
  <2>3. QED
    BY <1>3, <2>1, <2>2
<1>8. ASSUME NEW e \in Ejecutores, Finalizar(e) PROVE Bien
  <2> DEFINE t == Mio(e)
             f == [reporte[t] EXCEPT !.estado = "emitida", !.gate = leido[e],
                                     !.archivo = Podar(reporte[t].contenido, leido[e])]
  <2>1. UNCHANGED leido /\ (UNCHANGED reporte \/ reporte' = [reporte EXCEPT ![t] = f])
    BY <1>2, <1>8 DEF Finalizar
  <2>2. CASE UNCHANGED reporte
    BY <1>2, <1>3, <2>1, <2>2
  <2>3. CASE t \notin Trabajos /\ reporte' = [reporte EXCEPT ![t] = f]
    <3>1. reporte' = reporte
      BY <1>2, <2>3
    <3>2. QED
      BY <1>2, <1>3, <2>1, <3>1
  <2>4. CASE t \in Trabajos /\ reporte' = [reporte EXCEPT ![t] = f]
    <3> DEFINE S == Podar(reporte[t].contenido, leido[e])
    <3>1. S \in SUBSET Seccion /\ S \subseteq reporte[t].contenido /\ (leido[e] => S \cap Sensibles = {})
      BY <1>2, <2>4 DEF Podar, Informe
    <3>2. leido[e] \in BOOLEAN /\ reporte[t] \in Informe
      BY <1>2, <2>4
    <3> HIDE DEF S
    <3>3. /\ f \in Informe /\ f.contenido = reporte[t].contenido /\ f.archivo = S /\ f.gate = leido[e]
      BY <3>1, <3>2 DEF Informe, S
    <3> HIDE DEF f
    <3>4. /\ f.contenido \cap Sensibles # {} => EsSensible(Dimension[t])
          /\ f.archivo \cap Sensibles # {} => EsSensible(Dimension[t]) /\ ~f.gate
      BY <1>2, <2>4, <3>1, <3>3 DEF ReporteVeraz
    <3>5. QED
      BY <1>5, <2>1, <2>4, <3>3, <3>4
  <2>5. QED
    BY <2>1, <2>2, <2>3, <2>4
<1>9. ASSUME NEW e \in Ejecutores, NEW t \in Trabajos, MarcarFallido(e, t) PROVE Bien
  <2> DEFINE f == [reporte[t] EXCEPT !.estado = "fallido"]
  <2>1. UNCHANGED leido /\ (UNCHANGED reporte \/ reporte' = [reporte EXCEPT ![t] = f])
    BY <1>2, <1>9 DEF MarcarFallido
  <2>2. f \in Informe /\ f.contenido = reporte[t].contenido /\ f.archivo = reporte[t].archivo /\ f.gate = reporte[t].gate
    BY <1>2 DEF Informe
  <2> HIDE DEF f
  <2>3. QED
    BY <1>2, <1>3, <1>5, <2>1, <2>2 DEF ReporteVeraz
<1>10. Bien
  BY <1>4, <1>6, <1>7, <1>8, <1>9
     DEF Reportes, DespacharReportes, Reentregar, Tomar, Leer, Terminar, Fracasar, Caer
<1>11. TiposReportes' /\ ReporteVeraz'
  BY <1>10 DEF Bien
<1>12. /\ \A c, n : Buena(c, n) <=> Buena(c, n)'
       /\ \A l : Veraz(l) <=> Veraz(l)'
       /\ Version' = Version /\ (TiposProceso => TiposProceso')
  BY <1>1, Quieto
<1>13. /\ lector' = lector /\ cache' = cache /\ respuesta' = respuesta /\ agenda' = agenda
  BY <1>1 DEF varsTablero
<1>14. Tipos'
  BY <1>11, <1>12, <1>13 DEF InvLecturas, Tipos, TiposTablero
<1>15. LectoresVeraces'
  <2>1. ASSUME NEW h \in Lectores PROVE Veraz(lector[h])'
    <3>1. PICK l : l = lector[h]
      OBVIOUS
    <3>2. Veraz(l)'
      BY <1>12, <3>1 DEF InvLecturas, LectoresVeraces
    <3>3. QED
      BY <1>13, <3>1, <3>2
  <2>2. QED
    BY <2>1 DEF LectoresVeraces
<1>16. RespuestaVeraz'
  <2>1. ASSUME NEW h \in Lectores, respuesta[h] # Nulo
        PROVE  respuesta[h].hasta <= Version' /\ Buena(respuesta[h], respuesta[h].hasta)'
    <3>1. PICK r : r = respuesta[h]
      OBVIOUS
    <3>2. r.hasta <= Version /\ Buena(r, r.hasta)'
      BY <1>12, <2>1, <3>1 DEF InvLecturas, RespuestaVeraz
    <3>3. QED
      BY <1>12, <1>13, <3>1, <3>2
  <2>2. QED
    BY <1>13, <2>1 DEF RespuestaVeraz
<1>17. CacheVeraz'
  <2>1. ASSUME NEW k \in ConCache, cache[k] # Nulo PROVE Buena(cache[k], Version)'
    <3>1. PICK c : c = cache[k]
      OBVIOUS
    <3>2. Buena(c, Version)'
      BY <1>12, <2>1, <3>1 DEF InvLecturas, CacheVeraz
    <3>3. QED
      BY <1>13, <3>1, <3>2
  <2>2. QED
    BY <1>13, <2>1 DEF CacheVeraz
<1>18. QED
  BY <1>11, <1>14, <1>15, <1>16, <1>17 DEF InvLecturas

\* A file is served under the policy of this moment, and withheld if it should be.
LEMMA ArchivoConserva ==
  ASSUME InvLecturas, NEW h \in Lectores, Archivo(h)
  PROVE  InvLecturas'
<1>1. UNCHANGED <<varsProceso, varsReportes, agenda>> /\ UNCHANGED cache
  BY DEF Archivo, PedirArchivo, ServirArchivo
<1>2. /\ cache' \in [ConCache -> Carga \cup {Nulo}]
      /\ \A k \in ConCache : cache'[k] # Nulo => Buena(cache'[k], Version)
  BY <1>1 DEF InvLecturas, Tipos, TiposTablero, CacheVeraz
<1>3. ASSUME NEW t \in Trabajos, PedirArchivo(h, t) PROVE InvLecturas'
  <2> DEFINE l == [Parado EXCEPT !.fase = "servir", !.vista = t, !.desde = Version, !.cierre = Nulo]
  <2>1. l \in Lector /\ Veraz(l)
    BY PedirVeraz DEF Vistas
  <2>2. [Parado EXCEPT !.fase = "servir", !.vista = t, !.desde = Version] = l
    <3>1. Parado \in Lector /\ Parado.cierre = Nulo
      BY ParadoVeraz DEF Parado
    <3>2. QED
      BY <3>1 DEF Lector
  <2>3. Anotar(h, l) /\ respuesta' = [respuesta EXCEPT ![h] = Nulo]
    BY <1>3, <2>2 DEF PedirArchivo
  <2> HIDE DEF l
  <2>4. QED
    BY <1>1, <1>2, <2>1, <2>3, AnotarConserva, RespuestaQuieta, PasoConserva
<1>4. CASE ServirArchivo(h)
  <2> DEFINE t == lector[h].vista
             b == reporte[t].archivo \cap Sensibles # {}
             c == [vista |-> t, total |-> Nulo, partes |-> [p \in {} |-> 0], hora |-> reloj,
                   desde |-> lector[h].desde, hasta |-> 0, desglose |-> b]
  <2>1. /\ lector[h] \in Lector /\ Veraz(lector[h]) /\ lector[h].fase = "servir"
        /\ reloj \in Nat /\ Version \in Nat /\ Version >= 1
    BY <1>4 DEF ServirArchivo, EnFase, InvLecturas, Tipos, TiposTablero, TiposProceso, LectoresVeraces
  <2>2. t \in Trabajos /\ t \in Vistas /\ lector[h].desde \in 1 .. Version
    BY <2>1 DEF Veraz, Vistas
  <2>3. \/ Anotar(h, Parado) /\ UNCHANGED respuesta
        \/ ~Retenido(t) /\ Contestar(h, c)
    BY <1>4 DEF ServirArchivo
  <2>4. b => EsSensible(Dimension[t]) /\ ~reporte[t].gate
    BY <2>2 DEF InvLecturas, ReporteVeraz
  <2>5. ASSUME ~Retenido(t) PROVE b => ~versiones[Version].oculto
    BY <2>4, <2>5 DEF Retenido, Gate, Oculto, Actual
  <2>6. b \in BOOLEAN
    OBVIOUS
  <2>7. [p \in {} |-> 0] \in Sumas
    <3>1. [p \in {} |-> 0] \in [{} -> Nat] /\ {} \in SUBSET Listas
      OBVIOUS
    <3>2. QED
      BY <3>1 DEF Sumas
  <2> HIDE DEF b, t
  <2>8. c \in Carga /\ c.desde = lector[h].desde /\ c.total = Nulo /\ c.desglose = b
    BY <2>1, <2>2, <2>6, <2>7 DEF Carga
  <2> HIDE DEF c
  <2>9. ASSUME ~Retenido(t) PROVE Buena(c, Version)
    <3>1. Version \in c.desde .. Version /\ c.desde >= 1
      BY <2>1, <2>2, <2>8
    <3>2. Mostrable(c, Version)
      BY <2>5, <2>8, <2>9, <3>1 DEF Mostrable
    <3>3. Cuadra(c)
      BY <2>8 DEF Cuadra
    <3>4. QED
      BY <2>8, <3>1, <3>2, <3>3 DEF Buena
  <2>10. CASE Anotar(h, Parado) /\ UNCHANGED respuesta
    BY <1>1, <1>2, <2>10, ParadoVeraz, AnotarConserva, RespuestaQuieta, PasoConserva
  <2>11. CASE ~Retenido(t) /\ Contestar(h, c)
    BY <1>1, <1>2, <2>9, <2>11, ContestarConserva, PasoConserva
  <2>12. QED
    BY <2>3, <2>10, <2>11
<1>5. QED
  BY <1>3, <1>4 DEF Archivo
-----------------------------------------------------------------------------
(* The theorems *)

\* A step that changes nothing.
LEMMA QuietoConserva ==
  ASSUME InvLecturas, UNCHANGED vars
  PROVE  InvLecturas'
<1>1. UNCHANGED <<varsProceso, varsReportes, agenda>> /\ UNCHANGED <<cache, lector, respuesta>>
  BY DEF vars, varsTablero
<1>2. /\ lector \in [Lectores -> Lector] /\ LectoresVeraces
      /\ cache \in [ConCache -> Carga \cup {Nulo}] /\ CacheVeraz
  BY DEF InvLecturas, Tipos, TiposTablero
<1>3. QED
  BY <1>1, <1>2, RespuestaQuieta, PasoConserva DEF LectoresVeraces, CacheVeraz

\* The invariant of the reads holds in every state.
THEOREM InvarianteLecturas == Spec => []InvLecturas
<1>1. Init => InvLecturas
  BY ConstantesLecturas, InicioLecturas
<1>2. InvLecturas /\ [Next]_vars => InvLecturas'
  BY ConstantesLecturas, QuietoConserva, ProcesoConserva, TableroConserva, ArchivoConserva, ExpirarConserva,
     ReportesConserva DEF Next
<1>3. QED
  BY <1>1, <1>2, PTL DEF Spec

\* In every state, each list of whatever was answered or cached adds up to no more than its total,
\* and to exactly the total when no vote is outside of what the list is about.
THEOREM LecturaSiempreCuadra == Spec => []LecturaCuadra
<1>1. InvLecturas => LecturaCuadra
  <2> SUFFICES ASSUME InvLecturas, NEW c \in Cargas, c # Nulo PROVE Cuadra(c)
    BY DEF LecturaCuadra, Cuadra
  <2>1. \/ \E h \in Lectores : c = respuesta[h]
        \/ \E k \in ConCache : c = cache[k]
    BY DEF Cargas
  <2>2. QED
    BY <2>1 DEF InvLecturas, RespuestaVeraz, CacheVeraz, Buena
<1>2. QED
  BY <1>1, InvarianteLecturas, PTL

\* In every state, what was shown was visible at some moment of its request.
THEOREM NadaSeFuga == Spec => []SinFuga
<1>1. InvLecturas => SinFuga
  BY DEF InvLecturas, RespuestaVeraz, Buena, Mostrable, SinFuga
<1>2. QED
  BY <1>1, InvarianteLecturas, PTL
=============================================================================
