------------------------------ MODULE Lecturas ------------------------------
(***************************************************************************)
(* What is read of a proceso while it runs: ResultadosService, the panel   *)
(* of the day (both behind a Redis cache) and the reports, whose worker    *)
(* consumes the queue 'reportes'.  All of them must respect                *)
(* ocultar_resultados, which an editar() that tested borrador in time may  *)
(* still change after the opening, together with the aulas (see module     *)
(* Procesos); the rights stay the ones abrir() materialised.               *)
(*                                                                         *)
(* A payload is abstracted to its total, votos_emitidos, and to the sum of *)
(* each of its lists: the desglose by option and the blancos, the votes by *)
(* aula, the votes by hour.  The lists do not look at the same votes: a    *)
(* ballot of another dimension, an aula that is no longer of the proceso   *)
(* and an hour after the close are in none of their rows.                  *)
(***************************************************************************)
EXTENDS Cola, Sequences

CONSTANTS
  Lectores,      \* clients of the tablero, of the panel or of the file of a report
  Derechos,      \* rights that abrir() may materialise
  Aulas,
  AulaDe,        \* DerechoVoto.aula_snapshot
  Agendas,       \* instances: the endpoints used together and the bounds of what happens around them
  Dimension,     \* the dimension of each report
  Lote           \* REPORTES_BATCH

\* What the ballot of a vote references: the dimension of proceso.tipo, nothing (blanco), or an option
\* of the proceso in another dimension, which emitir() accepts.
Papeletas == {"catalogo", "blanco", "ajena"}

\* What editar() writes and is read here: ocultar_resultados and the rows of ProcesoAula, never none.
Edicion == [oculto : BOOLEAN, aulas : SUBSET Aulas \ {{}}]

\* Bounds of an instance: who votes and what, the hours the clock goes on, the late edits.
Agenda == [vistas : SUBSET {"resultados", "resumen", "avance", "votos-hora", "proyeccion", "archivo"},
           votantes : SUBSET Derechos, papeletas : SUBSET Papeletas, horas : Nat,
           ediciones : SUBSET Edicion \ {{}}, cambios : Nat]

ASSUME ConstantesLecturas ==
  /\ Dimension \in [Trabajos -> {"participacion", "votantes", "abstenciones", "resultados", "candidatos", "consultas"}]
  /\ AulaDe \in [Derechos -> Aulas]
  /\ Agendas \subseteq Agenda

VARIABLES
  estado,      \* ProcesoElectoral.estado
  versiones,   \* what the edits of the proceso have committed, and the hour of each commit
  padron,      \* the rights materialised by abrir()
  votos,       \* the rows of Voto
  apertura,    \* the hour of apertura_real
  cierre,      \* the hour of cierre_real, or Nulo
  reloj,       \* the hour it is for PostgreSQL
  cache,       \* Redis: the payload of each vista, or Nulo
  lector,      \* what each request is doing and has read
  respuesta,   \* what the last request of each client answered
  reporte,     \* the rows of Reporte
  leido,       \* the gate each execution of the worker read
  agenda

varsTablero  == <<cache, lector, respuesta>>
varsReportes == <<reporte, leido>>
varsProceso  == <<estado, versiones, padron, votos, apertura, cierre, reloj>>
vars == <<varsCola, varsTablero, varsReportes, varsProceso, agenda>>

Version == Len(versiones)
Actual  == versiones[Version]
Oculto  == Actual.oculto

\* The vistas with a desglose; the ones with a cache, proyeccion() computes on every request.
ConDesglose == {"resultados", "resumen"}
ConCache    == {"resultados", "resumen", "avance", "votos-hora"}

Parado == [fase |-> "libre", vista |-> Nulo, desde |-> 0, cierre |-> Nulo, ahora |-> 0, foto |-> Nulo, carga |-> Nulo]

Init ==
  /\ InitCola
  /\ agenda \in Agendas
  /\ estado = "borrador"
  /\ \E e \in agenda.ediciones : versiones = <<[oculto |-> e.oculto, aulas |-> e.aulas, hora |-> 0]>>
  /\ padron = {} /\ votos = {}
  /\ apertura = 0 /\ cierre = Nulo /\ reloj = 0
  /\ cache = [k \in ConCache |-> Nulo]
  /\ lector = [h \in Lectores |-> Parado]
  /\ respuesta = [h \in Lectores |-> Nulo]
  /\ reporte = [t \in Trabajos |-> [estado |-> "sin_solicitar", contenido |-> {}, archivo |-> {}, gate |-> FALSE]]
  /\ leido = [e \in Ejecutores |-> FALSE]
-----------------------------------------------------------------------------
(* The proceso *)

\* The rights of the aulas of this moment; apertura_real is the clock of an UPDATE that commits later.
Abrir ==
  /\ estado = "borrador"
  /\ padron' = {d \in Derechos : AulaDe[d] \in Actual.aulas}
  /\ padron' # {}
  /\ estado' = "abierto"
  /\ apertura' \in 0 .. reloj
  /\ UNCHANGED <<versiones, votos, cierre, reloj>>

Cerrar ==
  /\ estado = "abierto"
  /\ estado' = "cerrado"
  /\ cierre' \in apertura .. reloj
  /\ UNCHANGED <<versiones, padron, votos, apertura, reloj>>

\* A transaction that began in this hour may have seen the aula of the right in the proceso.
AulaValida(d, hora) ==
  \E i \in 1 .. Version : AulaDe[d] \in versiones[i].aulas /\ (i < Version => hora <= versiones[i + 1].hora)

\* emitir() commits: hora is that of its BEGIN.  It reads apertura_real and fecha_cierre_prevista, which
\* may be as late as the committee wants, and never estado nor cierre_real.
Votar(d, p, hora) ==
  /\ estado # "borrador"
  /\ d \in padron /\ AulaValida(d, hora)
  /\ \A v \in votos : v.derecho # d
  /\ votos' = votos \cup {[derecho |-> d, papeleta |-> p, hora |-> hora]}
  /\ UNCHANGED <<estado, versiones, padron, apertura, cierre, reloj>>

\* The transaction of an editar() that read borrador, with something new in it.
Editar(e) ==
  /\ Version <= agenda.cambios
  /\ <<e.oculto, e.aulas>> # <<Actual.oculto, Actual.aulas>>
  /\ versiones' = Append(versiones, [oculto |-> e.oculto, aulas |-> e.aulas, hora |-> reloj])
  /\ UNCHANGED <<estado, padron, votos, apertura, cierre, reloj>>

DarLaHora ==
  /\ reloj < agenda.horas
  /\ reloj' = reloj + 1
  /\ UNCHANGED <<estado, versiones, padron, votos, apertura, cierre>>

Proceso ==
  /\ \/ Abrir \/ Cerrar \/ DarLaHora
     \/ \E d \in agenda.votantes, p \in agenda.papeletas, hora \in apertura .. reloj : Votar(d, p, hora)
     \/ \E e \in agenda.ediciones : Editar(e)
  /\ UNCHANGED <<varsCola, varsTablero, varsReportes, agenda>>
-----------------------------------------------------------------------------
(* The tablero and the panel *)

EnFase(h, f) == lector[h].fase = f
Anotar(h, cambios) == lector' = [lector EXCEPT ![h] = cambios]
Contestar(h, carga) ==
  /\ respuesta' = [respuesta EXCEPT ![h] = [carga EXCEPT !.hasta = Version]]
  /\ Anotar(h, Parado)

\* obtener() authorises and guardarProceso() reads the proceso, always before the cache and outside of
\* the transaction; a borrador has no rights and gets no answer.
Pedir(h, v) ==
  /\ EnFase(h, "libre") /\ estado # "borrador"
  /\ Anotar(h, [Parado EXCEPT !.fase = "buscar", !.vista = v, !.desde = Version, !.cierre = cierre])
  /\ respuesta' = [respuesta EXCEPT ![h] = Nulo]
  /\ UNCHANGED cache

\* redis.get(): a payload is the answer; nothing, or an error, is a MISS and begins the transaction.
Buscar(h) ==
  /\ EnFase(h, "buscar")
  /\ LET v == lector[h].vista
     IN \/ v \in ConCache /\ cache[v] # Nulo /\ Contestar(h, cache[v])
        \/ Anotar(h, [lector[h] EXCEPT !.fase = "contar", !.ahora = reloj]) /\ UNCHANGED respuesta
  /\ UNCHANGED cache

\* resultados reads the policy in its snapshot; resumen uses the one guardarProceso() read.
Desglosa(h) ==
  LET l == lector[h]
  IN l.vista \in ConDesglose /\ ~(IF l.vista = "resultados" THEN Oculto ELSE versiones[l.desde].oculto)

\* The first statement fixes the snapshot of the transaction; votos-hora has no total.
Contar(h) ==
  LET l == lector[h]
  IN /\ EnFase(h, "contar")
     /\ Anotar(h, [l EXCEPT !.fase = "agrupar", !.foto = [votos |-> votos, version |-> Version],
           !.carga = [vista |-> l.vista, total |-> IF l.vista = "votos-hora" THEN Nulo ELSE Cardinality(votos),
                      partes |-> [p \in {} |-> 0], hora |-> l.ahora, desde |-> l.desde, hasta |-> 0,
                      desglose |-> Desglosa(h)]])
     /\ UNCHANGED <<cache, respuesta>>

\* Mutant: READ COMMITTED, each statement with a snapshot of its own.
VeComprometidos(h) == [votos |-> votos, version |-> Version]

\* What the statements after the first see: RepeatableRead.
Ve(h) == lector[h].foto

\* Mutant: the hours go on after the close.
HastaAhora(h) == lector[h].ahora

\* calcularVotosPorHora(): the last hour that is listed, with the cierre_real of before the transaction.
Ultima(h) ==
  LET l == lector[h] IN IF l.cierre # Nulo /\ l.cierre < l.ahora THEN l.cierre ELSE l.ahora

\* The lists of a payload.
Partes(c) ==
  CASE c.vista \in ConDesglose  -> IF c.desglose THEN {"desglose"} ELSE {}
    [] c.vista = "avance"       -> {"aulas"}
    [] c.vista = "votos-hora"   -> {"franjas"}
    [] OTHER                    -> {"aulas", "franjas"}

\* The votes in the rows of each list: the groups of the dimension and the blancos; the aulas of
\* ProcesoAula; the hours from the opening to the last one.
Agrupados(h, p) ==
  LET V == Ve(h).votos
  IN CASE p = "desglose" -> {v \in V : v.papeleta = "catalogo"} \cup {v \in V : v.papeleta = "blanco"}
       [] p = "aulas"    -> {v \in V : AulaDe[v.derecho] \in versiones[Ve(h).version].aulas}
       [] OTHER          -> {v \in V : v.hora \in apertura .. Ultima(h)}

Agrupar(h) ==
  LET l == lector[h]
      c == [l.carga EXCEPT !.partes = [p \in Partes(l.carga) |-> Cardinality(Agrupados(h, p))]]
  IN /\ EnFase(h, "agrupar")
     /\ IF l.vista \in ConCache
        THEN Anotar(h, [l EXCEPT !.fase = "guardar", !.foto = Nulo, !.carga = c]) /\ UNCHANGED respuesta
        ELSE Contestar(h, c)
     /\ UNCHANGED cache

\* Mutant: SET without a TTL, so that only a key that is lost is written again.
VenceNunca(k) == FALSE

Vence(k) == cache[k] # Nulo

\* setex() whatever the key has by now; an error of Redis is ignored.
Guardar(h) ==
  /\ EnFase(h, "guardar")
  /\ \/ cache' = [cache EXCEPT ![lector[h].vista] = lector[h].carga]
     \/ UNCHANGED cache
  /\ Contestar(h, lector[h].carga)

\* The TTL of a key.
Expirar(k) ==
  /\ Vence(k)
  /\ cache' = [cache EXCEPT ![k] = Nulo]
  /\ UNCHANGED <<lector, respuesta, varsCola, varsReportes, varsProceso, agenda>>

Tablero(h) ==
  /\ \/ \E v \in agenda.vistas \ {"archivo"} : Pedir(h, v)
     \/ Buscar(h) \/ Contar(h) \/ Agrupar(h) \/ Guardar(h)
  /\ UNCHANGED <<varsCola, varsReportes, varsProceso, agenda>>
-----------------------------------------------------------------------------
(* The reports *)

EsSensible(d) == d \in {"participacion", "resultados"}
Sensibles     == {"distribucion", "desglose", "cuadre", "empate"}

\* construirModelo(): the sections of a report; with the gate the escrutinio is not computed.
Secciones(d, gate) ==
  CASE d = "participacion" -> {"resumen", "por_aula"} \cup (IF gate THEN {} ELSE {"distribucion"})
    [] d = "resultados"    -> {"resumen"} \cup (IF gate THEN {} ELSE {"desglose", "cuadre", "empate"})
    [] OTHER               -> {d}

Gate(t) == EsSensible(Dimension[t]) /\ Oculto

\* Mutant: the sections are chosen when the report is requested and never again.
SinPodar(S, gate) == S

Podar(S, gate) == IF gate THEN S \ Sensibles ELSE S

Solicitar(t) ==
  /\ "archivo" \in agenda.vistas
  /\ reporte[t].estado = "sin_solicitar"
  /\ reporte' = [reporte EXCEPT ![t].estado = "borrador", ![t].contenido = Secciones(Dimension[t], Gate(t))]
  /\ UNCHANGED <<varsCola, leido>>

DespacharReportes ==
  Despachar({t \in Trabajos : reporte[t].estado = "borrador"}, Lote) /\ UNCHANGED varsReportes

Tomar(e, t) == Recoger(e, t, "tomada") /\ UNCHANGED varsReportes

\* leer(): the row and then the policy as it is now, in two SELECTs; a row that is not borrador is done.
Leer(e) ==
  /\ En(e, "tomada")
  /\ Seguir(e, IF reporte[Mio(e)].estado = "borrador" THEN "fila" ELSE "hecha")
  /\ UNCHANGED varsReportes

LeerGate(e) ==
  /\ En(e, "fila")
  /\ Seguir(e, "leida")
  /\ leido' = [leido EXCEPT ![e] = Gate(Mio(e))]
  /\ UNCHANGED reporte

\* render() and finalizar(): the file and the gate it was pruned with, if it is still borrador.
Finalizar(e) ==
  LET t == Mio(e)
  IN /\ En(e, "leida")
     /\ Seguir(e, "hecha")
     /\ reporte' = IF reporte[t].estado # "borrador" THEN reporte
                   ELSE [reporte EXCEPT ![t].estado = "emitida", ![t].gate = leido[e],
                                        ![t].archivo = Podar(reporte[t].contenido, leido[e])]
     /\ UNCHANGED leido

Terminar(e) == En(e, "hecha") /\ Completar(e) /\ UNCHANGED varsReportes
Fracasar(e) == obra[e].fase \in {"tomada", "fila", "leida"} /\ Lanzar(e) /\ UNCHANGED varsReportes
Caer(e)     == Morir(e) /\ UNCHANGED varsReportes
Reentregar(t) == Atascar(t) /\ UNCHANGED varsReportes

\* marcarFallido(), from the listener.
MarcarFallido(e, t) ==
  /\ Marcado(e, t)
  /\ reporte' = IF reporte[t].estado = "borrador" THEN [reporte EXCEPT ![t].estado = "fallido"] ELSE reporte
  /\ UNCHANGED leido

Reportes ==
  /\ \/ DespacharReportes
     \/ \E t \in Trabajos : Solicitar(t) \/ Reentregar(t) \/ \E e \in Ejecutores : Tomar(e, t) \/ MarcarFallido(e, t)
     \/ \E e \in Ejecutores : Leer(e) \/ LeerGate(e) \/ Finalizar(e) \/ Terminar(e) \/ Fracasar(e) \/ Caer(e)
  /\ UNCHANGED <<varsTablero, varsProceso, agenda>>

\* archivo(): the row and then the policy, in two SELECTs; there is no file before it is emitida.
PedirArchivo(h, t) ==
  /\ "archivo" \in agenda.vistas
  /\ EnFase(h, "libre") /\ reporte[t].estado = "emitida"
  /\ Anotar(h, [Parado EXCEPT !.fase = "servir", !.vista = t, !.desde = Version])
  /\ respuesta' = [respuesta EXCEPT ![h] = Nulo]
  /\ UNCHANGED cache

\* A sensitive file that was not pruned is withheld while the policy is hidden.
Retenido(t) == Gate(t) /\ ~reporte[t].gate

ServirArchivo(h) ==
  LET t == lector[h].vista
  IN /\ EnFase(h, "servir")
     /\ IF Retenido(t) THEN Anotar(h, Parado) /\ UNCHANGED respuesta
        ELSE Contestar(h, [vista |-> t, total |-> Nulo, partes |-> [p \in {} |-> 0], hora |-> reloj,
                           desde |-> lector[h].desde, hasta |-> 0, desglose |-> reporte[t].archivo \cap Sensibles # {}])
     /\ UNCHANGED cache

Archivo(h) ==
  /\ (\E t \in Trabajos : PedirArchivo(h, t)) \/ ServirArchivo(h)
  /\ UNCHANGED <<varsCola, varsReportes, varsProceso, agenda>>
-----------------------------------------------------------------------------
Next ==
  \/ Proceso
  \/ \E h \in Lectores : Tablero(h) \/ Archivo(h)
  \/ \E k \in ConCache : Expirar(k)
  \/ Reportes

\* Redis expires its keys; nobody has to ask, to vote or to finish a request.
Spec == Init /\ [][Next]_vars /\ \A k \in ConCache : WF_vars(Expirar(k))
-----------------------------------------------------------------------------
(* Properties *)

Cargas == {respuesta[h] : h \in Lectores} \cup {cache[k] : k \in ConCache}

\* No vote is outside of what a list of the payload is about: every ballot is of the dimension, every
\* aula has been of the proceso since the request, no vote is of an hour after the payload or the close.
Cubre(p, c) ==
  \A v \in votos :
    CASE p = "desglose" -> v.papeleta # "ajena"
      [] p = "aulas"    -> \A i \in c.desde .. Version : AulaDe[v.derecho] \in versiones[i].aulas
      [] OTHER          -> v.hora <= c.hora /\ (cierre # Nulo => v.hora <= cierre)

\* Whatever commits while a payload is computed, no list of it adds up to more than its total, for
\* they are of one instant, and a list adds up to exactly the total unless some vote is outside of
\* what it is about: a ballot of another dimension, an aula that a late editar() took out of the
\* proceso, an hour after the close.
LecturaCuadra ==
  \A c \in Cargas \ {Nulo} :
    c.total # Nulo =>
      \A p \in DOMAIN c.partes : c.partes[p] <= c.total /\ (Cubre(p, c) => c.partes[p] = c.total)

\* A desglose is never shown against the policy: between the moment the request that computed it
\* (or that asks for the file) started and the answer, the policy was visible at least once; so a
\* change to hidden is respected by everything that starts afterwards, the late execution or the
\* download of a report included, but for what the cache keeps until its TTL.
SinFuga ==
  \A h \in Lectores :
    LET r == respuesta[h]
    IN r # Nulo /\ r.desglose => \E v \in r.desde .. r.hasta : ~versiones[v].oculto

\* The payload tells the proceso as it is: its total, its policy, its aulas and its hours.
Vigente(c) ==
  LET fin == IF cierre # Nulo /\ cierre < reloj THEN cierre ELSE reloj
      suma == [desglose |-> {v \in votos : v.papeleta # "ajena"},
               aulas    |-> {v \in votos : AulaDe[v.derecho] \in Actual.aulas},
               franjas  |-> {v \in votos : v.hora <= fin}]
  IN /\ c.total \in {Nulo, Cardinality(votos)}
     /\ c.desglose <=> c.vista \in ConDesglose /\ ~Oculto
     /\ \A p \in DOMAIN c.partes : c.partes[p] = Cardinality(suma[p])

\* However the requests that are still being answered write over one another, an old payload over a
\* newer one included, once the votes, the clock and the committee are still the caches end up
\* telling the proceso as it is, and go on so while they are asked and filled again.
CacheFinal == <>[](\A k \in ConCache : cache[k] # Nulo => Vigente(cache[k]))
=============================================================================
