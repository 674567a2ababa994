----------------------------- MODULE MCLecturas -----------------------------
(* Instance of Lecturas: two clients of the results, of the panel, or of a report with two executions. *)
EXTENDS Lecturas

CONSTANTS t1, e1, e2, h1, h2, d1, d2, a1, a2

UnInstante == [t \in Trabajos |-> 0]
DeResultados == [t \in Trabajos |-> "resultados"]
UnAulaCadaUno == [d \in Derechos |-> IF d = d1 THEN a1 ELSE a2]

\* The committee shows the results of both aulas, or hides those of one.
DosEdiciones == {[oculto |-> FALSE, aulas |-> {a1, a2}], [oculto |-> TRUE, aulas |-> {a1}]}
Base == [vistas |-> {}, votantes |-> {d2}, papeletas |-> {"catalogo"}, horas |-> 0, ediciones |-> DosEdiciones, cambios |-> 1]

\* No endpoint reads what another one caches, so each has agendas of its own.
AgendasDeLectura == {
  [Base EXCEPT !.vistas = {"resultados"}, !.papeletas = Papeletas],
  [Base EXCEPT !.vistas = {"resumen"}, !.papeletas = Papeletas],
  [Base EXCEPT !.vistas = {"avance"}, !.votantes = {d1, d2}],
  [Base EXCEPT !.vistas = {"votos-hora"}, !.horas = 1, !.cambios = 1],
  [Base EXCEPT !.vistas = {"proyeccion"}, !.votantes = {d1, d2}, !.horas = 1, !.cambios = 1],
  [Base EXCEPT !.vistas = {"archivo"}, !.votantes = {}, !.cambios = 2]}
=============================================================================
