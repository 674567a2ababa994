---------------------------- MODULE MCPantallas -----------------------------
(* Instance of Pantallas: two rights and two options; two schools of three aulas, one of     *)
(* another year; one student to transfer between two aulas.                                  *)
EXTENDS Pantallas, TLC

CONSTANTS d1, d2, e1, e2, u1, u2, a1, a2, a3, g1, n1, r1, r2, r3

MCGradoDe == [a \in {a1, a2, a3} |-> g1]
MCNivelDe == g1 :> n1
En(u, a) == [alumno |-> u, aula |-> a]
\* A student with two matriculas, and an inactive one among the others of the aula.
MCEscuelas ==
  {[matriculas |-> {En(u1, a1), En(u1, a2)}, activos |-> {u1, u2}, con_apoderado |-> {u1}],
   [matriculas |-> {En(u1, a1), En(u2, a1)}, activos |-> {u2}, con_apoderado |-> {u1, u2}]}

MCInicial == r1 :> [persona |-> u1, grupo |-> a1]

\* Each panel with the pieces that can meet each other.
MCAbiertos ==
  "comite" :> {Administrar!CuentasBloqueadas, Administrar!SoloLectura(Administrar!PanelMatriculas)}
  @@ "director" :>
  {[Administrar!PanelMatriculas EXCEPT !.crear = FALSE, !.dialogos = {}],
   [Administrar!PanelMatriculas EXCEPT !.trasladar = FALSE],
   [Administrar!PanelAniosEscolares EXCEPT !.crear = FALSE],
   [Administrar!UsuariosPage EXCEPT !.filtro = "ninguno"]}
  \cup {[p EXCEPT !.dialogos = {}] : p \in {Administrar!PanelAulas, Administrar!PanelSecciones, Administrar!PanelGrados,
                                           Administrar!PanelNiveles, Administrar!PanelApoderados}}

Simetria == Permutations(Derechos) \cup Permutations(Elecciones)
=============================================================================
