----------------------------- MODULE MCProcesos -----------------------------
(* Instance of Procesos: two rights in two aulas, a lista that counts and a     *)
(* candidato of that lista, which is a row of the catalogue but not of the     *)
(* dimension of a proceso of tipo municipio.                                   *)
EXTENDS Procesos, TLC

CONSTANTS p1, p2, p3, u1, u2, d1, d2, a1, a2, l1, c1

MCDuenoDe == (d1 :> u1) @@ (d2 :> u2)
MCAulaDe  == (d1 :> a1) @@ (d2 :> a2)

Simetria == Permutations(Comite)
=============================================================================
