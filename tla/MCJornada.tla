----------------------------- MODULE MCJornada ------------------------------
(* Instance of Jornada: one account with two rights, a lista and the requests of a vote *)
(* and of the committee.                                                               *)
EXTENDS Jornada, TLC

CONSTANTS r1, r2, p1, p2, u1, d1, d2, a1, a2, k1, k2, l1

MCDuenoDe == (d1 :> u1) @@ (d2 :> u1)
MCAulaDe  == (d1 :> a1) @@ (d2 :> a1)

Cuerpo(d, k, o) == [usuario |-> u1, derecho |-> d, clave |-> k, eleccion |-> o]
MCEntradas   == {Cuerpo(d1, k1, l1), Cuerpo(d1, k2, Blanco), Cuerpo(d2, k1, l1)}

Simetria == Permutations(Peticiones) \cup Permutations(Comite)
=============================================================================
