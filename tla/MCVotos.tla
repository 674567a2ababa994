------------------------------- MODULE MCVotos -------------------------------
(* Instance of Votos: a family account u1 with two rights (d1, d2) and a      *)
(* second account u2.  The bodies cover a retry with the same key, a second   *)
(* tab with another key, a key shared by two rights and somebody else's right. *)
EXTENDS Votos, TLC

CONSTANTS r1, r2, u1, u2, d1, d2, k1, k2, l1, a1, a2

MCDuenoDe == (d1 :> u1) @@ (d2 :> u1)
MCAulaDe  == (d1 :> a1) @@ (d2 :> a1)

Cuerpo(u, d, k, o) == [usuario |-> u, derecho |-> d, clave |-> k, eleccion |-> o]
MCEntradas == {Cuerpo(u1, d1, k1, l1), Cuerpo(u1, d1, k2, Blanco),
               Cuerpo(u1, d2, k1, l1), Cuerpo(u2, d1, k2, l1)}

\* The two handlers of the liveness run meet on the right or on the key.
MCEncuentros == {Cuerpo(u1, d1, k1, l1), Cuerpo(u1, d1, k2, Blanco), Cuerpo(u1, d2, k1, l1)}

Simetria == Permutations(Peticiones)
=============================================================================
