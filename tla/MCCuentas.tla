------------------------------ MODULE MCCuentas -----------------------------
(* Instance of Cuentas: one account with a password, one without, requests in any order. *)
EXTENDS Cuentas, TLC

CONSTANTS h1, h2, h3, h4, u1, u2, k1, k2, g1

Simetria == Permutations(Peticiones)

Filas == (u1 :> [estado |-> "activo", hasta |-> "nulo", clave |-> k1, google |-> Nulo])
      @@ (u2 :> [estado |-> "activo", hasta |-> "nulo", clave |-> Nulo, google |-> Nulo])

C(t, u, k, d) == [tipo |-> t, usuario |-> u, clave |-> k, dato |-> d]

\* Right and wrong passwords, one Google identity for both accounts, every operation on u1.
Pedidos ==
  {C("login", u1, k1, Nulo), C("login", u1, k2, Nulo), C("google", u1, k1, g1), C("google", u2, Nulo, g1),
   C("desbloquear", u1, Nulo, Nulo), C("estado", u1, Nulo, "activo"), C("estado", u1, Nulo, "inactivo"),
   C("recuperar", u1, Nulo, Nulo)}
  \cup {C("confirmar", u1, k2, t) : t \in Peticiones} \cup {C("logout", u1, Nulo, s) : s \in Peticiones}
=============================================================================
