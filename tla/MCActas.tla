------------------------------- MODULE MCActas ------------------------------
(* Instance of Actas: two actas of one cierre and two executions. *)
EXTENDS Actas

CONSTANTS t1, t2, e1, e2

\* cerrar() creates the actas of a proceso in one transaction: one now() for all.
UnaTransaccion == [t \in Trabajos |-> 0]
=============================================================================
