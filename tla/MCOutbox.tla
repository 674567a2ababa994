------------------------------ MODULE MCOutbox ------------------------------
(* Instance of Outbox: the comprobantes of two votes and two executions. *)
EXTENDS Outbox

CONSTANTS c1, c2, e1, e2

\* The votes were cast one after the other.
UnoTrasOtro == [j \in Trabajos |-> IF j = c1 THEN 1 ELSE 2]
=============================================================================
