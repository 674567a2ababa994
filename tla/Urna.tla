-------------------------------- MODULE Urna --------------------------------
(***************************************************************************)
(* The abstract ballot box: what POST /votos promises, with no handler,    *)
(* lock, snapshot or unique index in sight.  A right (DerechoVoto) enters   *)
(* the register, is exercised at most once and for good, and a receipt     *)
(* (comprobante) is only ever given for a ballot that is in the box.       *)
(***************************************************************************)
CONSTANTS
  Derechos,    \* identifiers of rights to vote
  Opciones     \* what a ballot can say

VARIABLES
  padron,      \* rights that have been materialised
  urna,        \* <<right, choice>> pairs in the box
  acuses       \* rights for which a receipt has been handed out

vars == <<padron, urna, acuses>>

Ejercidos == {b[1] : b \in urna}

Init ==
  /\ padron = {}
  /\ urna = {}
  /\ acuses = {}

Inscribir ==
  /\ padron' \in SUBSET Derechos
  /\ padron \subseteq padron'
  /\ UNCHANGED <<urna, acuses>>

Votar ==
  /\ \E d \in padron \ Ejercidos, o \in Opciones :
       urna' = urna \cup {<<d, o>>}
  /\ UNCHANGED <<padron, acuses>>

Acusar ==
  /\ \E d \in Ejercidos : acuses' = acuses \cup {d}
  /\ UNCHANGED <<padron, urna>>

Next == Inscribir \/ Votar \/ Acusar

Spec == Init /\ [][Next]_vars
=============================================================================
