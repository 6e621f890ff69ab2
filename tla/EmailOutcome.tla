---------------------------- MODULE EmailOutcome ----------------------------
(***************************************************************************)
(* What the delivery service promises about the e-mail of one showing,     *)
(* without requests, locks, leases or attempts: there is one logical       *)
(* e-mail, at most one copy of it is ever accepted by the provider, and    *)
(* what is recorded about it is never a false certainty.                   *)
(***************************************************************************)
VARIABLES
  row,      \* what is recorded of the e-mail; "none" before the first try
  arrived   \* the tries whose message the provider accepted

outcomeVars == <<row, arrived>>

Init ==
  /\ row = "none"
  /\ arrived = {}

\* A try starts only when it is known that no earlier one got through.
Try ==
  /\ row \in {"none", "failed"}
  /\ arrived = {}
  /\ row' = "pending"
  /\ UNCHANGED arrived

\* The provider accepts a message, at once or long after the sender gave up.
Arrive ==
  /\ row \in {"pending", "outcome_unknown"}
  /\ arrived = {}
  /\ arrived' # {}
  /\ \A j, k \in arrived' : j = k
  /\ UNCHANGED row

\* An outcome is recorded.  "sent" and "failed" are certainties.
Settle ==
  /\ row \in {"pending", "outcome_unknown"}
  /\ \/ row' = "outcome_unknown"
     \/ row' = "sent" /\ arrived # {}
     \/ row' = "failed" /\ arrived = {}
  /\ UNCHANGED arrived

Next == Try \/ Arrive \/ Settle

Spec == Init /\ [][Next]_outcomeVars

=============================================================================
