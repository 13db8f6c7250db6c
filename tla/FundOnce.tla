------------------------------ MODULE FundOnce ------------------------------
(***************************************************************************)
(* What S0 funding promises, without recovery, files or faults: a          *)
(* namespace commits to at most one funding transaction, of its own, and   *)
(* comes to at most one outcome, which stands.                             *)
(***************************************************************************)
CONSTANTS Namespace, Tx

VARIABLES
    funding,    \* the transactions a namespace has committed to
    outcome     \* what became of it

Init ==
    /\ funding = [n \in Namespace |-> {}]
    /\ outcome = [n \in Namespace |-> "open"]

Commit(n, t) ==
    /\ funding[n] = {}
    /\ \A m \in Namespace : t \notin funding[m]
    /\ funding' = [funding EXCEPT ![n] = {t}]
    /\ UNCHANGED outcome

Conclude(n, how) ==
    /\ funding[n] # {}
    /\ outcome[n] = "open"
    /\ outcome' = [outcome EXCEPT ![n] = how]
    /\ UNCHANGED funding

Next == \E n \in Namespace :
    \/ \E t \in Tx : Commit(n, t)
    \/ \E how \in {"funded", "refused"} : Conclude(n, how)

Spec == Init /\ [][Next]_<<funding, outcome>>

=============================================================================
