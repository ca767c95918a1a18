-------------------------- MODULE MCSchedulerWatch --------------------------
(***************************************************************************)
(* The service with a one-shot schedule, which was made and edited before  *)
(* the service started and may only be removed, and a watch, which is      *)
(* made, edited, turned off and on and removed while the service runs.     *)
(***************************************************************************)
EXTENDS Scheduler, TLC

CONSTANTS o1, p1, s1, s2

MCProcessOf == o1 :> p1
MCKindOf == (s1 :> "one-shot") @@ (s2 :> "condition")

\* due at the end of time, and at its last revision
Settled == [next |-> Horizon, every |-> CHOOSE e \in Intervals : TRUE, policy |-> CHOOSE p \in Policies : TRUE,
            enabled |-> TRUE, seen |-> FALSE, removed |-> FALSE, revision |-> MaxRevision]

MCInit == Idle /\ row = [Unknown EXCEPT ![s1] = Settled]

MCSpec == MCInit /\ [][Next]_vars /\ Fairness
=============================================================================
