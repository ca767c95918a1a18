---------------------------- MODULE MCDelegation ----------------------------
(***************************************************************************)
(* Delegation and, as another part of the same run, long-term memory with  *)
(* the review of what a child proposed for it.  The two meet in no table   *)
(* the models keep: a behaviour is one of one of them.                     *)
(***************************************************************************)
EXTENDS Delegation, Memory, TLC

CONSTANTS o1, o2, o3, p1, p2, d1, d2, c1, u1, text

VARIABLE part   \* the component this behaviour is of

\* two calls in one process, one in another
MCProcessOf == (o1 :> p1) @@ (o2 :> p1) @@ (o3 :> p2)

\* a user remembers what a task has proposed
MCTextOf == (c1 :> text) @@ (u1 :> text)

MCInit == part \in {"delegation", "memory"} /\ Init /\ MemoryInit

MCNext ==
    \/ part = "delegation" /\ Next /\ UNCHANGED <<part, memoryVars>>
    \/ part = "memory" /\ MemoryNext /\ UNCHANGED <<part, vars>>

MCSpec == MCInit /\ [][MCNext]_<<part, vars, memoryVars>>

\* What tells states apart: the other part is as it was in MCInit.
PartView == IF part = "memory" THEN <<part, memoryVars>> ELSE <<part, vars>>
=============================================================================
