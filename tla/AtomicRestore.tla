--------------------------- MODULE AtomicRestore ---------------------------
(***************************************************************************)
(* What a restore promises (docs/PORTABILITY.md:30): one durable commit    *)
(* point.  The installation has a version of its portable state, which a   *)
(* restore replaces at once for all the members it brings; a process that  *)
(* starts is shown that version or nothing; a bundle holds one version.    *)
(***************************************************************************)
CONSTANTS Item, Hidden

VARIABLES version, shown, bundle

Replaced(S, r) == [i \in Item |-> IF i \in S THEN r ELSE version[i]]

Hide == shown' = Hidden /\ UNCHANGED <<version, bundle>>
Show == shown' = version /\ UNCHANGED <<version, bundle>>
Commit(S, r) ==
    shown = Hidden /\ version' = Replaced(S, r) /\ UNCHANGED <<shown, bundle>>
BackUp == bundle' = version /\ UNCHANGED <<version, shown>>

Start(v) == version = v /\ shown = v /\ bundle = v
Step(Restores) ==
    Hide \/ Show \/ BackUp \/ \E S \in SUBSET Item, r \in Restores : Commit(S, r)
=============================================================================
