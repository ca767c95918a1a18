------------------------------- MODULE Leases -------------------------------
(***************************************************************************)
(* The rules of the `resource_leases' table (ownership.py) that every      *)
(* component of T.A.R.S. shares.  A row names its owner: a token, a pid    *)
(* and the start time of that process, so an owner identity is never used  *)
(* twice.  A row is taken from its owner only when /proc proves that the   *)
(* owner's process is gone; the expiry stamp of a row never makes it       *)
(* claimable, it only makes the guarded writes of a late owner fail.       *)
(***************************************************************************)

CONSTANTS
    Owner,      \* owner tokens
    Process,    \* processes (pid and start time)
    ProcessOf,  \* the process an owner token was created in
    Opaque,     \* processes whose start time /proc does not show
    None        \* the absent owner of a row that does not exist

ASSUME OwnersLiveInProcesses == ProcessOf \in [Owner -> Process]
ASSUME OpaqueAreProcesses == Opaque \subseteq Process
ASSUME NoneIsNoOwner == None \notin Owner

Holder == Owner \union {None}

\* owner_alive: the identity is known and still runs
OwnerAlive(proc, o) == proc[ProcessOf[o]] = "alive" /\ ProcessOf[o] \notin Opaque

\* owner_gone: positive evidence only, never the absence of evidence
OwnerGone(proc, o) == proc[ProcessOf[o]] = "gone" /\ ProcessOf[o] \notin Opaque

\* mutant: an owner of whom nothing is known counts as gone
ActiveUnlessSeen(proc, holder) == holder # None /\ OwnerAlive(proc, holder)

\* active: a row that nobody but its own owner may replace
Active(proc, holder) == holder # None /\ ~OwnerGone(proc, holder)

\* claim_in_transaction: no row, one's own row, or the row of a dead owner
Claimable(proc, holder, o) == holder = o \/ ~Active(proc, holder)

\* held_by: the row of this very owner, whose process is seen alive
HeldBy(proc, holder, o) == holder = o /\ OwnerAlive(proc, o)
=============================================================================
