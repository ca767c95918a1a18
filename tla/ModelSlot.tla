----------------------------- MODULE ModelSlot -----------------------------
(***************************************************************************)
(* The slot of the local models: its execution scope (ownership.py), the   *)
(* inference that runs inside (runtime.py, runtime_routing.py,             *)
(* runtime_backends.py) and the supervised processes of a calibration      *)
(* (calibration_engine.py, process_supervision.py).  A process is started  *)
(* behind a gate, named in the lease, and only then let go: a lease whose  *)
(* owner is dead is taken over once the processes it names are dead too.   *)
(*                                                                         *)
(* A scope is an owner token, of which a process has several, one for each *)
(* thread.  A child stands for a supervisor with all it started, and ends  *)
(* as a whole.  The lease never expires by itself; a late heartbeat only   *)
(* makes the checks of its holder fail.                                    *)
(***************************************************************************)
EXTENDS Naturals, FiniteSets

CONSTANTS
    Scope,          \* owner tokens
    SlotProcess,        \* processes of T.A.R.S.
    ScopeProcess,      \* the process of each token
    Child,          \* supervised processes
    NoScope,
    MaxDepth        \* bound on scopes entered inside each other

ASSUME ScopesHaveProcesses == ScopeProcess \in [Scope -> SlotProcess]
ASSUME NoScopeIsNone == NoScope \notin Scope
ASSUME MaxDepthIsNat == MaxDepth \in Nat

VARIABLES
    alive,          \* live processes
    slot,           \* the lease: owner, whether it is dead, fenced processes, lapsed
    depth,          \* nesting of each scope
    phase,          \* where the inference of a scope is
    loaded,         \* scopes whose load was not answered by an unload
    spared,         \* history: those whose model was left to its time to live
    backend,        \* the lifecycle of the backend of a scope's route
    child           \* per child: its scope, what it does, where its parent is with it

slotVars == <<alive, slot, depth, phase, loaded, spared, backend, child>>

Unused == [by |-> NoScope, does |-> "nothing", stage |-> "none"]
NoLease == [owner |-> NoScope, dead |-> FALSE, fences |-> {}, lapsed |-> FALSE]

Living(c) == child[c].does \in {"waits", "runs"}
FenceAlive == \E c \in slot.fences : Living(c)
\* mutant: the death of the owner is enough
ReclaimableByOwner == slot.dead
Reclaimable == slot.dead /\ ~FenceAlive

OwnsSlot(s) == slot.owner = s /\ ~slot.dead
SlotHeld(s) == OwnsSlot(s) /\ ~slot.lapsed
ChildrenOf(s) == {c \in Child : child[c].by = s /\ child[c].stage # "none"}

-----------------------------------------------------------------------------
(* model_execution_scope *)

Acquire(s) ==
    /\ ScopeProcess[s] \in alive /\ depth[s] = 0 /\ slot.owner # s
    /\ slot = NoLease \/ Reclaimable
    /\ slot' = [NoLease EXCEPT !.owner = s]
    /\ depth' = [depth EXCEPT ![s] = 1]
    /\ UNCHANGED <<alive, phase, loaded, spared, backend, child>>

\* a scope inside its own scope borrows the lease, if it still has it
EnterNested(s) ==
    /\ depth[s] \in 1..(MaxDepth - 1) /\ SlotHeld(s)
    /\ depth' = [depth EXCEPT ![s] = @ + 1]
    /\ UNCHANGED <<alive, slot, phase, loaded, spared, backend, child>>

Release(s) == IF slot.owner = s /\ ~FenceAlive THEN NoLease ELSE slot
LeaveScope(s) ==
    /\ depth[s] > 0 /\ phase[s] = "no route" /\ ChildrenOf(s) = {}
    /\ depth' = [depth EXCEPT ![s] = @ - 1]
    /\ slot' = IF depth[s] = 1 THEN Release(s) ELSE slot
    /\ UNCHANGED <<alive, phase, loaded, spared, backend, child>>

\* the heartbeat is late, gives up on an error, or catches up
Lapse ==
    /\ slot # NoLease /\ ~slot.lapsed
    /\ slot' = [slot EXCEPT !.lapsed = TRUE]
    /\ UNCHANGED <<alive, depth, phase, loaded, spared, backend, child>>
Beat ==
    /\ slot.lapsed /\ ~slot.dead
    /\ slot' = [slot EXCEPT !.lapsed = FALSE]
    /\ UNCHANGED <<alive, depth, phase, loaded, spared, backend, child>>

-----------------------------------------------------------------------------
(* An inference: route, load, infer, unload *)

\* the route is ready or the call ends here
Route(s) ==
    /\ depth[s] > 0 /\ phase[s] = "no route" /\ ChildrenOf(s) = {} /\ SlotHeld(s)
    /\ phase' = [phase EXCEPT ![s] = "route"]
    /\ \E b \in {"explicit", "on demand"} : backend' = [backend EXCEPT ![s] = b]
    /\ UNCHANGED <<alive, slot, depth, loaded, spared, child>>

Loads(s) == loaded' = loaded \union {s} /\ spared' = spared \ {s}

\* mutant: a load that raises leaves the lifecycle at once
PrepareOutside(s) ==
    /\ phase[s] = "route"
    /\ \/ backend[s] = "explicit" /\ Loads(s)
          /\ phase' \in {[phase EXCEPT ![s] = n] : n \in {"ready", "no route"}}
       \/ phase' = [phase EXCEPT ![s] = "no route"] /\ UNCHANGED <<loaded, spared>>
    /\ UNCHANGED <<alive, slot, depth, backend, child>>

\* The artifact is verified and the backend told to load, which one that loads
\* on demand only acknowledges.  Either may raise, before or after the backend
\* has acted, and the unload follows all the same.
Prepare(s) ==
    /\ phase[s] = "route"
    /\ \/ backend[s] = "explicit" /\ Loads(s)
          /\ phase' \in {[phase EXCEPT ![s] = n] : n \in {"ready", "ended"}}
       \/ backend[s] = "on demand" /\ phase' = [phase EXCEPT ![s] = "ready"] /\ UNCHANGED <<loaded, spared>>
       \/ phase' = [phase EXCEPT ![s] = "ended"] /\ UNCHANGED <<loaded, spared>>
    /\ UNCHANGED <<alive, slot, depth, backend, child>>

\* tokens are counted, the limits of the route checked, the request built and
\* sent; the first that reaches a backend on demand makes it load
InferInSlot(s) ==
    /\ phase[s] = "ready"
    /\ \/ UNCHANGED <<loaded, spared>>
       \/ backend[s] = "on demand" /\ Loads(s)
    /\ phase' \in {[phase EXCEPT ![s] = n] : n \in {"infers", "ended"}}
    /\ UNCHANGED <<alive, slot, depth, backend, child>>

\* the answer, the end of the stream, an error, or the reader stops reading
InferEnds(s) ==
    /\ phase[s] = "infers"
    /\ phase' = [phase EXCEPT ![s] = "ended"]
    /\ UNCHANGED <<alive, slot, depth, loaded, spared, backend, child>>

\* An explicit unload is carried out or fails.  A backend on demand, the
\* reference backend among them, answers "ttl-managed" and unloads nothing.
Unload(s) ==
    /\ phase[s] = "ended"
    /\ \/ backend[s] = "explicit" /\ loaded' = loaded \ {s} /\ UNCHANGED spared
       \/ spared' = spared \union (loaded \intersect {s}) /\ UNCHANGED loaded
    /\ phase' = [phase EXCEPT ![s] = "no route"] /\ backend' = [backend EXCEPT ![s] = "none"]
    /\ UNCHANGED <<alive, slot, depth, child>>

\* the backend unloads what it was not asked for after its time to live
TimeToLive(s) ==
    /\ s \in spared
    /\ loaded' = loaded \ {s} /\ spared' = spared \ {s}
    /\ UNCHANGED <<alive, slot, depth, phase, backend, child>>

-----------------------------------------------------------------------------
(* The supervised processes of a calibration *)

\* mutant: the process does not wait for its gate
SpawnUngated(s, c) ==
    /\ depth[s] > 0 /\ phase[s] = "no route" /\ SlotHeld(s)
    /\ child[c] = Unused
    /\ child' = [child EXCEPT ![c] = [by |-> s, does |-> "runs", stage |-> "spawned"]]
    /\ UNCHANGED <<alive, slot, depth, phase, loaded, spared, backend>>

Spawn(s, c) ==
    /\ depth[s] > 0 /\ phase[s] = "no route" /\ SlotHeld(s)
    /\ child[c] = Unused
    /\ child' = [child EXCEPT ![c] = [by |-> s, does |-> "waits", stage |-> "spawned"]]
    /\ UNCHANGED <<alive, slot, depth, phase, loaded, spared, backend>>

AddFence(s, c) ==
    /\ child[c].by = s /\ child[c].stage = "spawned"
    /\ IF slot.owner = s THEN slot' = [slot EXCEPT !.fences = @ \union {c}] ELSE UNCHANGED slot
    /\ child' \in {[child EXCEPT ![c].stage = n] : n \in (IF slot.owner = s THEN {"fenced", "stopping"} ELSE {"stopping"})}
    /\ UNCHANGED <<alive, depth, phase, loaded, spared, backend>>

ReleaseStartGate(s, c) ==
    /\ child[c].by = s /\ child[c].stage = "fenced"
    /\ child' = [child EXCEPT ![c].stage = "waited for", ![c].does = IF @ = "waits" THEN "runs" ELSE @]
    /\ UNCHANGED <<alive, slot, depth, phase, loaded, spared, backend>>

ChildEnds(c) ==
    /\ child[c].does = "runs"
    /\ child' = [child EXCEPT ![c].does = "ended"]
    /\ UNCHANGED <<alive, slot, depth, phase, loaded, spared, backend>>

\* A timeout or an error; a process that does not die in time is given up, and
\* one that was not let go has no further end.
StopChild(s, c) ==
    /\ child[c].by = s /\ child[c].stage \in {"stopping", "waited for"}
    /\ \/ child' = [child EXCEPT ![c].does = "ended",
                               ![c].stage = IF @ = "stopping" THEN "none" ELSE @]
       \/ child' = [child EXCEPT ![c].stage = "none"]
    /\ UNCHANGED <<alive, slot, depth, phase, loaded, spared, backend>>

FinishFenced(s, c) ==
    /\ child[c].by = s /\ child[c].stage = "waited for" /\ child[c].does = "ended"
    /\ slot' = IF slot.owner = s THEN [slot EXCEPT !.fences = @ \ {c}] ELSE slot
    /\ child' = [child EXCEPT ![c] = Unused]
    /\ UNCHANGED <<alive, depth, phase, loaded, spared, backend>>

-----------------------------------------------------------------------------
(* Death of a process *)

ProcessDies(p) ==
    LET its == {s \in Scope : ScopeProcess[s] = p}
    IN  /\ p \in alive
        /\ alive' = alive \ {p}
        /\ slot' = [slot EXCEPT !.dead = @ \/ slot.owner \in its]
        /\ depth' = [s \in Scope |-> IF s \in its THEN 0 ELSE depth[s]]
        /\ phase' = [s \in Scope |-> IF s \in its THEN "no route" ELSE phase[s]]
        /\ spared' = spared \union (loaded \intersect its)
        /\ backend' = [s \in Scope |-> IF s \in its THEN "none" ELSE backend[s]]
        /\ child' = [c \in Child |-> IF child[c].by \in its THEN [child[c] EXCEPT !.stage = "none"] ELSE child[c]]
        /\ UNCHANGED loaded

ProcessStarts(p) ==
    /\ p \notin alive
    /\ alive' = alive \union {p}
    /\ UNCHANGED <<slot, depth, phase, loaded, spared, backend, child>>

\* the supervisor learns of the death, or of a stop that was given up, and kills
\* what it started; the gate of a dead owner reads as closed
OwnerDeathReaches(c) ==
    /\ Living(c) /\ child[c].stage = "none"
    /\ child' = [child EXCEPT ![c].does = "ended"]
    /\ UNCHANGED <<alive, slot, depth, phase, loaded, spared, backend>>

\* a process that nobody names any more
Forgotten(c) ==
    /\ child[c].does = "ended" /\ child[c].stage = "none" /\ c \notin slot.fences
    /\ child' = [child EXCEPT ![c] = Unused]
    /\ UNCHANGED <<alive, slot, depth, phase, loaded, spared, backend>>

SlotInit ==
    /\ alive = SlotProcess /\ slot = NoLease
    /\ depth = [s \in Scope |-> 0] /\ phase = [s \in Scope |-> "no route"]
    /\ loaded = {} /\ spared = {} /\ backend = [s \in Scope |-> "none"]
    /\ child = [c \in Child |-> Unused]

SlotNext ==
    \/ \E s \in Scope :
         \/ Acquire(s) \/ EnterNested(s) \/ LeaveScope(s)
         \/ Route(s) \/ Prepare(s) \/ InferInSlot(s) \/ InferEnds(s) \/ Unload(s) \/ TimeToLive(s)
         \/ \E c \in Child : Spawn(s, c) \/ AddFence(s, c) \/ ReleaseStartGate(s, c)
                              \/ StopChild(s, c) \/ FinishFenced(s, c)
    \/ \E c \in Child : ChildEnds(c) \/ OwnerDeathReaches(c) \/ Forgotten(c)
    \/ \E p \in SlotProcess : ProcessDies(p) \/ ProcessStarts(p)
    \/ Lapse \/ Beat

SlotSpec == SlotInit /\ [][SlotNext]_slotVars

-----------------------------------------------------------------------------
(* Properties *)

\* Whatever works in the slot, a request or a benchmark, belongs to the scope
\* that has the lease, through nested scopes, late heartbeats and the death of
\* the owner before its children; so does a loaded model, until it is left to
\* its time to live, as it always is by a backend on demand (llama-swap, the
\* reference), else when its unload fails or its process dies.
OneUserOfTheSlot ==
    /\ \A c \in Child : child[c].does = "runs" => child[c].by = slot.owner
    /\ \A s \in Scope : phase[s] = "infers" \/ s \in loaded \ spared => OwnsSlot(s)
=============================================================================
