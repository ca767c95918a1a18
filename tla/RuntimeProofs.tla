--------------------------- MODULE RuntimeProofs ---------------------------
(***************************************************************************)
(* The runtime of the local models, for every number of processes,         *)
(* scopes, children, writers, roles and aliases: the slot has one user,    *)
(* whoever dies before whom (ModelSlot), a switch of a model takes effect  *)
(* as a whole or not at all (RuntimeConfig), no role is ever bound to a    *)
(* model that is not registered (ModelLifecycle), and a promoted           *)
(* calibration is one chain of measurements (Calibration).  A binding and  *)
(* a removal read what they rely on in one step and write in a later one;  *)
(* what they read stays true because every step that could change it       *)
(* needs the transaction of the registries, which only one process holds.  *)
(***************************************************************************)
EXTENDS ModelSlot, RuntimeConfig, ModelLifecycle, Calibration, TLAPS, SequenceTheorems

Phases == {"no route", "route", "ready", "infers", "ended"}
ChildRow == [by : Scope \union {NoScope}, does : {"nothing", "waits", "runs", "ended"},
             stage : {"none", "spawned", "fenced", "stopping", "waited for"}]

Lease == [owner : Scope \union {NoScope}, dead : BOOLEAN, fences : SUBSET Child,
          lapsed : BOOLEAN]

SlotTypes ==
    /\ alive \subseteq SlotProcess
    /\ slot \in Lease
    /\ depth \in [Scope -> Nat]
    /\ phase \in [Scope -> Phases]
    /\ loaded \subseteq Scope /\ spared \subseteq Scope
    /\ child \in [Child -> ChildRow]

\* who is in a scope has the lease, and its owner is alive
ScopeHasLease == \A s \in Scope : depth[s] > 0 => OwnsSlot(s)

\* an inference is inside a scope, and has loaded what is loaded
InferenceInScope ==
    \A s \in Scope : /\ phase[s] # "no route" => depth[s] > 0
                     /\ s \in loaded \ spared => phase[s] \in {"ready", "infers", "ended"}

\* a child that its parent still waits for is inside the scope of the parent
ParentInScope ==
    \A c \in Child : child[c].stage # "none" =>
        child[c].by \in Scope /\ depth[child[c].by] > 0

\* Who was let go is of the owner of the lease and named in it, and the name
\* stays for as long as the process does.
ChildFenced ==
    \A c \in Child :
        /\ child[c].does = "runs" => child[c].by \in Scope /\ child[c].by = slot.owner
        /\ child[c].does = "runs" \/ child[c].stage \in {"fenced", "waited for"} =>
             c \in slot.fences

SlotInv == SlotTypes /\ ScopeHasLease /\ InferenceInScope /\ ParentInScope /\ ChildFenced

-----------------------------------------------------------------------------
(* The steps of the scope *)

\* A lease that may be taken over has no process that works under it.
LEMMA TakenOverIsIdle ==
  ASSUME SlotInv, slot = NoLease \/ Reclaimable
  PROVE  /\ \A s \in Scope : depth[s] = 0
         /\ \A c \in Child : child[c].does # "runs" /\ child[c].stage = "none"
<1>1. slot.owner = NoScope \/ Reclaimable
  BY DEF NoLease
<1>2. ASSUME NEW s \in Scope PROVE depth[s] = 0
  <2>1. depth[s] \in Nat
    BY DEF SlotInv, SlotTypes
  <2>2. ~OwnsSlot(s)
    BY ONLY <1>1, NoScopeIsNone, s \in Scope DEF OwnsSlot, Reclaimable
  <2>3. QED BY <2>1, <2>2 DEF SlotInv, ScopeHasLease
<1>3. ASSUME NEW c \in Child PROVE child[c].stage = "none"
  <2>1. CASE child[c].stage # "none"
    BY <1>2, <2>1 DEF SlotInv, ParentInScope
  <2>2. QED BY <2>1
<1>4. ASSUME NEW c \in Child PROVE child[c].does # "runs"
  <2>1. CASE child[c].does = "runs"
    <3>1. child[c].by \in Scope /\ child[c].by = slot.owner /\ c \in slot.fences
      BY <2>1 DEF SlotInv, ChildFenced
    <3>2. FenceAlive
      BY ONLY <2>1, <3>1 DEF FenceAlive, Living
    <3>3. QED BY ONLY <1>1, <3>1, <3>2, NoScopeIsNone DEF Reclaimable
  <2>2. QED BY <2>1
<1>5. QED BY <1>2, <1>3, <1>4

\* Who enters the slot takes the lease of nobody alive, and who leaves it has
\* nothing running.
LEMMA ScopeSteps ==
  ASSUME SlotInv, NEW s \in Scope, Acquire(s) \/ EnterNested(s) \/ LeaveScope(s)
  PROVE  SlotInv'
<1> USE DEF SlotInv
<1>1. CASE Acquire(s)
  <2>1. /\ \A r \in Scope : depth[r] = 0
        /\ \A c \in Child : child[c].does # "runs" /\ child[c].stage = "none"
    BY <1>1, TakenOverIsIdle DEF Acquire
  <2>2. slot' \in Lease /\ slot'.owner = s /\ ~slot'.dead
    BY ONLY <1>1 DEF Acquire, NoLease, Lease
  <2>3. depth' \in [Scope -> Nat] /\ \A r \in Scope : depth'[r] > 0 => r = s
    BY <1>1, <2>1 DEF Acquire, SlotTypes
  <2>4. SlotTypes'
    BY <1>1, <2>2, <2>3 DEF Acquire, SlotTypes
  <2>5. ScopeHasLease'
    BY ONLY <2>2, <2>3 DEF ScopeHasLease, OwnsSlot
  <2>6. InferenceInScope'
    <3>1. ASSUME NEW r \in Scope PROVE phase[r] = "no route" /\ r \notin loaded \ spared
      <4>1. depth[r] = 0
        BY <2>1
      <4>2. /\ phase[r] # "no route" => depth[r] > 0
            /\ r \in loaded \ spared => phase[r] \in {"ready", "infers", "ended"}
        BY DEF InferenceInScope
      <4>3. ~(depth[r] > 0)
        BY ONLY <4>1
      <4>4. QED BY ONLY <4>2, <4>3
    <3>2. UNCHANGED <<phase, loaded, spared>>
      BY <1>1 DEF Acquire
    <3>3. QED BY ONLY <3>1, <3>2 DEF InferenceInScope
  <2>7. ParentInScope' /\ ChildFenced'
    BY <1>1, <2>1 DEF Acquire, ParentInScope, ChildFenced
  <2>8. QED BY <2>4, <2>5, <2>6, <2>7
<1>2. CASE EnterNested(s)
  <2>1. depth' \in [Scope -> Nat] /\ \A r \in Scope : depth'[r] > 0 <=> depth[r] > 0
    BY <1>2, MaxDepthIsNat DEF EnterNested, SlotTypes
  <2>2. SlotTypes' /\ ScopeHasLease'
    BY <1>2, <2>1 DEF EnterNested, SlotTypes, ScopeHasLease, OwnsSlot
  <2>3. InferenceInScope'
    BY <1>2, <2>1 DEF EnterNested, InferenceInScope
  <2>4. ParentInScope' /\ ChildFenced'
    BY <1>2, <2>1 DEF EnterNested, ParentInScope, ChildFenced
  <2>5. QED BY <2>2, <2>3, <2>4
<1>3. CASE LeaveScope(s)
  <2>1. slot' = slot \/ (slot' = NoLease /\ depth[s] = 1 /\ slot.owner = s /\ ~FenceAlive)
    BY <1>3 DEF LeaveScope, Release
  <2>2. /\ depth' \in [Scope -> Nat] /\ depth'[s] = depth[s] - 1
        /\ \A r \in Scope : r # s => depth'[r] = depth[r]
    <3>1. depth \in [Scope -> Nat] /\ depth[s] \in Nat /\ depth[s] > 0
      BY <1>3 DEF LeaveScope, SlotTypes
    <3>2. depth[s] - 1 \in Nat
      BY ONLY <3>1
    <3>3. depth' = [depth EXCEPT ![s] = depth[s] - 1]
      BY ONLY <1>3 DEF LeaveScope
    <3>4. QED BY ONLY <3>1, <3>2, <3>3, s \in Scope
  <2>3. NoLease \in Lease /\ NoLease.owner = NoScope /\ NoLease.fences = {}
    BY ONLY DEF NoLease, Lease
  <2>4. SlotTypes'
    BY <1>3, <2>1, <2>2, <2>3 DEF LeaveScope, SlotTypes
  <2>5. \A c \in Child : child[c].stage # "none" => child[c].by # s
    BY <1>3 DEF LeaveScope, ChildrenOf
  <2>6. ScopeHasLease'
    <3>1. CASE slot' = slot
      BY <1>3, <2>2, <3>1 DEF LeaveScope, ScopeHasLease, OwnsSlot, SlotTypes
    <3>2. CASE depth[s] = 1 /\ slot.owner = s
      BY <2>2, <3>2 DEF ScopeHasLease, OwnsSlot, SlotTypes
    <3>3. QED BY <2>1, <3>1, <3>2
  <2>7. InferenceInScope'
    BY <1>3, <2>2 DEF LeaveScope, InferenceInScope
  <2>8. ParentInScope'
    BY <1>3, <2>2, <2>5 DEF LeaveScope, ParentInScope
  <2>9. ChildFenced'
    <3>1. CASE slot' = slot
      BY <1>3, <3>1 DEF LeaveScope, ChildFenced
    <3>2. CASE slot.owner = s /\ ~FenceAlive
      <4>1. \A c \in Child : child[c].does # "runs"
        BY <3>2 DEF ChildFenced, FenceAlive, Living
      <4>2. \A c \in Child : child[c].stage = "none"
        BY <2>5, <3>2 DEF ParentInScope, ScopeHasLease, OwnsSlot
      <4>3. QED BY <1>3, <4>1, <4>2 DEF LeaveScope, ChildFenced
    <3>3. QED BY <2>1, <3>1, <3>2
  <2>10. QED BY <2>4, <2>6, <2>7, <2>8, <2>9
<1>4. QED BY <1>1, <1>2, <1>3

-----------------------------------------------------------------------------
(* The inference and the heartbeat *)

\* A lease that lapses or is renewed keeps its owner.
LEMMA BeatSteps ==
  ASSUME SlotInv, Lapse \/ Beat
  PROVE  SlotInv'
<1> USE DEF SlotInv
<1>1. /\ slot' \in Lease /\ slot'.owner = slot.owner /\ slot'.dead = slot.dead
      /\ slot'.fences = slot.fences
  BY DEF Lapse, Beat, SlotTypes, Lease
<1>2. SlotTypes'
  BY <1>1 DEF Lapse, Beat, SlotTypes
<1>3. ScopeHasLease' /\ InferenceInScope' /\ ParentInScope'
  BY <1>1 DEF Lapse, Beat, ScopeHasLease, OwnsSlot, InferenceInScope, ParentInScope
<1>4. ChildFenced'
  BY <1>1 DEF Lapse, Beat, ChildFenced
<1>5. QED BY <1>2, <1>3, <1>4

\* An inference begins and ends inside of its scope.
LEMMA InferenceSteps ==
  ASSUME SlotInv, NEW s \in Scope,
         \/ Route(s) \/ Prepare(s) \/ InferInSlot(s) \/ InferEnds(s) \/ Unload(s)
         \/ TimeToLive(s)
  PROVE  SlotInv'
<1> USE DEF SlotInv
<1>1. UNCHANGED <<alive, slot, depth, child>>
  BY DEF Route, Prepare, InferInSlot, InferEnds, Unload, TimeToLive
<1>2. SlotTypes'
  BY <1>1 DEF SlotTypes, Phases, Route, Prepare, Loads, InferInSlot, InferEnds, Unload, TimeToLive
<1>3. InferenceInScope'
  BY <1>1 DEF SlotTypes, InferenceInScope, Phases, Route, Prepare, Loads, InferInSlot, InferEnds,
              Unload, TimeToLive
<1>4. ScopeHasLease' /\ ParentInScope' /\ ChildFenced'
  BY <1>1 DEF ScopeHasLease, OwnsSlot, ParentInScope, ChildFenced
<1>5. QED BY <1>2, <1>3, <1>4

-----------------------------------------------------------------------------
(* The children *)

Stage == {"none", "spawned", "fenced", "stopping", "waited for"}
Activity == {"nothing", "waits", "runs", "ended"}

\* the row of the child and no other
ChildBecomes(c, by, does, stage) ==
    /\ child'[c].by = by /\ child'[c].does = does /\ child'[c].stage = stage
    /\ child' \in [Child -> ChildRow]
    /\ \A d \in Child : d # c => child'[d] = child[d]

\* The row of one child is written; the others stay.
LEMMA RowReplaced ==
  ASSUME child \in [Child -> ChildRow], NEW c \in Child, NEW by \in Scope \union {NoScope},
         NEW does \in Activity, NEW stage \in Stage,
         child' = [child EXCEPT ![c] = [by |-> by, does |-> does, stage |-> stage]]
  PROVE  ChildBecomes(c, by, does, stage)
<1> DEFINE row == [by |-> by, does |-> does, stage |-> stage]
<1>1. row \in ChildRow BY DEF ChildRow, Activity, Stage
<1>2. row.by = by /\ row.does = does /\ row.stage = stage OBVIOUS
<1>3. child' = [child EXCEPT ![c] = row] OBVIOUS
<1> HIDE DEF row
<1>4. QED BY <1>1, <1>2, <1>3 DEF ChildBecomes

\* one or two fields of the row
LEMMA StageChanges ==
  ASSUME child \in [Child -> ChildRow], NEW c \in Child, NEW stage \in Stage,
         child' = [child EXCEPT ![c].stage = stage]
  PROVE  ChildBecomes(c, child[c].by, child[c].does, stage)
<1>1. child[c] = [by |-> child[c].by, does |-> child[c].does, stage |-> child[c].stage]
  BY DEF ChildRow
<1>2. child[c].by \in Scope \union {NoScope} /\ child[c].does \in Activity /\ child[c].stage \in Stage
  BY DEF ChildRow, Activity, Stage
<1>3. child' = [child EXCEPT ![c] = [by |-> child[c].by, does |-> child[c].does, stage |-> stage]]
  <2>1. [child[c] EXCEPT !.stage = stage] =
          [by |-> child[c].by, does |-> child[c].does, stage |-> stage]
    BY ONLY <1>1
  <2>2. child' = [child EXCEPT ![c] = [child[c] EXCEPT !.stage = stage]]
    OBVIOUS
  <2>3. QED BY ONLY <2>1, <2>2
<1>4. QED BY <1>2, <1>3, RowReplaced

\* A child does something else; it is still of its parent and at the stage it
\* was.
LEMMA ActivityChanges ==
  ASSUME child \in [Child -> ChildRow], NEW c \in Child, NEW does \in Activity,
         child' = [child EXCEPT ![c].does = does]
  PROVE  ChildBecomes(c, child[c].by, does, child[c].stage)
<1>1. child[c] = [by |-> child[c].by, does |-> child[c].does, stage |-> child[c].stage]
  BY DEF ChildRow
<1>2. child[c].by \in Scope \union {NoScope} /\ child[c].does \in Activity /\ child[c].stage \in Stage
  BY DEF ChildRow, Activity, Stage
<1>3. child' = [child EXCEPT ![c] = [by |-> child[c].by, does |-> does, stage |-> child[c].stage]]
  <2>1. [child[c] EXCEPT !.does = does] =
          [by |-> child[c].by, does |-> does, stage |-> child[c].stage]
    BY ONLY <1>1
  <2>2. child' = [child EXCEPT ![c] = [child[c] EXCEPT !.does = does]]
    OBVIOUS
  <2>3. QED BY ONLY <2>1, <2>2
<1>4. QED BY <1>2, <1>3, RowReplaced

\* A child does something else at another stage.
LEMMA RowChanges ==
  ASSUME child \in [Child -> ChildRow], NEW c \in Child, NEW does \in Activity, NEW stage \in Stage,
         child' = [child EXCEPT ![c].does = does, ![c].stage = stage]
  PROVE  ChildBecomes(c, child[c].by, does, stage)
<1>1. child[c] = [by |-> child[c].by, does |-> child[c].does, stage |-> child[c].stage]
  BY DEF ChildRow
<1>2. child[c].by \in Scope \union {NoScope} /\ child[c].does \in Activity /\ child[c].stage \in Stage
  BY DEF ChildRow, Activity, Stage
<1>3. child' = [child EXCEPT ![c] = [by |-> child[c].by, does |-> does, stage |-> stage]]
  <2>1. [[child[c] EXCEPT !.does = does] EXCEPT !.stage = stage] =
          [by |-> child[c].by, does |-> does, stage |-> stage]
    <3>1. [child[c] EXCEPT !.does = does] =
            [by |-> child[c].by, does |-> does, stage |-> child[c].stage]
      BY ONLY <1>1
    <3>2. ASSUME NEW x, x = [by |-> child[c].by, does |-> does, stage |-> child[c].stage]
          PROVE  [x EXCEPT !.stage = stage] =
                   [by |-> child[c].by, does |-> does, stage |-> stage]
      BY ONLY <3>2
    <3>3. QED BY ONLY <3>1, <3>2
  <2>2. child' = [child EXCEPT ![c] = [[child[c] EXCEPT !.does = does] EXCEPT !.stage = stage]]
    OBVIOUS
  <2>3. QED BY ONLY <2>1, <2>2
<1>4. QED BY <1>2, <1>3, RowReplaced

\* A step of one child keeps the invariant if it keeps what it says of the child.
LEMMA ChildKeeps ==
  ASSUME SlotInv, NEW c \in Child, NEW by, NEW does, NEW stage, ChildBecomes(c, by, does, stage),
         UNCHANGED <<alive, depth, phase, loaded, spared, backend>>,
         slot' \in Lease, slot'.owner = slot.owner, slot'.dead = slot.dead,
         slot.fences \ {c} \subseteq slot'.fences,
         stage # "none" => by \in Scope /\ depth[by] > 0,
         does = "runs" => by \in Scope /\ by = slot.owner,
         does = "runs" \/ stage \in {"fenced", "waited for"} => c \in slot'.fences
  PROVE  SlotInv'
<1>1. SlotTypes'
  BY DEF SlotInv, SlotTypes, ChildBecomes
<1>2. ScopeHasLease' /\ InferenceInScope'
  BY DEF SlotInv, ScopeHasLease, OwnsSlot, InferenceInScope
<1>3. ParentInScope'
  BY DEF SlotInv, ParentInScope, ChildBecomes
<1>4. ChildFenced'
  BY DEF SlotInv, ChildFenced, ChildBecomes
<1>5. QED BY <1>1, <1>2, <1>3, <1>4 DEF SlotInv

\* What is known of the row of a child.
LEMMA RowIs ==
  ASSUME SlotInv, NEW c \in Child
  PROVE  /\ child \in [Child -> ChildRow] /\ slot \in Lease
         /\ child[c].by \in Scope \union {NoScope}
         /\ child[c].does \in Activity /\ child[c].stage \in Stage
         /\ child[c].stage # "none" => child[c].by \in Scope /\ depth[child[c].by] > 0
         /\ child[c].does = "runs" => child[c].by \in Scope /\ child[c].by = slot.owner
         /\ child[c].does = "runs" \/ child[c].stage \in {"fenced", "waited for"} =>
              c \in slot.fences
<1>1. /\ child \in [Child -> ChildRow] /\ slot \in Lease /\ child[c].by \in Scope \union {NoScope}
      /\ child[c].does \in Activity /\ child[c].stage \in Stage
  BY DEF SlotInv, SlotTypes, ChildRow, Activity, Stage
<1>2. /\ child[c].stage # "none" => child[c].by \in Scope /\ depth[child[c].by] > 0
      /\ child[c].does = "runs" => child[c].by \in Scope /\ child[c].by = slot.owner
      /\ child[c].does = "runs" \/ child[c].stage \in {"fenced", "waited for"} =>
           c \in slot.fences
  BY DEF SlotInv, ParentInScope, ChildFenced
<1>3. QED BY <1>1, <1>2

\* A child that ends, or whose name is taken out of the lease when it has
\* ended, uses the slot no more.
LEMMA ChildEndSteps ==
  ASSUME SlotInv, NEW c \in Child, ChildEnds(c) \/ OwnerDeathReaches(c) \/ Forgotten(c)
  PROVE  SlotInv'
<1>1. CASE ChildEnds(c) \/ OwnerDeathReaches(c)
  <2>1. ChildBecomes(c, child[c].by, "ended", child[c].stage)
    BY <1>1, RowIs, ActivityChanges DEF ChildEnds, OwnerDeathReaches, Activity
  <2>2. QED BY <1>1, <2>1, RowIs, ChildKeeps DEF ChildEnds, OwnerDeathReaches
<1>2. CASE Forgotten(c)
  <2>1. ChildBecomes(c, NoScope, "nothing", "none")
    BY <1>2, RowIs, RowReplaced DEF Forgotten, Unused, Activity, Stage
  <2>2. QED BY <1>2, <2>1, RowIs, ChildKeeps DEF Forgotten
<1>3. QED BY <1>1, <1>2

\* A parent starts a child behind its gate and names it in the lease before it
\* lets it go.
LEMMA ChildSteps ==
  ASSUME SlotInv, NEW s \in Scope, NEW c \in Child,
         \/ Spawn(s, c) \/ AddFence(s, c) \/ ReleaseStartGate(s, c) \/ StopChild(s, c)
         \/ FinishFenced(s, c)
  PROVE  SlotInv'
<1>1. /\ child \in [Child -> ChildRow] /\ slot \in Lease /\ slot.fences \subseteq Child
      /\ child[c].by \in Scope \union {NoScope}
      /\ child[c].does \in Activity /\ child[c].stage \in Stage
  BY DEF SlotInv, SlotTypes, ChildRow, Lease, Activity, Stage
<1>2. /\ child[c].stage # "none" => child[c].by \in Scope /\ depth[child[c].by] > 0
      /\ child[c].does = "runs" => child[c].by \in Scope /\ child[c].by = slot.owner
      /\ child[c].does = "runs" \/ child[c].stage \in {"fenced", "waited for"} =>
           c \in slot.fences
      /\ \A r \in Scope : depth[r] > 0 => slot.owner = r
  BY DEF SlotInv, ParentInScope, ChildFenced, ScopeHasLease, OwnsSlot
<1>3. CASE Spawn(s, c)
  <2>1. ChildBecomes(c, s, "waits", "spawned")
    BY <1>1, <1>3, RowReplaced DEF Spawn, Activity, Stage
  <2>2. QED BY <1>1, <1>3, <2>1, ChildKeeps DEF Spawn
<1>4. CASE AddFence(s, c)
  <2>1. /\ slot' \in Lease /\ slot'.owner = slot.owner /\ slot'.dead = slot.dead
        /\ slot.fences \subseteq slot'.fences /\ (slot.owner = s => c \in slot'.fences)
    BY <1>1, <1>4 DEF AddFence, Lease
  <2>2. PICK n \in {"fenced", "stopping"} :
           child' = [child EXCEPT ![c].stage = n] /\ (n = "fenced" => slot.owner = s)
    BY <1>4 DEF AddFence
  <2>3. ChildBecomes(c, s, child[c].does, n)
    BY <1>1, <1>4, <2>2, StageChanges DEF AddFence, Stage
  <2>4. QED BY <1>1, <1>2, <1>4, <2>1, <2>2, <2>3, ChildKeeps DEF AddFence
<1>5. CASE ReleaseStartGate(s, c)
  <2>1. PICK d \in Activity : child' = [child EXCEPT ![c].stage = "waited for", ![c].does = d]
    BY <1>1, <1>5 DEF ReleaseStartGate, Activity
  <2>2. child' = [child EXCEPT ![c].does = d, ![c].stage = "waited for"]
    BY <1>1, <2>1 DEF ChildRow
  <2>3. ChildBecomes(c, s, d, "waited for")
    BY <1>1, <1>5, <2>2, RowChanges DEF ReleaseStartGate, Stage
  <2>4. QED BY <1>1, <1>2, <1>5, <2>3, ChildKeeps DEF ReleaseStartGate
<1>6. CASE StopChild(s, c)
  <2>1. CASE child' = [child EXCEPT ![c].stage = "none"]
    <3>1. ChildBecomes(c, child[c].by, child[c].does, "none")
      BY <1>1, <2>1, StageChanges DEF Stage
    <3>2. QED BY <1>1, <1>2, <1>6, <3>1, ChildKeeps DEF StopChild
  <2>2. CASE child' = [child EXCEPT ![c].does = "ended",
                                    ![c].stage = IF @ = "stopping" THEN "none" ELSE @]
    <3>1. PICK n \in Stage : /\ child' = [child EXCEPT ![c].does = "ended", ![c].stage = n]
                             /\ n \in {"none", child[c].stage}
      BY <1>1, <2>2 DEF Stage
    <3>2. ChildBecomes(c, child[c].by, "ended", n)
      BY <1>1, <3>1, RowChanges DEF Activity
    <3>3. QED BY <1>1, <1>2, <1>6, <3>1, <3>2, ChildKeeps DEF StopChild
  <2>3. QED BY <1>6, <2>1, <2>2 DEF StopChild
<1>7. CASE FinishFenced(s, c)
  <2>1. /\ slot' \in Lease /\ slot'.owner = slot.owner /\ slot'.dead = slot.dead
        /\ slot.fences \ {c} \subseteq slot'.fences
    BY <1>1, <1>7 DEF FinishFenced, Lease
  <2>2. ChildBecomes(c, NoScope, "nothing", "none")
    BY <1>1, <1>7, RowReplaced DEF FinishFenced, Unused, Activity, Stage
  <2>3. QED BY <1>7, <2>1, <2>2, ChildKeeps DEF FinishFenced
<1>8. QED BY <1>3, <1>4, <1>5, <1>6, <1>7

\* The scopes of a process end with it; its children stay named in the lease.
LEMMA DeathSteps ==
  ASSUME SlotInv, NEW p \in SlotProcess, ProcessDies(p) \/ ProcessStarts(p)
  PROVE  SlotInv'
<1> USE DEF SlotInv
<1>1. CASE ProcessDies(p)
  <2> DEFINE its == {s \in Scope : ScopeProcess[s] = p}
  <2>1. /\ slot' \in Lease /\ slot'.owner = slot.owner /\ slot'.fences = slot.fences
        /\ slot'.dead = (slot.dead \/ slot.owner \in its)
    BY <1>1 DEF ProcessDies, SlotTypes, Lease
  <2>2. \A s \in Scope : /\ depth'[s] = IF s \in its THEN 0 ELSE depth[s]
                         /\ phase'[s] = IF s \in its THEN "no route" ELSE phase[s]
    BY <1>1 DEF ProcessDies
  <2>3. \A c \in Child :
          /\ child'[c] \in ChildRow /\ child'[c].by = child[c].by /\ child'[c].does = child[c].does
          /\ child'[c].stage = IF child[c].by \in its THEN "none" ELSE child[c].stage
    BY <1>1 DEF ProcessDies, SlotTypes, ChildRow
  <2>4. alive' \subseteq SlotProcess /\ loaded' = loaded
        /\ spared' = spared \union (loaded \intersect its)
    BY <1>1 DEF ProcessDies, SlotTypes
  <2>5. child' \in [Child -> ChildRow]
    BY <1>1, <2>3 DEF ProcessDies
  <2>6. depth' \in [Scope -> Nat] /\ phase' \in [Scope -> Phases]
    BY <1>1 DEF ProcessDies, SlotTypes, Phases
  <2> HIDE DEF its
  <2>7. SlotTypes'
    BY <2>1, <2>4, <2>5, <2>6 DEF SlotTypes
  <2>8. ScopeHasLease'
    <3>1. ASSUME NEW s \in Scope, depth'[s] > 0 PROVE OwnsSlot(s)'
      <4>1. s \notin its /\ depth[s] > 0
        <5>1. depth[s] \in Nat
          BY DEF SlotTypes
        <5>2. depth'[s] = IF s \in its THEN 0 ELSE depth[s]
          BY <2>2
        <5>3. QED BY ONLY <5>1, <5>2, <3>1
      <4>2. slot.owner = s /\ ~slot.dead
        BY <3>1, <4>1 DEF ScopeHasLease, OwnsSlot
      <4>3. QED BY ONLY <2>1, <4>1, <4>2 DEF OwnsSlot
    <3>2. QED BY <3>1 DEF ScopeHasLease
  <2>9. InferenceInScope'
    BY <2>2, <2>4 DEF InferenceInScope
  <2>10. ParentInScope' /\ ChildFenced'
    BY ZenonT(60), <2>1, <2>2, <2>3 DEF ParentInScope, ChildFenced
  <2>11. QED BY <2>7, <2>8, <2>9, <2>10
<1>2. CASE ProcessStarts(p)
  BY <1>2 DEF ProcessStarts, SlotTypes, ScopeHasLease, OwnsSlot, InferenceInScope, ParentInScope,
              ChildFenced
<1>3. QED BY <1>1, <1>2

\* Whatever works in the slot belongs to the scope that has the lease, whoever
\* dies before whom.
THEOREM SlotHasOneUser == SlotSpec => []OneUserOfTheSlot
<1>1. SlotInit => SlotInv
  <2> SUFFICES ASSUME SlotInit PROVE SlotInv
    OBVIOUS
  <2>1. NoLease \in Lease /\ Unused \in ChildRow
    BY ONLY DEF NoLease, Lease, Unused, ChildRow
  <2>2. SlotTypes
    BY <2>1 DEF SlotInit, SlotTypes, Phases
  <2>3. ScopeHasLease /\ InferenceInScope
    <3>1. ASSUME NEW s \in Scope PROVE depth[s] = 0 /\ phase[s] = "no route"
      BY DEF SlotInit
    <3>2. ASSUME NEW s \in Scope PROVE ~(depth[s] > 0)
      <4>1. depth[s] = 0
        BY <3>1
      <4>2. QED BY ONLY <4>1
    <3>3. QED BY <3>1, <3>2 DEF SlotInit, ScopeHasLease, InferenceInScope
  <2>4. ParentInScope /\ ChildFenced
    BY DEF SlotInit, ParentInScope, ChildFenced, Unused
  <2>5. QED BY <2>2, <2>3, <2>4 DEF SlotInv
<1>2. SlotInv /\ [SlotNext]_slotVars => SlotInv'
  <2>1. ASSUME SlotInv, UNCHANGED slotVars PROVE SlotInv'
    BY <2>1 DEF SlotInv, SlotTypes, ScopeHasLease, InferenceInScope, ParentInScope, ChildFenced,
                OwnsSlot, slotVars
  <2>2. ASSUME SlotInv, SlotNext PROVE SlotInv'
    BY <2>2, ScopeSteps, BeatSteps, InferenceSteps, ChildEndSteps, ChildSteps, DeathSteps
       DEF SlotNext
  <2>3. QED BY <2>1, <2>2
<1>3. SlotInv => OneUserOfTheSlot
  BY DEF SlotInv, ScopeHasLease, InferenceInScope, ChildFenced, OneUserOfTheSlot
<1>4. QED BY <1>1, <1>2, <1>3, PTL DEF SlotSpec

-----------------------------------------------------------------------------
(* The configuration and the registry *)

Shallow == {"edit", "switch", "save", "apply", "leave", "give back"}
Deep == {"install", "bounce", "health", "stop", "validate", "start", "stop current", "undo",
         "bounce back", "applied", "failed"}

IsRegistry(x) == x = [generation |-> x.generation, default |-> x.default, roles |-> x.roles]
IsSeen(x) ==
    /\ x = [before |-> x.before, previous |-> x.previous, active |-> x.active, plan |-> x.plan]
    /\ x.active \in BOOLEAN /\ IsRegistry(x.before)

IsService(x) == x = [active |-> x.active, loaded |-> x.loaded] /\ x.active \in BOOLEAN

ConfigTypes ==
    /\ step \in [Writer -> Shallow \union Deep \union {"away"}]
    /\ errand \in [Writer -> {"edit", "switch", "apply"}]
    /\ wrong \in [Writer -> BOOLEAN] /\ unrepaired \in BOOLEAN
    /\ draft = [p \in Writer |-> draft[p]] /\ seen = [p \in Writer |-> seen[p]]
    /\ \A p \in Writer : IsRegistry(draft[p]) /\ IsSeen(seen[p])
    /\ IsRegistry(roleRegistry)
    /\ IsService(service)
    /\ lock = [holder |-> lock.holder, depth |-> lock.depth]

\* Only the holder of the lock is anywhere, and it leaves what it entered.
LockInv ==
    /\ lock.holder = Nobody => lock = Free
    /\ \A p \in Writer : /\ step[p] # "away" <=> lock.holder = p
                         /\ step[p] = "away" => ~wrong[p]
                         /\ step[p] \in Shallow => lock.depth = 1
                         /\ step[p] \in Deep => lock.depth = 2

Found(p) == Content(roleRegistry) = Content(seen[p].before)
Untouched(p) == configFile = seen[p].previous
Current == configFile = Plan(roleRegistry)
OwnDraft(p) == draft[p].generation = roleRegistry.generation

\* What a writer has done, and can take back, at each of its steps.
WriterInv(p) ==
    /\ step[p] = "edit" => errand[p] = "edit"
    /\ step[p] \in {"edit", "switch", "save"} =>
         errand[p] # "apply" /\ Found(p) /\ Untouched(p) /\ OwnDraft(p) /\ ~wrong[p]
    /\ step[p] = "switch" => errand[p] = "switch"
    /\ step[p] = "apply" => Untouched(p) /\ ~wrong[p]
    /\ step[p] \in Deep \union {"apply", "give back"} =>
         /\ errand[p] # "edit"
         /\ errand[p] = "apply" => Found(p)
         /\ errand[p] = "switch" => OwnDraft(p)
    /\ step[p] \in {"install", "bounce", "health", "stop", "validate", "start", "stop current"} =>
         seen[p].plan = Plan(roleRegistry)
    /\ step[p] \in {"install", "validate", "start", "stop current", "bounce back"} => Untouched(p)
    /\ step[p] \in {"bounce", "health", "stop", "validate", "start", "stop current", "applied"} => Current
    /\ step[p] \in {"install", "bounce", "health", "stop", "validate", "start", "applied"} => ~wrong[p]
    /\ step[p] \in {"undo", "bounce back", "failed", "give back"} => wrong[p]
    /\ step[p] = "stop" => ~seen[p].active
    /\ step[p] \in {"failed", "give back"} => unrepaired \/ Untouched(p)
    /\ step[p] = "give back" => errand[p] = "switch"
    /\ step[p] = "leave" /\ errand[p] # "edit" /\ ~unrepaired =>
         IF wrong[p] THEN Found(p) /\ Untouched(p) ELSE Current

\* where the service may still run another configuration than the installed one
Unsettled(p) ==
    \/ step[p] \in {"bounce", "stop", "undo", "bounce back"}
    \/ step[p] = "health" /\ ~seen[p].active

ServiceRuns == service.active => service.loaded = configFile
ServiceInv == unrepaired \/ ServiceRuns \/ \E p \in Writer : Unsettled(p)

ConfigInv == ConfigTypes /\ LockInv /\ (\A p \in Writer : WriterInv(p)) /\ ServiceInv

\* The initial state satisfies the invariant.
LEMMA ConfigFirst ==
  ASSUME ConfigInit
  PROVE  ConfigInv
<1>1. IsRegistry(FirstRegistry) /\ IsSeen(NothingSeen)
  BY DEF IsRegistry, IsSeen, FirstRegistry, NothingSeen
<1>2. ConfigTypes
  BY <1>1 DEF ConfigInit, ConfigTypes, IsService, Inactive, Free
<1>3. LockInv
  BY NobodyWrites DEF ConfigInit, LockInv, Free, Shallow, Deep
<1>4. \A p \in Writer : WriterInv(p)
  BY DEF ConfigInit, WriterInv, Deep
<1>5. ServiceInv
  BY DEF ConfigInit, ServiceInv, ServiceRuns, Inactive
<1>6. QED BY <1>2, <1>3, <1>4, <1>5 DEF ConfigInv

\* A registry stays one when a part of it is replaced, and only its generation
\* is no content.
LEMMA RegistryParts ==
  ASSUME NEW x, IsRegistry(x), NEW v
  PROVE  /\ IsRegistry([x EXCEPT !.generation = v]) /\ [x EXCEPT !.generation = v].generation = v
         /\ Content([x EXCEPT !.generation = v]) = Content(x)
         /\ IsRegistry([x EXCEPT !.default = v]) /\ [x EXCEPT !.default = v].generation = x.generation
         /\ IsRegistry([x EXCEPT !.roles = v]) /\ [x EXCEPT !.roles = v].generation = x.generation
BY DEF IsRegistry, Content

\* An edit makes another registry of the same generation.
LEMMA EditsAreRegistries ==
  ASSUME NEW x, IsRegistry(x), NEW reg \in Edits(x)
  PROVE  IsRegistry(reg) /\ reg.generation = x.generation
<1>1. (\E v : reg = [x EXCEPT !.roles = v]) \/ (\E v : reg = [x EXCEPT !.default = v])
  BY DEF Edits, CreateRole, RemoveRole, SetRoleEnabled, SetDefaultRole, BindModel, Put
<1>2. ASSUME NEW v, reg = [x EXCEPT !.roles = v]
      PROVE  IsRegistry(reg) /\ reg.generation = x.generation
  BY <1>2, RegistryParts
<1>3. ASSUME NEW v, reg = [x EXCEPT !.default = v]
      PROVE  IsRegistry(reg) /\ reg.generation = x.generation
  BY <1>3, RegistryParts
<1>4. QED BY <1>1, <1>2, <1>3

\* While a writer holds the lock, everybody else is away.
LEMMA Alone ==
  ASSUME ConfigInv, NEW p \in Writer, step[p] # "away"
  PROVE  /\ lock.holder = p /\ \A q \in Writer : q # p => step[q] = "away" /\ ~wrong[q]
         /\ step[p] \in Shallow \union Deep
         /\ step[p] \in Shallow => lock = [holder |-> p, depth |-> 1]
         /\ step[p] \in Deep => lock = [holder |-> p, depth |-> 2]
BY DEF ConfigInv, ConfigTypes, LockInv

\* What a step of a writer preserves; nobody else does a step meanwhile.
Kept(p) == /\ ConfigTypes' /\ WriterInv(p)' /\ ServiceInv'
           /\ \A q \in Writer : q # p => step'[q] = "away" /\ ~wrong'[q]
           /\ step'[p] = "away" => lock' = Free /\ ~wrong'[p]
           /\ step'[p] \in Shallow => lock' = [holder |-> p, depth |-> 1]
           /\ step'[p] \in Deep => lock' = [holder |-> p, depth |-> 2]

\* The record of what a writer has seen, by its fields.
LEMMA SeenRecord ==
  ASSUME NEW y, NEW reg, IsRegistry(reg), NEW v, NEW b \in BOOLEAN, NEW plan,
         y = [before |-> reg, previous |-> v, active |-> b, plan |-> plan]
  PROVE  IsSeen(y) /\ y.before = reg /\ y.previous = v /\ y.active = b /\ y.plan = plan
<1>1. y.before = reg /\ y.previous = v /\ y.active = b /\ y.plan = plan
  OBVIOUS
<1>2. y = [before |-> y.before, previous |-> y.previous, active |-> y.active, plan |-> y.plan]
  BY <1>1
<1>3. QED BY <1>1, <1>2 DEF IsSeen

\* Entering and leaving, by the depth of the transaction.
LEMMA LockMoves ==
  ASSUME NEW p
  PROVE  /\ lock = [holder |-> Nobody, depth |-> 0] => Entered(p) = [holder |-> p, depth |-> 1]
         /\ lock = [holder |-> p, depth |-> 1] => Entered(p) = [holder |-> p, depth |-> 2]
         /\ Left([holder |-> p, depth |-> 1]) = Free
         /\ Left([holder |-> p, depth |-> 2]) = [holder |-> p, depth |-> 1]
BY DEF Entered, Left, Free

\* A service that is started or restarted runs the file, unless it ran before.
LEMMA ServiceMoves ==
  ASSUME IsService(service)
  PROVE  /\ IsService(StartedService) /\ IsService(RestartedService) /\ IsService(Inactive)
         /\ ServiceRuns /\ StartedService.active => StartedService.loaded = configFile
         /\ RestartedService.active => RestartedService.loaded = configFile
         /\ ~Inactive.active
BY DEF IsService, StartedService, RestartedService, RunningService, Inactive, ServiceRuns

\* That is the invariant.
LEMMA KeptIsInv ==
  ASSUME NEW p \in Writer, Kept(p)
  PROVE  ConfigInv'
<1>1. step'[p] \in Shallow \union Deep \union {"away"} /\ Nobody # p
  BY NobodyWrites DEF Kept, ConfigTypes
<1>2. "away" \notin Shallow \union Deep /\ Shallow \intersect Deep = {}
  BY DEF Shallow, Deep
<1>3. LockInv'
  BY <1>1, <1>2, NobodyWrites DEF Kept, LockInv, Free
<1>4. \A q \in Writer : WriterInv(q)'
  BY <1>2 DEF Kept, WriterInv, Deep
<1>5. QED BY <1>3, <1>4 DEF Kept, ConfigInv

-----------------------------------------------------------------------------
(* The steps of a writer keep it *)

\* A writer enters a transaction with the registry and the file as they are.
LEMMA KeepsEnter ==
  ASSUME ConfigInv, NEW p \in Writer, NEW j \in {"edit", "switch", "apply"}, Enter(p, j)
  PROVE  ConfigInv'
<1> USE DEF Enter, At, Goes, Raises, Returns, Shallow, Deep
<1>1. /\ lock = [holder |-> Nobody, depth |-> 0]
      /\ \A q \in Writer : step[q] = "away" /\ ~wrong[q]
      /\ WriterInv(p) /\ ConfigTypes
  BY NobodyWrites DEF ConfigInv, LockInv, Free
<1>2. /\ draft' = [draft EXCEPT ![p] = roleRegistry]
      /\ seen' = [seen EXCEPT ![p] = seen'[p]] /\ IsSeen(seen'[p])
      /\ seen'[p].before = roleRegistry /\ seen'[p].previous = configFile
  <2>1. seen'[p] = [seen[p] EXCEPT !.before = roleRegistry, !.previous = configFile]
        /\ seen' = [seen EXCEPT ![p] = seen'[p]]
    BY <1>1 DEF ConfigTypes
  <2>2. IsSeen(seen[p]) /\ IsRegistry(roleRegistry)
    BY <1>1 DEF ConfigTypes
  <2>3. IsSeen(seen'[p]) /\ seen'[p].before = roleRegistry /\ seen'[p].previous = configFile
    <3>1. seen'[p] = [before |-> roleRegistry, previous |-> configFile,
                      active |-> seen[p].active, plan |-> seen[p].plan]
      BY ONLY <2>1, <2>2 DEF IsSeen
    <3>2. seen[p].active \in BOOLEAN
      BY <2>2 DEF IsSeen
    <3>3. QED BY ONLY <2>2, <3>1, <3>2, SeenRecord
  <2>4. QED BY <2>1, <2>3
<1>3. ConfigTypes'
  <2>1. lock' = [holder |-> p, depth |-> 1]
    BY <1>1, LockMoves
  <2>2. /\ step' \in [Writer -> Shallow \union Deep \union {"away"}]
        /\ errand' \in [Writer -> {"edit", "switch", "apply"}]
        /\ wrong' \in [Writer -> BOOLEAN] /\ unrepaired' \in BOOLEAN
    BY <1>1 DEF ConfigTypes
  <2>3. /\ draft' = [q \in Writer |-> draft'[q]] /\ seen' = [q \in Writer |-> seen'[q]]
        /\ \A q \in Writer : IsRegistry(draft'[q]) /\ IsSeen(seen'[q])
    BY <1>1, <1>2 DEF ConfigTypes
  <2>4. QED BY <1>1, <2>1, <2>2, <2>3 DEF ConfigTypes
<1>4. WriterInv(p)'
  BY <1>1, <1>2 DEF ConfigTypes, WriterInv, Found, Untouched, OwnDraft
<1>7. ServiceInv'
  BY <1>1, <1>2 DEF ConfigInv, ConfigTypes, ServiceInv, ServiceRuns, Unsettled, WriterInv, Current, Untouched
<1>8. Kept(p)
  <2>1. \A q \in Writer : q # p => step'[q] = "away" /\ ~wrong'[q]
    BY <1>1 DEF ConfigTypes
  <2>2. /\ step'[p] = "away" => lock' = Free /\ ~wrong'[p]
        /\ step'[p] \in Shallow => lock' = [holder |-> p, depth |-> 1]
        /\ step'[p] \in Deep => lock' = [holder |-> p, depth |-> 2]
    BY <1>1, LockMoves DEF ConfigTypes
  <2>3. QED BY <1>3, <1>4, <1>7, <2>1, <2>2 DEF Kept
<1>9. QED BY <1>8, KeptIsInv

\* An edit is made on its draft.
LEMMA KeepsEdit ==
  ASSUME ConfigInv, NEW p \in Writer, Edit(p)
  PROVE  ConfigInv'
<1> USE DEF Edit, At, Goes, Raises, Returns, Shallow, Deep
<1>1. /\ \A q \in Writer : q # p => step[q] = "away" /\ ~wrong[q]
      /\ step[p] \in Shallow => lock = [holder |-> p, depth |-> 1]
      /\ step[p] \in Deep => lock = [holder |-> p, depth |-> 2]
      /\ WriterInv(p) /\ ConfigTypes
  BY Alone DEF ConfigInv
<1>2. PICK reg \in Edits(draft[p]) : draft' = [draft EXCEPT ![p] = reg]
  OBVIOUS
<1>3. IsRegistry(reg) /\ reg.generation = draft[p].generation
  BY <1>1, EditsAreRegistries DEF ConfigTypes
<1>4. ConfigTypes'
  BY <1>1, <1>2, <1>3 DEF ConfigTypes
<1>5. WriterInv(p)'
  BY <1>1, <1>2, <1>3 DEF ConfigTypes, WriterInv, Found, Untouched, OwnDraft
<1>7. ServiceInv'
  BY <1>1 DEF ConfigInv, ConfigTypes, ServiceInv, ServiceRuns, Unsettled, WriterInv, Current, Untouched
<1>8. Kept(p)
  <2>1. \A q \in Writer : q # p => step'[q] = "away" /\ ~wrong'[q]
    BY <1>1 DEF ConfigTypes
  <2>2. /\ step'[p] = "away" => lock' = Free /\ ~wrong'[p]
        /\ step'[p] \in Shallow => lock' = [holder |-> p, depth |-> 1]
        /\ step'[p] \in Deep => lock' = [holder |-> p, depth |-> 2]
    BY <1>1, LockMoves DEF ConfigTypes
  <2>3. QED BY <1>4, <1>5, <1>7, <2>1, <2>2 DEF Kept
<1>9. QED BY <1>8, KeptIsInv

\* So is a switch.
LEMMA KeepsSwitchRole ==
  ASSUME ConfigInv, NEW p \in Writer, SwitchRole(p)
  PROVE  ConfigInv'
<1> USE DEF SwitchRole, At, Goes, Raises, Returns, Shallow, Deep
<1>1. /\ \A q \in Writer : q # p => step[q] = "away" /\ ~wrong[q]
      /\ step[p] \in Shallow => lock = [holder |-> p, depth |-> 1]
      /\ step[p] \in Deep => lock = [holder |-> p, depth |-> 2]
      /\ WriterInv(p) /\ ConfigTypes
  BY Alone DEF ConfigInv
<1>2. PICK r, m : draft' = [draft EXCEPT ![p].roles[r].model = m]
  OBVIOUS
<1> DEFINE roles == [draft[p].roles EXCEPT ![r].model = m]
<1>3. draft'[p] = [draft[p] EXCEPT !.roles = roles]
  BY <1>1, <1>2 DEF ConfigTypes
<1> HIDE DEF roles
<1>4. IsRegistry(draft'[p]) /\ draft'[p].generation = draft[p].generation
      /\ draft' = [draft EXCEPT ![p] = draft'[p]]
  BY <1>1, <1>2, <1>3, RegistryParts DEF ConfigTypes
<1>5. ConfigTypes'
  BY <1>1, <1>4 DEF ConfigTypes
<1>6. WriterInv(p)'
  BY <1>1, <1>4 DEF ConfigTypes, WriterInv, Found, Untouched, OwnDraft
<1>7. ServiceInv'
  BY <1>1 DEF ConfigInv, ConfigTypes, ServiceInv, ServiceRuns, Unsettled, WriterInv, Current, Untouched
<1>8. Kept(p)
  <2>1. \A q \in Writer : q # p => step'[q] = "away" /\ ~wrong'[q]
    BY <1>1 DEF ConfigTypes
  <2>2. /\ step'[p] = "away" => lock' = Free /\ ~wrong'[p]
        /\ step'[p] \in Shallow => lock' = [holder |-> p, depth |-> 1]
        /\ step'[p] \in Deep => lock' = [holder |-> p, depth |-> 2]
    BY <1>1, LockMoves DEF ConfigTypes
  <2>3. QED BY <1>5, <1>6, <1>7, <2>1, <2>2 DEF Kept
<1>9. QED BY <1>8, KeptIsInv

\* The draft is committed, or refused.
LEMMA KeepsSaveRegistry ==
  ASSUME ConfigInv, NEW p \in Writer, SaveRegistry(p)
  PROVE  ConfigInv'
<1> USE DEF SaveRegistry, At, Goes, Raises, Returns, Shallow, Deep
<1>1. /\ \A q \in Writer : q # p => step[q] = "away" /\ ~wrong[q]
      /\ step[p] \in Shallow => lock = [holder |-> p, depth |-> 1]
      /\ step[p] \in Deep => lock = [holder |-> p, depth |-> 2]
      /\ WriterInv(p) /\ ConfigTypes
  BY Alone DEF ConfigInv
<1>2. lock' = [holder |-> p, depth |-> 1]
  BY <1>1, LockMoves
<1>3. ASSUME Raises(p, "leave") /\ UNCHANGED <<roleRegistry, draft>>
      PROVE  ConfigTypes' /\ WriterInv(p)'
  <2>1. ConfigTypes'
    BY <1>1, <1>2, <1>3 DEF ConfigTypes
  <2>2. WriterInv(p)'
    BY <1>1, <1>3 DEF ConfigTypes, WriterInv, Found, Untouched
  <2>3. QED BY <2>1, <2>2
<1>4. ASSUME /\ Save(draft[p]) /\ draft' = [draft EXCEPT ![p].generation = @ + 1]
           /\ Goes(p, IF errand[p] = "switch" THEN "apply" ELSE "leave") /\ UNCHANGED wrong
      PROVE  ConfigTypes' /\ WriterInv(p)'
  <2> DEFINE v == draft[p].generation + 1
  <2>1. roleRegistry' = [draft[p] EXCEPT !.generation = v]
        /\ draft'[p] = [draft[p] EXCEPT !.generation = v] /\ draft' = [draft EXCEPT ![p] = draft'[p]]
    BY <1>1, <1>4 DEF ConfigTypes, Save
  <2> HIDE DEF v
  <2>2. IsRegistry(roleRegistry') /\ draft'[p] = roleRegistry'
    BY <1>1, <2>1, RegistryParts DEF ConfigTypes
  <2>3. ConfigTypes'
    BY <1>1, <1>2, <1>4, <2>1, <2>2 DEF ConfigTypes
  <2>4. WriterInv(p)'
    BY <1>1, <1>4, <2>2 DEF ConfigTypes, WriterInv, Untouched, OwnDraft
  <2>5. QED BY <2>3, <2>4
<1>5. ConfigTypes' /\ WriterInv(p)'
  BY <1>3, <1>4
<1>7. ServiceInv'
  BY <1>1 DEF ConfigInv, ConfigTypes, ServiceInv, ServiceRuns, Unsettled, WriterInv, Current, Untouched
<1>8. Kept(p)
  <2>1. \A q \in Writer : q # p => step'[q] = "away" /\ ~wrong'[q]
    BY <1>1 DEF ConfigTypes
  <2>2. /\ step'[p] = "away" => lock' = Free /\ ~wrong'[p]
        /\ step'[p] \in Shallow => lock' = [holder |-> p, depth |-> 1]
        /\ step'[p] \in Deep => lock' = [holder |-> p, depth |-> 2]
    BY <1>1, LockMoves DEF ConfigTypes
  <2>3. QED BY <1>5, <1>7, <2>1, <2>2 DEF Kept
<1>9. QED BY <1>8, KeptIsInv

\* A writer leaves nothing behind.
LEMMA KeepsLeaveTransaction ==
  ASSUME ConfigInv, NEW p \in Writer, LeaveTransaction(p)
  PROVE  ConfigInv'
<1> USE DEF LeaveTransaction, At, Goes, Raises, Returns, Shallow, Deep
<1>1. /\ \A q \in Writer : q # p => step[q] = "away" /\ ~wrong[q]
      /\ step[p] \in Shallow => lock = [holder |-> p, depth |-> 1]
      /\ step[p] \in Deep => lock = [holder |-> p, depth |-> 2]
      /\ WriterInv(p) /\ ConfigTypes
  BY Alone DEF ConfigInv
<1>2. ConfigTypes'
  <2>1. IsRegistry(FirstRegistry) /\ IsSeen(NothingSeen)
    BY DEF IsRegistry, IsSeen, FirstRegistry, NothingSeen
  <2>2. QED BY <1>1, <2>1, LockMoves DEF ConfigTypes, Free
<1>3. WriterInv(p)'
  BY <1>1 DEF ConfigTypes, WriterInv
<1>7. ServiceInv'
  BY <1>1 DEF ConfigInv, ConfigTypes, ServiceInv, ServiceRuns, Unsettled, WriterInv, Current, Untouched
<1>8. Kept(p)
  <2>1. \A q \in Writer : q # p => step'[q] = "away" /\ ~wrong'[q]
    BY <1>1 DEF ConfigTypes
  <2>2. /\ step'[p] = "away" => lock' = Free /\ ~wrong'[p]
        /\ step'[p] \in Shallow => lock' = [holder |-> p, depth |-> 1]
        /\ step'[p] \in Deep => lock' = [holder |-> p, depth |-> 2]
    BY <1>1, LockMoves DEF ConfigTypes
  <2>3. QED BY <1>2, <1>3, <1>7, <2>1, <2>2 DEF Kept
<1>9. QED BY <1>8, KeptIsInv

\* What is there is read before anything is changed.
LEMMA KeepsReadForApply ==
  ASSUME ConfigInv, NEW p \in Writer, ReadForApply(p)
  PROVE  ConfigInv'
<1> USE DEF ReadForApply, At, Goes, Raises, Returns, Shallow, Deep
<1>1. /\ \A q \in Writer : q # p => step[q] = "away" /\ ~wrong[q]
      /\ step[p] \in Shallow => lock = [holder |-> p, depth |-> 1]
      /\ step[p] \in Deep => lock = [holder |-> p, depth |-> 2]
      /\ WriterInv(p) /\ ConfigTypes
  BY Alone DEF ConfigInv
<1>2. lock' = [holder |-> p, depth |-> 2]
  BY <1>1, LockMoves
<1>3. ASSUME Raises(p, "failed") /\ UNCHANGED seen
      PROVE  ConfigTypes' /\ WriterInv(p)'
  <2>1. ConfigTypes'
    BY <1>1, <1>2, <1>3 DEF ConfigTypes
  <2>2. WriterInv(p)'
    BY <1>1, <1>3 DEF ConfigTypes, WriterInv, Found, Untouched, OwnDraft
  <2>3. QED BY <2>1, <2>2
<1>4. ASSUME /\ seen' = [seen EXCEPT ![p].active = service.active, ![p].plan = Plan(roleRegistry)]
           /\ Goes(p, IF configFile = Plan(roleRegistry) THEN (IF service.active THEN "validate" ELSE "start")
                      ELSE "install")
           /\ UNCHANGED wrong
      PROVE  ConfigTypes' /\ WriterInv(p)'
  <2>1. seen'[p] = [seen[p] EXCEPT !.active = service.active, !.plan = Plan(roleRegistry)]
        /\ seen' = [seen EXCEPT ![p] = seen'[p]]
    BY <1>1, <1>4 DEF ConfigTypes
  <2>2. /\ IsSeen(seen'[p]) /\ seen'[p].plan = Plan(roleRegistry)
        /\ seen'[p].before = seen[p].before /\ seen'[p].previous = seen[p].previous
    <3>1. IsSeen(seen[p]) /\ service.active \in BOOLEAN
      BY <1>1 DEF ConfigTypes, IsService
    <3> DEFINE plan == Plan(roleRegistry)
    <3>2. seen'[p] = [seen[p] EXCEPT !.active = service.active, !.plan = plan]
      BY <2>1
    <3> HIDE DEF plan
    <3>3. seen'[p] = [before |-> seen[p].before, previous |-> seen[p].previous,
                      active |-> service.active, plan |-> plan]
      BY <3>1, <3>2 DEF IsSeen
    <3>4. IsRegistry(seen[p].before)
      BY <3>1 DEF IsSeen
    <3>5. IsSeen(seen'[p]) /\ seen'[p].plan = plan
          /\ seen'[p].before = seen[p].before /\ seen'[p].previous = seen[p].previous
      BY ONLY <3>1, <3>3, <3>4, SeenRecord
    <3>6. QED BY <3>5 DEF plan
  <2>3. ConfigTypes'
    BY <1>1, <1>2, <1>4, <2>1, <2>2 DEF ConfigTypes
  <2>4. WriterInv(p)'
    <3>1. errand'[p] = errand[p] /\ UNCHANGED <<roleRegistry, configFile, draft, wrong, unrepaired>>
      BY <1>4
    <3>2. step'[p] = IF configFile = Plan(roleRegistry)
                     THEN (IF service.active THEN "validate" ELSE "start") ELSE "install"
      BY <1>1, <1>4 DEF ConfigTypes
    <3>3. Plan(roleRegistry)' = Plan(roleRegistry)
      BY <3>1 DEF Plan, Known
    <3>4. step[p] = "apply"
      OBVIOUS
    <3> HIDE DEF ReadForApply, At, Goes, Raises, Returns
    <3>5. QED BY <1>1, <2>2, <3>1, <3>2, <3>3, <3>4 DEF WriterInv, Found, Untouched, OwnDraft, Current, Content
  <2>5. QED BY <2>3, <2>4
<1>5. ConfigTypes' /\ WriterInv(p)'
  BY <1>3, <1>4
<1>7. ServiceInv'
  BY <1>1 DEF ConfigInv, ConfigTypes, ServiceInv, ServiceRuns, Unsettled, WriterInv, Current, Untouched
<1>8. Kept(p)
  <2>1. \A q \in Writer : q # p => step'[q] = "away" /\ ~wrong'[q]
    BY <1>1 DEF ConfigTypes
  <2>2. /\ step'[p] = "away" => lock' = Free /\ ~wrong'[p]
        /\ step'[p] \in Shallow => lock' = [holder |-> p, depth |-> 1]
        /\ step'[p] \in Deep => lock' = [holder |-> p, depth |-> 2]
    BY <1>1, LockMoves DEF ConfigTypes
  <2>3. QED BY <1>5, <1>7, <2>1, <2>2 DEF Kept
<1>9. QED BY <1>8, KeptIsInv

\* The file becomes the one of the registry.
LEMMA KeepsInstall ==
  ASSUME ConfigInv, NEW p \in Writer, Install(p)
  PROVE  ConfigInv'
<1> USE DEF Install, At, Goes, Raises, Returns, Shallow, Deep
<1>1. /\ \A q \in Writer : q # p => step[q] = "away" /\ ~wrong[q]
      /\ step[p] \in Shallow => lock = [holder |-> p, depth |-> 1]
      /\ step[p] \in Deep => lock = [holder |-> p, depth |-> 2]
      /\ WriterInv(p) /\ ConfigTypes
  BY Alone DEF ConfigInv
<1>2. ConfigTypes'
  BY <1>1 DEF ConfigTypes
<1>3. WriterInv(p)'
  BY <1>1 DEF ConfigTypes, WriterInv, Found, Untouched, Current, OwnDraft
<1>7. ServiceInv'
  BY <1>1 DEF ConfigInv, ConfigTypes, ServiceInv, ServiceRuns, Unsettled, WriterInv, Current, Untouched
<1>8. Kept(p)
  <2>1. \A q \in Writer : q # p => step'[q] = "away" /\ ~wrong'[q]
    BY <1>1 DEF ConfigTypes
  <2>2. /\ step'[p] = "away" => lock' = Free /\ ~wrong'[p]
        /\ step'[p] \in Shallow => lock' = [holder |-> p, depth |-> 1]
        /\ step'[p] \in Deep => lock' = [holder |-> p, depth |-> 2]
    BY <1>1, LockMoves DEF ConfigTypes
  <2>3. QED BY <1>2, <1>3, <1>7, <2>1, <2>2 DEF Kept
<1>9. QED BY <1>8, KeptIsInv

\* The service takes it up, if it ran.
LEMMA KeepsBounce ==
  ASSUME ConfigInv, NEW p \in Writer, Bounce(p)
  PROVE  ConfigInv'
<1> USE DEF Bounce, At, Goes, Raises, Returns, Shallow, Deep
<1>1. /\ \A q \in Writer : q # p => step[q] = "away" /\ ~wrong[q]
      /\ step[p] \in Shallow => lock = [holder |-> p, depth |-> 1]
      /\ step[p] \in Deep => lock = [holder |-> p, depth |-> 2]
      /\ WriterInv(p) /\ ConfigTypes
  BY Alone DEF ConfigInv
<1>2. ConfigTypes'
  BY <1>1, ServiceMoves DEF ConfigTypes
<1>3. WriterInv(p)'
  BY <1>1 DEF ConfigTypes, WriterInv, Found, Untouched, Current, OwnDraft
<1>7. ServiceInv'
  BY <1>1, ServiceMoves DEF ConfigInv, ConfigTypes, ServiceInv, ServiceRuns, Unsettled, WriterInv, Current, Untouched
<1>8. Kept(p)
  <2>1. \A q \in Writer : q # p => step'[q] = "away" /\ ~wrong'[q]
    BY <1>1 DEF ConfigTypes
  <2>2. /\ step'[p] = "away" => lock' = Free /\ ~wrong'[p]
        /\ step'[p] \in Shallow => lock' = [holder |-> p, depth |-> 1]
        /\ step'[p] \in Deep => lock' = [holder |-> p, depth |-> 2]
    BY <1>1, LockMoves DEF ConfigTypes
  <2>3. QED BY <1>2, <1>3, <1>7, <2>1, <2>2 DEF Kept
<1>9. QED BY <1>8, KeptIsInv

\* It is asked whether it did.
LEMMA KeepsHealthy ==
  ASSUME ConfigInv, NEW p \in Writer, Healthy(p)
  PROVE  ConfigInv'
<1> USE DEF Healthy, At, Goes, Raises, Returns, Shallow, Deep
<1>1. /\ \A q \in Writer : q # p => step[q] = "away" /\ ~wrong[q]
      /\ step[p] \in Shallow => lock = [holder |-> p, depth |-> 1]
      /\ step[p] \in Deep => lock = [holder |-> p, depth |-> 2]
      /\ WriterInv(p) /\ ConfigTypes
  BY Alone DEF ConfigInv
<1>2. ConfigTypes'
  BY <1>1 DEF ConfigTypes
<1>3. WriterInv(p)'
  BY <1>1 DEF ConfigTypes, WriterInv, Found, Untouched, Current, OwnDraft
<1>7. ServiceInv'
  BY <1>1 DEF ConfigInv, ConfigTypes, ServiceInv, ServiceRuns, Unsettled, WriterInv, Current, Untouched
<1>8. Kept(p)
  <2>1. \A q \in Writer : q # p => step'[q] = "away" /\ ~wrong'[q]
    BY <1>1 DEF ConfigTypes
  <2>2. /\ step'[p] = "away" => lock' = Free /\ ~wrong'[p]
        /\ step'[p] \in Shallow => lock' = [holder |-> p, depth |-> 1]
        /\ step'[p] \in Deep => lock' = [holder |-> p, depth |-> 2]
    BY <1>1, LockMoves DEF ConfigTypes
  <2>3. QED BY <1>2, <1>3, <1>7, <2>1, <2>2 DEF Kept
<1>9. QED BY <1>8, KeptIsInv

\* A service that did not run is stopped again.
LEMMA KeepsStopAgain ==
  ASSUME ConfigInv, NEW p \in Writer, StopAgain(p)
  PROVE  ConfigInv'
<1> USE DEF StopAgain, At, Goes, Raises, Returns, Shallow, Deep
<1>1. /\ \A q \in Writer : q # p => step[q] = "away" /\ ~wrong[q]
      /\ step[p] \in Shallow => lock = [holder |-> p, depth |-> 1]
      /\ step[p] \in Deep => lock = [holder |-> p, depth |-> 2]
      /\ WriterInv(p) /\ ConfigTypes
  BY Alone DEF ConfigInv
<1>2. ConfigTypes'
  BY <1>1, ServiceMoves DEF ConfigTypes
<1>3. WriterInv(p)'
  BY <1>1 DEF ConfigTypes, WriterInv, Found, Untouched, Current, OwnDraft
<1>7. ServiceInv'
  BY <1>1, ServiceMoves DEF ConfigInv, ConfigTypes, ServiceInv, ServiceRuns, Unsettled, WriterInv, Current, Untouched
<1>8. Kept(p)
  <2>1. \A q \in Writer : q # p => step'[q] = "away" /\ ~wrong'[q]
    BY <1>1 DEF ConfigTypes
  <2>2. /\ step'[p] = "away" => lock' = Free /\ ~wrong'[p]
        /\ step'[p] \in Shallow => lock' = [holder |-> p, depth |-> 1]
        /\ step'[p] \in Deep => lock' = [holder |-> p, depth |-> 2]
    BY <1>1, LockMoves DEF ConfigTypes
  <2>3. QED BY <1>2, <1>3, <1>7, <2>1, <2>2 DEF Kept
<1>9. QED BY <1>8, KeptIsInv

\* A file that was current is tried on the service that runs.
LEMMA KeepsValidate ==
  ASSUME ConfigInv, NEW p \in Writer, Validate(p)
  PROVE  ConfigInv'
<1> USE DEF Validate, At, Goes, Raises, Returns, Shallow, Deep
<1>1. /\ \A q \in Writer : q # p => step[q] = "away" /\ ~wrong[q]
      /\ step[p] \in Shallow => lock = [holder |-> p, depth |-> 1]
      /\ step[p] \in Deep => lock = [holder |-> p, depth |-> 2]
      /\ WriterInv(p) /\ ConfigTypes
  BY Alone DEF ConfigInv
<1>2. ConfigTypes'
  BY <1>1 DEF ConfigTypes
<1>3. WriterInv(p)'
  BY <1>1 DEF ConfigTypes, WriterInv, Found, Untouched, Current, OwnDraft
<1>7. ServiceInv'
  BY <1>1 DEF ConfigInv, ConfigTypes, ServiceInv, ServiceRuns, Unsettled, WriterInv, Current, Untouched
<1>8. Kept(p)
  <2>1. \A q \in Writer : q # p => step'[q] = "away" /\ ~wrong'[q]
    BY <1>1 DEF ConfigTypes
  <2>2. /\ step'[p] = "away" => lock' = Free /\ ~wrong'[p]
        /\ step'[p] \in Shallow => lock' = [holder |-> p, depth |-> 1]
        /\ step'[p] \in Deep => lock' = [holder |-> p, depth |-> 2]
    BY <1>1, LockMoves DEF ConfigTypes
  <2>3. QED BY <1>2, <1>3, <1>7, <2>1, <2>2 DEF Kept
<1>9. QED BY <1>8, KeptIsInv

\* Or on one that is started for it.
LEMMA KeepsStartAndValidate ==
  ASSUME ConfigInv, NEW p \in Writer, StartAndValidate(p)
  PROVE  ConfigInv'
<1> USE DEF StartAndValidate, At, Goes, Raises, Returns, Shallow, Deep
<1>1. /\ \A q \in Writer : q # p => step[q] = "away" /\ ~wrong[q]
      /\ step[p] \in Shallow => lock = [holder |-> p, depth |-> 1]
      /\ step[p] \in Deep => lock = [holder |-> p, depth |-> 2]
      /\ WriterInv(p) /\ ConfigTypes
  BY Alone DEF ConfigInv
<1>2. ConfigTypes'
  BY <1>1, ServiceMoves DEF ConfigTypes
<1>3. WriterInv(p)'
  BY <1>1 DEF ConfigTypes, WriterInv, Found, Untouched, Current, OwnDraft
<1>7. ServiceInv'
  BY <1>1, ServiceMoves DEF ConfigInv, ConfigTypes, ServiceInv, ServiceRuns, Unsettled, WriterInv, Current, Untouched
<1>8. Kept(p)
  <2>1. \A q \in Writer : q # p => step'[q] = "away" /\ ~wrong'[q]
    BY <1>1 DEF ConfigTypes
  <2>2. /\ step'[p] = "away" => lock' = Free /\ ~wrong'[p]
        /\ step'[p] \in Shallow => lock' = [holder |-> p, depth |-> 1]
        /\ step'[p] \in Deep => lock' = [holder |-> p, depth |-> 2]
    BY <1>1, LockMoves DEF ConfigTypes
  <2>3. QED BY <1>2, <1>3, <1>7, <2>1, <2>2 DEF Kept
<1>9. QED BY <1>8, KeptIsInv

\* And stopped again.
LEMMA KeepsStopCurrent ==
  ASSUME ConfigInv, NEW p \in Writer, StopCurrent(p)
  PROVE  ConfigInv'
<1> USE DEF StopCurrent, At, Goes, Raises, Returns, Shallow, Deep
<1>1. /\ \A q \in Writer : q # p => step[q] = "away" /\ ~wrong[q]
      /\ step[p] \in Shallow => lock = [holder |-> p, depth |-> 1]
      /\ step[p] \in Deep => lock = [holder |-> p, depth |-> 2]
      /\ WriterInv(p) /\ ConfigTypes
  BY Alone DEF ConfigInv
<1>2. ConfigTypes'
  BY <1>1, ServiceMoves DEF ConfigTypes
<1>3. WriterInv(p)'
  BY <1>1 DEF ConfigTypes, WriterInv, Found, Untouched, Current, OwnDraft
<1>7. ServiceInv'
  BY <1>1, ServiceMoves DEF ConfigInv, ConfigTypes, ServiceInv, ServiceRuns, Unsettled, WriterInv, Current, Untouched
<1>8. Kept(p)
  <2>1. \A q \in Writer : q # p => step'[q] = "away" /\ ~wrong'[q]
    BY <1>1 DEF ConfigTypes
  <2>2. /\ step'[p] = "away" => lock' = Free /\ ~wrong'[p]
        /\ step'[p] \in Shallow => lock' = [holder |-> p, depth |-> 1]
        /\ step'[p] \in Deep => lock' = [holder |-> p, depth |-> 2]
    BY <1>1, LockMoves DEF ConfigTypes
  <2>3. QED BY <1>2, <1>3, <1>7, <2>1, <2>2 DEF Kept
<1>9. QED BY <1>8, KeptIsInv

\* What was installed is taken back.
LEMMA KeepsUndo ==
  ASSUME ConfigInv, NEW p \in Writer, Undo(p)
  PROVE  ConfigInv'
<1> USE DEF Undo, At, Goes, Raises, Returns, Shallow, Deep
<1>1. /\ \A q \in Writer : q # p => step[q] = "away" /\ ~wrong[q]
      /\ step[p] \in Shallow => lock = [holder |-> p, depth |-> 1]
      /\ step[p] \in Deep => lock = [holder |-> p, depth |-> 2]
      /\ WriterInv(p) /\ ConfigTypes
  BY Alone DEF ConfigInv
<1>2. ConfigTypes'
  BY <1>1 DEF ConfigTypes
<1>3. WriterInv(p)'
  BY <1>1 DEF ConfigTypes, WriterInv, Found, Untouched, Current, OwnDraft
<1>7. ServiceInv'
  BY <1>1 DEF ConfigInv, ConfigTypes, ServiceInv, ServiceRuns, Unsettled, WriterInv, Current, Untouched
<1>8. Kept(p)
  <2>1. \A q \in Writer : q # p => step'[q] = "away" /\ ~wrong'[q]
    BY <1>1 DEF ConfigTypes
  <2>2. /\ step'[p] = "away" => lock' = Free /\ ~wrong'[p]
        /\ step'[p] \in Shallow => lock' = [holder |-> p, depth |-> 1]
        /\ step'[p] \in Deep => lock' = [holder |-> p, depth |-> 2]
    BY <1>1, LockMoves DEF ConfigTypes
  <2>3. QED BY <1>2, <1>3, <1>7, <2>1, <2>2 DEF Kept
<1>9. QED BY <1>8, KeptIsInv

\* So is what the service did.
LEMMA KeepsBounceBack ==
  ASSUME ConfigInv, NEW p \in Writer, BounceBack(p)
  PROVE  ConfigInv'
<1> USE DEF BounceBack, At, Goes, Raises, Returns, Shallow, Deep
<1>1. /\ \A q \in Writer : q # p => step[q] = "away" /\ ~wrong[q]
      /\ step[p] \in Shallow => lock = [holder |-> p, depth |-> 1]
      /\ step[p] \in Deep => lock = [holder |-> p, depth |-> 2]
      /\ WriterInv(p) /\ ConfigTypes
  BY Alone DEF ConfigInv
<1>2. ConfigTypes'
  BY <1>1, ServiceMoves DEF ConfigTypes
<1>3. WriterInv(p)'
  BY <1>1 DEF ConfigTypes, WriterInv, Found, Untouched, Current, OwnDraft
<1>7. ServiceInv'
  BY <1>1, ServiceMoves DEF ConfigInv, ConfigTypes, ServiceInv, ServiceRuns, Unsettled, WriterInv, Current, Untouched
<1>8. Kept(p)
  <2>1. \A q \in Writer : q # p => step'[q] = "away" /\ ~wrong'[q]
    BY <1>1 DEF ConfigTypes
  <2>2. /\ step'[p] = "away" => lock' = Free /\ ~wrong'[p]
        /\ step'[p] \in Shallow => lock' = [holder |-> p, depth |-> 1]
        /\ step'[p] \in Deep => lock' = [holder |-> p, depth |-> 2]
    BY <1>1, LockMoves DEF ConfigTypes
  <2>3. QED BY <1>2, <1>3, <1>7, <2>1, <2>2 DEF Kept
<1>9. QED BY <1>8, KeptIsInv

\* The inner transaction ends.
LEMMA KeepsLeaveApply ==
  ASSUME ConfigInv, NEW p \in Writer, LeaveApply(p)
  PROVE  ConfigInv'
<1> USE DEF LeaveApply, At, Goes, Raises, Returns, Shallow, Deep
<1>1. /\ \A q \in Writer : q # p => step[q] = "away" /\ ~wrong[q]
      /\ step[p] \in Shallow => lock = [holder |-> p, depth |-> 1]
      /\ step[p] \in Deep => lock = [holder |-> p, depth |-> 2]
      /\ WriterInv(p) /\ ConfigTypes
  BY Alone DEF ConfigInv
<1>2. ConfigTypes'
  BY <1>1, LockMoves DEF ConfigTypes
<1>3. WriterInv(p)'
  BY <1>1 DEF ConfigTypes, WriterInv, Found, Untouched, Current, OwnDraft
<1>7. ServiceInv'
  BY <1>1 DEF ConfigInv, ConfigTypes, ServiceInv, ServiceRuns, Unsettled, WriterInv, Current, Untouched
<1>8. Kept(p)
  <2>1. \A q \in Writer : q # p => step'[q] = "away" /\ ~wrong'[q]
    BY <1>1 DEF ConfigTypes
  <2>2. /\ step'[p] = "away" => lock' = Free /\ ~wrong'[p]
        /\ step'[p] \in Shallow => lock' = [holder |-> p, depth |-> 1]
        /\ step'[p] \in Deep => lock' = [holder |-> p, depth |-> 2]
    BY <1>1, LockMoves DEF ConfigTypes
  <2>3. QED BY <1>2, <1>3, <1>7, <2>1, <2>2 DEF Kept
<1>9. QED BY <1>8, KeptIsInv

\* A switch that failed gives the registry back.
LEMMA KeepsGiveBack ==
  ASSUME ConfigInv, NEW p \in Writer, GiveBack(p)
  PROVE  ConfigInv'
<1> USE DEF GiveBack, At, Goes, Raises, Returns, Shallow, Deep
<1>1. /\ \A q \in Writer : q # p => step[q] = "away" /\ ~wrong[q]
      /\ step[p] \in Shallow => lock = [holder |-> p, depth |-> 1]
      /\ step[p] \in Deep => lock = [holder |-> p, depth |-> 2]
      /\ WriterInv(p) /\ ConfigTypes
  BY Alone DEF ConfigInv
<1>2. lock' = [holder |-> p, depth |-> 1]
  BY <1>1, LockMoves
<1> DEFINE g == draft[p].generation
<1> DEFINE back == [seen[p].before EXCEPT !.generation = g]
<1>3. IsRegistry(back) /\ Content(back) = Content(seen[p].before)
  BY <1>1, RegistryParts DEF ConfigTypes, IsSeen
<1>4. ASSUME Save(back) /\ UNCHANGED unrepaired
      PROVE  ConfigTypes' /\ WriterInv(p)'
  <2>1. roleRegistry' = [back EXCEPT !.generation = @ + 1]
    BY <1>4 DEF Save
  <2> HIDE DEF back
  <2> DEFINE v == back.generation + 1
  <2>2. roleRegistry' = [back EXCEPT !.generation = v]
    BY <2>1
  <2> HIDE DEF v
  <2>3. IsRegistry(roleRegistry') /\ Content(roleRegistry') = Content(seen[p].before)
    BY <1>3, <2>2, RegistryParts
  <2>4. ConfigTypes'
    BY <1>1, <1>2, <1>4, <2>3 DEF ConfigTypes
  <2>5. Found(p)'
    BY <2>3 DEF Found, Content
  <2>6. WriterInv(p)'
    BY <1>1, <1>4, <2>5 DEF ConfigTypes, WriterInv, Untouched
  <2>7. QED BY <2>4, <2>6
<1>5. ASSUME unrepaired' = TRUE /\ UNCHANGED roleRegistry
      PROVE  ConfigTypes' /\ WriterInv(p)'
  <2>1. ConfigTypes'
    BY <1>1, <1>2, <1>5 DEF ConfigTypes
  <2>2. WriterInv(p)'
    BY <1>1, <1>5 DEF ConfigTypes, WriterInv, Untouched
  <2>3. QED BY <2>1, <2>2
<1>6. ConfigTypes' /\ WriterInv(p)'
  BY <1>4, <1>5
<1>7. ServiceInv'
  BY <1>1 DEF ConfigInv, ConfigTypes, ServiceInv, ServiceRuns, Unsettled, WriterInv, Current, Untouched
<1>8. Kept(p)
  <2>1. \A q \in Writer : q # p => step'[q] = "away" /\ ~wrong'[q]
    BY <1>1 DEF ConfigTypes
  <2>2. /\ step'[p] = "away" => lock' = Free /\ ~wrong'[p]
        /\ step'[p] \in Shallow => lock' = [holder |-> p, depth |-> 1]
        /\ step'[p] \in Deep => lock' = [holder |-> p, depth |-> 2]
    BY <1>1, LockMoves DEF ConfigTypes
  <2>3. QED BY <1>6, <1>7, <2>1, <2>2 DEF Kept
<1>9. QED BY <1>8, KeptIsInv

\* The lock goes with its writer.
LEMMA KeepsWriterDies ==
  ASSUME ConfigInv, NEW p \in Writer, WriterDies(p)
  PROVE  ConfigInv'
<1> USE DEF WriterDies, At, Goes, Raises, Returns, Shallow, Deep
<1>1. /\ \A q \in Writer : q # p => step[q] = "away" /\ ~wrong[q]
      /\ step[p] \in Shallow => lock = [holder |-> p, depth |-> 1]
      /\ step[p] \in Deep => lock = [holder |-> p, depth |-> 2]
      /\ WriterInv(p) /\ ConfigTypes
  BY Alone DEF ConfigInv
<1>2. ConfigTypes'
  <2>1. IsRegistry(FirstRegistry) /\ IsSeen(NothingSeen)
    BY DEF IsRegistry, IsSeen, FirstRegistry, NothingSeen
  <2>2. QED BY <1>1, <2>1, LockMoves DEF ConfigTypes, Free
<1>3. WriterInv(p)'
  BY <1>1 DEF ConfigTypes, WriterInv
<1>7. ServiceInv'
  BY <1>1 DEF ConfigInv, ConfigTypes, ServiceInv, ServiceRuns, Unsettled, WriterInv, Current, Untouched
<1>8. Kept(p)
  <2>1. \A q \in Writer : q # p => step'[q] = "away" /\ ~wrong'[q]
    BY <1>1 DEF ConfigTypes
  <2>2. /\ step'[p] = "away" => lock' = Free /\ ~wrong'[p]
        /\ step'[p] \in Shallow => lock' = [holder |-> p, depth |-> 1]
        /\ step'[p] \in Deep => lock' = [holder |-> p, depth |-> 2]
    BY <1>1, LockMoves DEF ConfigTypes
  <2>3. QED BY <1>2, <1>3, <1>7, <2>1, <2>2 DEF Kept
<1>9. QED BY <1>8, KeptIsInv

\* A step that changes neither the files nor a writer leaves what it has done.
LEMMA WriterIdle ==
  ASSUME NEW p \in Writer, WriterInv(p),
         UNCHANGED <<roleRegistry, configFile, step, errand, draft, seen, wrong, unrepaired>>
  PROVE  WriterInv(p)'
<1>1. Plan(roleRegistry)' = Plan(roleRegistry)
  BY DEF Plan, Known
<1>2. /\ Found(p)' = Found(p) /\ Untouched(p)' = Untouched(p)
      /\ Current' = Current /\ OwnDraft(p)' = OwnDraft(p)
  BY <1>1 DEF Found, Untouched, Current, OwnDraft, Content
<1>3. QED BY <1>1, <1>2 DEF WriterInv

\* The user starts or stops the service outside of every lock: it runs the
\* installed file or does not run at all, and nothing else changes.
LEMMA KeepsUser ==
  ASSUME ConfigInv, UserStarts \/ UserStops
  PROVE  ConfigInv'
<1>1. /\ service' \in {StartedService, Inactive}
      /\ UNCHANGED <<roleRegistry, configFile, lock, step, errand, draft, seen, wrong, unrepaired>>
  BY DEF UserStarts, UserStops
<1>2. ConfigTypes'
  BY <1>1, ServiceMoves DEF ConfigInv, ConfigTypes
<1>3. LockInv'
  BY <1>1 DEF ConfigInv, LockInv, Free
<1>4. \A p \in Writer : WriterInv(p)'
  BY <1>1, WriterIdle DEF ConfigInv
<1>5. ServiceInv'
  <2>1. ServiceRuns => ServiceRuns'
    BY <1>1, ServiceMoves DEF ConfigInv, ConfigTypes, ServiceRuns
  <2>2. (\E p \in Writer : Unsettled(p)) => \E p \in Writer : Unsettled(p)'
    BY <1>1 DEF Unsettled
  <2>3. QED BY <1>1, <2>1, <2>2 DEF ConfigInv, ServiceInv
<1>6. QED BY <1>2, <1>3, <1>4, <1>5 DEF ConfigInv

\* The inductive invariant of the configuration: the one writer that is
\* inside of the lock can still take back what it did, at each of its steps.
THEOREM ConfigInvariant == ConfigSpec => []ConfigInv
<1>1. ConfigInit => ConfigInv
  BY ConfigFirst
<1>2. ConfigInv /\ [ConfigNext]_configVars => ConfigInv'
  <2>1. ASSUME ConfigInv, UNCHANGED configVars PROVE ConfigInv'
    <3>1. ConfigTypes' /\ LockInv' /\ ServiceInv'
      BY <2>1 DEF configVars, ConfigInv, ConfigTypes, LockInv, Free, ServiceInv, ServiceRuns, Unsettled
    <3>2. \A p \in Writer : WriterInv(p)'
      BY <2>1, WriterIdle DEF configVars, ConfigInv
    <3>3. QED BY <3>1, <3>2 DEF ConfigInv
  <2>2. ASSUME ConfigInv, ConfigNext PROVE ConfigInv'
    BY <2>2, KeepsEnter, KeepsEdit, KeepsSwitchRole, KeepsSaveRegistry, KeepsLeaveTransaction,
       KeepsReadForApply, KeepsInstall, KeepsBounce, KeepsHealthy, KeepsStopAgain, KeepsValidate,
       KeepsStartAndValidate, KeepsStopCurrent, KeepsUndo, KeepsBounceBack, KeepsLeaveApply,
       KeepsGiveBack, KeepsWriterDies, KeepsUser
       DEF ConfigNext
  <2>3. QED BY <2>1, <2>2
<1>3. QED BY <1>1, <1>2, PTL DEF ConfigSpec

\* What a writer leaves behind is consistent, whatever the number of writers
\* and roles: a switch or an apply that returns has installed the
\* configuration of the registry, one that fails leaves both as it found them,
\* and outside of a transaction the service runs the installed file.
THEOREM RuntimeConfigIsSound == ConfigSpec => []ConfigIsSound
<1>1. ConfigInv => SwitchIsAtomic
  BY DEF ConfigInv, WriterInv, SwitchIsAtomic, At, Found, Untouched, Current
<1>2. ConfigInv => ServiceRunsTheFile
  <2>1. ASSUME ConfigInv, lock.holder = Nobody, NEW p \in Writer PROVE ~Unsettled(p)
    <3>1. step[p] = "away"
      BY <2>1, NobodyWrites DEF ConfigInv, LockInv
    <3>2. QED BY <3>1 DEF Unsettled
  <2>2. QED BY <2>1 DEF ConfigInv, ServiceInv, ServiceRuns, ServiceRunsTheFile
<1>3. QED BY <1>1, <1>2, ConfigInvariant, PTL DEF ConfigIsSound

-----------------------------------------------------------------------------
(* The registries of models *)

Errand == {"nothing", "pull", "add", "verify", "bind", "remove"}
Place == {"start", "downloaded", "copied", "copied, partial", "registered", "entry gone",
          "entry of a foreign file gone", "artifact", "end"}
Work == [does : Errand, at : Place, alias : Alias \union {NoModel},
         digest : Digest \union {Mixed, NoModel}]

\* what a download and a copy of it know of their content
WorkOK(w) ==
    /\ w.does = "pull" => w.alias \in Pulled /\ w.digest \in Digest
    /\ w.does = "add" => w.digest \in Digest \union {Mixed}

LifecycleTypeOK ==
    /\ models \in [Alias -> Entry \union {NoModel}]
    /\ partial \in [Pulled -> Digest \union {Mixed, NoModel}]
    /\ keeping \in [Keeper -> Work]
    /\ bound \in [Bearer -> Alias \union {NoModel}]
    /\ \A k \in Keeper : WorkOK(keeping[k])

InTransaction(k) == keeping[k].does \in {"bind", "remove"}

BoundIsRegistered == \A r \in Bearer : bound[r] # NoModel => bound[r] \in Registered

LifecycleInv ==
    /\ LifecycleTypeOK
    /\ \A k \in Keeper : InTransaction(k) => guard = k
    /\ \A k \in Keeper : keeping[k].does = "bind" => keeping[k].alias \in Registered
    /\ \A k \in Keeper : keeping[k].does = "remove" => \A r \in Bearer : bound[r] # keeping[k].alias
    /\ BoundIsRegistered

-----------------------------------------------------------------------------
(* A step of a process touches only its own work *)

OnlyItself(k) == \A j \in Keeper : j # k => keeping'[j] = keeping[j]

\* Who begins is at work on what it was asked for, and nobody else moves.
LEMMA BeginsWork ==
    ASSUME keeping \in [Keeper -> Work], NEW k \in Keeper, NEW does \in Errand,
           NEW a \in Alias, NEW d \in Digest \union {Mixed, NoModel}, Begin(k, does, a, d)
    PROVE  /\ keeping' \in [Keeper -> Work]
           /\ keeping'[k] = [does |-> does, at |-> "start", alias |-> a, digest |-> d]
           /\ OnlyItself(k)
<1> DEFINE w == [does |-> does, at |-> "start", alias |-> a, digest |-> d]
<1>1. w \in Work BY DEF Work, Place
<1>2. keeping' = [keeping EXCEPT ![k] = w] BY DEF Begin
<1> HIDE DEF w
<1>3. keeping' \in [Keeper -> Work] /\ keeping'[k] = w /\ OnlyItself(k) BY <1>1, <1>2 DEF OnlyItself
<1> QED BY <1>3 DEF w

\* Who goes on keeps what it is at work on.
LEMMA GoesOn ==
    ASSUME keeping \in [Keeper -> Work], NEW k \in Keeper, NEW at \in Place, Moved(k, at)
    PROVE  /\ keeping' \in [Keeper -> Work]
           /\ keeping'[k].does = keeping[k].does
           /\ keeping'[k].alias = keeping[k].alias
           /\ keeping'[k].digest = keeping[k].digest
           /\ OnlyItself(k)
BY DEF Moved, Work, OnlyItself

\* Who ends is at rest.
LEMMA Rests ==
    ASSUME keeping \in [Keeper -> Work], NEW k \in Keeper, Ends(k)
    PROVE  keeping' \in [Keeper -> Work] /\ keeping'[k] = Resting /\ OnlyItself(k)
<1>1. Resting \in Work BY DEF Resting, Work, Errand, Place
<1> QED BY <1>1 DEF Ends, OnlyItself

\* Outside of a binding and a removal a step leaves every role and every
\* registered alias as it is, and can only let go of the transaction it holds.
LEMMA StepOutside ==
    ASSUME LifecycleInv, NEW k \in Keeper,
           keeping' \in [Keeper -> Work], OnlyItself(k), WorkOK(keeping'[k]), ~InTransaction(k)',
           models' \in [Alias -> Entry \union {NoModel}], Registered \subseteq Registered',
           partial' \in [Pulled -> Digest \union {Mixed, NoModel}],
           bound' = bound, guard' = guard \/ guard = k
    PROVE  LifecycleInv'
<1>1. LifecycleTypeOK' BY DEF LifecycleInv, LifecycleTypeOK, OnlyItself
<1>2. \A j \in Keeper : InTransaction(j)' => j # k /\ keeping'[j] = keeping[j] /\ InTransaction(j)
  BY DEF OnlyItself, InTransaction
<1>3. \A j \in Keeper : InTransaction(j)' => guard' = j
  BY <1>2 DEF LifecycleInv
<1>4. \A j \in Keeper : keeping'[j].does = "bind" => keeping'[j].alias \in Registered'
  BY <1>2 DEF LifecycleInv, InTransaction
<1>5. \A j \in Keeper : keeping'[j].does = "remove" => \A r \in Bearer : bound'[r] # keeping'[j].alias
  BY <1>2 DEF LifecycleInv, InTransaction
<1>6. BoundIsRegistered' BY DEF LifecycleInv, BoundIsRegistered
<1> QED BY <1>1, <1>3, <1>4, <1>5, <1>6 DEF LifecycleInv

\* who holds the transaction is alone in it
LEMMA AloneInside ==
    ASSUME LifecycleInv, NEW k \in Keeper, guard \in {k, NoModel}
    PROVE  \A j \in Keeper : j # k => ~InTransaction(j)
BY LifecycleAssumption DEF LifecycleInv

-----------------------------------------------------------------------------
(* The invariant *)

\* a registry that is created binds nothing
LEMMA LifecycleInitInv == LifecycleInit => LifecycleInv
<1> SUFFICES ASSUME LifecycleInit PROVE LifecycleInv OBVIOUS
<1>1. \A a \in Alias : models[a] \in Entry \union {NoModel}
  <2>1. (CHOOSE d \in Digest : TRUE) \in Digest BY LifecycleAssumption
  <2> DEFINE first == [digest |-> CHOOSE d \in Digest : TRUE, ours |-> FALSE, verified |-> FALSE]
  <2>2. first \in Entry BY <2>1 DEF Entry
  <2>3. \A a \in Alias : models[a] = IF a \in Shipped THEN first ELSE NoModel BY DEF LifecycleInit
  <2> HIDE DEF first
  <2> QED BY <2>2, <2>3
<1>2. models \in [Alias -> Entry \union {NoModel}] BY <1>1 DEF LifecycleInit
<1>3. Resting \in Work /\ Resting.does = "nothing" BY DEF Resting, Work, Errand, Place
<1>4. keeping \in [Keeper -> Work] /\ \A k \in Keeper : keeping[k].does = "nothing"
  BY <1>3 DEF LifecycleInit
<1>5. bound \in [Bearer -> Alias \union {NoModel}] /\ \A r \in Bearer : bound[r] = NoModel
  BY DEF LifecycleInit
<1>6. LifecycleTypeOK BY <1>2, <1>4, <1>5 DEF LifecycleInit, LifecycleTypeOK, WorkOK
<1> QED BY <1>4, <1>5, <1>6 DEF LifecycleInv, InTransaction, BoundIsRegistered

\* what a step of a process relies on is left true by every step of another
LEMMA LifecycleStep == ASSUME LifecycleInv, [LifecycleNext]_lifecycleVars PROVE LifecycleInv'
<1> LifecycleTypeOK BY DEF LifecycleInv
<1> USE DEF LifecycleTypeOK
<1>1. ASSUME NEW k \in Keeper, ImportModel(k) PROVE LifecycleInv'
  <2>1. PICK a \in Alias, d \in Digest : Begin(k, "add", a, d) BY <1>1 DEF ImportModel
  <2>2. a \in Alias BY LifecycleAssumption
  <2>3. keeping' \in [Keeper -> Work] /\ OnlyItself(k)
        /\ keeping'[k] = [does |-> "add", at |-> "start", alias |-> a, digest |-> d]
    BY <2>1, <2>2, BeginsWork DEF Errand
  <2>4. WorkOK(keeping'[k]) /\ ~InTransaction(k)' BY <2>3 DEF WorkOK, InTransaction
  <2> QED BY <1>1, <2>3, <2>4, StepOutside DEF ImportModel, Registered
<1>2. ASSUME NEW k \in Keeper, PullModel(k) PROVE LifecycleInv'
  <2>1. PICK a \in Pulled, d \in Digest : Begin(k, "pull", a, d) BY <1>2 DEF PullModel
  <2>2. a \in Alias BY LifecycleAssumption
  <2>3. keeping' \in [Keeper -> Work] /\ OnlyItself(k)
        /\ keeping'[k] = [does |-> "pull", at |-> "start", alias |-> a, digest |-> d]
    BY <2>1, <2>2, BeginsWork DEF Errand
  <2>4. WorkOK(keeping'[k]) /\ ~InTransaction(k)' BY <2>3 DEF WorkOK, InTransaction
  <2> QED BY <1>2, <2>3, <2>4, StepOutside DEF PullModel, Registered
<1>3. ASSUME NEW k \in Keeper, Download(k) PROVE LifecycleInv'
  <2>1. keeping[k].does = "pull" /\ keeping[k].digest \in Digest /\ keeping[k].alias \in Pulled
    BY <1>3 DEF Download, Doing, WorkOK
  <2>2. partial' \in [Pulled -> Digest \union {Mixed, NoModel}] BY <1>3, <2>1 DEF Download
  <2>3. keeping' \in [Keeper -> Work] /\ OnlyItself(k) /\ WorkOK(keeping'[k]) /\ ~InTransaction(k)'
    <3>1. CASE Moved(k, "downloaded") BY <3>1, <2>1, GoesOn DEF WorkOK, InTransaction, Place
    <3>2. CASE Ends(k) BY <3>2, Rests DEF Resting, WorkOK, InTransaction
    <3> QED BY <1>3, <3>1, <3>2 DEF Download
  <2> QED BY <1>3, <2>2, <2>3, StepOutside DEF Download, Registered
<1>4. ASSUME NEW k \in Keeper, SnapshotPartial(k) PROVE LifecycleInv'
  <2>1. keeping' \in [Keeper -> Work] /\ OnlyItself(k) /\ WorkOK(keeping'[k]) /\ ~InTransaction(k)'
    <3>1. CASE Ends(k) BY <3>1, Rests DEF Resting, WorkOK, InTransaction
    <3>2. CASE ~Ends(k)
      <4> DEFINE content == partial[keeping[k].alias]
      <4>1. keeping[k].alias \in Pulled BY <1>4 DEF SnapshotPartial, Doing, WorkOK
      <4>2. content \in Digest \union {Mixed} BY <1>4, <3>2, <4>1 DEF SnapshotPartial
      <4>3. keeping' = [keeping EXCEPT ![k].does = "add", ![k].digest = content] BY <1>4, <3>2 DEF SnapshotPartial
      <4> HIDE DEF content
      <4>4. keeping' \in [Keeper -> Work] BY ZenonT(60), <4>2, <4>3 DEF Work, Errand
      <4>5. OnlyItself(k) BY <4>3 DEF OnlyItself
      <4>6. WorkOK(keeping'[k]) /\ ~InTransaction(k)'
        BY <4>2, <4>3 DEF Work, Errand, WorkOK, InTransaction
      <4> QED BY <4>4, <4>5, <4>6
    <3> QED BY <3>1, <3>2
  <2> QED BY <1>4, <2>1, StepOutside DEF SnapshotPartial, Registered
<1>5. ASSUME NEW k \in Keeper, CommitArtifact(k) PROVE LifecycleInv'
  <2>1. PICK at \in Place : Moved(k, at) BY <1>5 DEF CommitArtifact, Place
  <2>2. keeping' \in [Keeper -> Work] /\ OnlyItself(k) /\ keeping'[k].does = "add"
        /\ keeping'[k].digest = keeping[k].digest
    BY <1>5, <2>1, GoesOn DEF CommitArtifact
  <2>3. WorkOK(keeping'[k]) /\ ~InTransaction(k)' BY <1>5, <2>2 DEF CommitArtifact, WorkOK, InTransaction
  <2> QED BY <1>5, <2>2, <2>3, StepOutside DEF CommitArtifact, Registered
<1>6. ASSUME NEW k \in Keeper, Register(k) PROVE LifecycleInv'
  <2> DEFINE a == keeping[k].alias
             new == [digest |-> keeping[k].digest, ours |-> TRUE, verified |-> TRUE]
  <2>1. keeping[k].does = "add" /\ keeping[k].digest \in Digest \union {Mixed}
    BY <1>6 DEF Register, WorkOK
  <2>2. new \in Entry BY <2>1 DEF Entry
  <2>3. models' = models \/ (models[a] = NoModel /\ models' = [models EXCEPT ![a] = new])
    BY <1>6 DEF Register, Moved, Ends
  <2>4. models' \in [Alias -> Entry \union {NoModel}] /\ Registered \subseteq Registered'
    <3> HIDE DEF a, new
    <3> QED BY <2>2, <2>3 DEF Registered
  <2>5. keeping' \in [Keeper -> Work] /\ OnlyItself(k) /\ WorkOK(keeping'[k]) /\ ~InTransaction(k)'
    <3>1. CASE Moved(k, "registered") BY <3>1, <2>1, GoesOn DEF WorkOK, InTransaction, Place
    <3>2. CASE Ends(k) BY <3>2, Rests DEF Resting, WorkOK, InTransaction
    <3> QED BY <1>6, <3>1, <3>2 DEF Register
  <2> QED BY <1>6, <2>4, <2>5, StepOutside DEF Register
<1>7. ASSUME NEW k \in Keeper, UnlinkPartial(k) PROVE LifecycleInv'
  <2>1. partial' \in [Pulled -> Digest \union {Mixed, NoModel}] BY <1>7 DEF UnlinkPartial
  <2>8. keeping' \in [Keeper -> Work] /\ OnlyItself(k) /\ keeping'[k] = Resting BY <1>7, Rests DEF UnlinkPartial
  <2>9. WorkOK(keeping'[k]) /\ ~InTransaction(k)' BY <2>8 DEF Resting, WorkOK, InTransaction
  <2> QED BY <1>7, <2>1, <2>8, <2>9, StepOutside DEF UnlinkPartial, Registered
<1>8. ASSUME NEW k \in Keeper, VerifyModel(k) PROVE LifecycleInv'
  <2>1. PICK a \in Registered : Begin(k, "verify", a, models[a].digest) BY <1>8 DEF VerifyModel
  <2>2. a \in Alias /\ models[a].digest \in Digest \union {Mixed, NoModel} BY <2>1 DEF Registered, Entry
  <2>3. keeping' \in [Keeper -> Work] /\ OnlyItself(k) /\ keeping'[k].does = "verify"
    <3>1. "verify" \in Errand BY DEF Errand
    <3>2. keeping' \in [Keeper -> Work] /\ OnlyItself(k)
          /\ keeping'[k] = [does |-> "verify", at |-> "start", alias |-> a, digest |-> models[a].digest]
      BY <2>1, <2>2, <3>1, BeginsWork
    <3> QED BY <3>2
  <2>4. WorkOK(keeping'[k]) /\ ~InTransaction(k)' BY <2>3 DEF WorkOK, InTransaction
  <2> QED BY <1>8, <2>3, <2>4, StepOutside DEF VerifyModel, Registered
<1>9. ASSUME NEW k \in Keeper, RecordVerification(k) PROVE LifecycleInv'
  <2> DEFINE a == keeping[k].alias
  <2>1. models' = models \/ (a \in Registered /\ \E same \in BOOLEAN : models' = [models EXCEPT ![a].verified = same])
    BY <1>9 DEF RecordVerification, Ends
  <2>2. models' \in [Alias -> Entry \union {NoModel}] /\ Registered \subseteq Registered'
    <3>1. CASE models' = models BY <3>1 DEF Registered
    <3>2. ASSUME a \in Registered, NEW same \in BOOLEAN, models' = [models EXCEPT ![a].verified = same]
          PROVE  models' \in [Alias -> Entry \union {NoModel}] /\ Registered \subseteq Registered'
      <4> DEFINE e == [models[a] EXCEPT !.verified = same]
      <4>1. a \in Alias /\ models[a] \in Entry BY <3>2 DEF Registered
      <4>2. e \in Entry BY <4>1 DEF Entry
      <4>3. e # NoModel BY <4>2, LifecycleAssumption
      <4>4. models' = [models EXCEPT ![a] = e] BY <3>2
      <4> HIDE DEF a, e
      <4> QED BY <4>1, <4>2, <4>3, <4>4 DEF Registered
    <3> QED BY <2>1, <3>1, <3>2
  <2>8. keeping' \in [Keeper -> Work] /\ OnlyItself(k) /\ keeping'[k] = Resting BY <1>9, Rests DEF RecordVerification
  <2>9. WorkOK(keeping'[k]) /\ ~InTransaction(k)' BY <2>8 DEF Resting, WorkOK, InTransaction
  <2> QED BY <1>9, <2>2, <2>8, <2>9, StepOutside DEF RecordVerification
<1>10. ASSUME NEW k \in Keeper, BindBegin(k) PROVE LifecycleInv'
  <2>1. PICK a \in Registered : Begin(k, "bind", a, NoModel) BY <1>10 DEF BindBegin
  <2>2. keeping' \in [Keeper -> Work] /\ OnlyItself(k) /\ keeping'[k].does = "bind" /\ keeping'[k].alias = a
    <3>1. a \in Alias /\ NoModel \in Digest \union {Mixed, NoModel} BY DEF Registered
    <3>2. "bind" \in Errand BY DEF Errand
    <3>3. keeping' \in [Keeper -> Work] /\ OnlyItself(k)
          /\ keeping'[k] = [does |-> "bind", at |-> "start", alias |-> a, digest |-> NoModel]
      BY <2>1, <3>1, <3>2, BeginsWork
    <3> QED BY <3>3
  <2>3. LifecycleTypeOK' BY <1>10, <2>2 DEF BindBegin, WorkOK, OnlyItself
  <2>4. \A j \in Keeper : j # k => ~InTransaction(j) BY <1>10, AloneInside DEF BindBegin, TakesGuard
  <2>5. \A j \in Keeper : InTransaction(j)' => j = k BY <2>2, <2>4 DEF OnlyItself, InTransaction
  <2>6. BoundIsRegistered' BY <1>10 DEF BindBegin, LifecycleInv, BoundIsRegistered, Registered
  <2> QED BY <1>10, <2>1, <2>2, <2>3, <2>5, <2>6
          DEF BindBegin, TakesGuard, LifecycleInv, InTransaction, Registered
<1>11. ASSUME NEW k \in Keeper, BindSave(k) PROVE LifecycleInv'
  <2>1. keeping[k].alias \in Registered BY <1>11 DEF BindSave, Doing, LifecycleInv
  <2>2. \A j \in Keeper : j # k => ~InTransaction(j) BY <1>11, AloneInside DEF BindSave, HasGuard
  <2>3. PICK r \in Bearer : bound' = [bound EXCEPT ![r] = keeping[k].alias] BY <1>11 DEF BindSave
  <2>4. bound' \in [Bearer -> Alias \union {NoModel}] /\ BoundIsRegistered'
    BY <1>11, <2>1, <2>3 DEF BindSave, LifecycleInv, BoundIsRegistered, Registered
  <2>8. keeping' \in [Keeper -> Work] /\ OnlyItself(k) /\ keeping'[k] = Resting BY <1>11, Rests DEF BindSave
  <2>9. WorkOK(keeping'[k]) /\ ~InTransaction(k)' BY <2>8 DEF Resting, WorkOK, InTransaction
  <2>10. LifecycleTypeOK' BY <1>11, <2>4, <2>8, <2>9 DEF BindSave, OnlyItself
  <2>11. \A j \in Keeper : ~InTransaction(j)' BY <2>2, <2>8, <2>9 DEF OnlyItself, InTransaction
  <2> QED BY <2>4, <2>10, <2>11 DEF LifecycleInv, InTransaction
<1>12. ASSUME NEW k \in Keeper, RemoveBegin(k) PROVE LifecycleInv'
  <2>1. PICK a \in Registered : Begin(k, "remove", a, models[a].digest) /\ \A r \in Bearer : bound[r] # a
    BY <1>12 DEF RemoveBegin
  <2>2. a \in Alias /\ models[a].digest \in Digest \union {Mixed, NoModel} BY <2>1 DEF Registered, Entry
  <2>3. keeping' \in [Keeper -> Work] /\ OnlyItself(k) /\ keeping'[k].does = "remove" /\ keeping'[k].alias = a
    <3>1. "remove" \in Errand BY DEF Errand
    <3>2. keeping' \in [Keeper -> Work] /\ OnlyItself(k)
          /\ keeping'[k] = [does |-> "remove", at |-> "start", alias |-> a, digest |-> models[a].digest]
      BY <2>1, <2>2, <3>1, BeginsWork
    <3> QED BY <3>2
  <2>4. LifecycleTypeOK' BY <1>12, <2>3 DEF RemoveBegin, WorkOK, OnlyItself
  <2>5. \A j \in Keeper : j # k => ~InTransaction(j) BY <1>12, AloneInside DEF RemoveBegin, TakesGuard
  <2>6. \A j \in Keeper : InTransaction(j)' => j = k BY <2>3, <2>5 DEF OnlyItself, InTransaction
  <2>7. BoundIsRegistered' BY <1>12 DEF RemoveBegin, LifecycleInv, BoundIsRegistered, Registered
  <2> QED BY <1>12, <2>1, <2>3, <2>4, <2>6, <2>7
          DEF RemoveBegin, TakesGuard, LifecycleInv, InTransaction
<1>13. ASSUME NEW k \in Keeper, RemoveEntry(k) PROVE LifecycleInv'
  <2> DEFINE a == keeping[k].alias
  <2>1. keeping[k].does = "remove" /\ guard = k /\ \A r \in Bearer : bound[r] # a
    BY <1>13 DEF RemoveEntry, Doing, LifecycleInv, InTransaction
  <2>2. \A j \in Keeper : j # k => ~InTransaction(j) BY <2>1, AloneInside
  <2>3. PICK at \in Place : Moved(k, at) BY <1>13 DEF RemoveEntry, Place
  <2>4. keeping' \in [Keeper -> Work] /\ OnlyItself(k) /\ keeping'[k].does = "remove" /\ keeping'[k].alias = a
    BY <2>1, <2>3, GoesOn
  <2>5. models' = [models EXCEPT ![a] = NoModel] /\ bound' = bound /\ guard' = guard /\ partial' = partial
    BY <1>13 DEF RemoveEntry
  <2> HIDE DEF a
  <2>6. LifecycleTypeOK' BY <2>4, <2>5 DEF WorkOK, OnlyItself
  <2>7. \A j \in Keeper : InTransaction(j)' => j = k BY <2>2, <2>4 DEF OnlyItself, InTransaction
  <2>8. BoundIsRegistered' BY <2>1, <2>5 DEF LifecycleInv, BoundIsRegistered, Registered
  <2> QED BY <2>1, <2>4, <2>5, <2>6, <2>7, <2>8 DEF LifecycleInv, InTransaction
<1>14. ASSUME NEW k \in Keeper, DeleteCalibration(k) PROVE LifecycleInv'
  <2>1. keeping[k].does = "remove" /\ guard = k /\ \A r \in Bearer : bound[r] # keeping[k].alias
    BY <1>14 DEF DeleteCalibration, LifecycleInv, InTransaction
  <2>2. \A j \in Keeper : j # k => ~InTransaction(j) BY <2>1, AloneInside
  <2>3. PICK at \in Place : Moved(k, at) BY <1>14 DEF DeleteCalibration, Place
  <2>4. keeping' \in [Keeper -> Work] /\ OnlyItself(k) /\ keeping'[k].does = "remove"
        /\ keeping'[k].alias = keeping[k].alias
    BY <2>1, <2>3, GoesOn
  <2>5. LifecycleTypeOK' BY <1>14, <2>4 DEF DeleteCalibration, WorkOK, OnlyItself
  <2>6. \A j \in Keeper : InTransaction(j)' => j = k BY <2>2, <2>4 DEF OnlyItself, InTransaction
  <2>7. BoundIsRegistered' BY <1>14 DEF DeleteCalibration, LifecycleInv, BoundIsRegistered, Registered
  <2> QED BY <1>14, <2>1, <2>4, <2>5, <2>6, <2>7 DEF DeleteCalibration, LifecycleInv, InTransaction
<1>15. ASSUME NEW k \in Keeper, DeleteArtifact(k) PROVE LifecycleInv'
  <2>1. guard = k BY <1>15 DEF DeleteArtifact, LifecycleInv, InTransaction
  <2>8. keeping' \in [Keeper -> Work] /\ OnlyItself(k) /\ keeping'[k] = Resting BY <1>15, Rests DEF DeleteArtifact
  <2>9. WorkOK(keeping'[k]) /\ ~InTransaction(k)' BY <2>8 DEF Resting, WorkOK, InTransaction
  <2> QED BY <1>15, <2>1, <2>8, <2>9, StepOutside DEF DeleteArtifact, Registered
<1>16. ASSUME NEW k \in Keeper, KeeperDies(k) PROVE LifecycleInv'
  <2>8. keeping' \in [Keeper -> Work] /\ OnlyItself(k) /\ keeping'[k] = Resting BY <1>16, Rests DEF KeeperDies
  <2>9. WorkOK(keeping'[k]) /\ ~InTransaction(k)' BY <2>8 DEF Resting, WorkOK, InTransaction
  <2> QED BY <1>16, <2>8, <2>9, StepOutside DEF KeeperDies, HasGuard, Registered
<1>17. ASSUME NEW r \in Bearer, Unbind(r) PROVE LifecycleInv'
  <2>1. \A j \in Keeper : ~InTransaction(j) BY <1>17, LifecycleAssumption DEF Unbind, LifecycleInv
  <2>2. bound' \in [Bearer -> Alias \union {NoModel}] /\ BoundIsRegistered'
    BY <1>17 DEF Unbind, LifecycleInv, BoundIsRegistered, Registered
  <2> QED BY <1>17, <2>1, <2>2 DEF Unbind, LifecycleInv, InTransaction
<1>18. CASE Calibrated
  BY <1>18 DEF Calibrated, LifecycleInv, InTransaction, BoundIsRegistered, Registered
<1>19. CASE UNCHANGED lifecycleVars
  BY <1>19 DEF lifecycleVars, LifecycleInv, InTransaction, BoundIsRegistered, Registered
<1> QED BY <1>1, <1>2, <1>3, <1>4, <1>5, <1>6, <1>7, <1>8, <1>9, <1>10, <1>11, <1>12, <1>13, <1>14, <1>15, <1>16, <1>17, <1>18, <1>19 DEF LifecycleNext

-----------------------------------------------------------------------------
(* The theorem *)

\* An artifact goes with its last entry of ours, a calibration with its last entry.
LEMMA RemovalTakesItsOwn ==
    ASSUME LifecycleInv, [LifecycleNext]_lifecycleVars
    PROVE  [/\ \A d \in artifacts \ artifacts' : Ours(d) = {}
            /\ \A d \in calibrated \ calibrated' : Names(d) = {}]_lifecycleVars
<1>1. CASE \E k \in Keeper : DeleteCalibration(k) BY <1>1 DEF DeleteCalibration
<1>2. CASE \E k \in Keeper : DeleteArtifact(k) BY <1>2 DEF DeleteArtifact
<1>3. CASE ~(\E k \in Keeper : DeleteCalibration(k) \/ DeleteArtifact(k))
  <2>1. artifacts \subseteq artifacts' /\ calibrated \subseteq calibrated'
    BY <1>3 DEF LifecycleNext, lifecycleVars, ImportModel, PullModel, Download, SnapshotPartial, CommitArtifact,
                Register, UnlinkPartial, VerifyModel, RecordVerification, BindBegin, BindSave, RemoveBegin,
                RemoveEntry, KeeperDies, Unbind, Calibrated
  <2> QED BY <2>1
<1> QED BY <1>1, <1>2, <1>3

\* A role is never bound to a model that is not registered, and a removal never
\* takes the artifact or the calibration of another entry (model_lifecycle.py,
\* bind_model of roles.py), whatever the aliases, roles and processes.
THEOREM LifecycleDanglesNothing == LifecycleSpec => NothingDangles
<1>1. LifecycleInv => (\A r \in Bearer : bound[r] # NoModel => bound[r] \in Registered)
  BY DEF LifecycleInv, BoundIsRegistered
<1> QED BY LifecycleInitInv, LifecycleStep, RemovalTakesItsOwn, <1>1, PTL DEF LifecycleSpec, NothingDangles

-----------------------------------------------------------------------------
(* Calibration: records and the chains they are made of *)

DepthNames == {Depths[i] : i \in DOMAIN Depths}
Measured == Reading \union IdleReading \union {Failed}
Output == [value : Measured, on : Sha \X Hardware \X Seq(Measured)]

\* the digest of a file is of what its output was measured on
FileIsTrue(file, h) ==
    /\ file.output \in Output
    /\ file.output.on = <<file.digest[2], h, file.digest[4]>>

RecordIsSound(r, s) ==
    /\ r.depth \in DepthNames
    /\ r.hardware = NoRecord => r.depth = Seed.depth
    /\ OnOneChain(r, s)

RunIsSound ==
    /\ DOMAIN calibration = {"depth", "fresh", "sha", "hardware", "looked", "results"}
    /\ calibration.depth \in DepthNames
    /\ calibration.sha \in Sha /\ calibration.hardware \in Hardware
    /\ calibration.results \in Seq(Output)
    /\ OnOneChain(calibration, calibration.sha)

\* what the run would replace is not deeper, if that is the record it looked at
NotShallower ==
    /\ calibration.looked = calibration.sha
    /\ record[calibration.sha] # NoRecord
    /\ record[calibration.sha].hardware = calibration.hardware
    => Rank(record[calibration.sha].depth) <= Rank(calibration.depth)

CalibrationInv ==
    /\ model \in Sha /\ hardware \in Hardware /\ seeding \in Sha \union {NoRecord}
    /\ DOMAIN stageFile = Hardware
    /\ \A h \in Hardware :
         /\ DOMAIN stageFile[h] = StageNames
         /\ \A s \in StageNames : stageFile[h][s] # NoRecord => FileIsTrue(stageFile[h][s], h)
    /\ DOMAIN record = Sha
    /\ \A s \in Sha : record[s] # NoRecord => RecordIsSound(record[s], s)
    /\ Running => RunIsSound /\ NotShallower

LEMMA ValuesAreMeasured ==
  ASSUME NEW r \in Seq(Output)
  PROVE  Values(r) \in Seq(Measured)
<1>1. DOMAIN r = 1..Len(r) /\ Len(r) \in Nat /\ \A i \in 1..Len(r) : r[i] \in Output
  BY ElementOfSeq, LenProperties
<1>2. \A i \in 1..Len(r) : r[i].value \in Measured
  BY <1>1 DEF Output
<1>3. [i \in 1..Len(r) |-> r[i].value] \in Seq(Measured)
  BY <1>1, <1>2, IsASeq
<1>4. QED BY <1>1, <1>3 DEF Values

\* What stands before a stage is the same after one more.
LEMMA PrefixStands ==
  ASSUME NEW S, NEW r \in Seq(S), NEW o \in S
  PROVE  /\ Append(r, o) \in Seq(S) /\ Len(Append(r, o)) = Len(r) + 1
         /\ Append(r, o)[Len(r) + 1] = o
         /\ \A i \in 1..Len(r) : Append(r, o)[i] = r[i]
         /\ \A i \in 1..Len(r) + 1 : SubSeq(Append(r, o), 1, i - 1) = SubSeq(r, 1, i - 1)
         /\ SubSeq(r, 1, Len(r)) = r
<1>1. /\ Append(r, o) \in Seq(S) /\ Len(Append(r, o)) = Len(r) + 1 /\ Append(r, o)[Len(r) + 1] = o
      /\ \A i \in 1..Len(r) : Append(r, o)[i] = r[i]
  BY AppendProperties
<1>2. Len(r) \in Nat
  BY LenProperties
<1>3. SubSeq(r, 1, Len(r)) = r
  BY SubSeqFull
<1>4. ASSUME NEW i \in 1..Len(r) + 1
      PROVE  SubSeq(Append(r, o), 1, i - 1) = SubSeq(r, 1, i - 1)
  <2> DEFINE a == SubSeq(Append(r, o), 1, i - 1)
             b == SubSeq(r, 1, i - 1)
  <2>1. 1 \in Int /\ i - 1 \in Int /\ \A j \in 1..(i - 1) : j \in 1..Len(r)
    BY <1>2, <1>4
  <2>2. \A j \in 1..(i - 1) : r[j] \in S /\ Append(r, o)[j] \in S /\ Append(r, o)[j] = r[j]
    BY <1>1, <2>1, ElementOfSeq
  <2>3. /\ a \in Seq(S) /\ Len(a) = (IF 1 <= i - 1 THEN (i - 1) - 1 + 1 ELSE 0)
        /\ \A j \in 1..(i - 1) - 1 + 1 : a[j] = Append(r, o)[1 + j - 1]
    BY <2>1, <2>2, SubSeqProperties
  <2>4. /\ b \in Seq(S) /\ Len(b) = (IF 1 <= i - 1 THEN (i - 1) - 1 + 1 ELSE 0)
        /\ \A j \in 1..(i - 1) - 1 + 1 : b[j] = r[1 + j - 1]
    BY <2>1, <2>2, SubSeqProperties
  <2> HIDE DEF a, b
  <2>5. \A j \in 1..Len(a) : a[j] = b[j]
    BY <1>2, <2>1, <2>2, <2>3, <2>4
  <2>6. a = b
    BY <2>3, <2>4, <2>5, SeqEqual
  <2>7. QED BY <2>6 DEF a, b
<1>5. QED BY <1>1, <1>3, <1>4

\* A chain grows by a stage that was measured on what stands before it.
LEMMA ChainGrows ==
  ASSUME NEW c, NEW c2, NEW s, c.results \in Seq(Output), OnOneChain(c, s), NEW o \in Output,
         o.on = <<s, c.hardware, Values(c.results)>>,
         c2.hardware = c.hardware, c2.results = Append(c.results, o)
  PROVE  c2.results \in Seq(Output) /\ OnOneChain(c2, s)
<1> DEFINE r == c.results
<1>1. /\ c2.results \in Seq(Output) /\ Len(c2.results) = Len(r) + 1
      /\ c2.results[Len(r) + 1] = o
      /\ \A i \in 1..Len(r) : c2.results[i] = r[i]
      /\ \A i \in 1..Len(r) + 1 : SubSeq(c2.results, 1, i - 1) = SubSeq(r, 1, i - 1)
      /\ SubSeq(r, 1, Len(r)) = r
  BY PrefixStands
<1>2. Len(r) \in Nat /\ DOMAIN r = 1..Len(r) /\ DOMAIN c2.results = 1..Len(r) + 1
  BY <1>1, LenProperties
<1>3. ASSUME NEW i \in 1..Len(r) + 1
      PROVE  c2.results[i].on = <<s, c2.hardware, Values(SubSeq(c2.results, 1, i - 1))>>
  <2>1. CASE i = Len(r) + 1
    <3>1. i - 1 = Len(r)
      BY <1>2, <2>1
    <3>2. SubSeq(c2.results, 1, i - 1) = r
      BY <1>1, <3>1
    <3>3. QED BY <1>1, <2>1, <3>2
  <2>2. CASE i \in 1..Len(r)
    <3>1. r[i].on = <<s, c.hardware, Values(SubSeq(r, 1, i - 1))>>
      BY <1>2, <2>2 DEF OnOneChain
    <3>2. SubSeq(c2.results, 1, i - 1) = SubSeq(r, 1, i - 1) /\ c2.results[i] = r[i]
      BY <1>1, <2>2
    <3>3. QED BY <3>1, <3>2
  <2>3. QED BY <1>2, <1>3, <2>1, <2>2
<1>4. QED BY <1>1, <1>2, <1>3 DEF OnOneChain

LEMMA RanksAreNumbers == \A d \in DepthNames : Rank(d) \in Nat
<1>1. DOMAIN Depths \subseteq Nat
  BY DepthsHaveStages, LenProperties
<1>2. QED BY <1>1 DEF DepthNames, Rank

LEMMA SeedIsSound ==
  /\ Seed.depth \in DepthNames /\ Seed.hardware = NoRecord
  /\ \A s : RecordIsSound(Seed, s)
<1>1. Len(Depths) \in DOMAIN Depths
  BY DepthsHaveStages, EmptySeq, LenProperties
<1>2. Seed.depth \in DepthNames /\ Seed.hardware = NoRecord /\ Seed.results = <<>>
  BY <1>1 DEF Seed, DepthNames
<1>3. \A s : OnOneChain(Seed, s)
  BY <1>2 DEF OnOneChain
<1>4. QED BY <1>2, <1>3 DEF RecordIsSound

LEMMA CalibrationStarts == CalibrationInit => CalibrationInv
<1>1. (CHOOSE s \in Sha : TRUE) \in Sha /\ (CHOOSE h \in Hardware : TRUE) \in Hardware
  BY SomethingToMeasure
<1>2. QED BY <1>1 DEF CalibrationInit, CalibrationInv, Running

\* The stage that a run is at, and what its file says.
LEMMA StageIsNamed ==
  ASSUME CalibrationInv, Running, StagesLeft
  PROVE  StageNow \in StageNames /\ calibration.hardware \in Hardware
<1>1. calibration.depth \in DOMAIN StagesOf /\ calibration.results \in Seq(Output)
      /\ calibration.hardware \in Hardware
  <2>1. \A i \in DOMAIN Depths : Depths[i] \in DOMAIN StagesOf
    BY DepthsHaveStages, ElementOfSeq, LenProperties
  <2>2. QED BY <2>1 DEF CalibrationInv, RunIsSound, DepthNames
<1>2. /\ StagesOf[calibration.depth] \in Seq(STRING)
      /\ DOMAIN StagesOf[calibration.depth] = 1..Len(StagesOf[calibration.depth])
      /\ Len(StagesOf[calibration.depth]) \in Nat /\ Len(calibration.results) \in Nat
  BY <1>1, DepthsHaveStages, LenProperties
<1>3. Len(calibration.results) + 1 \in DOMAIN StagesOf[calibration.depth]
  BY <1>2 DEF StagesLeft
<1>4. QED BY <1>1, <1>3 DEF StageNow, StageNames

\* A run that goes on with a sound stage stays sound.
LEMMA RunGoesOn ==
  ASSUME CalibrationInv, Running, NEW o \in Output,
         o.on = <<calibration.sha, calibration.hardware, Values(calibration.results)>>,
         calibration' = [calibration EXCEPT !.results = Append(@, o)],
         record' = record
  PROVE  Running' => RunIsSound' /\ NotShallower'
<1> DEFINE c == calibration
<1>1. RunIsSound /\ NotShallower
  BY DEF CalibrationInv
<1>2. /\ c'.depth = c.depth /\ c'.sha = c.sha /\ c'.hardware = c.hardware
      /\ c'.looked = c.looked /\ c'.results = Append(c.results, o) /\ DOMAIN c' = DOMAIN c
  BY <1>1 DEF RunIsSound
<1>3. PICK old, new : old = c /\ new = c'
  OBVIOUS
<1>4. new.results \in Seq(Output) /\ OnOneChain(new, old.sha)
  BY <1>1, <1>2, <1>3, ChainGrows DEF RunIsSound
<1>5. QED BY <1>1, <1>2, <1>3, <1>4 DEF RunIsSound, NotShallower

\* Records that are taken away or replaced by a sound one.
LEMMA RecordsStay ==
  ASSUME CalibrationInv, NEW s \in Sha, NEW r, r = NoRecord \/ RecordIsSound(r, s),
         record' = [record EXCEPT ![s] = r]
  PROVE  /\ DOMAIN record' = Sha
         /\ \A t \in Sha : record'[t] = (IF t = s THEN r ELSE record[t])
         /\ \A t \in Sha : record'[t] # NoRecord => RecordIsSound(record'[t], t)
<1>1. DOMAIN record' = Sha /\ \A t \in Sha : record'[t] = (IF t = s THEN r ELSE record[t])
  BY DEF CalibrationInv
<1>2. QED BY <1>1 DEF CalibrationInv

\* what may stand in the place of the record of s
Unspared(s) ==
    \/ Rank(record'[s].depth) >= Rank(record[s].depth)
    \/ calibration.sha = s /\ calibration.looked # s

LEMMA CalibrationSteps ==
  ASSUME CalibrationInv, [CalibrationNext]_calibrationVars
  PROVE  /\ CalibrationInv'
         /\ \A s \in Sha :
              /\ record[s] # NoRecord /\ record'[s] # NoRecord
              /\ record'[s].hardware = record[s].hardware
              => Unspared(s)
<1> DEFINE Deeper == \A s \in Sha :
             /\ record[s] # NoRecord /\ record'[s] # NoRecord
             /\ record'[s].hardware = record[s].hardware
             => Unspared(s)
           Rows == /\ DOMAIN record' = Sha
                   /\ \A s \in Sha : record'[s] # NoRecord => RecordIsSound(record'[s], s)
           Files == /\ DOMAIN stageFile' = Hardware
                    /\ \A h \in Hardware :
                         /\ DOMAIN stageFile'[h] = StageNames
                         /\ \A s \in StageNames :
                              stageFile'[h][s] # NoRecord => FileIsTrue(stageFile'[h][s], h)
           Places == model' \in Sha /\ hardware' \in Hardware /\ seeding' \in Sha \union {NoRecord}
           Run == Running' => RunIsSound' /\ NotShallower'
<1>1. SUFFICES Places /\ Files /\ Rows /\ Run /\ Deeper
  BY DEF CalibrationInv
<1>2. /\ model \in Sha /\ hardware \in Hardware /\ seeding \in Sha \union {NoRecord}
      /\ (stageFile' = stageFile => Files) /\ (record' = record => Rows)
  BY DEF CalibrationInv
<1>3. record' = record => Deeper
  <2>1. \A s \in Sha : record[s] # NoRecord => Rank(record[s].depth) \in Nat
    BY RanksAreNumbers DEF CalibrationInv, RecordIsSound
  <2>2. QED BY <2>1 DEF Unspared
<1>4. UNCHANGED <<calibration, record>> => Run
  BY DEF CalibrationInv, Running, RunIsSound, NotShallower
<1>5. calibration' = NoRun => Run
  BY DEF Running, NoRun
<1> HIDE DEF Deeper, Rows, Files, Run
<1>6. ASSUME NEW sha \in Sha, NEW i \in DOMAIN Depths, NEW fresh \in BOOLEAN, Calibrate(sha, Depths[i], fresh)
      PROVE  Places /\ Files /\ Rows /\ Run /\ Deeper
  <2> DEFINE d == Depths[i]
  <2>1. UNCHANGED <<model, hardware, stageFile, record, seeding>>
    BY <1>6 DEF Calibrate
  <2>2. /\ calibration' = [depth |-> d, fresh |-> fresh, sha |-> sha, hardware |-> hardware,
                           looked |-> model, results |-> <<>>]
        /\ ~Spares(FindsRecord(sha), d, fresh)
    BY <1>6 DEF Calibrate
  <2>3. d \in DepthNames
    BY DEF DepthNames
  <2> HIDE DEF d
  <2>4. RunIsSound'
    BY <1>2, <2>2, <2>3, EmptySeq DEF RunIsSound, OnOneChain
  <2>5. NotShallower'
    <3>1. SUFFICES ASSUME model = sha, record[model] # NoRecord, record[model].hardware = hardware
                   PROVE  Rank(record[model].depth) <= Rank(d)
      BY <2>1, <2>2 DEF NotShallower
    <3>2. ~(Rank(record[model].depth) > Rank(d))
      BY <2>2, <3>1 DEF Spares, FindsRecord
    <3>3. record[model].depth \in DepthNames
      BY <1>2, <3>1 DEF CalibrationInv, RecordIsSound
    <3>4. Rank(record[model].depth) \in Nat /\ Rank(d) \in Nat
      BY <2>3, <3>3, RanksAreNumbers
    <3>5. QED BY <3>2, <3>4
  <2>6. Run
    BY <2>4, <2>5 DEF Run
  <2>7. QED BY <1>2, <1>3, <2>1, <2>6
<1>7. ASSUME ResumeStage
      PROVE  Places /\ Files /\ Rows /\ Run /\ Deeper
  <2>1. /\ UNCHANGED <<model, hardware, stageFile, record, seeding>>
        /\ Running /\ StagesLeft /\ Usable
        /\ calibration' = [calibration EXCEPT !.results = Append(@, Cached.output)]
    BY <1>7 DEF ResumeStage
  <2>2. FileIsTrue(Cached, calibration.hardware)
    BY <2>1, StageIsNamed DEF CalibrationInv, Usable, Cached
  <2>3. Cached.digest = <<StageNow, calibration.sha, calibration.depth, Values(calibration.results)>>
    BY <2>1 DEF Usable, InputDigest
  <2>4. /\ Cached.output \in Output
        /\ Cached.output.on = <<calibration.sha, calibration.hardware, Values(calibration.results)>>
    BY <2>2, <2>3 DEF FileIsTrue
  <2>5. Run
    BY <2>1, <2>4, RunGoesOn DEF Run
  <2>6. QED BY <1>2, <1>3, <2>1, <2>5
<1>8. ASSUME RunStage
      PROVE  Places /\ Files /\ Rows /\ Run /\ Deeper
  <2> DEFINE prior == Values(calibration.results)
             c == calibration
  <2>1. /\ UNCHANGED <<model, hardware, record, seeding>> /\ Running /\ StagesLeft
    BY <1>8 DEF RunStage
  <2>2. PICK value \in Measured :
          /\ stageFile' = [stageFile EXCEPT ![c.hardware][StageNow] =
               [digest |-> InputDigest(StageNow, prior),
                output |-> [value |-> value, on |-> <<c.sha, c.hardware, prior>>]]]
          /\ calibration' = [c EXCEPT !.results = Append(@, [value |-> value, on |-> <<c.sha, c.hardware, prior>>])]
    BY <1>8 DEF RunStage, Measured
  <2> DEFINE o == [value |-> value, on |-> <<c.sha, c.hardware, prior>>]
             f == [digest |-> InputDigest(StageNow, prior), output |-> o]
  <2>3. c.sha \in Sha /\ c.hardware \in Hardware /\ prior \in Seq(Measured)
    BY <2>1, ValuesAreMeasured DEF CalibrationInv, RunIsSound
  <2>4. o \in Output /\ o.on = <<c.sha, c.hardware, prior>>
    BY <2>3 DEF Output
  <2>5. FileIsTrue(f, c.hardware)
    BY <2>4 DEF FileIsTrue, InputDigest
  <2>6. Run
    BY <2>1, <2>2, <2>4, RunGoesOn DEF Run
  <2> HIDE DEF f
  <2>7. Files
    <3>1. stageFile' = [stageFile EXCEPT ![c.hardware][StageNow] = f]
      BY <2>2 DEF f
    <3>2. DOMAIN stageFile = Hardware /\ DOMAIN stageFile' = Hardware
      BY <3>1 DEF CalibrationInv
    <3>3. ASSUME NEW h \in Hardware
          PROVE  /\ DOMAIN stageFile'[h] = StageNames
                 /\ \A s \in StageNames : stageFile'[h][s] = stageFile[h][s] \/ (h = c.hardware /\ stageFile'[h][s] = f)
      <4>1. stageFile'[h] = IF h = c.hardware THEN [stageFile[h] EXCEPT ![StageNow] = f] ELSE stageFile[h]
        BY <3>1, <3>2
      <4>2. DOMAIN stageFile[h] = StageNames
        BY DEF CalibrationInv
      <4>3. QED BY <4>1, <4>2
    <3>4. QED BY <2>5, <3>2, <3>3 DEF Files, CalibrationInv
  <2>8. QED BY <1>2, <1>3, <2>1, <2>6, <2>7
<1>9. ASSUME Promote
      PROVE  Places /\ Files /\ Rows /\ Run /\ Deeper
  <2>1. /\ UNCHANGED <<model, hardware, stageFile, seeding>> /\ Running /\ calibration' = NoRun
        /\ \/ record' = record
           \/ record' = [record EXCEPT ![calibration.sha] =
                [depth |-> calibration.depth, hardware |-> calibration.hardware, results |-> calibration.results]]
    BY <1>9 DEF Promote
  <2>2. ASSUME record' # record PROVE Rows /\ Deeper
    <3> DEFINE c == calibration
               r == [depth |-> c.depth, hardware |-> c.hardware, results |-> c.results]
    <3>1. record' = [record EXCEPT ![c.sha] = r]
      BY <2>1, <2>2
    <3>2. c.sha \in Sha /\ c.hardware \in Hardware /\ c.depth \in DepthNames /\ OnOneChain(c, c.sha)
      BY <2>1 DEF CalibrationInv, RunIsSound
    <3>3. r.hardware # NoRecord
      BY <3>2, SomethingToMeasure
    <3>4. RecordIsSound(r, c.sha)
      BY <3>2, <3>3 DEF RecordIsSound, OnOneChain
    <3>5. Rows
      BY <3>1, <3>2, <3>4, RecordsStay DEF Rows
    <3>6. \A t \in Sha : record'[t] = (IF t = c.sha THEN r ELSE record[t])
      BY <3>1, <3>2, <3>4, RecordsStay
    <3>7. record[c.sha] # NoRecord /\ record[c.sha].hardware = r.hardware /\ c.looked = c.sha
          => Rank(record[c.sha].depth) <= Rank(r.depth)
      BY <2>1 DEF CalibrationInv, NotShallower
    <3>8. \A s \in Sha : record[s] # NoRecord => Rank(record[s].depth) \in Nat
      BY RanksAreNumbers DEF CalibrationInv, RecordIsSound
    <3>9. Rank(r.depth) \in Nat
      BY <3>2, RanksAreNumbers
    <3> HIDE DEF r
    <3>10. Deeper
      BY <3>2, <3>6, <3>7, <3>8, <3>9 DEF Deeper, Unspared
    <3>11. QED BY <3>5, <3>10
  <2>3. QED BY <1>2, <1>3, <1>5, <2>1, <2>2
<1>10. ASSUME CalibrationStops
       PROVE  Places /\ Files /\ Rows /\ Run /\ Deeper
  BY <1>2, <1>3, <1>5, <1>10 DEF CalibrationStops
<1>11. ASSUME NEW s \in Sha, FindSeedless(s)
       PROVE  Places /\ Files /\ Rows /\ Run /\ Deeper
  BY <1>2, <1>3, <1>4, <1>11 DEF FindSeedless
<1>12. ASSUME NEW s \in Sha, Reregister(s)
       PROVE  Places /\ Files /\ Rows /\ Run /\ Deeper
  <2>1. UNCHANGED <<hardware, stageFile, calibration, seeding>> /\ model' = s
        /\ record' \in {record, [record EXCEPT ![model] = NoRecord]}
    BY <1>12 DEF Reregister
  <2>2. ASSUME record' = [record EXCEPT ![model] = NoRecord]
        PROVE  Rows /\ Run /\ Deeper
    <3>1. /\ DOMAIN record' = Sha
          /\ \A t \in Sha : record'[t] = (IF t = model THEN NoRecord ELSE record[t])
          /\ \A t \in Sha : record'[t] # NoRecord => RecordIsSound(record'[t], t)
      BY <1>2, <2>2, RecordsStay
    <3>2. \A t \in Sha : record[t] # NoRecord => Rank(record[t].depth) \in Nat
      BY RanksAreNumbers DEF CalibrationInv, RecordIsSound
    <3>3. Deeper
      BY <3>1, <3>2 DEF Deeper, Unspared
    <3>4. Run
      BY <2>1, <3>1 DEF CalibrationInv, Run, Running, RunIsSound, NotShallower
    <3>5. QED BY <3>1, <3>3, <3>4 DEF Rows
  <2>3. QED BY <1>2, <1>3, <1>4, <2>1, <2>2
<1>13. ASSUME WriteSeed
       PROVE  Places /\ Files /\ Rows /\ Run /\ Deeper
  <2>1. /\ UNCHANGED <<model, hardware, stageFile, calibration>> /\ seeding' = NoRecord
        /\ seeding \in Sha /\ record' = [record EXCEPT ![seeding] = Seed]
    BY <1>2, <1>13 DEF WriteSeed
  <2>2. /\ Seed.depth \in DepthNames /\ Seed.hardware = NoRecord /\ RecordIsSound(Seed, seeding)
    BY SeedIsSound
  <2>3. /\ DOMAIN record' = Sha
        /\ \A t \in Sha : record'[t] = (IF t = seeding THEN Seed ELSE record[t])
        /\ \A t \in Sha : record'[t] # NoRecord => RecordIsSound(record'[t], t)
    BY <2>1, <2>2, RecordsStay
  <2>4. \A t \in Sha : record[t] # NoRecord => /\ Rank(record[t].depth) \in Nat
                                              /\ (record[t].hardware = NoRecord => record[t].depth = Seed.depth)
    BY RanksAreNumbers DEF CalibrationInv, RecordIsSound
  <2>5. Deeper
    BY <2>2, <2>3, <2>4 DEF Deeper, Unspared
  <2>6. Run
    <3>1. SUFFICES ASSUME Running PROVE RunIsSound /\ NotShallower'
      BY <2>1 DEF Run, Running, RunIsSound
    <3>2. RunIsSound /\ NotShallower /\ calibration.hardware # NoRecord /\ calibration.sha \in Sha
      BY <3>1, SomethingToMeasure DEF CalibrationInv, RunIsSound
    <3>3. QED BY <2>1, <2>2, <2>3, <3>2 DEF NotShallower
  <2>7. QED BY <1>2, <2>1, <2>3, <2>5, <2>6 DEF Rows
<1>14. ASSUME NEW h \in Hardware, ChangeHardware(h)
       PROVE  Places /\ Files /\ Rows /\ Run /\ Deeper
  BY <1>2, <1>3, <1>4, <1>14 DEF ChangeHardware
<1>15. CASE UNCHANGED calibrationVars
  BY <1>2, <1>3, <1>4, <1>15 DEF calibrationVars
<1>16. QED
  BY <1>6, <1>7, <1>8, <1>9, <1>10, <1>11, <1>12, <1>13, <1>14, <1>15
  DEF CalibrationNext

\* A record is one chain of measurements on one content and one machine, and a
\* run replaces the deeper record of the same content and machine only if its
\* alias had been given another content between its two readings of the alias
\* (calibration_engine.py:379 and 401, calibration.py), for all depths, stages,
\* contents and machines and any number of runs that wait.
THEOREM CalibrationPromotes == CalibrationSpec => PromotionIsSound
<1>1. CalibrationInit => CalibrationInv
  BY CalibrationStarts
<1>2. CalibrationInv /\ [CalibrationNext]_calibrationVars => CalibrationInv'
  BY CalibrationSteps
<1>3. CalibrationInv => \A s \in Sha : record[s] # NoRecord => OnOneChain(record[s], s)
  BY DEF CalibrationInv, RecordIsSound
<1>4. CalibrationInv /\ [CalibrationNext]_calibrationVars =>
        [\A s \in Sha :
           /\ record[s] # NoRecord /\ record'[s] # NoRecord
           /\ record'[s].hardware = record[s].hardware
           => Unspared(s)]_calibrationVars
  BY CalibrationSteps DEF Unspared
<1>5. QED BY <1>1, <1>2, <1>3, <1>4, PTL DEF CalibrationSpec, PromotionIsSound, Unspared
=============================================================================
