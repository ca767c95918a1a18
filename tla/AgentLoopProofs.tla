--------------------------- MODULE AgentLoopProofs ---------------------------
(***************************************************************************)
(* What the control queue and the agent loops of a task promise for every  *)
(* set of owners, loops and processes and any number of controls, with and *)
(* without faults.  The queue comes first: its invariant holds whatever    *)
(* its callers do, and the loops are callers of it.                        *)
(***************************************************************************)
EXTENDS AgentLoop, WellFoundedInduction, TLAPS

\* A control that was never enqueued has no cancellation.
Unborn == \A c \in Control : state[c] = "none" => cancel[c] = "none"

\* The inductive invariant: an ambiguous outcome is only written together with
\* the recovery phase, a fence is only released with the last open cancellation.
QInv == TypeOK /\ FailClosed /\ FenceCoversOpen /\ OneProcessor /\ Unborn

-----------------------------------------------------------------------------
\* The initial state satisfies the invariant.
LEMMA QueueInitInv == QueueInit => QInv
  BY DEF QueueInit, QInv, TypeOK, FailClosed, FenceCoversOpen, OneProcessor,
     Unborn, Unreconciled, Open, Holder, TaskStates

\* Every operation keeps it.  The delicate one is recovery, which settles many
\* cancellations in one transaction: S are those, L the ones it calls ambiguous.
LEMMA QueueNextInv == ASSUME QInv, [QueueNext]_queueVars PROVE QInv'
<1> USE DEF QInv, FailClosed, FenceCoversOpen, OneProcessor, Unborn, Unreconciled, Open,
        Ready, taskRows, controlRows
<1>1. ASSUME NEW c \in Control, NEW k \in Kinds, Enqueue(c, k)
      PROVE  QInv'
  <2>1. TypeOK'
    BY <1>1, KindsAreControlKinds DEF Enqueue, Insert, TypeOK
  <2>2. FailClosed' /\ OneProcessor' /\ Unborn'
    BY <1>1 DEF Enqueue, Insert, Fresh
  <2>3. FenceCoversOpen'
    BY <1>1 DEF Enqueue, Insert, TypeOK
  <2>4. QED BY <2>1, <2>2, <2>3
<1>2. ASSUME NEW c \in Control, NEW k \in Kinds, EnqueueReady(c, k)
      PROVE  QInv'
  <2>1. TypeOK'
    BY <1>2 DEF EnqueueReady, Insert, TypeOK, Outcomes, AllKinds
  <2>2. FailClosed' /\ OneProcessor' /\ Unborn'
    BY <1>2 DEF EnqueueReady, Insert, Fresh, TypeOK
  <2>3. FenceCoversOpen'
    BY <1>2 DEF EnqueueReady, Insert, TypeOK
  <2>4. QED BY <2>1, <2>2, <2>3
<1>3. ASSUME NEW c \in Control, NEW k \in Kinds, NEW o \in Owner, EnqueueIntent(c, k, o)
      PROVE  QInv'
  <2>1. TypeOK'
    BY <1>3 DEF EnqueueIntent, Insert, TypeOK, Holder, AllKinds
  <2>2. FailClosed' /\ OneProcessor' /\ Unborn'
    BY <1>3 DEF EnqueueIntent, Insert, Fresh, TypeOK
  <2>3. FenceCoversOpen'
    BY <1>3, NoneIsNoOwner DEF EnqueueIntent
  <2>4. QED BY <2>1, <2>2, <2>3
<1>4. ASSUME NEW c \in Control, NEW o \in Owner, BeginCancellation(c, o)
      PROVE  QInv'
  <2>1. TypeOK'
    BY <1>4 DEF BeginCancellation, TypeOK, Holder
  <2>2. FailClosed' /\ OneProcessor' /\ Unborn'
    BY <1>4 DEF BeginCancellation
  <2>3. FenceCoversOpen'
    BY <1>4 DEF BeginCancellation
  <2>4. QED BY <2>1, <2>2, <2>3
<1>5. ASSUME NEW c \in Control, NEW o \in Owner, ResolveUnattempted(c, o)
      PROVE  QInv'
  <2>1. TypeOK'
    BY <1>5 DEF ResolveUnattempted, ReleasedFence, TypeOK, Outcomes
  <2>2. FailClosed' /\ OneProcessor' /\ Unborn'
    BY <1>5 DEF ResolveUnattempted
  <2>3. FenceCoversOpen'
    BY <1>5 DEF ResolveUnattempted, ReleasedFence, TypeOK
  <2>4. QED BY <2>1, <2>2, <2>3
<1>6. ASSUME NEW c \in Control, NEW o \in Owner, ReconcileReported(c, o)
      PROVE  QInv'
  <2>1. TypeOK'
    BY <1>6 DEF ReconcileReported, ReleasedFence, TypeOK, Outcomes
  <2>2. FailClosed' /\ OneProcessor' /\ Unborn'
    BY <1>6 DEF ReconcileReported
  <2>3. FenceCoversOpen'
    BY <1>6 DEF ReconcileReported, ReleasedFence, TypeOK
  <2>4. QED BY <2>1, <2>2, <2>3
<1>7. ASSUME NEW c \in Control, NEW o \in Owner, ReconcileAmbiguous(c, o)
      PROVE  QInv'
  <2>1. TypeOK'
    BY <1>7 DEF ReconcileAmbiguous, FailClosedWrite, TypeOK, Outcomes,
       TaskStates
  <2>2. FailClosed' /\ OneProcessor' /\ Unborn'
    BY <1>7 DEF ReconcileAmbiguous, FailClosedWrite
  <2>3. FenceCoversOpen'
    BY <1>7 DEF ReconcileAmbiguous, FailClosedWrite
  <2>4. QED BY <2>1, <2>2, <2>3
<1>8. ASSUME NEW c \in Control, NEW o \in Owner, ClaimNext(c, o)
      PROVE  QInv'
  <2>1. TypeOK'
    BY <1>8 DEF ClaimNext, TypeOK, Holder
  <2>2. FailClosed' /\ OneProcessor' /\ Unborn'
    BY <1>8, NoneIsNoOwner DEF ClaimNext, TypeOK
  <2>3. FenceCoversOpen'
    BY <1>8 DEF ClaimNext
  <2>4. QED BY <2>1, <2>2, <2>3
<1>9. ASSUME NEW c \in Control, NEW o \in Owner, NEW r \in {"applied", "failed"}, Finish(c, o, r)
      PROVE  QInv'
  <2>1. TypeOK'
    BY <1>9 DEF Finish, TypeOK, Holder
  <2>2. FailClosed' /\ OneProcessor' /\ Unborn'
    BY <1>9 DEF Finish, TypeOK
  <2>3. FenceCoversOpen'
    BY <1>9 DEF Finish
  <2>4. QED BY <2>1, <2>2, <2>3
<1>10. ASSUME NEW o \in Owner, NEW lapsed \in SUBSET Lapsable, RecoverCancellations(o, lapsed)
      PROVE  QInv'
  <2> DEFINE S == Settling(o, lapsed)
             L == Lost(o, lapsed)
  <2>1. /\ S \subseteq Unreconciled
        /\ L = {c \in S : cancel[c] = "attempting"}
    BY DEF Settling, Lost, Lapsable, Abandoned
  <2>2. \A c \in Control : /\ c \in L => cancel'[c] = "ambiguous"
                           /\ c \in S \ L => cancel'[c] = "unattempted"
                           /\ c \notin S => cancel'[c] = cancel[c]
                           /\ can'[c] = IF c \in S THEN None ELSE can[c]
    BY <1>10, <2>1 DEF RecoverCancellations
  <2>3. /\ L # {} => task' = "recovery" /\ fence' = None /\ MayFailClosed
        /\ L = {} => task' = task
        /\ L = {} /\ S = {} => fence' = fence
        /\ L = {} /\ S # {} => fence' = ReleasedFence(S, Holder)
        /\ UNCHANGED <<proc, exec, kind, state, own>>
    BY <1>10 DEF RecoverCancellations, RecoverySucceeds
  <2> HIDE DEF S, L
  <2>4. /\ cancel' = [c \in Control |-> cancel'[c]]
        /\ can' = [c \in Control |-> can'[c]]
    BY <1>10 DEF RecoverCancellations
  <2>5. TypeOK'
    <3>1. \A c \in Control : cancel'[c] \in {"none", "intent", "attempting"} \union Outcomes
      BY <2>2 DEF TypeOK, Outcomes
    <3>2. \A c \in Control : can'[c] \in Holder
      BY <2>2 DEF TypeOK, Holder
    <3>3. task' \in TaskStates /\ fence' \in Holder
      BY <2>3 DEF TypeOK, TaskStates, ReleasedFence, Holder
    <3>4. QED BY <2>3, <2>4, <3>1, <3>2, <3>3 DEF TypeOK
  <2>6. FailClosed' /\ OneProcessor' /\ Unborn'
    <3>1. FailClosed'
      BY <2>2, <2>3
    <3>2. OneProcessor' /\ Unborn'
      BY <2>1, <2>2, <2>3
    <3>3. QED BY <3>1, <3>2
  <2>7. FenceCoversOpen'
    <3>1. CASE L # {}
      BY <2>3, <3>1
    <3>2. CASE L = {}
      <4>1. Unreconciled' = Unreconciled \ S
        BY <2>2, <2>3
      <4>2. QED BY <2>3, <4>1 DEF ReleasedFence
    <3>3. QED BY <3>1, <3>2
  <2>8. QED BY <2>5, <2>6, <2>7
<1>11. ASSUME NEW o \in Owner, RecoverProcessing(o)
      PROVE  QInv'
  <2>1. TypeOK'
    BY <1>11 DEF RecoverProcessing, TypeOK, Holder
  <2>2. FailClosed' /\ OneProcessor' /\ Unborn'
    BY <1>11 DEF RecoverProcessing
  <2>3. FenceCoversOpen'
    BY <1>11 DEF RecoverProcessing, TypeOK
  <2>4. QED BY <2>1, <2>2, <2>3
<1>12. ASSUME NEW o \in Owner, ClaimExecution(o)
      PROVE  QInv'
  <2>1. TypeOK'
    BY <1>12 DEF ClaimExecution, TypeOK, Holder
  <2>2. FailClosed' /\ OneProcessor' /\ Unborn'
    BY <1>12 DEF ClaimExecution
  <2>3. FenceCoversOpen'
    BY <1>12 DEF ClaimExecution
  <2>4. QED BY <2>1, <2>2, <2>3
<1>13. ASSUME NEW o \in Owner, ReleaseExecution(o)
      PROVE  QInv'
  <2>1. TypeOK'
    BY <1>13 DEF ReleaseExecution, TypeOK, Holder
  <2>2. FailClosed' /\ OneProcessor' /\ Unborn'
    BY <1>13 DEF ReleaseExecution
  <2>3. FenceCoversOpen'
    BY <1>13 DEF ReleaseExecution
  <2>4. QED BY <2>1, <2>2, <2>3
<1>14. ASSUME NEW o \in Holder, NEW s \in TaskStates \ {"recovery"}, UpdateTask(o, s)
      PROVE  QInv'
  <2>1. TypeOK'
    BY <1>14 DEF UpdateTask, TypeOK
  <2>2. FailClosed' /\ OneProcessor' /\ Unborn'
    BY <1>14 DEF UpdateTask, MayWrite, Terminal
  <2>3. FenceCoversOpen'
    BY <1>14 DEF UpdateTask, MayWrite, Terminal
  <2>4. QED BY <2>1, <2>2, <2>3
<1>15. ASSUME RecoverTask
      PROVE  QInv'
  <2>1. TypeOK'
    BY <1>15 DEF RecoverTask, TypeOK, TaskStates
  <2>2. FailClosed' /\ OneProcessor' /\ Unborn'
    BY <1>15 DEF RecoverTask
  <2>3. FenceCoversOpen'
    BY <1>15 DEF RecoverTask
  <2>4. QED BY <2>1, <2>2, <2>3
<1>16. ASSUME NEW p \in Process, Crash(p)
      PROVE  QInv'
  <2>1. TypeOK'
    BY <1>16 DEF Crash, TypeOK
  <2>2. FailClosed' /\ OneProcessor' /\ Unborn'
    BY <1>16 DEF Crash
  <2>3. FenceCoversOpen'
    BY <1>16 DEF Crash
  <2>4. QED BY <2>1, <2>2, <2>3
<1>17. CASE UNCHANGED queueVars
  BY <1>17 DEF queueVars, TypeOK
<1>18. QED
  BY <1>1, <1>2, <1>3, <1>4, <1>5, <1>6, <1>7, <1>8, <1>9, <1>10, <1>11, <1>12,
     <1>13, <1>14, <1>15, <1>16, <1>17 DEF QueueNext, ByOwner, ByAnyone,
     AbandonCancellation

-----------------------------------------------------------------------------
\* Every behaviour of the queue keeps the inductive invariant.
THEOREM QueueInvariant == QueueSpec => []QInv
<1>1. QueueInit => QInv
  BY QueueInitInv
<1>2. QInv /\ [QueueNext]_queueVars => QInv'
  BY QueueNextInv
<1>3. QED
  BY <1>1, <1>2, PTL DEF QueueSpec

\* The rows keep their types in every behaviour of the queue.
THEOREM QueueTypeCorrect == QueueSpec => []TypeOK
<1>1. QInv => TypeOK
  BY DEF QInv
<1>2. QED
  BY <1>1, QueueInvariant, PTL

\* An ambiguous outcome always holds its task in the recovery-required phase.
THEOREM QueueFailsClosed == QueueSpec => []FailClosed
<1>1. QInv => FailClosed
  BY DEF QInv
<1>2. QED
  BY <1>1, QueueInvariant, PTL

\* A task with an open cancellation is always fenced or out of execution.
THEOREM QueueFencesOpen == QueueSpec => []FenceCoversOpen
<1>1. QInv => FenceCoversOpen
  BY DEF QInv
<1>2. QED
  BY <1>1, QueueInvariant, PTL

\* A control being applied always has exactly the owner that holds its lease.
THEOREM QueueOneProcessor == QueueSpec => []OneProcessor
<1>1. QInv => OneProcessor
  BY DEF QInv
<1>2. QED
  BY <1>1, QueueInvariant, PTL

-----------------------------------------------------------------------------
\* Only guarded writes and recover_task change the task, and both respect what
\* is final; it needs no invariant.
LEMMA TerminalStep ==
    ASSUME [QueueNext]_queueVars, task \in {"completed", "cancelled", "recovery"}
    PROVE  task' = task
<1> USE DEF taskRows
<1>1. ASSUME NEW o \in Owner, ByOwner(o)
      PROVE  task' = task
  <2>1. ASSUME NEW c \in Control, ReconcileAmbiguous(c, o)
        PROVE  task' = task
    BY <2>1 DEF ReconcileAmbiguous, FailClosedWrite, MayFailClosed, Terminal
  <2>2. ASSUME NEW lapsed \in SUBSET Lapsable, RecoverCancellations(o, lapsed)
        PROVE  task' = task
    BY <2>2 DEF RecoverCancellations, RecoverySucceeds, MayFailClosed, Terminal
  <2>3. QED
    BY <1>1, <2>1, <2>2
       DEF ByOwner, EnqueueIntent, BeginCancellation, ResolveUnattempted,
           ReconcileReported, AbandonCancellation, ClaimNext, Finish,
           RecoverProcessing, ClaimExecution, ReleaseExecution
<1>2. CASE ByAnyone
  BY <1>2 DEF ByAnyone, Enqueue, EnqueueReady, UpdateTask, MayWrite, Terminal, RecoverTask
<1>3. QED
  BY <1>1, <1>2 DEF QueueNext, Crash, queueVars

\* No sequence of calls, of whatever owners, leads out of completed, cancelled
\* or recovery-required.
THEOREM QueueTerminalIsFinal == QueueSpec => TerminalIsFinal
<1>1. [QueueNext]_queueVars =>
        [(task \in {"completed", "cancelled", "recovery"}) => (task' = task)]_queueVars
  BY TerminalStep
<1>2. QED
  BY <1>1, PTL DEF QueueSpec, TerminalIsFinal

\* Only ClaimExecution hands the task to an owner, and the invariant makes its
\* guard, no fence and no recovery phase, exclude every open cancellation.
LEMMA ExecutionStep ==
    ASSUME QInv, [QueueNext]_queueVars, exec' # exec, exec' # None
    PROVE  Unreconciled = {}
<1>1. PICK o \in Owner : ClaimExecution(o)
  BY ZenonT(60) DEF QueueNext, ByOwner, ByAnyone, EnqueueIntent, BeginCancellation,
         ResolveUnattempted, ReconcileReported, ReconcileAmbiguous,
         AbandonCancellation, ClaimNext, Finish, RecoverCancellations,
         RecoverProcessing, ReleaseExecution, Enqueue, EnqueueReady, UpdateTask,
         RecoverTask, Crash, taskRows, queueVars
<1>2. QED
  BY <1>1 DEF ClaimExecution, MayExecute, QInv, FenceCoversOpen

\* A hung or lost cancellation callback keeps every executor out of the task.
THEOREM QueueExecutionFenced == QueueSpec => ExecutionFenced
<1>1. QInv /\ [QueueNext]_queueVars =>
        [exec' # exec /\ exec' # None => Unreconciled = {}]_queueVars
  BY ExecutionStep
<1>2. QED
  BY <1>1, QueueInvariant, PTL DEF QueueSpec, ExecutionFenced

\* Every write of an outcome is guarded by an open cancellation, every write of
\* a result by a control in processing.
LEMMA OutcomeStep ==
    ASSUME QInv, [QueueNext]_queueVars, NEW c \in Control
    PROVE  /\ cancel[c] \in Outcomes => cancel'[c] = cancel[c]
           /\ state[c] \in {"applied", "failed"} => state'[c] = state[c]
<1> USE DEF QInv, TypeOK, Unborn, taskRows, controlRows, Outcomes
<1>1. ASSUME NEW o \in Owner, ByOwner(o)
      PROVE  /\ cancel[c] \in Outcomes => cancel'[c] = cancel[c]
             /\ state[c] \in {"applied", "failed"} => state'[c] = state[c]
  <2>1. ASSUME NEW lapsed \in SUBSET Lapsable, RecoverCancellations(o, lapsed)
        PROVE  /\ cancel[c] \in Outcomes => cancel'[c] = cancel[c]
               /\ state' = state
    <3>1. cancel[c] \in Outcomes => c \notin Settling(o, lapsed)
      BY DEF Settling, Lapsable, Abandoned, Unreconciled, Open
    <3>2. c \notin Settling(o, lapsed) => cancel'[c] = cancel[c]
      BY <2>1 DEF RecoverCancellations, Lost
    <3>3. QED
      BY <2>1, <3>1, <3>2 DEF RecoverCancellations
  <2>2. CASE RecoverProcessing(o)
    BY <2>2 DEF RecoverProcessing, Orphaned
  <2>3. ASSUME NEW d \in Control, NEW k \in Kinds, EnqueueIntent(d, k, o)
        PROVE  /\ cancel[c] \in Outcomes => cancel'[c] = cancel[c]
               /\ state[c] \in {"applied", "failed"} => state'[c] = state[c]
    BY <2>3 DEF EnqueueIntent, Insert, Fresh
  <2>4. QED
    BY ZenonT(60), <1>1, <2>1, <2>2, <2>3
       DEF ByOwner, BeginCancellation, ResolveUnattempted, ReconcileReported,
           ReconcileAmbiguous, AbandonCancellation, ClaimNext, IsHead, Pending,
           Finish, ClaimExecution, ReleaseExecution, Ready
<1>2. CASE ByAnyone
  BY <1>2 DEF ByAnyone, Enqueue, EnqueueReady, Insert, Fresh, UpdateTask, RecoverTask
<1>3. QED
  BY <1>1, <1>2 DEF QueueNext, Crash, queueVars

\* The outcome of a cancellation and the result of a control are written once.
THEOREM QueueOutcomeIsFinal == QueueSpec => OutcomeIsFinal
<1>1. QInv /\ [QueueNext]_queueVars =>
        [\A c \in Control :
           /\ cancel[c] \in Outcomes => cancel'[c] = cancel[c]
           /\ state[c] \in {"applied", "failed"} => state'[c] = state[c]]_queueVars
  BY OutcomeStep
<1>2. QED
  BY <1>1, QueueInvariant, PTL DEF QueueSpec, OutcomeIsFinal

\* No sequence of calls reopens the task, a cancellation or a control.
THEOREM QueueEndsAreFinal == QueueSpec => EndsAreFinal
BY QueueTerminalIsFinal, QueueOutcomeIsFinal, PTL DEF EndsAreFinal

-----------------------------------------------------------------------------
(* The head of the queue *)

\* Every set of naturals has a least member.
LEMMA LeastOf ==
  ASSUME NEW S, S \subseteq Nat, S # {}
  PROVE  \E m \in S : \A k \in S : m <= k
<1> DEFINE R == OpToRel(<, Nat)
<1>1. IsWellFoundedOn(R, Nat)
  BY NatLessThanWellFounded
<1>2. \A x, y \in Nat : <<x, y>> \in R <=> x < y
  BY DEF OpToRel
<1> HIDE DEF R
<1>3. PICK m \in S : \A k \in S : ~(<<k, m>> \in R)
  BY <1>1, WFMin
<1>4. ASSUME NEW k \in S PROVE m <= k
  <2>1. k \in Nat /\ m \in Nat
    OBVIOUS
  <2>2. ~(k < m)
    BY <1>2, <1>3, <2>1
  <2>3. QED BY ONLY <2>1, <2>2
<1>5. QED BY <1>4

\* Among pending controls there is a first one.
LEMMA HeadExists ==
  ASSUME kind \in [Control -> AllKinds \union {"none"}], Pending # {},
         \A c \in Pending : kind[c] \in AllKinds
  PROVE  \E c \in Control : IsHead(c)
<1>1. \A c \in Pending : Priority[kind[c]] \in Nat
  BY DEF Priority, AllKinds, Immediate
<1> DEFINE P == {Priority[kind[c]] : c \in Pending}
<1>2. P \subseteq Nat /\ P # {}
  BY <1>1
<1>3. PICK p \in P : \A q \in P : p <= q
  <2> HIDE DEF P
  <2>1. QED BY <1>2, LeastOf
<1> DEFINE S == {c \in Pending : Priority[kind[c]] = p}
<1>4. S # {} /\ S \subseteq Nat
  BY DEF Pending, Control
<1>5. PICK c \in S : \A d \in S : c <= d
  BY <1>4, LeastOf
<1>6. ASSUME NEW d \in Pending, d # c
      PROVE  Before(c, d)
  <2>1. /\ Priority[kind[d]] \in Nat /\ p \in Nat /\ p <= Priority[kind[d]] /\ Priority[kind[c]] = p
        /\ c \in Nat /\ d \in Nat
    BY <1>1, <1>3 DEF Pending, Control
  <2>2. CASE Priority[kind[d]] = p
    <3>1. c <= d
      BY <1>5, <2>2
    <3>2. QED BY ONLY <2>1, <2>2, <3>1, <1>6 DEF Before
  <2>3. CASE Priority[kind[d]] # p
    BY ONLY <2>1, <2>3 DEF Before
  <2>4. QED BY <2>2, <2>3
<1>7. QED BY <1>6 DEF IsHead, Pending

-----------------------------------------------------------------------------
(* The loops *)

\* Threads live in live processes, and a loop that applies a control has one.
LoopLives(o) ==
    /\ pc[o] = "dead" <=> ~Acting(o)
    /\ sub[o] # 0 => Acting(o) /\ by[sub[o]] = o
    /\ closing[o] \in {"abandon", "retry"} => Acting(o)
    /\ pc[o] \in {"applying", "finishing", "failing"} => cur[o] \in Control

ThreadLives(c) ==
    /\ cb[c] \in LiveThread \union Parked => by[c] \in Owner /\ Acting(by[c])
    /\ by[c] # None => state[c] # "none"

Lifetimes == (\A o \in Owner : LoopLives(o)) /\ (\A c \in Control : ThreadLives(c))

\* A cancellation whose thread was ever started has been begun.
Begun == \A c \in Control :
    cb[c] # "none" \/ c \in called => cancel[c] \in {"attempting", "reported", "ambiguous"}

LInv == QInv /\ LoopTypeOK /\ Lifetimes /\ SingleExecutor /\ Begun

-----------------------------------------------------------------------------
\* The initial state satisfies the invariant.
LEMMA LoopInitInv == Init => LInv
<1> SUFFICES ASSUME Init PROVE LInv
  OBVIOUS
<1>1. QInv
  BY QueueInitInv DEF Init
<1>2. LoopTypeOK /\ Lifetimes /\ SingleExecutor /\ Begun
  BY <1>1, OwnersLiveInProcesses DEF Init, QueueInit, QInv, LoopTypeOK,
     Lifetimes, LoopLives, ThreadLives, SingleExecutor, Begun, Acting, Running,
     OwningPcs, ToolPcs, Sites, LiveThread, Parked, Holder
<1>3. QED
  BY <1>1, <1>2 DEF LInv

-----------------------------------------------------------------------------
(* Every step of the loops is a step of the queue *)

\* Entering run() is a step of the queue or leaves it alone (_run_once).
LEMMA EnteringSteps ==
    ASSUME LInv, NEW o \in Owner, Entering(o)
    PROVE  [QueueNext]_queueVars
<1> USE DEF QueueNext, ByOwner, ByAnyone, queueVars
<1>1. pc[o] # "dead" => Acting(o)
  BY DEF LInv, Lifetimes, LoopLives
<1>2. CASE \E lapsed \in SUBSET Lapsable : RecoverCancellations(o, lapsed)
  BY <1>1, <1>2 DEF Entering, Run, RecoverOnEntry, EnterScope, ScopeRefused,
     Recheck, Requeue, RecoverInScope, Register
<1>3. QED
  BY <1>1 DEF Entering, Run, RecoverOnEntry, Recovering, EnterScope,
     ScopeRefused, Recheck, Requeue, RecoverInScope, Register, TaskStates,
     Holder

\* So is every step of _apply_controls.
LEMMA ApplyingSteps ==
    ASSUME LInv, NEW o \in Owner, Applying(o)
    PROVE  [QueueNext]_queueVars
<1> USE DEF QueueNext, ByOwner, ByAnyone, queueVars
<1>1. Acting(o)
  BY DEF LInv, Lifetimes, LoopLives, ThreadLives, Applying, Blocked, Unblocked, ClaimControl, NothingToClaim,
     ApplyControl, ApplyRaises, FinishControl, FinishThenLost, FinishRaises, FailControl
<1>2. pc[o] \in {"applying", "finishing", "failing"} => cur[o] \in Control
  BY DEF LInv, Lifetimes, LoopLives
<1>3. CASE ApplyControl(o)
  BY <1>1, <1>3 DEF ApplyControl, Effect, TaskStates, Holder
<1>4. QED
  BY <1>1, <1>2, <1>3 DEF Applying, Blocked, Unblocked, ClaimControl, NothingToClaim,
     ApplyRaises, FinishControl, FinishThenLost, FinishRaises, FailControl

\* So are the steps around the model and the tools (_run_registered).
LEMMA WorkingSteps ==
    ASSUME LInv, NEW o \in Owner, Working(o)
    PROVE  [QueueNext]_queueVars
<1> USE DEF QueueNext, ByOwner, ByAnyone, queueVars
<1>1. pc[o] # "dead" => Acting(o)
  BY DEF LInv, Lifetimes, LoopLives
<1>2. QED
  BY <1>1 DEF Working, Model, ModelFails, GuardTrips, Continue, Complete, StartTool, EndTool,
     Settle, Stop, RunRaises, Running, OwningPcs, ToolPcs, Leave, TaskStates, Holder

\* So are the steps of a thread in submit_control.
LEMMA SubmittingSteps ==
    ASSUME LInv, NEW o \in Owner, Submitting(o)
    PROVE  [QueueNext]_queueVars
<1> USE DEF QueueNext, ByOwner, ByAnyone, queueVars
<1>1. /\ pc[o] # "dead" => Acting(o)
      /\ sub[o] # 0 => Acting(o) /\ sub[o] \in Control
  BY DEF LInv, Lifetimes, LoopLives, LoopTypeOK
<1>2. QED
  BY <1>1 DEF Submitting, SubmitUncancellable, SubmitDuplicate, SubmitIntent, Begin, BeginRaises

\* So are the steps of close().
LEMMA ClosingSteps ==
    ASSUME LInv, NEW o \in Owner, Closing(o)
    PROVE  [QueueNext]_queueVars
<1> USE DEF QueueNext, ByOwner, ByAnyone, queueVars
<1>1. closing[o] \in {"abandon", "retry"} => Acting(o)
  BY DEF LInv, Lifetimes, LoopLives
<1>2. QED
  BY <1>1 DEF Closing, StartClose, Abandon, RecoverOnClose, EndClose

\* So are the steps of a cancellation thread (_attempt_cancellation).
LEMMA ThreadSteps ==
    ASSUME LInv, NEW c \in Control, Thread(c)
    PROVE  [QueueNext]_queueVars
<1> USE DEF QueueNext, ByOwner, ByAnyone, queueVars
<1>1. cb[c] \in LiveThread \union Parked => by[c] \in Owner /\ Acting(by[c])
  BY DEF LInv, Lifetimes, ThreadLives
<1>2. QED
  BY <1>1 DEF Thread, CallBack, CallbackEnds, Reconcile, ReconcileRaises, Retrying, LiveThread

\* So are the steps of users, of other writers and of crashes.
LEMMA OutsideSteps ==
    ASSUME Outside
    PROVE  [QueueNext]_queueVars
BY DEF QueueNext, ByAnyone, Outside, SubmitQueued, SubmitWithoutTool,
   OutsideUpdate, OutsideRecover, CrashProcess, TaskStates, Holder

\* The loops call the queue only as live owners, on controls it knows.
LEMMA LoopStepsQueue ==
    ASSUME LInv, [Next]_vars
    PROVE  [QueueNext]_queueVars
BY EnteringSteps, ApplyingSteps, WorkingSteps, SubmittingSteps, ClosingSteps,
   ThreadSteps, OutsideSteps DEF Next, vars

-----------------------------------------------------------------------------
(* Every step of the loops keeps the invariant *)

\* Types.  The rows are the queue's; the rest is local to each loop.
LEMMA LoopTypeStep ==
    ASSUME LInv, [Next]_vars
    PROVE  LoopTypeOK'
<1>1. TypeOK'
  BY LoopStepsQueue, QueueNextInv DEF LInv, QInv
<1> USE DEF LInv, LoopTypeOK, OwningPcs, ToolPcs, Sites, LiveThread, Parked, Holder, Goto,
        GotoBoundary, LeaveSite, RaiseControls, runVars, threadVars
<1>2. ASSUME NEW o \in Owner, Entering(o)
      PROVE  LoopTypeOK'
  BY <1>1, <1>2 DEF Entering, Run, RecoverOnEntry, Recovering, EnterScope, ScopeRefused,
     Recheck, Requeue, RecoverInScope, Register
<1>3. ASSUME NEW o \in Owner, Applying(o)
      PROVE  LoopTypeOK'
  BY ZenonT(60), <1>1, <1>3 DEF Applying, Blocked, Unblocked, ClaimControl, NothingToClaim,
     ApplyControl, ApplyRaises, FinishControl, FinishThenLost, FinishRaises, FailControl
<1>4. ASSUME NEW o \in Owner, Working(o)
      PROVE  LoopTypeOK'
  BY <1>1, <1>4 DEF Working, Model, ModelFails, GuardTrips, Continue, Complete, StartTool,
     EndTool, Settle, Stop, RunRaises, Leave
<1>5. ASSUME NEW o \in Owner, Submitting(o)
      PROVE  LoopTypeOK'
  BY <1>1, <1>5 DEF Submitting, SubmitUncancellable, SubmitDuplicate, SubmitIntent, Begin,
     BeginRaises
<1>6. ASSUME NEW o \in Owner, Closing(o)
      PROVE  LoopTypeOK'
  BY <1>1, <1>6 DEF Closing, StartClose, Abandon, RecoverOnClose, EndClose
<1>7. ASSUME NEW c \in Control, Thread(c)
      PROVE  LoopTypeOK'
  BY ZenonT(60), <1>1, <1>7 DEF Thread, CallBack, CallbackEnds, Reconcile, ReconcileRaises
<1>8. CASE Outside
  <2>1. ASSUME NEW p \in Process, CrashProcess(p)
        PROVE  LoopTypeOK'
    BY <1>1, <2>1 DEF CrashProcess
  <2>2. QED
    BY <1>1, <1>8, <2>1 DEF Outside, SubmitQueued, SubmitWithoutTool, OutsideUpdate,
       OutsideRecover
<1>9. CASE UNCHANGED vars
  BY <1>1, <1>9 DEF vars
<1>10. QED
  BY <1>2, <1>3, <1>4, <1>5, <1>6, <1>7, <1>8, <1>9 DEF Next

\* Only a crash changes the processes, only the first step into the execution
\* scope and the last one out of it change the lease.
LEMMA LoopFrame ==
    ASSUME [Next]_vars
    PROVE  \/ \E p \in Process : CrashProcess(p)
           \/ /\ proc' = proc
              /\ \/ exec' = exec
                 \/ \E o \in Owner : EnterScope(o) \/ Leave(o)
<1> USE DEF taskRows, controlRows
<1>1. ASSUME NEW o \in Owner, Entering(o)
      PROVE  proc' = proc /\ (exec' = exec \/ EnterScope(o))
  BY <1>1 DEF Entering, Run, RecoverOnEntry, Recovering, EnterScope,
     ScopeRefused, Recheck, Requeue, RecoverInScope, Register,
     RecoverCancellations, ClaimExecution, RecoverProcessing, UpdateTask,
     queueVars
<1>2. ASSUME NEW o \in Owner, Applying(o)
      PROVE  proc' = proc /\ exec' = exec
  BY <1>2 DEF Applying, Blocked, Unblocked, ClaimControl, NothingToClaim, ApplyControl,
     ApplyRaises, FinishControl, FinishThenLost, FinishRaises, FailControl, ClaimNext,
     Finish, UpdateTask, queueVars
<1>3. ASSUME NEW o \in Owner, Working(o)
      PROVE  proc' = proc /\ (exec' = exec \/ Leave(o))
  BY <1>3 DEF Working, Model, ModelFails, GuardTrips, Continue, Complete, StartTool, EndTool,
     Settle, Stop, RunRaises, Leave, ReleaseExecution, UpdateTask, queueVars
<1>4. ASSUME NEW o \in Owner, Submitting(o)
      PROVE  proc' = proc /\ exec' = exec
  BY <1>4 DEF Submitting, SubmitUncancellable, SubmitDuplicate, SubmitIntent, Begin,
     BeginRaises, EnqueueReady, EnqueueIntent, BeginCancellation, ResolveUnattempted,
     queueVars
<1>5. ASSUME NEW o \in Owner, Closing(o)
      PROVE  proc' = proc /\ exec' = exec
  BY <1>5 DEF Closing, StartClose, Abandon, RecoverOnClose, EndClose,
     AbandonCancellation, ReconcileAmbiguous, RecoverCancellations, queueVars
<1>6. ASSUME NEW c \in Control, Thread(c)
      PROVE  proc' = proc /\ exec' = exec
  BY <1>6 DEF Thread, CallBack, CallbackEnds, Reconcile, ReconcileRaises, ReconcileReported,
     ReconcileAmbiguous, queueVars
<1>7. CASE Outside
  BY <1>7 DEF Outside, SubmitQueued, SubmitWithoutTool, OutsideUpdate,
     OutsideRecover, Enqueue, EnqueueReady, UpdateTask, RecoverTask
<1>8. CASE UNCHANGED vars
  BY <1>8 DEF vars, queueVars
<1>9. QED
  BY <1>1, <1>2, <1>3, <1>4, <1>5, <1>6, <1>7, <1>8 DEF Next

\* What the thread of run() does to the local state: it moves on in its own loop
\* and leaves the other loops and all other threads alone.
Moves(o) ==
    /\ pc[o] # "dead" /\ pc'[o] # "dead"
    /\ pc'[o] \in {"applying", "finishing", "failing"} => cur'[o] \in Control
    /\ Running(o)' => Running(o) \/ EnterScope(o)
    /\ \A x \in Owner \ {o} : pc'[x] = pc[x] /\ cur'[x] = cur[x]
    /\ UNCHANGED <<sub, cb, by, called, closing>>

\* Every step of the thread of run() moves it on.
LEMMA EnteringMoves ==
    ASSUME LInv, NEW o \in Owner, Entering(o)
    PROVE  Moves(o)
BY ZenonT(60) DEF LInv, Lifetimes, LoopLives, LoopTypeOK, Moves, Goto, GotoBoundary, runVars, threadVars,
     Running, OwningPcs, ToolPcs, Entering, Run, RecoverOnEntry, Recovering, EnterScope,
     ScopeRefused, Recheck, Requeue, RecoverInScope, Register

\* A step of _apply_controls moves only the program counter of its own loop.
LEMMA ApplyingMoves ==
    ASSUME LInv, NEW o \in Owner, Applying(o)
    PROVE  Moves(o)
BY ZenonT(60) DEF LInv, Lifetimes, LoopLives, LoopTypeOK, Moves, Goto, GotoBoundary, runVars, threadVars,
     Running, OwningPcs, Applying, Blocked, Unblocked, ClaimControl, NothingToClaim, ApplyControl,
     ApplyRaises, FinishControl, FinishThenLost, FinishRaises, FailControl, RaiseControls,
     Sites

\* A step around the model and the tools moves only its own loop.
LEMMA WorkingMoves ==
    ASSUME LInv, NEW o \in Owner, Working(o)
    PROVE  Moves(o)
BY DEF LInv, Lifetimes, LoopLives, LoopTypeOK, Moves, Goto, GotoBoundary, runVars, threadVars,
     Running, OwningPcs, Working, Model, ModelFails, GuardTrips, RunRaises, Continue, Complete, StartTool,
     EndTool, Settle, Stop, Leave, RaiseControls, ToolPcs

\* A control that was enqueued stays enqueued.
LEMMA QueueBirths ==
    ASSUME QInv, [QueueNext]_queueVars, NEW c \in Control, state[c] # "none"
    PROVE  state'[c] # "none"
BY ZenonT(60) DEF QueueNext, ByOwner, ByAnyone, EnqueueIntent, Enqueue, EnqueueReady, Insert,
   BeginCancellation, ResolveUnattempted, ReconcileReported, ReconcileAmbiguous,
   AbandonCancellation, ClaimNext, Finish, RecoverCancellations, RecoverProcessing,
   ClaimExecution, ReleaseExecution, UpdateTask, RecoverTask, Crash, taskRows,
   controlRows, queueVars, QInv, TypeOK

\* What LInv says of a loop, apart from what it says of its threads.
LEMMA LoopFacts ==
    ASSUME LInv, NEW o \in Owner
    PROVE  /\ pc[o] # "dead" => Acting(o)
           /\ sub[o] # 0 => sub[o] \in Control /\ by[sub[o]] = o /\ Acting(o)
BY DEF LInv, LoopTypeOK, Lifetimes, LoopLives

\* A cancellation thread is started by a loop that lives, for a control that
\* exists, and ends with the process of the loop.
LEMMA ThreadsStep ==
    ASSUME LInv, [Next]_vars
    PROVE  \A c \in Control : ThreadLives(c)'
<1> USE DEF LInv, Lifetimes, ThreadLives, LoopTypeOK, runVars, threadVars, LiveThread, Parked
<1>1. \A c \in Control : state[c] # "none" => state'[c] # "none"
  BY LoopStepsQueue, QueueBirths
<1>2. ASSUME NEW p \in Process, CrashProcess(p)
      PROVE  \A c \in Control : ThreadLives(c)'
  <2>1. \A o \in Owner : Acting(o) /\ ProcessOf[o] # p => proc'[ProcessOf[o]] = "alive"
    BY <1>2, OwnersLiveInProcesses DEF CrashProcess, Crash, Acting, TypeOK
  <2>2. by' = by /\ \A c \in Control : cb'[c] \in LiveThread \union Parked =>
                       cb'[c] = cb[c] /\ ProcessOf[by[c]] # p
    BY <1>2 DEF CrashProcess, InProcess
  <2>3. QED
    BY <1>1, <2>1, <2>2 DEF Acting
<1>3. CASE proc' = proc
  <2> USE <1>1, <1>3 DEF Acting
  <2>1. CASE UNCHANGED <<cb, by>>
    BY <2>1
  <2>2. ASSUME NEW o \in Owner, NEW k \in Kinds, SubmitIntent(o, k)
        PROVE  \A c \in Control : ThreadLives(c)'
    <3>1. PICK c \in Control : EnqueueIntent(c, k, o) /\ by' = [by EXCEPT ![c] = o]
      BY <2>2 DEF SubmitIntent
    <3>2. state'[c] = "pending"
      BY <3>1 DEF EnqueueIntent, Insert, QInv, TypeOK
    <3>3. cb' = cb /\ Acting(o)
      BY <2>2, LoopFacts DEF SubmitIntent
    <3>4. QED
      BY <3>1, <3>2, <3>3
  <2>3. ASSUME NEW o \in Owner, Begin(o)
        PROVE  \A c \in Control : ThreadLives(c)'
    <3>1. sub[o] \in Control /\ by[sub[o]] = o /\ Acting(o)
      BY <2>3, LoopFacts DEF Begin
    <3>2. by' = by /\ \A c \in Control \ {sub[o]} : cb'[c] = cb[c]
      BY <2>3 DEF Begin
    <3>3. QED
      BY <3>1, <3>2
  <2>4. ASSUME NEW c \in Control, Thread(c)
        PROVE  \A d \in Control : ThreadLives(d)'
    BY ZenonT(60), <2>4 DEF Thread, CallBack, CallbackEnds, Reconcile, ReconcileRaises, Retrying
  <2>5. QED
    BY <1>2, <2>1, <2>2, <2>3, <2>4, EnteringMoves, ApplyingMoves, WorkingMoves
       DEF Next, Moves, Submitting, SubmitUncancellable, SubmitDuplicate, BeginRaises,
           Closing, StartClose, Abandon, RecoverOnClose, EndClose, Outside,
           SubmitQueued, SubmitWithoutTool, OutsideUpdate, OutsideRecover, vars
<1>4. QED
  BY <1>2, <1>3, LoopFrame

\* A loop has its thread, its submitter and its close() while it lives.
LEMMA LoopsStep ==
    ASSUME LInv, [Next]_vars
    PROVE  \A o \in Owner : LoopLives(o)'
<1> USE DEF LInv, Lifetimes, LoopLives, LoopTypeOK, runVars, threadVars
<1>1. ASSUME NEW p \in Process, CrashProcess(p)
      PROVE  \A o \in Owner : LoopLives(o)'
  BY <1>1 DEF CrashProcess, Crash, Acting, TypeOK, InProcess
<1>2. CASE proc' = proc
  <2>1. \A o \in Owner : Acting(o)' <=> Acting(o)
    BY <1>2 DEF Acting
  <2>2. ASSUME NEW o \in Owner, Moves(o)
        PROVE  \A x \in Owner : LoopLives(x)'
    BY <2>1, <2>2 DEF Moves
  <2>3. ASSUME NEW o \in Owner, Submitting(o)
        PROVE  \A x \in Owner : LoopLives(x)'
    <3>1. ASSUME NEW k \in Kinds, SubmitIntent(o, k)
          PROVE  \A x \in Owner : LoopLives(x)'
      <4>1. PICK c \in Control : /\ state[c] = "none"
                                 /\ sub' = [sub EXCEPT ![o] = c]
                                 /\ by' = [by EXCEPT ![c] = o]
        BY <3>1 DEF SubmitIntent, EnqueueIntent, Insert, Fresh
      <4>2. by[c] = None
        BY <4>1 DEF ThreadLives
      <4>3. \A x \in Owner : sub[x] # c
        BY <4>2, NoneIsNoOwner DEF Control
      <4>4. UNCHANGED <<pc, cur, closing>> /\ pc[o] # "dead"
        BY <3>1 DEF SubmitIntent
      <4>5. QED
        BY <2>1, <4>1, <4>3, <4>4
    <3>2. QED
      BY ZenonT(60), <2>1, <2>3, <3>1 DEF Submitting, SubmitUncancellable, SubmitDuplicate, Begin,
         BeginRaises
  <2>4. ASSUME NEW o \in Owner, Closing(o)
        PROVE  \A x \in Owner : LoopLives(x)'
    BY <2>1, <2>4 DEF Closing, StartClose, Abandon, RecoverOnClose, EndClose
  <2>5. ASSUME NEW c \in Control, Thread(c)
        PROVE  \A x \in Owner : LoopLives(x)'
    BY <2>1, <2>5 DEF Thread, CallBack, CallbackEnds, Reconcile, ReconcileRaises
  <2>6. CASE Outside
    BY <1>1, <2>1, <2>6 DEF Outside, SubmitQueued, SubmitWithoutTool,
       OutsideUpdate, OutsideRecover
  <2>7. CASE UNCHANGED vars
    BY <2>1, <2>7 DEF vars
  <2>8. QED
    BY <2>2, <2>3, <2>4, <2>5, <2>6, <2>7, EnteringMoves, ApplyingMoves,
       WorkingMoves DEF Next
<1>3. QED
  BY <1>1, <1>2, LoopFrame

\* A second loop enters only over an owner whose process is gone, and only the
\* loop that leaves gives the lease up.
LEMMA ExecutorStep ==
    ASSUME LInv, [Next]_vars
    PROVE  SingleExecutor'
<1> USE DEF SingleExecutor
<1>1. \A o \in Owner : Running(o)' => Acting(o)'
  BY LoopsStep DEF LoopLives, Running, OwningPcs, ToolPcs
<1>2. ASSUME NEW o \in Owner, EnterScope(o)
      PROVE  \A x \in Owner : Running(x)' => exec' = x
  <2>1. \A x \in Owner \ {o} : ~Running(x)
    <3>1. \A x \in Owner : Running(x) => exec = x /\ ~OwnerGone(proc, x)
      BY DEF LInv, OwnerGone, Acting
    <3>2. Claimable(proc, exec, o)
      BY <1>2 DEF EnterScope, ClaimExecution, MayExecute
    <3>3. QED
      BY <3>1, <3>2, NoneIsNoOwner DEF Claimable, Active
  <2>2. exec' = o /\ \A x \in Owner \ {o} : pc'[x] = pc[x]
    BY <1>2 DEF EnterScope, ClaimExecution, Goto
  <2>3. QED
    BY <2>1, <2>2 DEF Running
<1>3. ASSUME NEW o \in Owner, Leave(o)
      PROVE  \A x \in Owner : Running(x)' => exec' = x
  <2>1. exec = o
    BY <1>3 DEF Leave, LInv, Running, OwningPcs
  <2>2. ~Running(o)' /\ \A x \in Owner \ {o} : pc'[x] = pc[x]
    BY <1>3 DEF Leave, Goto, LInv, LoopTypeOK, Running, OwningPcs, ToolPcs
  <2>3. QED
    BY <2>1, <2>2 DEF Running, LInv
<1>4. ASSUME exec' = exec, \A o \in Owner : Running(o)' => Running(o)
      PROVE  \A x \in Owner : Running(x)' => exec' = x
  BY <1>4 DEF LInv
<1>5. ASSUME NEW p \in Process, CrashProcess(p)
      PROVE  exec' = exec /\ \A o \in Owner : Running(o)' => Running(o)
  BY <1>5 DEF CrashProcess, Crash, taskRows, Running, OwningPcs, ToolPcs
<1>6. (\A o \in Owner : ~EnterScope(o)) => \A o \in Owner : Running(o)' => Running(o)
  <2>1. CASE pc' = pc
    BY <2>1 DEF Running
  <2>2. ASSUME NEW o \in Owner, Moves(o), ~EnterScope(o)
        PROVE  \A x \in Owner : Running(x)' => Running(x)
    BY <2>2 DEF Moves, Running
  <2>3. QED
    BY <1>5, <2>1, <2>2, EnteringMoves, ApplyingMoves, WorkingMoves
       DEF Next, Submitting, SubmitUncancellable, SubmitDuplicate, SubmitIntent, Begin,
           BeginRaises, Closing, StartClose, Abandon, RecoverOnClose, EndClose, Thread,
           CallBack, CallbackEnds, Reconcile, ReconcileRaises, Outside, SubmitQueued,
           SubmitWithoutTool, OutsideUpdate, OutsideRecover, runVars, threadVars, vars
<1>7. \A x \in Owner : Running(x)' => exec' = x
  BY <1>2, <1>3, <1>4, <1>5, <1>6, LoopFrame
<1>8. QED
  BY <1>1, <1>7

\* No step of the queue takes back that a cancellation was begun.
LEMMA QueueBegun ==
    ASSUME QInv, [QueueNext]_queueVars, NEW c \in Control,
           cancel[c] \in {"attempting", "reported", "ambiguous"}
    PROVE  cancel'[c] \in {"attempting", "reported", "ambiguous"}
<1>1. state[c] # "none"
  BY DEF QInv, Unborn
<1>2. ASSUME NEW o \in Owner, NEW lapsed \in SUBSET Lapsable, RecoverCancellations(o, lapsed)
      PROVE  cancel'[c] \in {"attempting", "reported", "ambiguous"}
  BY <1>2 DEF RecoverCancellations, Lost, Settling, Lapsable, Abandoned,
     Unreconciled, Open
<1>3. QED
  BY ZenonT(60), <1>1, <1>2
     DEF QueueNext, ByOwner, ByAnyone, EnqueueIntent, Enqueue, EnqueueReady, Insert, Fresh,
         BeginCancellation, ResolveUnattempted, ReconcileReported, ReconcileAmbiguous,
         AbandonCancellation, ClaimNext, Finish, RecoverProcessing, ClaimExecution,
         ReleaseExecution, UpdateTask, RecoverTask, Crash, taskRows, controlRows,
         queueVars, QInv, TypeOK

\* The thread of a cancellation is only started once begin_cancellation wrote it.
LEMMA BegunStep ==
    ASSUME LInv, [Next]_vars
    PROVE  Begun'
<1> USE DEF Begun
<1>1. \A c \in Control : cancel[c] \in {"attempting", "reported", "ambiguous"} =>
                            cancel'[c] \in {"attempting", "reported", "ambiguous"}
  BY LoopStepsQueue, QueueBegun DEF LInv
<1>2. CASE UNCHANGED <<cb, called>>
  BY <1>1, <1>2 DEF LInv
<1>3. ASSUME NEW o \in Owner, Begin(o)
      PROVE  Begun'
  <2>1. sub[o] \in Control
    BY <1>3, LoopFacts DEF Begin
  <2>2. cancel'[sub[o]] = "attempting"
    BY <1>3, <2>1 DEF Begin, BeginCancellation, LInv, QInv, TypeOK
  <2>3. called' = called /\ \A c \in Control \ {sub[o]} : cb'[c] = cb[c]
    BY <1>3, <2>1 DEF Begin, LInv, LoopTypeOK
  <2>4. QED
    BY <1>1, <2>2, <2>3 DEF LInv
<1>4. ASSUME NEW c \in Control, Thread(c)
      PROVE  Begun'
  <2>1. cb[c] # "none"
    BY <1>4 DEF Thread, CallBack, CallbackEnds, Reconcile, ReconcileRaises, Retrying, Parked
  <2>2. called' \subseteq called \union {c} /\ \A d \in Control \ {c} : cb'[d] = cb[d]
    BY <1>4 DEF Thread, CallBack, CallbackEnds, Reconcile, ReconcileRaises, LInv, LoopTypeOK
  <2>3. QED
    BY <1>1, <2>1, <2>2 DEF LInv
<1>5. ASSUME NEW p \in Process, CrashProcess(p)
      PROVE  Begun'
  <2>1. called' = called /\ \A c \in Control : cb'[c] # "none" => cb[c] # "none"
    BY <1>5 DEF CrashProcess, LiveThread, Parked
  <2>2. QED
    BY <1>1, <2>1 DEF LInv
<1>6. QED
  BY <1>2, <1>3, <1>4, <1>5, EnteringMoves, ApplyingMoves, WorkingMoves
     DEF Next, Moves, Submitting, SubmitUncancellable, SubmitDuplicate, SubmitIntent,
         BeginRaises, Closing, StartClose, Abandon, RecoverOnClose, EndClose, Outside,
         SubmitQueued, SubmitWithoutTool, OutsideUpdate, OutsideRecover, runVars,
         threadVars, vars

-----------------------------------------------------------------------------
\* Every behaviour of the loops keeps the inductive invariant.
THEOREM LoopInvariant == Spec => []LInv
<1>1. Init => LInv
  BY LoopInitInv
<1>2. LInv /\ [Next]_vars => LInv'
  <2> SUFFICES ASSUME LInv, [Next]_vars PROVE LInv'
    OBVIOUS
  <2>1. QInv'
    BY LoopStepsQueue, QueueNextInv DEF LInv
  <2>2. Lifetimes'
    BY ThreadsStep, LoopsStep DEF Lifetimes
  <2>3. QED
    BY <2>1, <2>2, LoopTypeStep, ExecutorStep, BegunStep DEF LInv
<1>3. QED
  BY <1>1, <1>2, PTL DEF Spec

\* The loops keep the types of their rows and of their local state.
THEOREM LoopTypeCorrect == Spec => []LoopTypeOK
<1>1. LInv => LoopTypeOK
  BY DEF LInv
<1>2. QED
  BY <1>1, LoopInvariant, PTL

\* Never do two loops run the same task, in however many processes they are
\* and however many of these crash.
THEOREM LoopSingleExecutor == Spec => []SingleExecutor
<1>1. LInv => SingleExecutor
  BY DEF LInv
<1>2. QED
  BY <1>1, LoopInvariant, PTL

\* Never does the queue report as unattempted a cancellation whose callback was,
\* is or will be invoked.
THEOREM LoopTruthfulOutcome == Spec => []TruthfulOutcome
<1>1. LInv => TruthfulOutcome
  BY DEF LInv, Begun, TruthfulOutcome, Live
<1>2. QED
  BY <1>1, LoopInvariant, PTL

\* The loops implement the queue specification: whatever they interleave, each
\* of their steps is a call the queue allows, or leaves the queue alone.
THEOREM LoopImplementsQueue == Spec => ImplementsQueue
<1>1. Init => QueueInit
  BY DEF Init
<1>2. LInv /\ [Next]_vars => [QueueNext]_queueVars
  BY LoopStepsQueue
<1>3. QED
  BY <1>1, <1>2, LoopInvariant, PTL DEF Spec, QueueSpec, ImplementsQueue

\* What the queue promises to all callers it therefore promises to the loops.
COROLLARY LoopsAreSafe ==
    Spec => /\ [](FailClosed /\ FenceCoversOpen /\ OneProcessor)
            /\ TerminalIsFinal /\ ExecutionFenced /\ OutcomeIsFinal
<1>1. QInv => FailClosed /\ FenceCoversOpen /\ OneProcessor
  BY DEF QInv
<1>2. QED
  BY <1>1, LoopImplementsQueue, QueueInvariant, QueueTerminalIsFinal,
     QueueExecutionFenced, QueueOutcomeIsFinal, PTL DEF ImplementsQueue

-----------------------------------------------------------------------------
(* What a loop knows between a boundary and the next tool *)

\* The open cancellations are of one loop, the one that runs or the last one
\* that did, and so is the fence.
OpenIsOne ==
    \A c \in Unreconciled :
        /\ by[c] = can[c] /\ can[c] # None
        /\ fence # None => fence = can[c]
        /\ \A o \in Owner : Running(o) => can[c] = o
        /\ \A d \in Unreconciled : can[c] = can[d]

\* From the look at a boundary to the next tool no cancellation is open.
Closed == {"claiming", "applying", "finishing", "failing", "model", "decide", "settling"}
NoneOpen == \A o \in Owner : pc[o] \in Closed => Unreconciled = {}

\* the control is being applied, or the loop is on its way out
Stopping(o, c) ==
    \/ pc[o] \in {"leaving", "stop failed"}
    \/ cur[o] = c /\ pc[o] \in {"applying", "finishing", "failing"}

\* An ambiguous cancellation is still to be applied, or it stops the loop.
AmbiguousStops ==
    \A o \in Owner, c \in Control :
        Running(o) /\ cancel[c] = "ambiguous" => state[c] = "pending" \/ Stopping(o, c)

\* A control of the current tool that is in processing is in the hands of the loop.
Registered(o) == Running(o) /\ pc[o] \notin {"owned", "requeue", "reconcile", "register"}
OpInHand ==
    \A o \in Owner, c \in Control :
        c \in op => /\ state[c] # "none"
                    /\ Registered(o) /\ state[c] = "processing" => Stopping(o, c)

\* An intent is submitted while its tool runs, a reported callback has returned,
\* and a control has a kind.
SubInTool == \A o \in Owner : sub[o] # 0 => pc[o] = "cancellable tool" /\ sub[o] \in op
ReportedIsOver == \A c \in Control : cancel[c] = "reported" => ~Live(c)
HasKind == \A c \in Control : state[c] # "none" => kind[c] # "none"

\* A loop that decides has no callback left and the controls of its last tool
\* behind it.
DecidesClean ==
    \A o \in Owner : pc[o] = "decide" =>
        \A c \in Control : ~Live(c) /\ (c \in op => state[c] \in {"applied", "failed"})

BInv == /\ FenceJustified /\ OpenIsOne /\ NoneOpen /\ AmbiguousStops /\ OpInHand /\ SubInTool
        /\ ReportedIsOver /\ HasKind /\ DecidesClean /\ CallbackHitsOnlyItsTool

\* the calls of the queue that open no cancellation
QuietNext ==
    \/ \E c \in Control, k \in Kinds : Enqueue(c, k) \/ EnqueueReady(c, k)
    \/ \E c \in Control, o \in Owner :
         \/ BeginCancellation(c, o) /\ can[c] = o
         \/ ResolveUnattempted(c, o) \/ ReconcileReported(c, o) \/ ReconcileAmbiguous(c, o)
         \/ ClaimNext(c, o) \/ Finish(c, o, "applied") \/ Finish(c, o, "failed")
    \/ \E o \in Owner :
         \/ \E lapsed \in SUBSET Lapsable : RecoverCancellations(o, lapsed)
         \/ RecoverProcessing(o) \/ ClaimExecution(o) \/ ReleaseExecution(o)
    \/ \E o \in Holder, s \in TaskStates : UpdateTask(o, s)
    \/ RecoverTask
    \/ \E p \in Process : Crash(p)

\* Recovery settles open cancellations and no others.
LEMMA RecoverySettles ==
  ASSUME NEW o \in Owner, NEW lapsed \in SUBSET Lapsable, RecoverCancellations(o, lapsed)
  PROVE  /\ Settling(o, lapsed) \subseteq Unreconciled
         /\ Unreconciled' = Unreconciled \ Settling(o, lapsed)
         /\ \A c \in Unreconciled' : can'[c] = can[c]
         /\ \A c \in Control : cancel'[c] \in {cancel[c], "ambiguous", "unattempted"}
         /\ \A c \in Control : cancel'[c] = "ambiguous" => cancel[c] = "ambiguous" \/ state[c] = "pending"
         /\ UNCHANGED <<proc, exec, kind, state, own>>
<1> DEFINE S == Settling(o, lapsed)
           L == Lost(o, lapsed)
<1>1. S \subseteq Unreconciled /\ L = {c \in S : cancel[c] = "attempting"}
  BY DEF Settling, Lost, Lapsable, Abandoned
<1>2. \A c \in Control : /\ c \in L => cancel'[c] = "ambiguous"
                         /\ c \in S \ L => cancel'[c] = "unattempted"
                         /\ c \notin S => cancel'[c] = cancel[c]
                         /\ can'[c] = IF c \in S THEN None ELSE can[c]
  BY <1>1 DEF RecoverCancellations
<1>3. UNCHANGED <<proc, exec, kind, state, own>>
  BY DEF RecoverCancellations
<1> HIDE DEF S, L
<1>4. Unreconciled' = Unreconciled \ S
  BY <1>1, <1>2, <1>3 DEF Unreconciled, Open
<1>5. \A c \in Unreconciled' : can'[c] = can[c]
  BY <1>2, <1>4 DEF Unreconciled
<1>6. \A c \in Control : /\ cancel'[c] \in {cancel[c], "ambiguous", "unattempted"}
                         /\ cancel'[c] = "ambiguous" => cancel[c] = "ambiguous" \/ state[c] = "pending"
  BY <1>1, <1>2 DEF Unreconciled, Open
<1>7. QED BY <1>1, <1>3, <1>4, <1>5, <1>6 DEF S

\* Such a call leaves fewer open cancellations, and no fence without one.
LEMMA QuietShrinks ==
  ASSUME QInv, FenceJustified, QuietNext,
         \A c \in Unreconciled : fence # None => fence = can[c]
  PROVE  /\ Unreconciled' \subseteq Unreconciled
         /\ \A c \in Unreconciled' : can'[c] = can[c]
         /\ fence' \in {fence, None}
         /\ fence' # None => Unreconciled' # {}
<1> USE DEF FenceJustified
<1>1. ASSUME NEW c \in Control, NEW k \in Kinds, Enqueue(c, k) \/ EnqueueReady(c, k)
      PROVE  Unreconciled' = Unreconciled /\ can' = can /\ fence' = fence
  BY <1>1 DEF Enqueue, EnqueueReady, Insert, Fresh, Unreconciled, Open, QInv, TypeOK, taskRows, AllKinds
<1>2. ASSUME NEW c \in Control, NEW o \in Owner, BeginCancellation(c, o), can[c] = o
      PROVE  Unreconciled' = Unreconciled /\ can' = can /\ fence' = fence
  BY <1>2 DEF BeginCancellation, Unreconciled, Open, QInv, TypeOK, taskRows
<1>3. ASSUME NEW c \in Control, NEW o \in Owner,
             ResolveUnattempted(c, o) \/ ReconcileReported(c, o)
      PROVE  /\ Unreconciled' = Unreconciled \ {c}
             /\ \A d \in Unreconciled' : can'[d] = can[d]
             /\ fence' \in {fence, None} /\ (fence' # None => Unreconciled' # {})
  <2>1. c \in Unreconciled /\ can[c] = o /\ fence' = ReleasedFence({c}, {o})
    BY <1>3 DEF ResolveUnattempted, ReconcileReported, Unreconciled, Open
  <2>2. Unreconciled' = Unreconciled \ {c} /\ \A d \in Unreconciled' : can'[d] = can[d]
    BY <1>3 DEF ResolveUnattempted, ReconcileReported, Unreconciled, Open, QInv, TypeOK
  <2>3. QED BY <2>1, <2>2 DEF ReleasedFence
<1>4. ASSUME NEW c \in Control, NEW o \in Owner, ReconcileAmbiguous(c, o)
      PROVE  /\ Unreconciled' = Unreconciled \ {c}
             /\ \A d \in Unreconciled' : can'[d] = can[d]
             /\ fence' = None
  BY <1>4 DEF ReconcileAmbiguous, FailClosedWrite, Unreconciled, Open, QInv, TypeOK
<1>5. ASSUME NEW c \in Control, NEW o \in Owner, NEW r \in {"applied", "failed"},
             ClaimNext(c, o) \/ Finish(c, o, r)
      PROVE  Unreconciled' = Unreconciled /\ can' = can /\ fence' = fence
  BY <1>5 DEF ClaimNext, Finish, Ready, Unreconciled, Open, QInv, TypeOK, taskRows
<1>6. ASSUME NEW o \in Owner, NEW lapsed \in SUBSET Lapsable, RecoverCancellations(o, lapsed)
      PROVE  /\ fence' \in {fence, None}
             /\ fence' # None => Unreconciled' # {}
  <2>1. Unreconciled' = Unreconciled \ Settling(o, lapsed)
    BY <1>6, RecoverySettles
  <2>2. \/ fence' = None
        \/ fence' = fence /\ Settling(o, lapsed) = {}
        \/ fence' = ReleasedFence(Settling(o, lapsed), Holder)
    BY <1>6 DEF RecoverCancellations
  <2>3. QED BY <2>1, <2>2 DEF ReleasedFence, QInv, TypeOK
<1>7. ASSUME NEW o \in Owner, RecoverProcessing(o)
      PROVE  Unreconciled' = Unreconciled /\ can' = can /\ fence' = fence
  BY <1>7 DEF RecoverProcessing, Orphaned, Unreconciled, Open, QInv, OneProcessor, Ready, TypeOK, taskRows
<1>8. CASE \/ \E o \in Owner : ClaimExecution(o) \/ ReleaseExecution(o)
           \/ \E o \in Holder, s \in TaskStates : UpdateTask(o, s)
           \/ RecoverTask
           \/ \E p \in Process : Crash(p)
  <2>1. Unreconciled' = Unreconciled /\ can' = can /\ fence' = fence
    BY <1>8 DEF ClaimExecution, ReleaseExecution, UpdateTask, RecoverTask, Crash, controlRows,
                taskRows, Unreconciled, Open
  <2>2. QED BY <2>1
<1>9. QED
  BY <1>1, <1>2, <1>3, <1>4, <1>5, <1>6, <1>7, <1>8, RecoverySettles DEF QuietNext

\* The loops open a cancellation only as they submit it.
LEMMA LoopQuiet ==
  ASSUME LInv, BInv, Next, \A o \in Owner, k \in Kinds : ~SubmitIntent(o, k)
  PROVE  QuietNext \/ UNCHANGED queueVars
<1> USE DEF QuietNext, queueVars
<1>1. ASSUME NEW o \in Owner, Entering(o)
      PROVE  QuietNext \/ UNCHANGED queueVars
  <2>1. CASE \E lapsed \in SUBSET Lapsable : RecoverCancellations(o, lapsed)
    BY <2>1
  <2>2. QED
    BY <1>1, <2>1 DEF Entering, Run, RecoverOnEntry, Recovering, EnterScope, ScopeRefused, Recheck,
       Requeue, RecoverInScope, Register, TaskStates, Holder
<1>2. ASSUME NEW o \in Owner, Applying(o)
      PROVE  QuietNext \/ UNCHANGED queueVars
  <2>1. pc[o] \in {"applying", "finishing", "failing"} => cur[o] \in Control
    BY DEF LInv, Lifetimes, LoopLives
  <2>2. CASE ApplyControl(o)
    BY <2>2 DEF ApplyControl, Effect, TaskStates, Holder
  <2>3. QED
    BY <1>2, <2>1, <2>2 DEF Applying, Blocked, Unblocked, ClaimControl, NothingToClaim,
       ApplyRaises, FinishControl, FinishThenLost, FinishRaises, FailControl
<1>3. ASSUME NEW o \in Owner, Working(o)
      PROVE  QuietNext \/ UNCHANGED queueVars
  BY <1>3 DEF Working, Model, ModelFails, GuardTrips, Continue, Complete, StartTool, EndTool,
     Settle, Stop, RunRaises, Leave, TaskStates, Holder
<1>4. ASSUME NEW o \in Owner, Submitting(o)
      PROVE  QuietNext \/ UNCHANGED queueVars
  <2>1. ASSUME Begin(o)
        PROVE  BeginCancellation(sub[o], o) /\ can[sub[o]] = o /\ sub[o] \in Control
    <3>1. sub[o] \in Control /\ by[sub[o]] = o /\ BeginCancellation(sub[o], o)
      BY <2>1, LoopFacts DEF Begin
    <3>2. sub[o] \in Unreconciled
      BY <3>1 DEF BeginCancellation, Unreconciled, Open
    <3>3. QED BY <3>1, <3>2 DEF BInv, OpenIsOne
  <2>2. sub[o] # 0 => sub[o] \in Control
    BY LoopFacts
  <2>3. QED
    BY <1>4, <2>1, <2>2 DEF Submitting, SubmitUncancellable, SubmitDuplicate, BeginRaises
<1>5. ASSUME NEW o \in Owner, Closing(o)
      PROVE  QuietNext \/ UNCHANGED queueVars
  BY <1>5 DEF Closing, StartClose, Abandon, AbandonCancellation, RecoverOnClose, EndClose
<1>6. ASSUME NEW c \in Control, Thread(c)
      PROVE  QuietNext \/ UNCHANGED queueVars
  <2>1. cb[c] \in LiveThread \union Parked => by[c] \in Owner
    BY DEF LInv, Lifetimes, ThreadLives
  <2>2. QED
    BY <1>6, <2>1 DEF Thread, CallBack, CallbackEnds, Reconcile, ReconcileRaises, Retrying, LiveThread
<1>7. CASE Outside
  BY <1>7 DEF Outside, SubmitQueued, SubmitWithoutTool, OutsideUpdate, OutsideRecover,
     CrashProcess, TaskStates, Holder
<1>8. QED
  BY <1>1, <1>2, <1>3, <1>4, <1>5, <1>6, <1>7 DEF Next

\* While one loop runs no other does.
LEMMA RunsAlone ==
  ASSUME LInv, NEW o \in Owner, Running(o)
  PROVE  \A x \in Owner : Running(x) => x = o
BY DEF LInv, SingleExecutor

\* An intent is submitted by the loop that runs, and is open.
Opens(c, k, o) ==
    /\ Running(o) /\ pc[o] = "cancellable tool" /\ fence' = o
    /\ UNCHANGED <<proc, task, exec, own, pc, site, cur, cb, called, closing>>
    /\ state[c] = "none" /\ Unreconciled' = Unreconciled \union {c}
    /\ can' = [can EXCEPT ![c] = o] /\ by' = [by EXCEPT ![c] = o]
    /\ sub' = [sub EXCEPT ![o] = c] /\ op' = op \union {c}
    /\ state'[c] = "pending" /\ cancel'[c] = "intent" /\ kind'[c] = k
    /\ \A d \in Control \ {c} : /\ state'[d] = state[d] /\ cancel'[d] = cancel[d]
                                /\ kind'[d] = kind[d]

\* Whoever submits an intent opens a cancellation for the tool that runs.
LEMMA IntentOpens ==
  ASSUME LInv, BInv, NEW o \in Owner, NEW k \in Kinds, SubmitIntent(o, k)
  PROVE  \E c \in Control : Opens(c, k, o)
<1>1. PICK c \in Control : /\ EnqueueIntent(c, k, o) /\ sub' = [sub EXCEPT ![o] = c]
                           /\ op' = op \union {c} /\ by' = [by EXCEPT ![c] = o]
  BY DEF SubmitIntent
<1>2. /\ state[c] = "none" /\ state'[c] = "pending" /\ cancel'[c] = "intent" /\ kind'[c] = k
      /\ can' = [can EXCEPT ![c] = o] /\ fence' = o /\ UNCHANGED <<proc, task, exec, own>>
      /\ \A d \in Control \ {c} : /\ state'[d] = state[d] /\ cancel'[d] = cancel[d]
                                  /\ kind'[d] = kind[d]
  BY <1>1 DEF EnqueueIntent, Insert, Fresh, LInv, QInv, TypeOK
<1>3. Unreconciled' = Unreconciled \union {c}
  BY <1>2 DEF Unreconciled, Open
<1>4. UNCHANGED <<pc, site, cur, cb, called, closing>> /\ pc[o] = "cancellable tool"
  BY DEF SubmitIntent, runVars
<1>5. Opens(c, k, o)
  BY <1>1, <1>2, <1>3, <1>4 DEF Opens, Running, OwningPcs, ToolPcs
<1>6. QED BY <1>5

\* A loop begins to run where no cancellation is open and none is ambiguous.
LEMMA EntryIsClean ==
  ASSUME LInv, NEW o \in Owner, EnterScope(o)
  PROVE  /\ Unreconciled = {} /\ \A c \in Control : cancel[c] # "ambiguous"
         /\ UNCHANGED <<proc, task, fence, kind, state, cancel, can, own, site, cur, sub, op, cb, by,
                        called, closing>>
         /\ pc[o] = "claim" /\ pc' = [pc EXCEPT ![o] = "owned"]
BY DEF EnterScope, ClaimExecution, MayExecute, LInv, QInv, FenceCoversOpen, FailClosed, controlRows,
   threadVars, Goto

\* Which loop runs does not change but for the entry of one.
LEMMA NobodyStarts ==
  ASSUME LInv, Next, \A o \in Owner : ~EnterScope(o)
  PROVE  \A x \in Owner : Running(x)' => Running(x)
<1>1. CASE pc' = pc
  BY <1>1 DEF Running
<1>2. ASSUME NEW o \in Owner, Moves(o)
      PROVE  \A x \in Owner : Running(x)' => Running(x)
  BY <1>2 DEF Moves, Running
<1>3. ASSUME NEW p \in Process, CrashProcess(p)
      PROVE  \A x \in Owner : Running(x)' => Running(x)
  BY <1>3 DEF CrashProcess, Running, OwningPcs, ToolPcs
<1>4. QED
  BY <1>1, <1>2, <1>3, EnteringMoves, ApplyingMoves, WorkingMoves
     DEF Next, Submitting, SubmitUncancellable, SubmitDuplicate, SubmitIntent, Begin,
         BeginRaises, Closing, StartClose, Abandon, RecoverOnClose, EndClose, Thread,
         CallBack, CallbackEnds, Reconcile, ReconcileRaises, Outside, SubmitQueued,
         SubmitWithoutTool, OutsideUpdate, OutsideRecover, runVars, threadVars

\* Only a submitter changes whose thread a cancellation is.
LEMMA ByStays ==
  ASSUME LInv, Next, \A o \in Owner, k \in Kinds : ~SubmitIntent(o, k)
  PROVE  by' = by
BY EnteringMoves, ApplyingMoves, WorkingMoves
   DEF Next, Moves, Submitting, SubmitUncancellable, SubmitDuplicate, Begin,
       BeginRaises, Closing, StartClose, Abandon, RecoverOnClose, EndClose, Thread,
       CallBack, CallbackEnds, Reconcile, ReconcileRaises, Outside, SubmitQueued,
       SubmitWithoutTool, OutsideUpdate, OutsideRecover, CrashProcess, runVars, threadVars

\* The open cancellations stay those of one loop, and fenced by it.
LEMMA OpenStep ==
  ASSUME LInv, BInv, Next
  PROVE  OpenIsOne' /\ FenceJustified'
<1>1. ASSUME NEW o \in Owner, NEW k \in Kinds, SubmitIntent(o, k)
      PROVE  OpenIsOne' /\ FenceJustified'
  <2>1. PICK c \in Control : Opens(c, k, o)
    BY <1>1, IntentOpens
  <2>2. \A d \in Unreconciled \union {c} : can'[d] = o /\ by'[d] = o
    <3>1. \A d \in Unreconciled : can[d] = o /\ by[d] = o
      BY <2>1 DEF Opens, BInv, OpenIsOne
    <3>2. can \in [Control -> Holder] /\ by \in [Control -> Holder] /\ Unreconciled \subseteq Control
      BY DEF LInv, QInv, TypeOK, LoopTypeOK, Unreconciled
    <3>3. QED BY <2>1, <3>1, <3>2 DEF Opens
  <2>3. \A x \in Owner : Running(x)' => x = o
    BY <2>1, RunsAlone DEF Opens, Running
  <2>4. QED BY <2>1, <2>2, <2>3, NoneIsNoOwner DEF Opens, OpenIsOne, FenceJustified
<1>2. ASSUME NEW o \in Owner, EnterScope(o)
      PROVE  OpenIsOne' /\ FenceJustified'
  <2>1. Unreconciled' = {} /\ fence' = fence
    BY <1>2, EntryIsClean DEF Unreconciled, Open
  <2>2. fence = None
    BY <1>2 DEF EnterScope, ClaimExecution, MayExecute
  <2>3. QED BY <2>1, <2>2 DEF OpenIsOne, FenceJustified
<1>3. ASSUME \A o \in Owner, k \in Kinds : ~SubmitIntent(o, k), \A o \in Owner : ~EnterScope(o)
      PROVE  OpenIsOne' /\ FenceJustified'
  <2>1. (\A x \in Owner : Running(x)' => Running(x)) /\ by' = by
    BY <1>3, NobodyStarts, ByStays
  <2>2. CASE QuietNext
    <3>1. /\ Unreconciled' \subseteq Unreconciled /\ \A c \in Unreconciled' : can'[c] = can[c]
          /\ fence' \in {fence, None} /\ (fence' # None => Unreconciled' # {})
      BY <2>2, QuietShrinks DEF BInv, OpenIsOne, LInv
    <3>2. QED BY <2>1, <3>1 DEF BInv, OpenIsOne, FenceJustified
  <2>3. CASE UNCHANGED queueVars
    <3>1. Unreconciled' = Unreconciled /\ can' = can /\ fence' = fence
      BY <2>3 DEF queueVars, Unreconciled, Open
    <3>2. QED BY <2>1, <3>1 DEF BInv, OpenIsOne, FenceJustified
  <2>4. QED BY <1>3, <2>2, <2>3, LoopQuiet
<1>4. QED BY <1>1, <1>2, <1>3

\* The steps that write the state of a control.
LEMMA StateWriters ==
  ASSUME LInv, Next, NEW c \in Control, state'[c] # state[c],
         \A o \in Owner : ~ClaimControl(o), \A o \in Owner, k \in Kinds : ~SubmitIntent(o, k)
  PROVE  \/ \E d \in Control, k \in Kinds : Enqueue(d, k) \/ EnqueueReady(d, k)
         \/ \E o \in Owner, d \in Control, r \in {"applied", "failed"} : Finish(d, o, r)
         \/ \E o \in Owner : RecoverProcessing(o)
<1> DEFINE Goal == \/ \E d \in Control, k \in Kinds : Enqueue(d, k) \/ EnqueueReady(d, k)
                   \/ \E o \in Owner, d \in Control, r \in {"applied", "failed"} : Finish(d, o, r)
                   \/ \E o \in Owner : RecoverProcessing(o)
<1> USE DEF taskRows, controlRows, queueVars
<1>1. ASSUME NEW o \in Owner, Entering(o)
      PROVE  Goal
  BY <1>1 DEF Entering, Run, RecoverOnEntry, Recovering, EnterScope, ScopeRefused, Recheck,
     Requeue, RecoverInScope, Register, RecoverCancellations, ClaimExecution, UpdateTask
<1>2. ASSUME NEW o \in Owner, Applying(o)
      PROVE  Goal
  <2>1. pc[o] \in {"finishing", "failing"} => cur[o] \in Control
    BY DEF LInv, Lifetimes, LoopLives
  <2>2. QED
    BY <1>2, <2>1 DEF Applying, Blocked, Unblocked, NothingToClaim, ApplyControl, ApplyRaises,
       FinishControl, FinishThenLost, FinishRaises, FailControl, UpdateTask
<1>3. ASSUME NEW o \in Owner, Working(o)
      PROVE  Goal
  BY <1>3 DEF Working, Model, ModelFails, GuardTrips, Continue, Complete, StartTool, EndTool,
     Settle, Stop, RunRaises, Leave, ReleaseExecution, UpdateTask
<1>4. ASSUME NEW o \in Owner, Submitting(o)
      PROVE  Goal
  BY <1>4 DEF Submitting, SubmitUncancellable, SubmitDuplicate, Begin, BeginRaises,
     BeginCancellation, ResolveUnattempted
<1>5. ASSUME NEW o \in Owner, Closing(o)
      PROVE  Goal
  BY <1>5 DEF Closing, StartClose, Abandon, RecoverOnClose, EndClose, AbandonCancellation,
     ReconcileAmbiguous, RecoverCancellations
<1>6. ASSUME NEW d \in Control, Thread(d)
      PROVE  Goal
  BY <1>6 DEF Thread, CallBack, CallbackEnds, Reconcile, ReconcileRaises, ReconcileReported,
     ReconcileAmbiguous
<1>7. CASE Outside
  BY <1>7 DEF Outside, SubmitQueued, SubmitWithoutTool, OutsideUpdate, OutsideRecover,
     UpdateTask, RecoverTask, CrashProcess, Crash
<1>8. QED
  BY <1>1, <1>2, <1>3, <1>4, <1>5, <1>6, <1>7 DEF Next

\* What a step may do to one control: enqueue it, claim it for a loop that
\* applies it, finish it, or put it back.
ClaimedBy(c, o) == ClaimControl(o) /\ cur'[o] = c /\ pc'[o] = "applying"
StateStep(c) ==
    \/ state'[c] = state[c]
    \/ state[c] = "none" /\ state'[c] = "pending"
    \/ state[c] = "pending" /\ \E o \in Owner : ClaimedBy(c, o)
    \/ state[c] = "processing" /\ state'[c] \in {"pending", "applied", "failed"}

\* Only the loop that claims a control puts it into processing.
LEMMA StateSteps ==
  ASSUME LInv, BInv, Next, NEW c \in Control
  PROVE  StateStep(c)
<1> USE DEF StateStep
<1>1. ASSUME NEW o \in Owner, ClaimControl(o)
      PROVE  StateStep(c)
  <2>1. PICK d \in Control : ClaimNext(d, o) /\ cur' = [cur EXCEPT ![o] = d]
    BY <1>1 DEF ClaimControl
  <2>2. pc'[o] = "applying" /\ cur'[o] = d /\ state[d] = "pending"
        /\ (d # c => state'[c] = state[c])
    BY <1>1, <2>1 DEF ClaimControl, Goto, ClaimNext, IsHead, Pending, LInv, LoopTypeOK, TypeOK
  <2>3. QED BY <1>1, <2>2 DEF ClaimedBy
<1>2. ASSUME NEW d \in Control, NEW k \in Kinds, Enqueue(d, k) \/ EnqueueReady(d, k)
      PROVE  StateStep(c)
  <2>1. state[d] = "none" /\ state' = [state EXCEPT ![d] = "pending"]
    BY <1>2 DEF Enqueue, EnqueueReady, Insert, Fresh
  <2>2. QED BY <2>1 DEF LInv, QInv, TypeOK
<1>3. ASSUME NEW o \in Owner, NEW d \in Control, NEW r \in {"applied", "failed"}, Finish(d, o, r)
      PROVE  StateStep(c)
  BY <1>3 DEF Finish, LInv, QInv, TypeOK
<1>4. ASSUME NEW o \in Owner, RecoverProcessing(o)
      PROVE  StateStep(c)
  BY <1>4 DEF RecoverProcessing, Orphaned
<1>5. ASSUME NEW o \in Owner, NEW k \in Kinds, SubmitIntent(o, k)
      PROVE  StateStep(c)
  <2>1. PICK d \in Control : Opens(d, k, o)
    BY <1>5, IntentOpens
  <2>2. state[d] = "none" /\ state'[d] = "pending" /\ (c # d => state'[c] = state[c])
    BY <2>1 DEF Opens
  <2>3. QED BY <2>2
<1>6. ASSUME \A o \in Owner : ~ClaimControl(o), \A o \in Owner, k \in Kinds : ~SubmitIntent(o, k),
             state'[c] # state[c]
      PROVE  StateStep(c)
  <2> HIDE DEF StateStep
  <2>1. \/ \E d \in Control, k \in Kinds : Enqueue(d, k) \/ EnqueueReady(d, k)
        \/ \E o \in Owner, d \in Control, r \in {"applied", "failed"} : Finish(d, o, r)
        \/ \E o \in Owner : RecoverProcessing(o)
    BY <1>6, StateWriters
  <2>2. QED BY <1>2, <1>3, <1>4, <2>1
<1>7. QED BY <1>1, <1>5, <1>6

\* A cancellation becomes ambiguous while its control is pending, and is
\* reported by its thread at the end.
LEMMA CancelSteps ==
  ASSUME LInv, BInv, Next, NEW c \in Control
  PROVE  /\ cancel'[c] = "ambiguous" =>
              cancel[c] = "ambiguous" \/ (state[c] = "pending" /\ state'[c] = "pending")
         /\ cancel'[c] = "reported" => cancel[c] = "reported" \/ cb'[c] = "over"
<1> DEFINE Goal == /\ cancel'[c] = "ambiguous" =>
                        cancel[c] = "ambiguous" \/ (state[c] = "pending" /\ state'[c] = "pending")
                   /\ cancel'[c] = "reported" => cancel[c] = "reported" \/ cb'[c] = "over"
<1> USE DEF taskRows, controlRows, queueVars
<1>1. cancel \in [Control -> {"none", "intent", "attempting"} \union Outcomes]
      /\ cb \in [Control -> {"none", "over"} \union LiveThread \union Parked]
  BY DEF LInv, QInv, TypeOK, LoopTypeOK
<1>2. ASSUME NEW o \in Owner, NEW lapsed \in SUBSET Lapsable, RecoverCancellations(o, lapsed)
      PROVE  Goal
  <2>1. /\ cancel'[c] \in {cancel[c], "ambiguous", "unattempted"} /\ state' = state
        /\ cancel'[c] = "ambiguous" => cancel[c] = "ambiguous" \/ state[c] = "pending"
    BY <1>2, RecoverySettles
  <2>2. QED BY <2>1
<1>3. ASSUME NEW o \in Owner, Entering(o)
      PROVE  Goal
  BY <1>2, <1>3 DEF Entering, Run, RecoverOnEntry, Recovering, EnterScope, ScopeRefused, Recheck,
     Requeue, RecoverInScope, Register, ClaimExecution, UpdateTask, RecoverProcessing
<1>4. ASSUME NEW o \in Owner, Applying(o)
      PROVE  Goal
  BY <1>4 DEF Applying, Blocked, Unblocked, ClaimControl, NothingToClaim, ApplyControl, ApplyRaises,
     FinishControl, FinishThenLost, FinishRaises, FailControl, UpdateTask, ClaimNext, Finish
<1>5. ASSUME NEW o \in Owner, Working(o)
      PROVE  Goal
  BY <1>5 DEF Working, Model, ModelFails, GuardTrips, Continue, Complete, StartTool, EndTool,
     Settle, Stop, RunRaises, Leave, ReleaseExecution, UpdateTask
<1>6. ASSUME NEW d \in Control, NEW k \in Kinds, Enqueue(d, k) \/ EnqueueReady(d, k)
      PROVE  Goal
  BY <1>1, <1>6 DEF Enqueue, EnqueueReady, Insert
<1>7. ASSUME NEW o \in Owner, Submitting(o)
      PROVE  Goal
  <2>1. ASSUME NEW k \in Kinds, SubmitIntent(o, k)
        PROVE  Goal
    <3>1. PICK d \in Control : Opens(d, k, o)
      BY <2>1, IntentOpens
    <3>2. cancel'[d] = "intent" /\ (c # d => cancel'[c] = cancel[c])
      BY <3>1 DEF Opens
    <3>3. QED BY <3>2
  <2>2. ASSUME NEW d \in Control, BeginCancellation(d, o) \/ ResolveUnattempted(d, o)
        PROVE  Goal
    BY <1>1, <2>2 DEF BeginCancellation, ResolveUnattempted
  <2>3. sub[o] # 0 => sub[o] \in Control
    BY LoopFacts
  <2>4. QED
    BY <1>6, <1>7, <2>1, <2>2, <2>3 DEF Submitting, SubmitUncancellable, SubmitDuplicate, Begin,
       BeginRaises
<1>8. ASSUME NEW o \in Owner, Closing(o)
      PROVE  Goal
  BY <1>1, <1>2, <1>8 DEF Closing, StartClose, Abandon, RecoverOnClose, EndClose,
     AbandonCancellation, ReconcileAmbiguous
<1>9. ASSUME NEW d \in Control, Thread(d)
      PROVE  Goal
  BY <1>1, <1>9 DEF Thread, CallBack, CallbackEnds, Reconcile, ReconcileRaises, ReconcileReported,
     ReconcileAmbiguous
<1>10. CASE Outside
  <2>1. CASE \E k \in Kinds : SubmitQueued(k) \/ SubmitWithoutTool(k)
    BY <1>6, <2>1 DEF SubmitQueued, SubmitWithoutTool
  <2>2. QED
    BY <1>10, <2>1 DEF Outside, OutsideUpdate, OutsideRecover, UpdateTask, RecoverTask, CrashProcess,
       Crash
<1>11. QED
  BY <1>3, <1>4, <1>5, <1>7, <1>8, <1>9, <1>10 DEF Next

\* A callback is begun by the submitting thread of its control.
LEMMA LiveSteps ==
  ASSUME LInv, Next, NEW c \in Control, Live(c)'
  PROVE  Live(c) \/ \E o \in Owner : Begin(o) /\ sub[o] = c
<1> USE DEF Live
<1>1. cb \in [Control -> {"none", "over"} \union LiveThread \union Parked]
  BY DEF LInv, LoopTypeOK
<1>2. ASSUME NEW d \in Control, Thread(d)
      PROVE  Live(c)
  BY <1>1, <1>2 DEF Thread, CallBack, CallbackEnds, Reconcile, ReconcileRaises
<1>3. ASSUME NEW o \in Owner, Begin(o), sub[o] # c
      PROVE  Live(c)
  BY <1>1, <1>3 DEF Begin
<1>4. ASSUME NEW p \in Process, CrashProcess(p)
      PROVE  Live(c)
  BY <1>4 DEF CrashProcess
<1>5. QED
  BY <1>2, <1>3, <1>4, EnteringMoves, ApplyingMoves, WorkingMoves
     DEF Next, Moves, Submitting, SubmitUncancellable, SubmitDuplicate, SubmitIntent,
         BeginRaises, Closing, StartClose, Abandon, RecoverOnClose, EndClose, Outside,
         SubmitQueued, SubmitWithoutTool, OutsideUpdate, OutsideRecover, runVars, threadVars

\* A loop goes on by its own step or dies.
LEMMA PcSteps ==
  ASSUME LInv, Next, NEW o \in Owner
  PROVE  \/ Entering(o) \/ Applying(o) \/ Working(o)
         \/ pc'[o] = "dead"
         \/ pc'[o] = pc[o] /\ cur'[o] = cur[o]
<1>1. ASSUME NEW x \in Owner, x # o, Entering(x) \/ Applying(x) \/ Working(x)
      PROVE  pc'[o] = pc[o] /\ cur'[o] = cur[o]
  BY <1>1, EnteringMoves, ApplyingMoves, WorkingMoves DEF Moves
<1>2. QED
  BY <1>1 DEF Next, Submitting, SubmitUncancellable, SubmitDuplicate, SubmitIntent, Begin,
     BeginRaises, Closing, StartClose, Abandon, RecoverOnClose, EndClose, Thread, CallBack,
     CallbackEnds, Reconcile, ReconcileRaises, Outside, SubmitQueued, SubmitWithoutTool,
     OutsideUpdate, OutsideRecover, CrashProcess, runVars

\* The controls of a tool are forgotten before the next one and only join while
\* it runs.
LEMMA OpSteps ==
  ASSUME LInv, BInv, Next
  PROVE  \/ op' = op
         \/ op' = {} /\ \E o \in Owner : pc[o] \in {"register", "decide"}
         \/ \E c \in Control, o \in Owner :
              op' = op \union {c} /\ state'[c] = "pending" /\ pc[o] \in ToolPcs
<1> USE DEF runVars, threadVars
<1>1. ASSUME NEW o \in Owner, Submitting(o), op' # op
      PROVE  \E c \in Control : op' = op \union {c} /\ state'[c] = "pending" /\ pc[o] \in ToolPcs
  <2>1. ASSUME NEW k \in Kinds, SubmitIntent(o, k)
        PROVE  \E c \in Control : op' = op \union {c} /\ state'[c] = "pending" /\ pc[o] \in ToolPcs
    BY ZenonT(60), <2>1, IntentOpens DEF Opens, ToolPcs
  <2>2. ASSUME NEW k \in Kinds, SubmitUncancellable(o, k) \/ SubmitDuplicate(o, k)
        PROVE  \E c \in Control : op' = op \union {c} /\ state'[c] = "pending" /\ pc[o] \in ToolPcs
    <3>1. PICK c \in Control : EnqueueReady(c, k) /\ op' = op \union {c}
      BY <2>2 DEF SubmitUncancellable, SubmitDuplicate
    <3>2. state'[c] = "pending"
      BY <3>1 DEF EnqueueReady, Insert, LInv, QInv, TypeOK
    <3>3. pc[o] \in ToolPcs
      BY <2>2 DEF SubmitUncancellable, SubmitDuplicate, ToolPcs
    <3>4. QED BY <3>1, <3>2, <3>3
  <2>3. QED BY <1>1, <2>1, <2>2 DEF Submitting, Begin, BeginRaises
<1>2. ASSUME NEW o \in Owner, Entering(o) \/ Applying(o) \/ Working(o)
      PROVE  op' = op \/ (op' = {} /\ pc[o] \in {"register", "decide"})
  BY <1>2 DEF Entering, Run, RecoverOnEntry, Recovering, EnterScope, ScopeRefused,
     Recheck, Requeue, RecoverInScope, Register, Applying, Blocked, Unblocked, ClaimControl,
     NothingToClaim, ApplyControl, ApplyRaises, FinishControl, FinishThenLost, FinishRaises,
     FailControl, RaiseControls, Working, Model, ModelFails, GuardTrips, RunRaises, Continue,
     Complete, StartTool, EndTool, Settle, Stop, Leave
<1>3. QED
  BY <1>1, <1>2 DEF Next, Closing, StartClose, Abandon, RecoverOnClose, EndClose, Thread,
     CallBack, CallbackEnds, Reconcile, ReconcileRaises, Outside, SubmitQueued,
     SubmitWithoutTool, OutsideUpdate, OutsideRecover, CrashProcess

\* A loop passes the boundary only where no cancellation is open.
LEMMA NoneOpenStep ==
  ASSUME LInv, BInv, Next
  PROVE  NoneOpen'
<1> SUFFICES ASSUME NEW o \in Owner, pc'[o] \in Closed
             PROVE  Unreconciled' = {}
  BY DEF NoneOpen
<1>1. pc[o] \in Closed \/ Unblocked(o)
  <2>1. ASSUME Entering(o) \/ Applying(o) \/ Working(o)
        PROVE  pc[o] \in Closed \/ Unblocked(o)
    BY <2>1 DEF LInv, LoopTypeOK, Closed, ToolPcs, Goto, GotoBoundary, Entering, Run, RecoverOnEntry,
       Recovering, EnterScope, ScopeRefused, Recheck, Requeue, RecoverInScope, Register, Applying,
       Blocked, ClaimControl, NothingToClaim, ApplyControl, ApplyRaises, FinishControl,
       FinishThenLost, FinishRaises, FailControl, RaiseControls, Working, Model, ModelFails,
       GuardTrips, RunRaises, Continue, Complete, StartTool, EndTool, Settle, Stop, Leave
  <2>2. QED BY <2>1, PcSteps DEF Closed
<1>2. Unreconciled = {} /\ Running(o)
  BY <1>1 DEF Unblocked, BInv, NoneOpen, Closed, Running, OwningPcs
<1>3. ASSUME NEW x \in Owner, NEW k \in Kinds, SubmitIntent(x, k)
      PROVE  FALSE
  <2>1. Running(x) /\ pc[x] = "cancellable tool" /\ pc' = pc
    BY <1>3, IntentOpens DEF Opens
  <2>2. x = o
    BY <1>2, <2>1, RunsAlone
  <2>3. QED BY <2>1, <2>2 DEF Closed
<1>4. CASE QuietNext
  BY <1>2, <1>4, QuietShrinks DEF BInv, OpenIsOne, LInv
<1>5. CASE UNCHANGED queueVars
  BY <1>2, <1>5 DEF queueVars, Unreconciled, Open
<1>6. QED BY <1>3, <1>4, <1>5, LoopQuiet

\* A control in the hands of a loop stays there until it is finished.
LEMMA StoppingStays ==
  ASSUME LInv, Next, NEW o \in Owner, NEW c \in Control, Stopping(o, c), Running(o)'
  PROVE  \/ Stopping(o, c)'
         \/ state'[c] = "applied" /\ ~Stops(c)
<1> USE DEF Stopping
<1>1. pc \in [Owner -> OwningPcs \union {"idle", "enter", "claim", "dead"}]
      /\ cur \in [Owner -> Control \union {0}] /\ state \in [Control ->
           {"none", "pending", "processing", "applied", "failed"}]
  BY DEF LInv, LoopTypeOK, QInv, TypeOK
<1>2. CASE Entering(o)
  BY <1>1, <1>2 DEF Entering, Run, RecoverOnEntry, Recovering, EnterScope, ScopeRefused, Recheck,
     Requeue, RecoverInScope, Register
<1>3. CASE Applying(o)
  <2>1. CASE FinishControl(o)
    <3>1. state'[cur[o]] = "applied" \/ cur[o] \notin Control
      BY <1>1, <2>1 DEF FinishControl, Finish
    <3>2. QED BY <1>1, <2>1, <3>1 DEF FinishControl, Goto
  <2>2. QED
    BY <1>1, <1>3, <2>1 DEF Applying, Blocked, Unblocked, ClaimControl, NothingToClaim, ApplyControl,
       ApplyRaises, FinishThenLost, FinishRaises, FailControl, RaiseControls, Goto
<1>4. CASE Working(o)
  BY <1>1, <1>4 DEF Working, Model, ModelFails, GuardTrips, RunRaises, Continue, Complete, StartTool,
     EndTool, Settle, Stop, Leave, RaiseControls, Goto, GotoBoundary, ToolPcs, Running, OwningPcs
<1>5. QED
  BY <1>2, <1>3, <1>4, PcSteps DEF Running, OwningPcs, ToolPcs

\* The loop that claims a control, while a loop runs, is that loop.
LEMMA ClaimedByRunner ==
  ASSUME LInv, NEW o \in Owner, Running(o), NEW x \in Owner, NEW c \in Control, ClaimedBy(c, x)
  PROVE  Stopping(o, c)'
<1>1. Running(x)
  BY DEF ClaimedBy, ClaimControl, Running, OwningPcs
<1>2. x = o
  BY <1>1, RunsAlone
<1>3. QED BY <1>2 DEF ClaimedBy, Stopping

\* An ambiguous cancellation goes on to stop the loop that runs.
LEMMA AmbiguousStep ==
  ASSUME LInv, BInv, Next
  PROVE  AmbiguousStops'
<1> SUFFICES ASSUME NEW o \in Owner, NEW c \in Control, Running(o)', cancel'[c] = "ambiguous"
             PROVE  state'[c] = "pending" \/ Stopping(o, c)'
  BY DEF AmbiguousStops
<1>1. CASE state[c] = "pending" /\ state'[c] = "pending"
  BY <1>1
<1>2. CASE cancel[c] = "ambiguous"
  <2>1. Running(o)
    <3>1. \A x \in Owner : ~EnterScope(x)
      BY <1>2, EntryIsClean
    <3>2. QED BY <3>1, NobodyStarts
  <2>2. CASE Stopping(o, c)
    BY <1>2, <2>2, StoppingStays DEF Stops
  <2>3. CASE state[c] = "pending"
    <3>1. ASSUME NEW x \in Owner, ClaimedBy(c, x)
          PROVE  Stopping(o, c)'
      BY <2>1, <3>1, ClaimedByRunner
    <3>2. QED BY <2>3, <3>1, StateSteps DEF StateStep
  <2>4. QED BY <1>2, <2>1, <2>2, <2>3 DEF BInv, AmbiguousStops
<1>3. QED BY <1>1, <1>2, CancelSteps

\* Only the one loop that runs has a tool, and so the controls of a tool.
LEMMA OpGrows ==
  ASSUME LInv, BInv, Next, NEW c \in op, NEW o \in Owner, Running(o),
         pc[o] \notin {"register", "decide"}
  PROVE  c \in op'
<1>1. ASSUME NEW x \in Owner, pc[x] \in {"register", "decide"}
      PROVE  FALSE
  <2>1. Running(x)
    BY <1>1 DEF Running, OwningPcs
  <2>2. QED BY <1>1, <2>1, RunsAlone
<1>2. QED BY <1>1, OpSteps

\* The controls of a tool exist, and those in processing are in a loop's hands.
LEMMA OpInHandStep ==
  ASSUME LInv, BInv, Next
  PROVE  OpInHand'
<1> SUFFICES ASSUME NEW o \in Owner, NEW c \in Control, c \in op'
             PROVE  /\ state'[c] # "none"
                    /\ Registered(o)' /\ state'[c] = "processing" => Stopping(o, c)'
  BY DEF OpInHand
<1>1. CASE state'[c] = "pending"
  BY <1>1
<1>2. CASE c \in op
  <2>1. state[c] # "none"
    BY <1>2 DEF BInv, OpInHand
  <2>2. state'[c] # "none"
    BY <2>1, LoopStepsQueue, QueueBirths DEF LInv
  <2>3. ASSUME Registered(o)', state'[c] = "processing"
        PROVE  Stopping(o, c)'
    <3>1. CASE ~Registered(o)
      <4>1. ASSUME Entering(o) \/ Applying(o) \/ Working(o)
            PROVE  Stopping(o, c)'
        <5>1. pc' = [pc EXCEPT ![o] = "leaving"] \/ (Register(o) /\ op' = {})
          BY ZenonT(60), <2>3, <3>1, <4>1 DEF LInv, LoopTypeOK, Registered, Running, OwningPcs, ToolPcs, Goto,
             GotoBoundary, Entering, Run, RecoverOnEntry, Recovering, EnterScope, ScopeRefused,
             Recheck, Requeue, RecoverInScope, Register, Applying, Blocked, Unblocked, ClaimControl,
             NothingToClaim, ApplyControl, ApplyRaises, FinishControl, FinishThenLost, FinishRaises,
             FailControl, Working, Model, ModelFails, GuardTrips, RunRaises, Continue, Complete,
             StartTool, EndTool, Settle, Stop, Leave, RaiseControls
        <5>2. QED BY <5>1 DEF Stopping, LInv, LoopTypeOK
      <4>2. QED
        BY <2>3, <3>1, <4>1, PcSteps DEF Registered, Running, OwningPcs, ToolPcs
    <3>2. CASE Registered(o)
      <4>1. Running(o) /\ Running(o)'
        BY <2>3, <3>2 DEF Registered
      <4>2. CASE state[c] = "processing"
        <5>1. Stopping(o, c)
          BY <1>2, <3>2, <4>2 DEF BInv, OpInHand
        <5>2. QED BY <2>3, <4>1, <5>1, StoppingStays
      <4>3. CASE state[c] # "processing"
        <5>1. \E x \in Owner : ClaimedBy(c, x)
          BY <2>3, <4>3, StateSteps DEF StateStep
        <5>2. QED BY <4>1, <5>1, ClaimedByRunner
      <4>4. QED BY <4>2, <4>3
    <3>3. QED BY <3>1, <3>2
  <2>4. QED BY <2>2, <2>3
<1>3. QED BY <1>1, <1>2, OpSteps

\* An intent is submitted while its tool runs, and the tool waits for it.
LEMMA SubInToolStep ==
  ASSUME LInv, BInv, Next
  PROVE  SubInTool'
<1> SUFFICES ASSUME NEW o \in Owner, sub'[o] # 0
             PROVE  pc'[o] = "cancellable tool" /\ sub'[o] \in op'
  BY DEF SubInTool
<1>1. ASSUME NEW k \in Kinds, SubmitIntent(o, k)
      PROVE  pc'[o] = "cancellable tool" /\ sub'[o] \in op'
  <2>1. PICK c \in Control : Opens(c, k, o)
    BY <1>1, IntentOpens
  <2>2. pc' = pc /\ pc[o] = "cancellable tool" /\ sub' = [sub EXCEPT ![o] = c] /\ c \in op'
    BY <2>1 DEF Opens
  <2>3. QED BY <2>2 DEF LInv, LoopTypeOK
<1>2. CASE \A k \in Kinds : ~SubmitIntent(o, k)
  <2>1. sub'[o] = sub[o] /\ pc'[o] # "dead"
    <3>1. ASSUME NEW x \in Owner, Submitting(x)
          PROVE  sub'[o] = sub[o] /\ pc' = pc
      <4>1. ASSUME NEW k \in Kinds, SubmitIntent(x, k)
            PROVE  sub'[o] = sub[o] /\ pc' = pc
        <5>1. PICK c \in Control : sub' = [sub EXCEPT ![x] = c]
          BY <4>1 DEF SubmitIntent
        <5>2. x # o /\ pc' = pc
          BY <1>2, <4>1 DEF SubmitIntent, runVars
        <5>3. QED BY <5>1, <5>2 DEF LInv, LoopTypeOK
      <4>2. CASE \A k \in Kinds : ~SubmitIntent(x, k)
        BY <3>1, <4>2 DEF LInv, LoopTypeOK, Submitting, SubmitUncancellable, SubmitDuplicate, Begin,
           BeginRaises, runVars
      <4>3. QED BY <4>1, <4>2
    <3>2. ASSUME NEW x \in Owner, Entering(x) \/ Applying(x) \/ Working(x)
          PROVE  sub'[o] = sub[o] /\ (pc'[o] = pc[o] \/ pc'[o] # "dead")
      BY <3>2, EnteringMoves, ApplyingMoves, WorkingMoves DEF Moves
    <3>3. ASSUME NEW p \in Process, CrashProcess(p)
          PROVE  sub'[o] = sub[o] /\ pc'[o] = pc[o]
      BY <3>3 DEF CrashProcess
    <3>4. sub'[o] = sub[o] /\ (pc'[o] = pc[o] \/ pc'[o] # "dead")
      BY <3>1, <3>2, <3>3 DEF Next, Closing, StartClose, Abandon, RecoverOnClose, EndClose, Thread,
         CallBack, CallbackEnds, Reconcile, ReconcileRaises, Outside, SubmitQueued,
         SubmitWithoutTool, OutsideUpdate, OutsideRecover, runVars, threadVars
    <3>5. QED BY <3>4 DEF BInv, SubInTool
  <2>2. pc[o] = "cancellable tool" /\ sub[o] \in op /\ sub[o] # 0
    BY <2>1 DEF BInv, SubInTool
  <2>3. pc'[o] = pc[o]
    <3>1. ~Entering(o) /\ ~Applying(o) /\ ~Working(o)
      BY <2>2 DEF ToolPcs, Entering, Run, RecoverOnEntry, EnterScope, ScopeRefused,
         Recheck, Requeue, RecoverInScope, Register, Applying, Blocked, Unblocked, ClaimControl,
         NothingToClaim, ApplyControl, ApplyRaises, FinishControl, FinishThenLost, FinishRaises,
         FailControl, Working, Model, ModelFails, GuardTrips, RunRaises, Continue, Complete,
         StartTool, EndTool, Settle, Stop, Leave
    <3>2. QED BY <2>1, <3>1, PcSteps
  <2>4. sub[o] \in op'
    BY <2>2, OpGrows DEF Running, OwningPcs, ToolPcs
  <2>5. QED BY <2>1, <2>2, <2>3, <2>4
<1>3. QED BY <1>1, <1>2

\* A reported callback has returned, and is not begun again.
LEMMA ReportedStep ==
  ASSUME LInv, BInv, Next
  PROVE  ReportedIsOver'
<1> SUFFICES ASSUME NEW c \in Control, cancel'[c] = "reported", Live(c)'
             PROVE  FALSE
  BY DEF ReportedIsOver
<1>1. cancel[c] = "reported"
  BY CancelSteps DEF Live
<1>2. ASSUME NEW o \in Owner, Begin(o), sub[o] = c
      PROVE  FALSE
  BY <1>1, <1>2 DEF Begin, BeginCancellation
<1>3. QED BY <1>1, <1>2, LiveSteps DEF BInv, ReportedIsOver

\* Whoever enqueues a control gives it a kind.
LEMMA KindStep ==
  ASSUME QInv, HasKind, QueueNext
  PROVE  HasKind'
<1> SUFFICES ASSUME NEW c \in Control, state'[c] # "none"
             PROVE  kind'[c] # "none"
  BY DEF HasKind
<1> USE DEF HasKind, taskRows, controlRows
<1>1. ASSUME NEW d \in Control, NEW k \in Kinds, NEW x \in {"none", "unattempted", "intent"},
             Insert(d, k, x)
      PROVE  kind'[c] # "none"
  <2>1. /\ kind' = [kind EXCEPT ![d] = k] /\ k # "none"
        /\ c # d => state'[c] = state[c]
    BY <1>1, KindsAreControlKinds DEF Insert, AllKinds, Immediate, QInv, TypeOK
  <2>2. QED BY <2>1 DEF QInv, TypeOK
<1>2. ASSUME NEW o \in Owner, ByOwner(o), \A d \in Control, k \in Kinds : ~Insert(d, k, "intent")
      PROVE  kind' = kind /\ (state[c] = "none" => state'[c] = "none")
  BY <1>2 DEF ByOwner, EnqueueIntent, BeginCancellation, ResolveUnattempted, ReconcileReported,
     ReconcileAmbiguous, AbandonCancellation, ClaimNext, IsHead, Pending, Finish,
     RecoverCancellations, RecoverProcessing, Orphaned, ClaimExecution, ReleaseExecution, QInv, TypeOK
<1>3. CASE \E o \in Owner : ByOwner(o)
  BY <1>1, <1>2, <1>3
<1>4. CASE ByAnyone
  BY <1>1, <1>4 DEF ByAnyone, Enqueue, EnqueueReady, UpdateTask, RecoverTask
<1>5. CASE \E p \in Process : Crash(p)
  BY <1>5 DEF Crash
<1>6. QED BY <1>3, <1>4, <1>5 DEF QueueNext

\* Where a loop finds nothing to claim, nothing is pending.
LEMMA NothingPends ==
  ASSUME LInv, BInv, NEW o \in Owner, NothingToClaim(o)
  PROVE  Unreconciled = {} /\ Pending = {}
<1>1. Unreconciled = {}
  BY DEF NothingToClaim, BInv, NoneOpen, Closed
<1>2. ASSUME Pending # {}
      PROVE  FALSE
  <2>1. \A c \in Pending : kind[c] \in AllKinds
    BY DEF Pending, BInv, HasKind, LInv, QInv, TypeOK
  <2>2. PICK c \in Control : IsHead(c)
    BY <1>2, <2>1, HeadExists DEF LInv, QInv, TypeOK
  <2>3. state[c] = "pending"
    BY <2>2 DEF IsHead, Pending
  <2>4. Ready(c)
    BY <1>1, <2>3 DEF Ready, Unreconciled, Open
  <2>5. Claimable(proc, own[c], o)
    BY <2>3 DEF LInv, QInv, OneProcessor, Claimable, Active
  <2>6. QED BY <2>2, <2>4, <2>5 DEF NothingToClaim
<1>3. QED BY <1>1, <1>2

\* A loop comes to its decision with nothing behind it, and nothing joins it there.
LEMMA DecidesStep ==
  ASSUME LInv, BInv, Next
  PROVE  DecidesClean'
<1> SUFFICES ASSUME NEW o \in Owner, pc'[o] = "decide", NEW c \in Control
             PROVE  ~Live(c)' /\ (c \in op' => state'[c] \in {"applied", "failed"})
  BY DEF DecidesClean
<1>1. CASE pc[o] = "decide"
  <2>1. Running(o) /\ ~Live(c) /\ (c \in op => state[c] \in {"applied", "failed"})
    BY <1>1 DEF BInv, DecidesClean, Running, OwningPcs
  <2>2. ASSUME NEW x \in Owner, pc[x] \in ToolPcs
        PROVE  FALSE
    <3>1. x = o
      BY <2>1, <2>2, RunsAlone DEF Running, OwningPcs
    <3>2. QED BY <1>1, <2>2, <3>1 DEF ToolPcs
  <2>3. ~Live(c)'
    <3>1. ASSUME NEW x \in Owner, Begin(x)
          PROVE  FALSE
      <4>1. pc[x] \in ToolPcs
        BY <3>1 DEF Begin, BInv, SubInTool, ToolPcs
      <4>2. QED BY <2>2, <4>1
    <3>2. QED BY <2>1, <3>1, LiveSteps
  <2>4. op' \subseteq op
    BY <2>2, OpSteps
  <2>5. state[c] \in {"applied", "failed"} => state'[c] = state[c]
    BY StateSteps DEF StateStep
  <2>6. QED BY <2>1, <2>3, <2>4, <2>5
<1>2. CASE pc[o] # "decide"
  <2>1. NothingToClaim(o)
    <3>1. ASSUME Entering(o) \/ Applying(o) \/ Working(o)
          PROVE  NothingToClaim(o)
      BY <1>2, <3>1 DEF LInv, LoopTypeOK, ToolPcs, Goto, GotoBoundary, Entering, Run, RecoverOnEntry,
         Recovering, EnterScope, ScopeRefused, Recheck, Requeue, RecoverInScope, Register, Applying,
         Blocked, Unblocked, ClaimControl, ApplyControl, ApplyRaises, FinishControl,
         FinishThenLost, FinishRaises, FailControl, RaiseControls, Working, Model, ModelFails,
         GuardTrips, RunRaises, Continue, Complete, StartTool, EndTool, Settle, Stop, Leave
    <3>2. QED BY <1>2, <3>1, PcSteps
  <2>2. UNCHANGED <<state, cancel, cb, op>> /\ pc[o] = "claiming"
    BY <2>1 DEF NothingToClaim, queueVars, threadVars
  <2>3. Unreconciled = {} /\ state[c] # "pending"
    BY <2>1, NothingPends DEF Pending
  <2>4. Running(o) /\ Registered(o) /\ ~Stopping(o, c)
    BY <2>2 DEF Registered, Running, OwningPcs, Stopping
  <2>5. ASSUME Live(c)
        PROVE  FALSE
    <3>1. cancel[c] \in {"attempting", "reported", "ambiguous"}
      BY <2>5 DEF Live, LInv, Begun
    <3>2. cancel[c] # "reported"
      BY <2>5 DEF BInv, ReportedIsOver
    <3>3. cancel[c] # "ambiguous"
      BY <2>3, <2>4 DEF BInv, AmbiguousStops
    <3>4. state[c] \in {"none", "processing", "applied", "failed"}
      BY <2>3 DEF LInv, QInv, TypeOK
    <3>5. QED BY <3>1, <3>2, <3>3, <3>4 DEF LInv, QInv, OneProcessor, Ready, Unborn
  <2>6. c \in op => state[c] \in {"applied", "failed"}
    BY <2>3, <2>4 DEF BInv, OpInHand, LInv, QInv, TypeOK
  <2>7. QED BY <2>2, <2>5, <2>6 DEF Live
<1>3. QED BY <1>1, <1>2

\* A callback that runs stays with the tool it was requested for.
LEMMA HitsStep ==
  ASSUME LInv, BInv, Next
  PROVE  CallbackHitsOnlyItsTool'
<1> SUFFICES ASSUME NEW c \in Control, NEW o \in Owner, Live(c)', pc'[o] \in ToolPcs
             PROVE  by'[c] = o /\ c \in op'
  BY DEF CallbackHitsOnlyItsTool
<1>1. pc[o] \in ToolPcs \/ StartTool(o)
  <2>1. \A l : Goto(o, l) => pc'[o] = l
    BY DEF Goto, LInv, LoopTypeOK
  <2>2. ~Entering(o)
    BY <2>1 DEF ToolPcs, GotoBoundary, Entering, Run, RecoverOnEntry, Recovering, EnterScope,
       ScopeRefused, Recheck, Requeue, RecoverInScope, Register
  <2>3. ~Applying(o)
    <3>1. site[o] \in Sites
      BY DEF LInv, LoopTypeOK
    <3>2. ~NothingToClaim(o)
      BY <2>1, <3>1 DEF ToolPcs, GotoBoundary, NothingToClaim, Sites
    <3>3. QED
      BY <2>1, <3>2 DEF ToolPcs, RaiseControls, Applying, Blocked, Unblocked, ClaimControl,
         ApplyControl, ApplyRaises, FinishControl, FinishThenLost, FinishRaises, FailControl
  <2>4. Working(o) => pc[o] \in ToolPcs \/ StartTool(o)
    BY <2>1 DEF ToolPcs, GotoBoundary, RaiseControls, Working, Model, ModelFails, GuardTrips,
       RunRaises, Continue, Complete, EndTool, Settle, Stop, Leave
  <2>5. QED BY <2>2, <2>3, <2>4, PcSteps DEF ToolPcs
<1>2. ~StartTool(o)
  BY DEF StartTool, BInv, DecidesClean, Live
<1>3. Running(o) /\ pc[o] \in ToolPcs
  BY <1>1, <1>2 DEF Running, OwningPcs
<1>4. by[c] = o /\ c \in op
  <2>1. CASE Live(c)
    BY <1>3, <2>1 DEF BInv, CallbackHitsOnlyItsTool
  <2>2. ASSUME NEW x \in Owner, Begin(x), sub[x] = c
        PROVE  by[c] = o /\ c \in op
    <3>1. by[c] = x /\ sub[x] # 0
      BY <2>2, LoopFacts DEF Begin
    <3>2. pc[x] = "cancellable tool" /\ c \in op
      BY <2>2, <3>1 DEF BInv, SubInTool
    <3>3. x = o
      BY <1>3, <3>2, RunsAlone DEF Running, OwningPcs, ToolPcs
    <3>4. QED BY <3>1, <3>2, <3>3
  <2>3. QED BY <2>1, <2>2, LiveSteps
<1>5. by'[c] = by[c]
  <2>1. ASSUME NEW x \in Owner, NEW k \in Kinds, SubmitIntent(x, k)
        PROVE  by'[c] = by[c]
    <3>1. PICK d \in Control : Opens(d, k, x)
      BY <2>1, IntentOpens
    <3>2. state[d] = "none" /\ by' = [by EXCEPT ![d] = x]
      BY <3>1 DEF Opens
    <3>3. by[c] # None
      BY <1>4, NoneIsNoOwner
    <3>4. c # d
      BY <3>2, <3>3 DEF LInv, Lifetimes, ThreadLives
    <3>5. QED BY <3>2, <3>4
  <2>2. QED BY <2>1, ByStays
<1>6. c \in op'
  BY <1>3, <1>4, OpGrows DEF ToolPcs
<1>7. QED BY <1>4, <1>5, <1>6

\* All of it holds initially.
LEMMA BoundaryInit ==
  ASSUME Init
  PROVE  BInv
<1>1. Unreconciled = {}
  BY DEF Init, QueueInit, Unreconciled, Open
<1>2. QED
  BY <1>1 DEF Init, QueueInit, BInv, FenceJustified, OpenIsOne, NoneOpen, AmbiguousStops, OpInHand,
     SubInTool, ReportedIsOver, HasKind, DecidesClean, CallbackHitsOnlyItsTool, Live, ToolPcs,
     Running, OwningPcs

\* And every step keeps it.
LEMMA BoundaryStep ==
  ASSUME LInv, BInv, [Next]_vars
  PROVE  BInv'
<1>1. CASE Next
  <2>1. HasKind'
    <3>1. CASE QueueNext
      BY <3>1, KindStep DEF LInv, BInv
    <3>2. CASE UNCHANGED queueVars
      BY <3>2 DEF queueVars, BInv, HasKind
    <3>3. QED BY <3>1, <3>2, LoopStepsQueue
  <2>2. QED
    BY <1>1, <2>1, OpenStep, NoneOpenStep, AmbiguousStep, OpInHandStep, SubInToolStep, ReportedStep,
       DecidesStep, HitsStep DEF BInv
<1>2. CASE UNCHANGED vars
  <2>1. UNCHANGED <<proc, exec, fence, kind, state, cancel, can, pc, cur, sub, op, cb, by>>
    BY <1>2 DEF vars, queueVars, runVars, threadVars
  <2>2. Unreconciled' = Unreconciled
    BY <2>1 DEF Unreconciled, Open
  <2>3. FenceJustified' /\ OpenIsOne' /\ NoneOpen'
    BY <2>1, <2>2 DEF BInv, FenceJustified, OpenIsOne, NoneOpen, Running
  <2>4. AmbiguousStops' /\ OpInHand' /\ SubInTool'
    BY <2>1 DEF BInv, AmbiguousStops, OpInHand, SubInTool, Running, Registered, Stopping
  <2>5. ReportedIsOver' /\ HasKind' /\ DecidesClean' /\ CallbackHitsOnlyItsTool'
    BY <2>1 DEF BInv, ReportedIsOver, HasKind, DecidesClean, CallbackHitsOnlyItsTool, Live
  <2>6. QED BY <2>3, <2>4, <2>5 DEF BInv
<1>3. QED BY <1>1, <1>2

\* Every behaviour of the loops keeps the invariant of the boundaries too.
THEOREM LoopBoundary == Spec => [](LInv /\ BInv)
<1>1. Init => LInv /\ BInv
  BY LoopInitInv, BoundaryInit
<1>2. LInv /\ BInv /\ [Next]_vars => BInv'
  BY BoundaryStep
<1>3. QED
  BY <1>1, <1>2, LoopInvariant, PTL DEF Spec

\* The fence of a task does not outlive the cancellations it was set for, however
\* they end: reported, unattempted, ambiguous or recovered from a dead process.
THEOREM LoopFenceJustified == Spec => []FenceJustified
<1>1. BInv => FenceJustified
  BY DEF BInv
<1>2. QED
  BY <1>1, LoopBoundary, PTL

\* A callback that has not returned meets no tool but the one it was requested for.
THEOREM LoopCallbackHits == Spec => []CallbackHitsOnlyItsTool
<1>1. BInv => CallbackHitsOnlyItsTool
  BY DEF BInv
<1>2. QED
  BY <1>1, LoopBoundary, PTL

\* No tool starts before the interrupts and cancels of the previous one are settled.
THEOREM LoopNoOldPlan == Spec => NoOldPlanAction
<1>1. LInv /\ BInv /\ [Next]_vars =>
        [\A o \in Owner : pc[o] = "decide" /\ pc'[o] \in ToolPcs =>
            \A c \in op : state[c] \in {"applied", "failed"}]_vars
  BY DEF BInv, DecidesClean, LInv, LoopTypeOK
<1>2. QED
  BY <1>1, LoopBoundary, PTL DEF Spec, NoOldPlanAction

-----------------------------------------------------------------------------
(* The order of the controls, without faults *)

AtWork == {"applying", "finishing", "failing"}
PastRequeue == OwningPcs \ {"owned", "requeue", "leaving"}

\* A control in processing is in the hands of the loop that applies it, or of a
\* dead one, and then no loop has come past the requeue since.
InHand(c) ==
    state[c] = "processing" =>
        /\ exec = own[c] \/ ~Active(proc, own[c])
        /\ own[c] \in Owner
        /\ pc[own[c]] = "dead" \/ (pc[own[c]] \in AtWork /\ cur[own[c]] = c)
        /\ \A x \in Owner : pc[x] \in PastRequeue => pc[x] \in AtWork /\ cur[x] = c

\* Controls are numbered as they are submitted.
InSequence == \A c, d \in Control : c < d /\ state[d] # "none" => state[c] # "none"

\* What was submitted before a control in processing, at its priority, is over.
InOrder == \A c, d \in Control :
    c < d /\ state[d] = "processing" /\ Priority[kind[c]] = Priority[kind[d]] =>
        state[c] \in {"applied", "failed"}

OrderInv == InSequence /\ InOrder /\ \A c \in Control : InHand(c)

\* The queue numbers what it inserts, and keeps its kind and its processor.
LEMMA QueueKeeps ==
  ASSUME QInv, [QueueNext]_queueVars, NEW c \in Control
  PROVE  /\ state[c] = "none" /\ state'[c] # "none" => Fresh(c)
         /\ state[c] # "none" => kind'[c] = kind[c]
         /\ state[c] = "processing" /\ state'[c] = "processing" => own'[c] = own[c]
<1> DEFINE Goal == /\ state[c] = "none" /\ state'[c] # "none" => Fresh(c)
                   /\ state[c] # "none" => kind'[c] = kind[c]
                   /\ state[c] = "processing" /\ state'[c] = "processing" => own'[c] = own[c]
<1> USE DEF taskRows, controlRows, queueVars, QInv, TypeOK
<1>1. ASSUME NEW d \in Control, NEW k \in Kinds, NEW x, Insert(d, k, x), UNCHANGED own
      PROVE  Goal
  <2>1. Fresh(d) /\ kind' = [kind EXCEPT ![d] = k] /\ state' = [state EXCEPT ![d] = "pending"]
    BY <1>1 DEF Insert
  <2>2. CASE d = c
    BY <1>1, <2>1, <2>2 DEF Fresh
  <2>3. CASE d # c
    <3>1. state'[c] = state[c] /\ kind'[c] = kind[c]
      BY <2>1, <2>3
    <3>2. QED BY <1>1, <3>1
  <2>4. QED BY <2>2, <2>3
<1>2. ASSUME NEW o \in Owner, NEW d \in Control, NEW k \in Kinds, EnqueueIntent(d, k, o)
      PROVE  Goal
  BY <1>1, <1>2 DEF EnqueueIntent
<1>3. ASSUME NEW d \in Control, NEW k \in Kinds, Enqueue(d, k) \/ EnqueueReady(d, k)
      PROVE  Goal
  BY <1>1, <1>3 DEF Enqueue, EnqueueReady
<1>4. ASSUME NEW o \in Owner, NEW d \in Control,
             ClaimNext(d, o) \/ Finish(d, o, "applied") \/ Finish(d, o, "failed")
      PROVE  Goal
  <2>1. kind' = kind /\ state[d] \in {"pending", "processing"}
        /\ (d # c => state'[c] = state[c] /\ own'[c] = own[c])
        /\ (state[d] = "processing" => state'[d] # "processing")
    BY <1>4 DEF ClaimNext, IsHead, Pending, Finish
  <2>2. QED BY <2>1
<1>5. ASSUME NEW o \in Owner, RecoverProcessing(o)
      PROVE  Goal
  BY <1>5 DEF RecoverProcessing, Orphaned
<1>6. ASSUME UNCHANGED <<kind, state, own>>
      PROVE  Goal
  BY <1>6
<1>7. QED
  BY <1>2, <1>3, <1>4, <1>5, <1>6 DEF QueueNext, ByOwner, ByAnyone, BeginCancellation,
     ResolveUnattempted, ReconcileReported, ReconcileAmbiguous, AbandonCancellation,
     RecoverCancellations, ClaimExecution, ReleaseExecution, UpdateTask, RecoverTask, Crash

\* A loop that applies a control goes on to finish it.
LEMMA WorkStays ==
  ASSUME LInv, Next, Faults = FALSE, NEW x \in Owner, pc[x] \in AtWork
  PROVE  \/ pc'[x] \in AtWork /\ cur'[x] = cur[x]
         \/ pc'[x] = "dead"
         \/ state'[cur[x]] \in {"applied", "failed"} /\ pc'[x] # "dead"
<1> USE DEF AtWork, Goto
<1>0. pc \in [Owner -> OwningPcs \union {"idle", "enter", "claim", "dead"}]
      /\ cur \in [Owner -> Control \union {0}] /\ cur[x] \in Control
      /\ state \in [Control -> {"none", "pending", "processing", "applied", "failed"}]
  BY DEF LInv, LoopTypeOK, QInv, TypeOK, Lifetimes, LoopLives
<1>1. ~Entering(x)
  BY DEF Entering, Run, RecoverOnEntry, EnterScope, ScopeRefused, Recheck, Requeue, RecoverInScope,
     Register
<1>2. ~Working(x)
  BY DEF Working, Model, ModelFails, GuardTrips, RunRaises, Continue, Complete, StartTool, EndTool,
     Settle, Stop, Leave, ToolPcs
<1>3. CASE Applying(x)
  <2>1. CASE ApplyControl(x) \/ ApplyRaises(x)
    BY <1>0, <2>1 DEF ApplyControl, ApplyRaises
  <2>2. CASE FinishControl(x) \/ FailControl(x)
    <3>1. state'[cur[x]] \in {"applied", "failed"}
      BY <1>0, <2>2 DEF FinishControl, FailControl, Finish
    <3>2. pc'[x] # "dead"
      BY <1>0, <2>2 DEF FinishControl, FailControl, RaiseControls
    <3>3. QED BY <3>1, <3>2
  <2>3. QED
    BY <1>3, <2>1, <2>2 DEF Applying, Blocked, Unblocked, ClaimControl, NothingToClaim,
       FinishThenLost, FinishRaises
<1>4. QED BY <1>1, <1>2, <1>3, PcSteps

\* Only the requeue leads a loop past it.
LEMMA PastSteps ==
  ASSUME LInv, Next, NEW x \in Owner, pc'[x] \in PastRequeue
  PROVE  pc[x] \in PastRequeue \/ Requeue(x)
<1> USE DEF PastRequeue, OwningPcs, ToolPcs
<1>0. pc \in [Owner -> OwningPcs \union {"idle", "enter", "claim", "dead"}]
  BY DEF LInv, LoopTypeOK
<1>1. CASE Entering(x)
  BY <1>0, <1>1 DEF Entering, Run, RecoverOnEntry, Recovering, EnterScope, ScopeRefused, Recheck,
     RecoverInScope, Register, Goto, GotoBoundary
<1>2. CASE Applying(x)
  BY <1>2 DEF Applying, Blocked, Unblocked, ClaimControl, NothingToClaim, ApplyControl, ApplyRaises,
     FinishControl, FinishThenLost, FinishRaises, FailControl
<1>3. CASE Working(x)
  <2>1. CASE Leave(x)
    BY <1>0, <2>1 DEF Leave, Goto
  <2>2. CASE RunRaises(x)
    BY <1>0, <2>2 DEF RunRaises, Goto, RaiseControls
  <2>3. CASE Stop(x)
    BY <1>0, <2>3 DEF Stop, Goto
  <2>4. QED
    BY <1>3, <2>1, <2>2, <2>3 DEF Working, Model, ModelFails, GuardTrips, Continue, Complete,
       StartTool, EndTool, Settle
<1>4. QED BY <1>1, <1>2, <1>3, PcSteps

\* The requeue leaves nothing in processing.
LEMMA RequeueEmpties ==
  ASSUME LInv, NEW x \in Owner, Requeue(x), NEW c \in Control, InHand(c)
  PROVE  state'[c] # "processing"
<1>1. exec = x
  BY DEF LInv, SingleExecutor, Requeue, Running, OwningPcs
<1>2. state[c] = "processing" => c \in Orphaned(x)
  BY <1>1 DEF InHand, Orphaned, Claimable
<1>3. QED BY <1>2 DEF Requeue, RecoverProcessing

\* A control stays in the hands of its loop until it is finished.
LEMMA InHandStep ==
  ASSUME LInv, BInv, Next, Faults = FALSE, \A c \in Control : InHand(c), NEW c \in Control
  PROVE  InHand(c)'
<1> SUFFICES ASSUME state'[c] = "processing" PROVE InHand(c)'
  BY DEF InHand
<1>0. /\ pc \in [Owner -> OwningPcs \union {"idle", "enter", "claim", "dead"}]
      /\ own \in [Control -> Holder]
  BY DEF LInv, LoopTypeOK, QInv, TypeOK
<1>1. ASSUME NEW o \in Owner, ClaimedBy(c, o)
      PROVE  InHand(c)'
  <2>1. Running(o) /\ exec = o /\ pc[o] = "claiming"
    BY <1>1 DEF ClaimedBy, ClaimControl, Running, OwningPcs, LInv, SingleExecutor
  <2>2. cur'[o] = c /\ pc'[o] = "applying" /\ \A x \in Owner \ {o} : pc'[x] = pc[x]
    BY <1>0, <1>1 DEF ClaimedBy, ClaimControl, Goto
  <2>3. own'[c] = o /\ exec' = exec
    <3>1. PICK d \in Control : ClaimNext(d, o) /\ cur' = [cur EXCEPT ![o] = d]
      BY <1>1 DEF ClaimedBy, ClaimControl
    <3>2. d = c
      BY <2>2, <3>1 DEF LInv, LoopTypeOK
    <3>3. QED BY <1>0, <3>1, <3>2 DEF ClaimNext, taskRows
  <2>4. \A x \in Owner : pc'[x] \in PastRequeue => x = o
    BY <2>1, <2>2, RunsAlone DEF PastRequeue, Running
  <2>5. QED BY <2>1, <2>2, <2>3, <2>4 DEF InHand, AtWork
<1>2. CASE state[c] = "processing"
  <2>1. /\ exec = own[c] \/ ~Active(proc, own[c])
        /\ own[c] \in Owner
        /\ pc[own[c]] = "dead" \/ (pc[own[c]] \in AtWork /\ cur[own[c]] = c)
        /\ \A x \in Owner : pc[x] \in PastRequeue => pc[x] \in AtWork /\ cur[x] = c
    BY <1>2 DEF InHand
  <2>2. own'[c] = own[c]
    BY <1>2, LoopStepsQueue, QueueKeeps DEF LInv
  <2> DEFINE y == own[c]
  <2>3. ASSUME NEW x \in Owner, pc[x] \in AtWork, cur[x] = c
        PROVE  (pc'[x] \in AtWork /\ cur'[x] = c) \/ pc'[x] = "dead"
    BY <2>3, WorkStays
  <2>4. pc[y] = "dead" => pc'[y] = "dead"
    <3>1. pc[y] = "dead" => ~Entering(y) /\ ~Applying(y) /\ ~Working(y)
      BY <2>1, EnteringMoves, ApplyingMoves, WorkingMoves DEF Moves
    <3>2. QED BY <2>1, <3>1, PcSteps
  <2>5. pc'[y] = "dead" \/ (pc'[y] \in AtWork /\ cur'[y] = c)
    BY <2>1, <2>3, <2>4
  <2>6. ASSUME NEW x \in Owner, pc'[x] \in PastRequeue
        PROVE  pc'[x] \in AtWork /\ cur'[x] = c
    <3>1. ~Requeue(x)
      BY RequeueEmpties
    <3>2. pc[x] \in PastRequeue
      BY <2>6, <3>1, PastSteps
    <3>3. pc'[x] # "dead"
      BY <2>6 DEF PastRequeue, OwningPcs, ToolPcs
    <3>4. QED BY <2>1, <2>3, <3>2, <3>3
  <2>7. exec' = y \/ ~Active(proc', y)
    <3>1. ~Active(proc, y) => ~Active(proc', y)
      <4>1. ASSUME NEW p \in Process, CrashProcess(p)
            PROVE  ~Active(proc, y) => ~Active(proc', y)
        BY <4>1, <2>1, OwnersLiveInProcesses
           DEF CrashProcess, Crash, Active, OwnerGone, LInv, QInv, TypeOK
      <4>2. QED BY <4>1, LoopFrame
    <3>2. CASE exec' = exec
      BY <2>1, <3>1, <3>2
    <3>3. ASSUME NEW p \in Process, CrashProcess(p)
          PROVE  exec' = exec
      BY <3>3 DEF CrashProcess, Crash, taskRows
    <3>4. ASSUME NEW o \in Owner, EnterScope(o)
          PROVE  exec' = y \/ ~Active(proc', y)
      <4>1. Claimable(proc, exec, o) /\ exec' = o
        BY <3>4 DEF EnterScope, ClaimExecution, MayExecute
      <4>2. QED BY <2>1, <3>1, <4>1 DEF Claimable
    <3>5. ASSUME NEW o \in Owner, Leave(o)
          PROVE  exec' = y \/ ~Active(proc', y)
      <4>1. exec = o /\ pc[o] = "leaving"
        BY <3>5 DEF LInv, SingleExecutor, Leave, Running, OwningPcs
      <4>2. o # y
        BY <2>1, <4>1 DEF AtWork
      <4>3. QED BY <2>1, <3>1, <4>1, <4>2
    <3>6. QED BY <3>2, <3>3, <3>4, <3>5, LoopFrame
  <2>8. QED BY <2>1, <2>2, <2>5, <2>6, <2>7 DEF InHand
<1>3. QED BY <1>1, <1>2, StateSteps DEF StateStep

\* Controls stay numbered, and are taken in that order.
LEMMA OrderStep ==
  ASSUME LInv, BInv, OrderInv, [Next]_vars, Faults = FALSE
  PROVE  OrderInv'
<1>1. CASE UNCHANGED vars
  <2>1. UNCHANGED <<proc, exec, kind, state, own, pc, cur>>
    BY <1>1 DEF vars, queueVars, runVars
  <2>2. QED BY <2>1 DEF OrderInv, InSequence, InOrder, InHand
<1>2. CASE Next
  <2>0. \A c \in Control : state[c] # "none" => state'[c] # "none"
    BY LoopStepsQueue, QueueBirths DEF LInv
  <2>1. InSequence'
    <3> SUFFICES ASSUME NEW c \in Control, NEW d \in Control, c < d, state'[d] # "none"
                 PROVE  state'[c] # "none"
      BY DEF InSequence
    <3>1. CASE state[d] # "none"
      BY <2>0, <3>1 DEF OrderInv, InSequence
    <3>2. CASE state[d] = "none"
      <4>1. Fresh(d)
        BY <3>2, LoopStepsQueue, QueueKeeps DEF LInv
      <4>2. c \in 1..(d - 1)
        BY MaxControlsIsNat DEF Control
      <4>3. QED BY <2>0, <4>1, <4>2 DEF Fresh
    <3>3. QED BY <3>1, <3>2
  <2>2. InOrder'
    <3> SUFFICES ASSUME NEW c \in Control, NEW d \in Control, c < d, state'[d] = "processing",
                        Priority[kind'[c]] = Priority[kind'[d]]
                 PROVE  state'[c] \in {"applied", "failed"}
      BY DEF InOrder
    <3>1. state[d] # "none"
      BY <1>2, StateSteps DEF StateStep, ClaimedBy
    <3>2. state[c] # "none"
      BY <3>1 DEF OrderInv, InSequence
    <3>3. kind'[c] = kind[c] /\ kind'[d] = kind[d]
      BY <3>1, <3>2, LoopStepsQueue, QueueKeeps DEF LInv
    <3>4. state[c] \in {"applied", "failed"}
      <4>1. CASE state[d] = "processing"
        BY <3>3, <4>1 DEF OrderInv, InOrder
      <4>2. ASSUME NEW o \in Owner, ClaimedBy(d, o)
            PROVE  state[c] \in {"applied", "failed"}
        <5>1. PICK e \in Control : ClaimNext(e, o) /\ cur' = [cur EXCEPT ![o] = e]
          BY <4>2 DEF ClaimedBy, ClaimControl
        <5>2. e = d
          BY <4>2, <5>1 DEF ClaimedBy, LInv, LoopTypeOK
        <5>3. IsHead(d)
          BY <5>1, <5>2 DEF ClaimNext
        <5>4. state[c] # "pending"
          <6>1. kind[c] \in AllKinds /\ kind[d] \in AllKinds
            BY <3>1, <3>2 DEF LInv, QInv, TypeOK, BInv, HasKind
          <6>2. Priority[kind[c]] \in Nat /\ Priority[kind[d]] \in Nat
            BY <6>1 DEF Priority, AllKinds, Immediate
          <6>3. c \in Nat /\ d \in Nat
            BY DEF Control
          <6>4. ~Before(d, c)
            BY ONLY <3>3, <6>2, <6>3, c < d, Priority[kind'[c]] = Priority[kind'[d]] DEF Before
          <6>5. c # d
            BY <6>3
          <6>6. QED BY <5>3, <6>4, <6>5 DEF IsHead, Pending
        <5>5. state[c] # "processing"
          BY <4>2 DEF ClaimedBy, ClaimControl, OrderInv, InHand, PastRequeue, OwningPcs, AtWork
        <5>6. QED BY <3>2, <5>4, <5>5 DEF LInv, QInv, TypeOK
      <4>3. QED BY <1>2, <4>1, <4>2, StateSteps DEF StateStep
    <3>5. QED BY <1>2, <3>4, StateSteps DEF StateStep
  <2>3. \A c \in Control : InHand(c)'
    BY <1>2, InHandStep DEF OrderInv
  <2>4. QED BY <2>1, <2>2, <2>3 DEF OrderInv
<1>3. QED BY <1>1, <1>2

\* Controls of equal priority are applied in the order of their submission,
\* across loops, crashes and requeued controls, as long as no exception leaves a
\* control in processing behind a loop that lives (claim_next, recover_processing).
THEOREM LoopSubmissionOrder == Faults = FALSE /\ Spec => SubmissionOrder
<1>1. Init => OrderInv
  BY DEF Init, QueueInit, OrderInv, InSequence, InOrder, InHand
<1>2. (Faults = FALSE) => (Faults = FALSE)'
  OBVIOUS
<1>3. LInv /\ BInv /\ OrderInv /\ [Next]_vars /\ Faults = FALSE => OrderInv'
  BY OrderStep
<1>4. OrderInv => [\A c, d \in Control :
          (/\ c < d
           /\ state[d] = "processing" /\ state'[d] = "applied"
           /\ Priority[kind[c]] = Priority[kind[d]])
          => state[c] \in {"applied", "failed"}]_vars
  BY DEF OrderInv, InOrder
<1>5. QED
  BY <1>1, <1>2, <1>3, <1>4, LoopBoundary, PTL DEF Spec, SubmissionOrder
=============================================================================
