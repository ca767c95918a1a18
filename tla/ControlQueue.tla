---------------------------- MODULE ControlQueue ----------------------------
(***************************************************************************)
(* The durable controls of one task (control_queue.py) with the rows they  *)
(* share with the executors of that task: the task's own state (tasks.py)  *)
(* and its leases (ownership.py).  Each action is one BEGIN IMMEDIATE      *)
(* transaction, so it happens at once or, when the code raises inside it,  *)
(* not at all.  QueueNext lets every live owner call every operation at    *)
(* any time: what holds here holds whatever the callers do.  AgentLoop     *)
(* says in which order the agent loops really call them.                   *)
(*                                                                         *)
(* Time is abstracted: a lease may be found expired whenever a guarded     *)
(* write looks at it (a heartbeat can be arbitrarily late), which fails    *)
(* the write and leaves every row as it was.                               *)
(***************************************************************************)
EXTENDS Leases, Naturals

CONSTANTS
    MaxControls,    \* bound: controls ever enqueued for the task
    Kinds           \* the kinds of control that are submitted

Control == 1..MaxControls   \* a control is its sequence number in the task

Immediate == {"interrupt", "cancel"}    \* the kinds with a cancellation row
AllKinds == Immediate \union {"pause", "approval", "redirect", "resume", "message"}

ASSUME MaxControlsIsNat == MaxControls \in Nat
ASSUME KindsAreControlKinds == Kinds \subseteq AllKinds

VARIABLES
    proc,       \* the processes: alive or gone
    task,       \* tasks.state; "recovery" is failed in the phase
                \* cancellation-recovery-required
    exec,       \* owner of the lease task-execution, or None
    fence,      \* owner of the lease task-execution-fence, or None
    kind,       \* task_controls.kind, "none" before the control exists
    state,      \* task_controls.state, "none" before the control exists
    cancel,     \* control_cancellations.state, "none" without a row;
                \* resolved is split by what it reports of the callback:
                \* "unattempted" (requested: false) or "reported"
    can,        \* owner of the lease control-cancellation of the control
    own         \* owner of the lease task-control of the control

taskRows == <<task, exec, fence>>
controlRows == <<kind, state, cancel, can, own>>
queueVars == <<proc, task, exec, fence, kind, state, cancel, can, own>>

TaskStates == {"pending", "running", "paused", "completed", "failed",
               "cancelled", "recovery"}
Terminal == {"completed", "failed", "cancelled", "recovery"}
Outcomes == {"unattempted", "reported", "ambiguous"}

Acting(o) == proc[ProcessOf[o]] = "alive"

-----------------------------------------------------------------------------
(* Guards on the task's rows *)

\* require_task_write_in_transaction: a live executor excludes every other
\* writer, and a terminal task accepts no change of what it says happened
MayWrite(o) ==
    /\ Active(proc, exec) => o # None /\ HeldBy(proc, exec, o)
    /\ task \notin Terminal

\* mutant: the fail-closed write bypasses the guard
MayFailClosedAlways == TRUE

\* the same guard with allow_fail_closed, for the write that ends in recovery
MayFailClosed == task \notin Terminal \/ task = "recovery"

\* mutant: the claim does not look for a fence
MayExecuteFenced(o) == task # "recovery" /\ Claimable(proc, exec, o)

\* claim_in_transaction on task-execution
MayExecute(o) ==
    /\ fence = None
    /\ task # "recovery"
    /\ Claimable(proc, exec, o)

-----------------------------------------------------------------------------
(* Cancellations whose outcome is open *)

\* mutant: the query forgets to select on the state of the cancellation
OpenWhilePending(c) == state[c] = "pending" /\ cancel[c] # "none"

Open(c) == state[c] = "pending" /\ cancel[c] \in {"intent", "attempting"}

Unreconciled == {c \in Control : Open(c)}

\* mutants: the fence goes with the first cancellation, or is never quiescent
\* because the one just settled still counts
ReleasedFenceEarly(settled, by) == IF fence \in by THEN None ELSE fence
ReleasedFenceNever(settled, by) ==
    IF Unreconciled = {} /\ fence \in by THEN None ELSE fence

\* _release_task_fence_if_quiescent after the controls in `settled' left the
\* set; `by' restricts it to the fence of one owner
ReleasedFence(settled, by) ==
    IF Unreconciled \subseteq settled /\ fence \in by THEN None ELSE fence

\* the first control of the boundary order, among those pending
Priority == [k \in AllKinds |->
    CASE k = "cancel" -> 0
      [] k \in {"interrupt", "pause"} -> 1
      [] k = "approval" -> 2
      [] k \in {"redirect", "resume"} -> 3
      [] k = "message" -> 4]

\* mutant: the latest of equal priority first
BeforeLatest(c, d) ==
    \/ Priority[kind[c]] < Priority[kind[d]]
    \/ Priority[kind[c]] = Priority[kind[d]] /\ c > d

Before(c, d) ==
    \/ Priority[kind[c]] < Priority[kind[d]]
    \/ Priority[kind[c]] = Priority[kind[d]] /\ c < d

Pending == {c \in Control : state[c] = "pending"}
IsHead(c) == c \in Pending /\ \A d \in Pending \ {c} : Before(c, d)
\* mutant: a cancellation that was reported never becomes ready
ReadyUnattempted(c) == cancel[c] \notin {"intent", "attempting", "reported"}

Ready(c) == cancel[c] \notin {"intent", "attempting"}

-----------------------------------------------------------------------------
(* Enqueueing *)

Fresh(c) == state[c] = "none" /\ \A d \in 1..(c - 1) : state[d] # "none"

Insert(c, k, cancellation) ==
    /\ Fresh(c)
    /\ kind' = [kind EXCEPT ![c] = k]
    /\ state' = [state EXCEPT ![c] = "pending"]
    /\ cancel' = [cancel EXCEPT ![c] = cancellation]

\* enqueue of a kind that needs no cancellation
Enqueue(c, k) ==
    /\ k \notin Immediate
    /\ Insert(c, k, "none")
    /\ UNCHANGED <<proc, taskRows, can, own>>

\* enqueue_cancellation(ready=True): there is no callback to invoke
EnqueueReady(c, k) ==
    /\ k \in Immediate
    /\ Insert(c, k, "unattempted")
    /\ UNCHANGED <<proc, taskRows, can, own>>

\* enqueue_cancellation with an intent: the intent, its lease and the fence on
\* the task commit together, or none of them
EnqueueIntent(c, k, o) ==
    /\ k \in Immediate
    /\ fence \in {None, o}
    /\ Insert(c, k, "intent")
    /\ can' = [can EXCEPT ![c] = o]
    /\ fence' = o
    /\ UNCHANGED <<proc, task, exec, own>>

-----------------------------------------------------------------------------
(* The life of an intent *)

BeginCancellation(c, o) ==
    /\ state[c] = "pending"
    /\ cancel[c] = "intent"
    /\ Claimable(proc, can[c], o)
    /\ cancel' = [cancel EXCEPT ![c] = "attempting"]
    /\ can' = [can EXCEPT ![c] = o]
    /\ UNCHANGED <<proc, taskRows, kind, state, own>>

ResolveUnattempted(c, o) ==
    /\ state[c] = "pending"
    /\ cancel[c] = "intent"
    /\ can[c] = o
    /\ cancel' = [cancel EXCEPT ![c] = "unattempted"]
    /\ can' = [can EXCEPT ![c] = None]
    /\ fence' = ReleasedFence({c}, {o})
    /\ UNCHANGED <<proc, task, exec, kind, state, own>>

\* _fail_task_for_ambiguous_cancellation with the deletion of the fence that
\* follows it everywhere
FailClosedWrite ==
    /\ MayFailClosed
    /\ task' = "recovery"
    /\ fence' = None

ReconcileReported(c, o) ==
    /\ state[c] = "pending"
    /\ cancel[c] = "attempting"
    /\ can[c] = o
    /\ cancel' = [cancel EXCEPT ![c] = "reported"]
    /\ can' = [can EXCEPT ![c] = None]
    /\ fence' = ReleasedFence({c}, {o})
    /\ UNCHANGED <<proc, task, exec, kind, state, own>>

ReconcileAmbiguous(c, o) ==
    /\ state[c] = "pending"
    /\ cancel[c] = "attempting"
    /\ can[c] = o
    /\ cancel' = [cancel EXCEPT ![c] = "ambiguous"]
    /\ can' = [can EXCEPT ![c] = None]
    /\ FailClosedWrite
    /\ UNCHANGED <<proc, exec, kind, state, own>>

\* abandon_cancellation: the owner gives its own running callback up
AbandonCancellation(c, o) ==
    /\ OwnerAlive(proc, o)
    /\ ReconcileAmbiguous(c, o)

-----------------------------------------------------------------------------
(* recover_cancellations: one transaction over every open cancellation *)

Watched(c) == can[c] # None /\ OwnerAlive(proc, can[c])

\* attempts whose live owner may have let its lease expire
Lapsable == {c \in Unreconciled : Watched(c) /\ cancel[c] = "attempting"}

\* mutant: an owner only recovers what is its own
AbandonedByItself(o) == {c \in Unreconciled : ~Watched(c) /\ can[c] = o}

\* cancellations whose owner is not seen alive and whose lease o can take
Abandoned(o) ==
    {c \in Unreconciled : ~Watched(c) /\ Claimable(proc, can[c], o)}

\* what recovery settles when the leases of `lapsed' have expired
Settling(o, lapsed) == lapsed \union Abandoned(o)

\* mutant: an attempt is recovered as if it had not begun
LostNone(o, lapsed) == {}

\* the part of it whose callback may have run
Lost(o, lapsed) == {c \in Settling(o, lapsed) : cancel[c] = "attempting"}

RecoverySucceeds(o, lapsed) == Lost(o, lapsed) = {} \/ MayFailClosed

RecoverCancellations(o, lapsed) ==
    /\ RecoverySucceeds(o, lapsed)
    /\ cancel' = [c \in Control |->
         CASE c \in Lost(o, lapsed) -> "ambiguous"
           [] c \in Settling(o, lapsed) \ Lost(o, lapsed) -> "unattempted"
           [] OTHER -> cancel[c]]
    /\ can' = [c \in Control |-> IF c \in Settling(o, lapsed) THEN None ELSE can[c]]
    /\ IF Lost(o, lapsed) # {}
       THEN task' = "recovery" /\ fence' = None
       ELSE /\ task' = task
            /\ fence' = IF Settling(o, lapsed) = {} THEN fence
                        ELSE ReleasedFence(Settling(o, lapsed), Holder)
    /\ UNCHANGED <<proc, exec, kind, state, own>>

-----------------------------------------------------------------------------
(* Applying controls *)

\* mutant: a control is claimed while its cancellation is open
ClaimNextUnready(c, o) ==
    /\ IsHead(c)
    /\ Claimable(proc, own[c], o)
    /\ state' = [state EXCEPT ![c] = "processing"]
    /\ own' = [own EXCEPT ![c] = o]
    /\ UNCHANGED <<proc, taskRows, kind, cancel, can>>

ClaimNext(c, o) ==
    /\ IsHead(c)
    /\ Ready(c)
    /\ Claimable(proc, own[c], o)
    /\ state' = [state EXCEPT ![c] = "processing"]
    /\ own' = [own EXCEPT ![c] = o]
    /\ UNCHANGED <<proc, taskRows, kind, cancel, can>>

\* finish: success=True writes applied, success=False writes failed
Finish(c, o, result) ==
    /\ state[c] = "processing"
    /\ Ready(c)
    /\ own[c] = o
    /\ state' = [state EXCEPT ![c] = result]
    /\ own' = [own EXCEPT ![c] = None]
    /\ UNCHANGED <<proc, taskRows, kind, cancel, can>>

\* recover_processing: every control whose processor is gone, or was o itself
Orphaned(o) ==
    {c \in Control : state[c] = "processing" /\ Claimable(proc, own[c], o)}

RecoverProcessing(o) ==
    /\ state' = [c \in Control |-> IF c \in Orphaned(o) THEN "pending" ELSE state[c]]
    /\ own' = [c \in Control |-> IF c \in Orphaned(o) THEN None ELSE own[c]]
    /\ UNCHANGED <<proc, taskRows, kind, cancel, can>>

-----------------------------------------------------------------------------
(* The task's rows *)

ClaimExecution(o) ==
    /\ MayExecute(o)
    /\ exec' = o
    /\ UNCHANGED <<proc, task, fence, controlRows>>

ReleaseExecution(o) ==
    /\ exec' = IF exec = o THEN None ELSE exec
    /\ UNCHANGED <<proc, task, fence, controlRows>>

\* update_task(state=s) by owner o, or by a caller that owns nothing (None)
UpdateTask(o, s) ==
    /\ MayWrite(o)
    /\ task' = s
    /\ UNCHANGED <<proc, exec, fence, controlRows>>

\* mutant: the phase of the failed task is not looked at
RecoverTaskAnyPhase ==
    /\ task \in {"failed", "recovery"}
    /\ ~Active(proc, exec)
    /\ task' = "pending"
    /\ UNCHANGED <<proc, exec, fence, controlRows>>

\* recover_task: the user returns a failed task to pending
RecoverTask ==
    /\ task = "failed"
    /\ ~Active(proc, exec)
    /\ task' = "pending"
    /\ UNCHANGED <<proc, exec, fence, controlRows>>

Crash(p) ==
    /\ proc[p] = "alive"
    /\ proc' = [proc EXCEPT ![p] = "gone"]
    /\ UNCHANGED <<taskRows, controlRows>>

-----------------------------------------------------------------------------
QueueInit ==
    /\ proc = [p \in Process |-> "alive"]
    /\ task = "pending"
    /\ exec = None
    /\ fence = None
    /\ kind = [c \in Control |-> "none"]
    /\ state = [c \in Control |-> "none"]
    /\ cancel = [c \in Control |-> "none"]
    /\ can = [c \in Control |-> None]
    /\ own = [c \in Control |-> None]

ByOwner(o) ==
    /\ Acting(o)
    /\ \/ \E c \in Control, k \in Kinds : EnqueueIntent(c, k, o)
       \/ \E c \in Control : \/ BeginCancellation(c, o)
                             \/ ResolveUnattempted(c, o)
                             \/ ReconcileReported(c, o)
                             \/ ReconcileAmbiguous(c, o)
                             \/ AbandonCancellation(c, o)
                             \/ ClaimNext(c, o)
                             \/ Finish(c, o, "applied")
                             \/ Finish(c, o, "failed")
       \/ \E lapsed \in SUBSET Lapsable : RecoverCancellations(o, lapsed)
       \/ RecoverProcessing(o)
       \/ ClaimExecution(o)
       \/ ReleaseExecution(o)

ByAnyone ==
    \/ \E c \in Control, k \in Kinds : Enqueue(c, k) \/ EnqueueReady(c, k)
    \/ \E o \in Holder, s \in TaskStates \ {"recovery"} :
          (o # None => Acting(o)) /\ UpdateTask(o, s)
    \/ RecoverTask

QueueNext ==
    \/ \E o \in Owner : ByOwner(o)
    \/ ByAnyone
    \/ \E p \in Process : Crash(p)

QueueSpec == QueueInit /\ [][QueueNext]_queueVars

-----------------------------------------------------------------------------
(* Properties *)

TypeOK ==
    /\ proc \in [Process -> {"alive", "gone"}]
    /\ task \in TaskStates
    /\ exec \in Holder
    /\ fence \in Holder
    /\ kind \in [Control -> AllKinds \union {"none"}]
    /\ state \in [Control -> {"none", "pending", "processing", "applied", "failed"}]
    /\ cancel \in [Control -> {"none", "intent", "attempting"} \union Outcomes]
    /\ can \in [Control -> Holder]
    /\ own \in [Control -> Holder]

\* A cancellation whose outcome nobody knows holds its task in the phase that
\* demands explicit recovery: no write of any caller, before or after, leaves
\* an ambiguous outcome beside a task that may go on.
FailClosed == \A c \in Control : cancel[c] = "ambiguous" => task = "recovery"

\* While a callback may still be invoked or running, the task is fenced: the
\* fence of the intents is not lost to the reconciliation of another control,
\* to recovery in another process or to the death of its owner.
FenceCoversOpen == Unreconciled # {} => fence # None \/ task = "recovery"

\* A control is being applied exactly as long as one owner holds its lease,
\* and never before the outcome of its cancellation is settled.
OneProcessor ==
    \A c \in Control :
        /\ state[c] = "processing" <=> own[c] # None
        /\ state[c] \in {"processing", "applied", "failed"} => Ready(c)

\* Completed, cancelled and recovery-required are for good: neither a late
\* callback, nor recovery, nor the user's recover_task leads out of them.
TerminalIsFinal ==
    [][(task \in {"completed", "cancelled", "recovery"}) => (task' = task)]_queueVars

\* Execution of the task never passes to an owner while the outcome of a
\* cancellation is open (test_hung_cancellation_fences_every_executor).
ExecutionFenced ==
    [][exec' # exec /\ exec' # None => Unreconciled = {}]_queueVars

\* The reported outcome of a cancellation and the result of a control are
\* written once: no retry, recovery or abandonment replaces them.
OutcomeIsFinal ==
    [][\A c \in Control :
         /\ cancel[c] \in Outcomes => cancel'[c] = cancel[c]
         /\ state[c] \in {"applied", "failed"} => state'[c] = state[c]]_queueVars

\* What has ended stays as it ended: the task, each cancellation, each control.
EndsAreFinal == TerminalIsFinal /\ OutcomeIsFinal
=============================================================================
