------------------------------ MODULE TaskRuns ------------------------------
(***************************************************************************)
(* The reasoning runs of a task (runner.py) with its checkpoints, context  *)
(* epochs, hand-offs and transcript (checkpoints.py, context_epochs.py,    *)
(* orchestration.py, conversation.py, context.py).  A run is queued, takes *)
(* the lease on the execution of the task, infers once and promotes what   *)
(* it got: message, checkpoint, task, run, each in a transaction of its    *)
(* own.  Controls are words left in the row of the run.                    *)
(*                                                                         *)
(* The agent loop, which has the lease while it runs and a queue of its    *)
(* own for controls, stands behind Rollover and CheckpointTask.            *)
(***************************************************************************)
EXTENDS Naturals, Sequences, FiniteSets

CONSTANTS
    Run,            \* runs, numbered in the order of their creation
    Runner,         \* threads that execute runs
    Owners,         \* roles that can own the task
    FirstOwner,
    NoRunner,
    MaxEpoch, MaxMessages,     \* bounds of the epochs and the messages,
    MaxCalls                   \* and of the calls of the user and the faults together

ASSUME RunsAreNumbered == Run \subseteq Nat
ASSUME OwnersAndRunners == FirstOwner \in Owners /\ NoRunner \notin Runner

VARIABLES
    taskRow,        \* state, role that owns it, epoch
    taskHolder,     \* who has the lease on its execution
    runs,           \* rows: state, control requested, and as history what came of it
    runner,         \* per thread: where it is, its run, the task and the snapshot it has read
    asking,         \* request_control between its reads and its write
    transcript,     \* messages: what they are, and whether they are in the context
    snapshots,      \* snapshots: role and epoch of the row and of the content, and whether it closes its epoch
    lapsed,         \* the lease of the holder has expired, its heartbeat having failed
    calls           \* the calls of the user and the faults so far

runVars == <<taskRow, taskHolder, runs, runner, asking, transcript, snapshots, lapsed, calls>>

NotAsking == [action |-> "none", run |-> NoRunner, state |-> "none"]
Off == [at |-> "off", run |-> NoRunner, role |-> NoRunner, epoch |-> 0]
Final(state) == state \in {"completed", "failed", "cancelled"}
ActiveRuns == {r \in Run : runs[r].state \in {"queued", "running", "paused"}}
Latest(S) == CHOOSE r \in S : \A q \in S : q <= r

SetRun(r, state) == runs' = [runs EXCEPT ![r].state = state, ![r].control = "none"]
RunnerAt(w, place) == runner[w].at = place
ToStep(w, place) == runner' = [runner EXCEPT ![w].at = place]

Call == calls < MaxCalls /\ calls' = calls + 1

\* require_task_write_in_transaction
MayWriteTask(w) == taskHolder = NoRunner \/ (taskHolder = w /\ ~lapsed)
MaySet(w, state) == MayWriteTask(w) /\ (Final(taskRow.state) => state = taskRow.state)

-----------------------------------------------------------------------------
(* create_run *)

\* a run that lost its executor is failed for the next one
CreateRun ==
    /\ ~Final(taskRow.state) /\ taskHolder = NoRunner
    /\ \A r \in ActiveRuns : runs[r].state = "running"
    /\ \E r \in Run :
         /\ runs[r].state = "none" /\ \A q \in Run : q < r => runs[q].state # "none"
         /\ runs' = [q \in Run |-> IF q = r THEN [runs[q] EXCEPT !.state = "queued"]
                                   ELSE IF q \in ActiveRuns /\ q = Latest(ActiveRuns) THEN [runs[q] EXCEPT !.state = "failed"]
                                   ELSE runs[q]]
    /\ UNCHANGED <<taskRow, taskHolder, runner, asking, transcript, snapshots, lapsed, calls>>

-----------------------------------------------------------------------------
(* request_control *)

AskControl(action) ==
    /\ Call /\ asking = NotAsking
    /\ asking' = IF ActiveRuns = {} THEN [NotAsking EXCEPT !.action = action, !.state = "no-run"]
                 ELSE [action |-> action, run |-> Latest(ActiveRuns), state |-> runs[Latest(ActiveRuns)].state]
    /\ taskHolder # NoRunner => asking'.state = "running"
    /\ UNCHANGED <<taskRow, taskHolder, runs, runner, transcript, snapshots, lapsed>>

TaskStateFor(action) ==
    IF action = "pause" THEN "paused" ELSE IF action = "resume" THEN "pending" ELSE "cancelled"

\* without a run it is the task that is written, or nothing
ControlTask ==
    /\ asking.state = "no-run"
    /\ \/ MaySet(NoRunner, TaskStateFor(asking.action)) /\ taskRow' = [taskRow EXCEPT !.state = TaskStateFor(asking.action)]
       \/ ~MaySet(NoRunner, TaskStateFor(asking.action)) /\ UNCHANGED taskRow
    /\ asking' = NotAsking
    /\ UNCHANGED <<taskHolder, runs, runner, transcript, snapshots, lapsed, calls>>

\* the paused run is written, then the task
ResumeRun ==
    /\ asking.action = "resume" /\ asking.run # NoRunner
    /\ IF asking.state = "paused"
       THEN SetRun(asking.run, "completed") /\ asking' = [asking EXCEPT !.run = NoRunner, !.state = "no-run"]
       ELSE UNCHANGED runs /\ asking' = NotAsking
    /\ UNCHANGED <<taskRow, taskHolder, runner, transcript, snapshots, lapsed, calls>>

\* whatever became of the run since it was read
LeaveControl ==
    /\ asking.action \in {"pause", "cancel"} /\ asking.run # NoRunner
    /\ runs' = [runs EXCEPT ![asking.run].control = asking.action,
                            ![asking.run].cancelledInQueue = @ \/ (asking.action = "cancel" /\ runs[asking.run].state = "queued")]
    /\ asking' = NotAsking
    /\ UNCHANGED <<taskRow, taskHolder, runner, transcript, snapshots, lapsed, calls>>

-----------------------------------------------------------------------------
(* run_task_epoch *)

EnterRun(w, r) ==
    /\ RunnerAt(w, "off") /\ taskHolder = NoRunner /\ runs[r].state # "none"
    /\ taskHolder' = w
    /\ runner' = [runner EXCEPT ![w] = [Off EXCEPT !.at = "entered", !.run = r]]
    /\ UNCHANGED <<taskRow, runs, asking, transcript, snapshots, lapsed, calls>>

\* mutant: a run found running is begun again
LoadAnyRun(w) ==
    /\ RunnerAt(w, "entered")
    /\ IF runs[runner[w].run].state \in {"running", "queued", "paused"}
       THEN runner' = [runner EXCEPT ![w].at = "loaded", ![w].role = taskRow.role, ![w].epoch = taskRow.epoch]
       ELSE ToStep(w, "leaves")
    /\ UNCHANGED <<taskRow, taskHolder, runs, asking, transcript, snapshots, lapsed, calls>>

\* a run found running is failed, for it may have inferred
LoadRun(w) ==
    LET r == runner[w].run
    IN  /\ RunnerAt(w, "entered")
        /\ \/ runs[r].state = "running" /\ SetRun(r, "failed") /\ ToStep(w, "fails")
           \/ /\ runs[r].state \in {"queued", "paused"} /\ UNCHANGED runs
              /\ runner' = [runner EXCEPT ![w].at = "loaded", ![w].role = taskRow.role, ![w].epoch = taskRow.epoch]
           \/ Final(runs[r].state) /\ UNCHANGED runs /\ ToStep(w, "leaves")
        /\ UNCHANGED <<taskRow, taskHolder, asking, transcript, snapshots, lapsed, calls>>

BeginRun(w) ==
    /\ RunnerAt(w, "loaded")
    /\ SetRun(runner[w].run, "running") /\ ToStep(w, "begun")
    /\ UNCHANGED <<taskRow, taskHolder, asking, transcript, snapshots, lapsed, calls>>

\* Each write of the task may be refused: here the run stays as it is, from the
\* inference on it fails.
WriteTask(w, from, state, to, otherwise) ==
    /\ RunnerAt(w, from)
    /\ IF MaySet(w, state) THEN taskRow' = [taskRow EXCEPT !.state = state] /\ ToStep(w, to)
       ELSE UNCHANGED taskRow /\ ToStep(w, otherwise)
    /\ UNCHANGED <<taskHolder, runs, asking, transcript, snapshots, lapsed, calls>>

TaskRunning(w) == WriteTask(w, "begun", "running", "first-boundary", "leaves")

FirstBoundary(w) ==
    LET r == runner[w].run
    IN  /\ RunnerAt(w, "first-boundary")
        /\ \/ runs[r].control = "cancel" /\ SetRun(r, "cancelled") /\ ToStep(w, "cancels")
           \/ runs[r].control = "pause" /\ SetRun(r, "paused") /\ ToStep(w, "pauses")
           \/ runs[r].control = "none" /\ UNCHANGED runs /\ ToStep(w, "builds")
        /\ UNCHANGED <<taskRow, taskHolder, asking, transcript, snapshots, lapsed, calls>>
TaskCancelled(w) == WriteTask(w, "cancels", "cancelled", "leaves", "leaves")
TaskPaused(w) == WriteTask(w, "pauses", "paused", "leaves", "leaves")

\* The projection: another owner, or a context that does not fit, leaves the run
\* as it is; then the model is asked, once.
BuildContext(w) ==
    /\ RunnerAt(w, "builds")
    /\ \/ taskRow.role = runner[w].role /\ ToStep(w, "infers")
       \/ ToStep(w, "leaves")
    /\ UNCHANGED <<taskRow, taskHolder, runs, asking, transcript, snapshots, lapsed, calls>>

Infer(w) ==
    LET r == runner[w].run
    IN  /\ RunnerAt(w, "infers")
        /\ runs' = [runs EXCEPT ![r].inferred = @ + 1]
        /\ ToStep(w, "last-boundary") \/ ToStep(w, "raises")
        /\ UNCHANGED <<taskRow, taskHolder, asking, transcript, snapshots, lapsed, calls>>

LastBoundary(w) ==
    LET r == runner[w].run
    IN  /\ RunnerAt(w, "last-boundary")
        /\ IF runs[r].control = "cancel" THEN SetRun(r, "cancelled") /\ ToStep(w, "cancels-late")
           ELSE UNCHANGED runs /\ ToStep(w, "promotes")
        /\ UNCHANGED <<taskRow, taskHolder, asking, transcript, snapshots, lapsed, calls>>
TaskCancelledLate(w) == WriteTask(w, "cancels-late", "cancelled", "leaves", "raises")

PromoteMessage(w) ==
    /\ RunnerAt(w, "promotes") /\ Len(transcript) < MaxMessages
    /\ transcript' = Append(transcript, [by |-> "assistant", kept |-> TRUE])
    /\ runs' = [runs EXCEPT ![runner[w].run].promoted = @ + 1]
    /\ ToStep(w, "takes-snapshot")
    /\ UNCHANGED <<taskRow, taskHolder, asking, snapshots, lapsed, calls>>

\* canonical_task_state
Snapshot(w) ==
    /\ RunnerAt(w, "takes-snapshot")
    /\ runner' = [runner EXCEPT ![w].at = "checkpoints", ![w].role = taskRow.role, ![w].epoch = taskRow.epoch]
    /\ UNCHANGED <<taskRow, taskHolder, runs, asking, transcript, snapshots, lapsed, calls>>

Matches(w) == runner[w].role = taskRow.role /\ runner[w].epoch = taskRow.epoch

\* The row is of the task as it is now, the content of the role and epoch given;
\* the epoch goes on with it or stays.
Checkpoint(role, epoch, closes) ==
    snapshots' = Append(snapshots, [role |-> taskRow.role, epoch |-> taskRow.epoch, of |-> <<role, epoch>>, closes |-> closes])

\* create_checkpoint with the snapshot, which advances the epoch
CheckpointEpoch(w) ==
    /\ RunnerAt(w, "checkpoints") /\ taskRow.epoch < MaxEpoch
    /\ IF MayWriteTask(w) /\ ~Final(taskRow.state) /\ Matches(w)
       THEN /\ Checkpoint(runner[w].role, runner[w].epoch, TRUE)
            /\ taskRow' = [taskRow EXCEPT !.epoch = @ + 1]
            /\ ToStep(w, "hands-back")
       ELSE ToStep(w, "raises") /\ UNCHANGED <<taskRow, snapshots>>
    /\ UNCHANGED <<taskHolder, runs, asking, transcript, lapsed, calls>>

TaskHandedBack(w) == WriteTask(w, "hands-back", "paused", "completes", "raises")

CompleteRun(w) ==
    /\ RunnerAt(w, "completes")
    /\ SetRun(runner[w].run, "completed") /\ ToStep(w, "leaves")
    /\ UNCHANGED <<taskRow, taskHolder, asking, transcript, snapshots, lapsed, calls>>

\* the handler of every exception from the inference on
FailRun(w) ==
    /\ RunnerAt(w, "raises")
    /\ runs' = [runs EXCEPT ![runner[w].run].state = "failed"] /\ ToStep(w, "fails")
    /\ UNCHANGED <<taskRow, taskHolder, asking, transcript, snapshots, lapsed, calls>>
TaskFailed(w) == WriteTask(w, "fails", "failed", "leaves", "leaves")

LeaveRun(w) ==
    /\ RunnerAt(w, "leaves")
    /\ taskHolder' = NoRunner /\ lapsed' = FALSE
    /\ runner' = [runner EXCEPT ![w] = Off]
    /\ UNCHANGED <<taskRow, runs, asking, transcript, snapshots, calls>>

RunnerCrashes(w) ==
    /\ Call /\ ~RunnerAt(w, "off")
    /\ taskHolder' = NoRunner /\ lapsed' = FALSE
    /\ runner' = [runner EXCEPT ![w] = Off]
    /\ UNCHANGED <<taskRow, runs, asking, transcript, snapshots>>

\* The heartbeat fails and the lease expires: nobody else may take it while the
\* process lives, and its own holder may not write.
TaskLeaseLapses(w) ==
    /\ Call /\ taskHolder = w /\ ~lapsed
    /\ lapsed' = TRUE
    /\ UNCHANGED <<taskRow, taskHolder, runs, runner, asking, transcript, snapshots>>

-----------------------------------------------------------------------------
(* handoff_task, rollover, add_message, the user's writes of the task *)

\* mutant: the checkpoint is taken after the new owner is written
HandOffFirst(role) ==
    /\ role # taskRow.role /\ ~Final(taskRow.state) /\ ActiveRuns = {} /\ MayWriteTask(NoRunner)
    /\ taskRow.epoch < MaxEpoch
    /\ taskRow' = [taskRow EXCEPT !.role = role, !.epoch = @ + 1]
    /\ snapshots' = Append(snapshots, [role |-> role, epoch |-> taskRow.epoch,
                                       of |-> <<taskRow.role, taskRow.epoch>>, closes |-> TRUE])
    /\ UNCHANGED <<taskHolder, runs, runner, asking, transcript, lapsed, calls>>

HandOff(role) ==
    /\ role # taskRow.role /\ ~Final(taskRow.state) /\ ActiveRuns = {} /\ MayWriteTask(NoRunner)
    /\ taskRow.epoch < MaxEpoch
    /\ Checkpoint(taskRow.role, taskRow.epoch, TRUE)
    /\ taskRow' = [taskRow EXCEPT !.role = role, !.epoch = @ + 1]
    /\ UNCHANGED <<taskHolder, runs, runner, asking, transcript, lapsed, calls>>

\* the newest user message, what follows it and what is unresolved stay
Protected(i) ==
    transcript[i].by = "control" \/ \A j \in (i + 1)..Len(transcript) : transcript[j].by # "user"
Rollover ==
    LET archived == {i \in DOMAIN transcript : transcript[i].kept /\ ~Protected(i)}
    IN  /\ MayWriteTask(NoRunner) /\ ~Final(taskRow.state) /\ archived # {} /\ taskRow.epoch < MaxEpoch
        /\ transcript' = [i \in DOMAIN transcript |-> [transcript[i] EXCEPT !.kept = @ /\ i \notin archived]]
        /\ Checkpoint(taskRow.role, taskRow.epoch, TRUE)
        /\ taskRow' = [taskRow EXCEPT !.epoch = @ + 1]
        /\ UNCHANGED <<taskHolder, runs, runner, asking, lapsed, calls>>

AddMessage(by) ==
    /\ Call /\ Len(transcript) < MaxMessages
    /\ transcript' = Append(transcript, [by |-> by, kept |-> TRUE])
    /\ UNCHANGED <<taskRow, taskHolder, runs, runner, asking, snapshots, lapsed>>

\* mutant: the epoch stays where the checkpoint is to close it
CheckpointStays ==
    /\ Call /\ MayWriteTask(NoRunner)
    /\ \E closes \in BOOLEAN :
         /\ closes => ~Final(taskRow.state) /\ taskRow.epoch < MaxEpoch
         /\ Checkpoint(taskRow.role, taskRow.epoch, closes)
    /\ UNCHANGED <<taskRow, taskHolder, runs, runner, asking, transcript, lapsed>>

\* checkpoint_task, and the checkpoint with which update_task ends, of a content whose
\* role and epoch are the task's or not given: it closes the epoch only when asked to,
\* and else is made of a task that is over as well
CheckpointTask ==
    /\ Call /\ MayWriteTask(NoRunner)
    /\ \E closes \in BOOLEAN :
         /\ closes => ~Final(taskRow.state) /\ taskRow.epoch < MaxEpoch
         /\ Checkpoint(taskRow.role, taskRow.epoch, closes)
         /\ taskRow' = IF closes THEN [taskRow EXCEPT !.epoch = @ + 1] ELSE taskRow
    /\ UNCHANGED <<taskHolder, runs, runner, asking, transcript, lapsed>>

\* update_task by its state, recover_task
UserSetsTask ==
    /\ Call /\ MayWriteTask(NoRunner)
    /\ \/ ~Final(taskRow.state) /\ \E s \in {"completed", "cancelled"} : taskRow' = [taskRow EXCEPT !.state = s]
       \/ taskRow.state = "failed" /\ taskRow' = [taskRow EXCEPT !.state = "pending"]
    /\ UNCHANGED <<taskHolder, runs, runner, asking, transcript, snapshots, lapsed>>

RunsInit ==
    /\ taskRow = [state |-> "pending", role |-> FirstOwner, epoch |-> 1]
    /\ taskHolder = NoRunner /\ asking = NotAsking
    /\ runs = [r \in Run |-> [state |-> "none", control |-> "none", inferred |-> 0, promoted |-> 0, cancelledInQueue |-> FALSE]]
    /\ runner = [w \in Runner |-> Off]
    /\ transcript = <<>> /\ snapshots = <<>> /\ lapsed = FALSE /\ calls = 0

RunsNext ==
    \/ \E action \in {"pause", "resume", "cancel"} : AskControl(action)
    \/ CreateRun \/ ControlTask \/ ResumeRun \/ LeaveControl \/ Rollover \/ CheckpointTask \/ UserSetsTask
    \/ \E role \in Owners : HandOff(role)
    \/ \E by \in {"user", "control"} : AddMessage(by)
    \/ \E w \in Runner :
         \/ \E r \in Run : EnterRun(w, r)
         \/ LoadRun(w) \/ BeginRun(w) \/ TaskRunning(w) \/ FirstBoundary(w) \/ TaskCancelled(w) \/ TaskPaused(w)
         \/ BuildContext(w) \/ Infer(w) \/ LastBoundary(w) \/ TaskCancelledLate(w) \/ PromoteMessage(w)
         \/ Snapshot(w) \/ CheckpointEpoch(w) \/ TaskHandedBack(w) \/ CompleteRun(w) \/ FailRun(w) \/ TaskFailed(w)
         \/ LeaveRun(w) \/ RunnerCrashes(w) \/ TaskLeaseLapses(w)

RunsSpec == RunsInit /\ [][RunsNext]_runVars

-----------------------------------------------------------------------------
(* Properties *)

\* The checkpoints are in the order of their epochs.  Every epoch that is over has
\* one checkpoint that closes it, the last of that epoch; what a content says of role
\* and epoch was so of the task.
EpochsClosed ==
    /\ \A e \in 1..(taskRow.epoch - 1) : \E i \in DOMAIN snapshots : snapshots[i].epoch = e /\ snapshots[i].closes
    /\ \A i \in DOMAIN snapshots :
         /\ snapshots[i].epoch <= taskRow.epoch /\ (snapshots[i].closes => snapshots[i].epoch < taskRow.epoch)
         /\ snapshots[i].of = <<snapshots[i].role, snapshots[i].epoch>>
    /\ \A i, j \in DOMAIN snapshots : i < j =>
         /\ snapshots[i].epoch <= snapshots[j].epoch
         /\ snapshots[i].closes => snapshots[i].epoch < snapshots[j].epoch

\* A run infers once and promotes once, whoever dies or loses its lease in
\* between, a cancelled run has promoted nothing, and there is one active run at a
\* time.  Hand-offs, rollovers, runs and users close epochs, each with a checkpoint
\* of its own; update_task and checkpoint_task add others in between that leave the
\* epoch as it is.
RunsAreSound ==
    /\ \A r \in Run : /\ runs[r].inferred <= 1 /\ runs[r].promoted <= runs[r].inferred
                      /\ runs[r].state = "cancelled" => runs[r].promoted = 0
    /\ Cardinality(ActiveRuns) <= 1
    /\ EpochsClosed

\* "cancel requested; will apply at the next safe boundary" (runner.py:236), the
\* first of which is before the inference
CancelAppliesAtBoundary ==
    \A r \in Run : runs[r].cancelledInQueue => runs[r].promoted = 0
=============================================================================
