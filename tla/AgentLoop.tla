------------------------------ MODULE AgentLoop ------------------------------
(***************************************************************************)
(* The agent loops of one task (agent_loop.py) over its control queue: the *)
(* thread that runs AgentLoop.run, the threads that submit interrupts and  *)
(* cancels, one thread per cancellation callback, and close().  A loop is  *)
(* its owner token; several loops may belong to one process, and a crash   *)
(* of the process takes all of them, with everything they only knew in     *)
(* memory.  Every step that touches the database is one transaction of     *)
(* ControlQueue; the interleavings are those between transactions.         *)
(*                                                                         *)
(* The model, the tools and the completion contract are abstracted to the  *)
(* choices the loop makes of their answers; the budgets (iterations, time, *)
(* repetitions, failures) to the choice that one of them is exhausted.     *)
(***************************************************************************)
EXTENDS ControlQueue

CONSTANTS
    Faults,     \* TRUE: leases lapse in spite of their heartbeats and
                \* statements of the database raise
    Closers     \* bound: the loops that close() is called on

ASSUME FaultsIsBoolean == Faults \in BOOLEAN
ASSUME ClosersAreLoops == Closers \subseteq Owner

VARIABLES
    pc,         \* where the thread of run() is
    site,       \* which call of _apply_controls it is in
    cur,        \* the control it is applying, 0 for none
    sub,        \* the intent a submitting thread holds _active_lock for, or 0
    op,         \* the controls that carry the operation id of the current,
                \* or else the latest, tool invocation
    cb,         \* the cancellation thread of a control
    by,         \* the loop that thread belongs to
    called,     \* history: controls whose callback has been invoked
    closing     \* close() of a loop

runVars == <<pc, site, cur>>
threadVars == <<sub, op, cb, by, called, closing>>
vars == <<queueVars, runVars, threadVars>>

Sites == {"pre",        \* before the model is invoked
          "post",       \* after the model, before its decision is used
          "superseded", \* the same, once a control has been applied
          "settle",     \* after a tool returned
          "tail"}       \* after the checkpoint of that tool

ToolPcs == {"tool", "cancellable tool"}

\* from the claim of the task-execution lease to its release
OwningPcs == {"owned", "requeue", "reconcile", "register", "boundary",
              "claiming", "applying", "finishing", "failing", "model",
              "decide", "settling", "stop paused", "stop failed", "leaving"}
             \union ToolPcs

\* a thread that still runs, and an outcome that waits for another attempt
LiveThread == {"launched", "calling", "returned", "raised"}
Parked == {"parked returned", "parked raised"}

Running(o) == pc[o] \in OwningPcs
Live(c) == cb[c] \in {"launched", "calling"}

Goto(o, label) == pc' = [pc EXCEPT ![o] = label]
LeaveSite(o) == site' = [site EXCEPT ![o] = "pre"]
GotoBoundary(o, where) == Goto(o, "boundary") /\ site' = [site EXCEPT ![o] = where]

\* a guarded write of the loop that raises, and what it raises into
WriteRaises(o) == Faults \/ ~MayWrite(o)

-----------------------------------------------------------------------------
(* Entering run(): _run_once and task_execution_scope *)

Run(o) ==
    /\ pc[o] = "idle"
    /\ closing[o] = "open"
    /\ task \notin Terminal
    /\ Goto(o, "enter")
    /\ UNCHANGED <<queueVars, site, cur, threadVars>>

\* the leases that recovery may find expired
MayLapse(lapsed) == lapsed # {} => Faults

\* recover_cancellations at the step `next'; when it raises, the step `other'
Recovering(o, next, other) ==
    \E lapsed \in SUBSET Lapsable :
        /\ MayLapse(lapsed)
        /\ \/ RecoverCancellations(o, lapsed) /\ Goto(o, next)
           \/ /\ Faults \/ ~RecoverySucceeds(o, lapsed)
              /\ Goto(o, other)
              /\ UNCHANGED queueVars
        /\ UNCHANGED <<site, cur, threadVars>>

RecoverOnEntry(o) == pc[o] = "enter" /\ Recovering(o, "claim", "idle")

EnterScope(o) ==
    /\ pc[o] = "claim"
    /\ ClaimExecution(o)
    /\ Goto(o, "owned")
    /\ UNCHANGED <<site, cur, threadVars>>

ScopeRefused(o) ==
    /\ pc[o] = "claim"
    /\ ~MayExecute(o)
    /\ Goto(o, "idle")
    /\ UNCHANGED <<queueVars, site, cur, threadVars>>

Recheck(o) ==
    /\ pc[o] = "owned"
    /\ Goto(o, IF task \in Terminal THEN "leaving" ELSE "requeue")
    /\ UNCHANGED <<queueVars, site, cur, threadVars>>

Requeue(o) ==
    /\ pc[o] = "requeue"
    /\ RecoverProcessing(o)
    /\ Goto(o, "reconcile")
    /\ UNCHANGED <<site, cur, threadVars>>

RecoverInScope(o) == pc[o] = "reconcile" /\ Recovering(o, "register", "leaving")

\* A task found running lost its previous executor and is not replayed.  The
\* state was read at Recheck: only recovery can have changed it since, to a
\* terminal one, and then both writes raise.
Register(o) ==
    /\ pc[o] = "register"
    /\ \/ /\ task = "running"
          /\ UpdateTask(o, "failed")
          /\ Goto(o, "leaving")
          /\ UNCHANGED <<site, threadVars>>
       \/ /\ task # "running"
          /\ UpdateTask(o, "running")
          /\ GotoBoundary(o, "pre")
          /\ op' = {}
          /\ UNCHANGED <<sub, cb, by, called, closing>>
       \/ /\ WriteRaises(o)
          /\ Goto(o, "leaving")
          /\ UNCHANGED <<queueVars, site, threadVars>>
    /\ UNCHANGED cur

-----------------------------------------------------------------------------
(* _apply_controls *)

\* mutant: the loop never looks for an open cancellation
UnblockedAlways(o) ==
    /\ pc[o] = "boundary"
    /\ Goto(o, "claiming")
    /\ UNCHANGED <<queueVars, site, cur, threadVars>>

\* An open cancellation that outlasts the wait pauses the loop
Blocked(o) ==
    /\ pc[o] = "boundary"
    /\ Unreconciled # {}
    /\ Goto(o, "stop paused")
    /\ UNCHANGED <<queueVars, site, cur, threadVars>>

Unblocked(o) ==
    /\ pc[o] = "boundary"
    /\ Unreconciled = {}
    /\ Goto(o, "claiming")
    /\ UNCHANGED <<queueVars, site, cur, threadVars>>

ClaimControl(o) ==
    /\ pc[o] = "claiming"
    /\ \E c \in Control : ClaimNext(c, o) /\ cur' = [cur EXCEPT ![o] = c]
    /\ Goto(o, "applying")
    /\ UNCHANGED <<site, threadVars>>

\* claim_next returns None: where the loop goes on
NothingToClaim(o) ==
    /\ pc[o] = "claiming"
    /\ ~\E c \in Control : IsHead(c) /\ Ready(c) /\ Claimable(proc, own[c], o)
    /\ CASE site[o] = "pre" -> Goto(o, "model") /\ UNCHANGED site
         [] site[o] = "post" -> Goto(o, "decide") /\ LeaveSite(o)
         [] site[o] = "settle" -> Goto(o, "settling") /\ LeaveSite(o)
         [] site[o] = "superseded" -> GotoBoundary(o, "pre")
         [] site[o] = "tail" -> IF task \in {"paused", "cancelled"}
                                THEN Goto(o, "leaving") /\ LeaveSite(o)
                                ELSE GotoBoundary(o, "pre")
    /\ UNCHANGED <<queueVars, cur, threadVars>>

\* the effect of a control on the task; "same" where it only adds a message,
\* decides an approval or resumes a task that is not paused
Effect(c) ==
    CASE cancel[c] = "ambiguous" -> "recovery"
      [] kind[c] = "cancel" -> "cancelled"
      [] kind[c] = "pause" -> "paused"
      [] kind[c] = "resume" /\ task = "paused" -> "running"
      [] OTHER -> "same"

Stops(c) == cancel[c] = "ambiguous" \/ kind[c] \in {"cancel", "pause"}

ApplyControl(o) ==
    /\ pc[o] = "applying"
    /\ LET effect == Effect(cur[o]) IN
       \/ /\ effect \in {"same", task}
          /\ UNCHANGED queueVars
       \/ /\ effect \notin {"same", "recovery"}
          /\ UpdateTask(o, effect)
    /\ \E label \in {"finishing"} \union (IF Faults THEN {"failing"} ELSE {}) :
         Goto(o, label)
    /\ UNCHANGED <<site, cur, threadVars>>

\* the effect is refused: no longer the writer, the approval already decided
ApplyRaises(o) ==
    /\ pc[o] = "applying"
    /\ \/ Effect(cur[o]) # "same" /\ WriteRaises(o)
       \/ kind[cur[o]] = "approval"
    /\ Goto(o, "failing")
    /\ UNCHANGED <<queueVars, site, cur, threadVars>>

FinishControl(o) ==
    /\ pc[o] = "finishing"
    /\ Finish(cur[o], o, "applied")
    /\ Goto(o, IF Stops(cur[o]) THEN "leaving" ELSE "claiming")
    /\ site' = [site EXCEPT ![o] = IF @ = "post" THEN "superseded" ELSE @]
    /\ cur' = [cur EXCEPT ![o] = 0]
    /\ UNCHANGED threadVars

\* an exception out of _apply_controls stops the loop as failed, except from
\* its last call, which has no handler
RaiseControls(o) ==
    /\ Goto(o, IF site[o] = "tail" THEN "leaving" ELSE "stop failed")
    /\ cur' = [cur EXCEPT ![o] = 0]
    /\ UNCHANGED <<site, threadVars>>

\* The heartbeat of the task-control lease renews it after finish deleted it
\* and reports it lost: finish(success=False) then finds the control applied
FinishThenLost(o) ==
    /\ Faults
    /\ pc[o] = "finishing"
    /\ Finish(cur[o], o, "applied")
    /\ RaiseControls(o)

FinishRaises(o) ==
    /\ Faults
    /\ pc[o] = "finishing"
    /\ Goto(o, "failing")
    /\ UNCHANGED <<queueVars, site, cur, threadVars>>

FailControl(o) ==
    /\ pc[o] = "failing"
    /\ \/ Finish(cur[o], o, "failed")
       \/ Faults /\ UNCHANGED queueVars
    /\ RaiseControls(o)

-----------------------------------------------------------------------------
(* The model, its decision and the tool *)

Model(o) ==
    /\ pc[o] = "model"
    /\ GotoBoundary(o, "post")
    /\ UNCHANGED <<queueVars, cur, threadVars>>

\* the invocation raises, its answer is no decision or names no tool
ModelFails(o) ==
    /\ pc[o] \in {"model", "decide"}
    /\ Goto(o, "stop failed")
    /\ UNCHANGED <<queueVars, site, cur, threadVars>>

\* a budget is exhausted or a guard trips
GuardTrips(o) ==
    /\ \/ pc[o] = "boundary" /\ site[o] = "pre"
       \/ pc[o] \in {"model", "decide"}
    /\ Goto(o, "stop paused")
    /\ UNCHANGED <<queueVars, site, cur, threadVars>>

\* continue, a rejected completion or an unknown tool
Continue(o) ==
    /\ pc[o] = "decide"
    /\ GotoBoundary(o, "pre")
    /\ UNCHANGED <<queueVars, cur, threadVars>>

Complete(o) ==
    /\ pc[o] = "decide"
    /\ \/ UpdateTask(o, "completed")
       \/ WriteRaises(o) /\ UNCHANGED queueVars
    /\ Goto(o, "leaving")
    /\ UNCHANGED <<site, cur, threadVars>>

StartTool(o) ==
    /\ pc[o] = "decide"
    /\ \E tool \in ToolPcs : Goto(o, tool)
    /\ op' = {}
    /\ UNCHANGED <<queueVars, site, cur, sub, cb, by, called, closing>>

\* the tool returned or raised; clearing the binding waits for _active_lock
EndTool(o) ==
    /\ pc[o] \in ToolPcs
    /\ sub[o] = 0
    /\ \/ GotoBoundary(o, "settle")
       \/ GotoBoundary(o, "pre")
       \/ Goto(o, "stop paused") /\ UNCHANGED site
    /\ UNCHANGED <<queueVars, cur, threadVars>>

\* update_task and create_checkpoint with the result of the tool
Settle(o) ==
    /\ pc[o] = "settling"
    /\ \/ MayWrite(o) /\ GotoBoundary(o, "tail")
       \/ MayWrite(o) /\ Goto(o, "stop paused") /\ UNCHANGED site
       \/ WriteRaises(o) /\ Goto(o, "leaving") /\ UNCHANGED site
    /\ UNCHANGED <<queueVars, cur, threadVars>>

\* mutant: the stop is written without asking for the task's lease
StopUnguarded(o) ==
    /\ \/ pc[o] = "stop paused" /\ task' = "paused"
       \/ pc[o] = "stop failed" /\ task' = "failed"
    /\ Goto(o, "leaving")
    /\ UNCHANGED <<proc, exec, fence, controlRows, site, cur, threadVars>>

Stop(o) ==
    /\ \/ pc[o] = "stop paused" /\ UpdateTask(o, "paused")
       \/ pc[o] = "stop failed" /\ UpdateTask(o, "failed")
       \/ /\ pc[o] \in {"stop paused", "stop failed"}
          /\ WriteRaises(o)
          /\ UNCHANGED queueVars
    /\ Goto(o, "leaving")
    /\ UNCHANGED <<site, cur, threadVars>>

\* A statement between the transactions raises out of run(), or the user's
\* KeyboardInterrupt does: the handlers of _apply_controls catch Exception only,
\* so a control may stay in processing.  In a tool the binding is still cleared.
RunRaises(o) ==
    /\ Faults
    /\ Running(o) /\ pc[o] # "leaving"
    /\ pc[o] \in ToolPcs => sub[o] = 0
    /\ \/ Goto(o, "leaving") /\ cur' = [cur EXCEPT ![o] = 0] /\ UNCHANGED <<site, threadVars>>
       \/ pc[o] = "claiming" /\ RaiseControls(o)
    /\ UNCHANGED queueVars

Leave(o) ==
    /\ pc[o] = "leaving"
    /\ ReleaseExecution(o)
    /\ Goto(o, "idle")
    /\ LeaveSite(o)
    /\ UNCHANGED <<cur, threadVars>>

-----------------------------------------------------------------------------
(* submit_control and submit_task_control *)

SubmitQueued(k) ==
    /\ \E c \in Control : Enqueue(c, k)
    /\ UNCHANGED <<runVars, threadVars>>

\* an interrupt where no loop is registered or its loop runs no tool
SubmitWithoutTool(k) ==
    /\ \E c \in Control : EnqueueReady(c, k)
    /\ UNCHANGED <<runVars, threadVars>>

MaySubmit(o) == closing[o] = "open" /\ sub[o] = 0

\* the running tool has no callback, or one that only authorized process
\* control may use
SubmitUncancellable(o, k) ==
    /\ MaySubmit(o)
    /\ pc[o] = "tool"
    /\ \E c \in Control : EnqueueReady(c, k) /\ op' = op \union {c}
    /\ UNCHANGED <<runVars, sub, cb, by, called, closing>>

AlreadyRequested == \E d \in op : state[d] \in {"pending", "processing"}

SubmitDuplicate(o, k) ==
    /\ MaySubmit(o)
    /\ pc[o] = "cancellable tool"
    /\ AlreadyRequested
    /\ \E c \in Control : EnqueueReady(c, k) /\ op' = op \union {c}
    /\ UNCHANGED <<runVars, sub, cb, by, called, closing>>

SubmitIntent(o, k) ==
    /\ MaySubmit(o)
    /\ pc[o] = "cancellable tool"
    /\ ~AlreadyRequested
    /\ \E c \in Control :
         /\ EnqueueIntent(c, k, o)
         /\ sub' = [sub EXCEPT ![o] = c]
         /\ op' = op \union {c}
         /\ by' = [by EXCEPT ![c] = o]
    /\ UNCHANGED <<runVars, cb, called, closing>>

\* begin_cancellation and the start of the thread, under _active_lock
Begin(o) ==
    /\ sub[o] # 0
    /\ BeginCancellation(sub[o], o)
    /\ \/ cb' = [cb EXCEPT ![sub[o]] = "launched"]
       \/ Faults /\ cb' = [cb EXCEPT ![sub[o]] = "parked returned"]
       \/ Faults /\ UNCHANGED cb
    /\ sub' = [sub EXCEPT ![o] = 0]
    /\ UNCHANGED <<runVars, op, by, called, closing>>

\* begin_cancellation raised: the intent is resolved, or stays if that raises
BeginRaises(o) ==
    /\ Faults
    /\ sub[o] # 0
    /\ ResolveUnattempted(sub[o], o) \/ UNCHANGED queueVars
    /\ sub' = [sub EXCEPT ![o] = 0]
    /\ UNCHANGED <<runVars, op, cb, by, called, closing>>

-----------------------------------------------------------------------------
(* The thread of one cancellation: _attempt_cancellation *)

CallBack(c) ==
    /\ cb[c] = "launched"
    /\ cb' = [cb EXCEPT ![c] = "calling"]
    /\ called' = called \union {c}
    /\ UNCHANGED <<queueVars, runVars, sub, op, by, closing>>

\* it returns, or raises: BaseException out of the callback or its heartbeat
CallbackEnds(c) ==
    /\ \/ /\ cb[c] = "calling"
          /\ \E end \in {"returned", "raised"} : cb' = [cb EXCEPT ![c] = end]
       \/ /\ Faults
          /\ cb[c] = "launched"
          /\ cb' = [cb EXCEPT ![c] = "raised"]
    /\ UNCHANGED <<queueVars, runVars, sub, op, by, called, closing>>

\* _retry_cancellation_reconciliations: by the thread itself, and for what it
\* left behind by the next boundary of the loop or by close()
Retrying(c) ==
    \/ cb[c] \in {"returned", "raised"}
    \/ cb[c] \in Parked /\ (pc[by[c]] = "boundary" \/ closing[by[c]] = "retry")

Returned(c) == cb[c] \in {"returned", "parked returned"}

MayReconcile(c) ==
    /\ state[c] = "pending" /\ cancel[c] = "attempting" /\ can[c] = by[c]
    /\ Returned(c) \/ MayFailClosed

Reconcile(c) ==
    /\ Retrying(c)
    /\ IF Returned(c) THEN ReconcileReported(c, by[c]) ELSE ReconcileAmbiguous(c, by[c])
    /\ cb' = [cb EXCEPT ![c] = "over"]
    /\ UNCHANGED <<runVars, sub, op, by, called, closing>>

\* it raises: the outcome is dropped if another one is already recorded
ReconcileRaises(c) ==
    /\ Retrying(c)
    /\ Faults \/ ~MayReconcile(c)
    /\ cb' = [cb EXCEPT ![c] =
                CASE cancel[c] \in Outcomes -> "over"
                  [] cancel[c] \notin Outcomes /\ Returned(c) -> "parked returned"
                  [] OTHER -> "parked raised"]
    /\ UNCHANGED <<queueVars, runVars, sub, op, by, called, closing>>

-----------------------------------------------------------------------------
(* close(): refuse submissions, give up on the threads that are still alive *)

StartClose(o) ==
    /\ o \in Closers
    /\ pc[o] # "dead"
    /\ closing[o] \in {"open", "closed"}
    /\ sub[o] = 0
    /\ closing' = [closing EXCEPT ![o] = "abandon"]
    /\ UNCHANGED <<queueVars, runVars, sub, op, cb, by, called>>

\* mutant: a thread given up is taken for one that returned
AbandonAsReported(o, c) ==
    /\ closing[o] = "abandon"
    /\ by[c] = o
    /\ cb[c] \in LiveThread
    /\ ReconcileReported(c, o)
    /\ UNCHANGED <<runVars, threadVars>>

Abandon(o, c) ==
    /\ closing[o] = "abandon"
    /\ by[c] = o
    /\ cb[c] \in LiveThread
    /\ AbandonCancellation(c, o)
    /\ UNCHANGED <<runVars, threadVars>>

\* what the abandonments and recovery raise is swallowed
Abandonable(o, c) ==
    by[c] = o /\ cb[c] \in LiveThread /\ cancel[c] = "attempting" /\ MayFailClosed

RecoverOnClose(o) ==
    /\ closing[o] = "abandon"
    /\ Faults \/ ~\E c \in Control : Abandonable(o, c)
    /\ \E lapsed \in SUBSET Lapsable :
         /\ MayLapse(lapsed)
         /\ \/ RecoverCancellations(o, lapsed)
            \/ (Faults \/ ~RecoverySucceeds(o, lapsed)) /\ UNCHANGED queueVars
    /\ closing' = [closing EXCEPT ![o] = "retry"]
    /\ UNCHANGED <<runVars, sub, op, cb, by, called>>

EndClose(o) ==
    /\ closing[o] = "retry"
    /\ closing' = [closing EXCEPT ![o] = "closed"]
    /\ UNCHANGED <<queueVars, runVars, sub, op, cb, by, called>>

-----------------------------------------------------------------------------
(* The world around the loops *)

\* request_control without an executor, and the other callers of update_task
OutsideUpdate(s) == UpdateTask(None, s) /\ UNCHANGED <<runVars, threadVars>>

OutsideRecover == RecoverTask /\ UNCHANGED <<runVars, threadVars>>

InProcess(o, p) == ProcessOf[o] = p

CrashProcess(p) ==
    /\ Crash(p)
    /\ pc' = [o \in Owner |-> IF InProcess(o, p) THEN "dead" ELSE pc[o]]
    /\ cur' = [o \in Owner |-> IF InProcess(o, p) THEN 0 ELSE cur[o]]
    /\ sub' = [o \in Owner |-> IF InProcess(o, p) THEN 0 ELSE sub[o]]
    /\ cb' = [c \in Control |->
                IF cb[c] \in LiveThread \union Parked /\ InProcess(by[c], p)
                THEN "over" ELSE cb[c]]
    /\ closing' = [o \in Owner |-> IF InProcess(o, p) THEN "closed" ELSE closing[o]]
    /\ site' = [o \in Owner |-> IF InProcess(o, p) THEN "pre" ELSE site[o]]
    /\ UNCHANGED <<op, by, called>>

-----------------------------------------------------------------------------
Init ==
    /\ QueueInit
    /\ pc = [o \in Owner |-> "idle"]
    /\ site = [o \in Owner |-> "pre"]
    /\ cur = [o \in Owner |-> 0]
    /\ sub = [o \in Owner |-> 0]
    /\ op = {}
    /\ cb = [c \in Control |-> "none"]
    /\ by = [c \in Control |-> None]
    /\ called = {}
    /\ closing = [o \in Owner |-> "open"]

Entering(o) ==
    \/ Run(o) \/ RecoverOnEntry(o) \/ EnterScope(o) \/ ScopeRefused(o)
    \/ Recheck(o) \/ Requeue(o) \/ RecoverInScope(o) \/ Register(o)

Applying(o) ==
    \/ Blocked(o) \/ Unblocked(o) \/ ClaimControl(o) \/ NothingToClaim(o)
    \/ ApplyControl(o) \/ ApplyRaises(o) \/ FinishControl(o) \/ FinishThenLost(o)
    \/ FinishRaises(o) \/ FailControl(o)

Working(o) ==
    \/ Model(o) \/ ModelFails(o) \/ GuardTrips(o) \/ RunRaises(o)
    \/ Continue(o) \/ Complete(o) \/ StartTool(o)
    \/ EndTool(o) \/ Settle(o) \/ Stop(o) \/ Leave(o)

Submitting(o) ==
    \/ \E k \in Kinds : SubmitUncancellable(o, k) \/ SubmitDuplicate(o, k)
                        \/ SubmitIntent(o, k)
    \/ Begin(o) \/ BeginRaises(o)

Closing(o) ==
    \/ StartClose(o) \/ RecoverOnClose(o) \/ EndClose(o)
    \/ \E c \in Control : Abandon(o, c)

Thread(c) == CallBack(c) \/ CallbackEnds(c) \/ Reconcile(c) \/ ReconcileRaises(c)

Outside ==
    \/ \E k \in Kinds : SubmitQueued(k) \/ SubmitWithoutTool(k)
    \/ \E s \in {"pending", "paused", "cancelled"} : OutsideUpdate(s)
    \/ OutsideRecover
    \/ \E p \in Process : CrashProcess(p)

Next ==
    \/ \E o \in Owner :
         Entering(o) \/ Applying(o) \/ Working(o) \/ Submitting(o) \/ Closing(o)
    \/ \E c \in Control : Thread(c)
    \/ Outside

Spec == Init /\ [][Next]_vars

\* A started thread keeps running while its process lives: the thread of
\* run() (a model call and a tool call return), and the submitting thread.
\* Nothing is assumed of callbacks, users or processes.
Progress(o) ==
    /\ pc[o] # "idle"
    /\ Entering(o) \/ Applying(o) \/ Working(o)

FairSpec ==
    /\ Spec
    /\ \A o \in Owner : WF_vars(Progress(o)) /\ WF_vars(Begin(o))

\* The same where somebody keeps asking the live processes to run the task.
RetrySpec == FairSpec /\ \A o \in Owner : WF_vars(Run(o))

-----------------------------------------------------------------------------
(* Properties *)

LoopTypeOK ==
    /\ TypeOK
    /\ pc \in [Owner -> OwningPcs \union {"idle", "enter", "claim", "dead"}]
    /\ site \in [Owner -> Sites]
    /\ cur \in [Owner -> Control \union {0}]
    /\ sub \in [Owner -> Control \union {0}]
    /\ op \subseteq Control
    /\ cb \in [Control -> {"none", "over"} \union LiveThread \union Parked]
    /\ by \in [Control -> Holder]
    /\ called \subseteq Control
    /\ closing \in [Owner -> {"open", "abandon", "retry", "closed"}]

\* Between the claim and the release of task-execution a loop is the only one
\* that runs the task, in whatever process the others are.
SingleExecutor == \A o \in Owner : Running(o) => exec = o /\ Acting(o)

\* A cancellation callback that has not returned only ever meets the tool
\* invocation it was requested for: the invocation finishes, the loop stops,
\* another loop starts, but no other tool of the task runs under the callback
\* ("it cannot expose a subsequent invocation to this cancellation callback",
\* agent_loop.py:337-340).
CallbackHitsOnlyItsTool ==
    \A c \in Control, o \in Owner :
        Live(c) /\ pc[o] \in ToolPcs => by[c] = o /\ c \in op

\* A cancellation reported as never attempted never reached its callback and
\* never will (resolve_unattempted_cancellation, recovered-before-attempt).
TruthfulOutcome ==
    \A c \in Control : cancel[c] = "unattempted" => c \notin called /\ ~Live(c)

\* The fence of a task does not outlive the cancellations it was set for, so
\* it never blocks a task that nobody would recover.
FenceJustified == fence # None => Unreconciled # {}

\* An interrupt or cancel submitted during a tool call is settled before the
\* same run() starts another tool (docs/AGENT_LOOP.md: "no old-plan action
\* follows before the interrupt is applied").
NoOldPlanAction ==
    [][\A o \in Owner : pc[o] = "decide" /\ pc'[o] \in ToolPcs =>
          \A c \in op : state[c] \in {"applied", "failed"}]_vars

\* Controls of equal priority are applied in submission order
\* (docs/AGENT_LOOP.md: "Messages of equal priority retain submission order").
SubmissionOrder ==
    [][\A c, d \in Control :
          (/\ c < d
           /\ state[d] = "processing" /\ state'[d] = "applied"
           /\ Priority[kind[c]] = Priority[kind[d]])
          => state[c] \in {"applied", "failed"}]_vars

\* Whatever the loops do is what the queue allows any caller to do.
ImplementsQueue == QueueSpec

\* A control that is pending while a loop runs does not stay pending while it
\* goes on running: higher priorities, superseded decisions, failed tools and
\* unanswered cancellations delay it, but none of them starves it.
ControlsDrain ==
    \A c \in Control, o \in Owner :
        (state[c] = "pending" /\ Running(o))
            ~> (state[c] # "pending" \/ ~Running(o))

\* The fence of a dead process does not block its task for ever: as long as
\* somebody tries to run the task, recovery lifts the fence or ends the task.
FenceLifted ==
    (fence # None /\ OwnerGone(proc, fence))
        ~> (fence = None \/ task \in Terminal \/ \A o \in Owner : ~Acting(o))

\* Entering the execution scope settles every attempt whose owner is gone
\* (ownership.py:383-384: recovery "resolves an unattempted dead owner or
\* atomically places an attempted outcome into fail-closed state").
RecoveryFailsClosed ==
    [][\A o \in Owner : pc[o] = "enter" /\ pc'[o] \in {"claim", "idle"} =>
          \A c \in Unreconciled : OwnerGone(proc, can[c]) => cancel'[c] \in Outcomes]_vars
=============================================================================
