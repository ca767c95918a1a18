----------------------------- MODULE Delegation -----------------------------
(***************************************************************************)
(* Child runs (delegation.py) and the records behind them                  *)
(* (orchestration.py).  A delegation is three rows, which are written      *)
(* together when a run ends: the contract, the delegation record and the   *)
(* child task.  Whoever starts or cancels one holds the lease `delegation' *)
(* of it; the run also holds the task-execution lease of the child, and    *)
(* that of a shared workspace when its contract asks for it.               *)
(*                                                                         *)
(* An owner is a call of start, with the thread of the pool that it        *)
(* submits, or a call of cancel.  Each transaction is one step.  What a    *)
(* contract allows its child is fixed when it is created and left out.     *)
(***************************************************************************)
EXTENDS Leases, Naturals

CONSTANTS
    Child,      \* delegations
    Exclusive,  \* those whose contract asks for the workspace (one, shared)
    Looped,     \* those whose executor is an AgentLoop, which ends its own task
    Touched,    \* those that users cancel, and whose records they write to as well
    Starters,   \* owners that start,
    Cancellers, \* and those that cancel (bounds)
    MayLapse    \* TRUE: guarded writes may find their lease expired

ASSUME ChildrenOfKinds == Exclusive \subseteq Child /\ Looped \subseteq Child /\ Touched \subseteq Child
ASSUME MayLapseIsBool == MayLapse \in BOOLEAN

VARIABLES
    proc,       \* the processes: alive or gone
    contract,   \* delegation_contracts.state
    record,     \* delegations.state
    child,      \* tasks.state of the child
    lease,      \* owner of the lease delegation, or None
    exec,       \* owner of the lease task-execution of the child, or None
    room,       \* owner of the lease of the shared workspace, or None
    call,       \* the call of an owner: its local variables
    invoked,    \* history: how often the executor was invoked
    ended       \* history: the children whose task or record a user has ended

rows == <<contract, record, child, lease>>
places == <<exec, room>>
history == <<invoked, ended>>
vars == <<rows, places, proc, call, history>>

Unused == [pc |-> "unused", on |-> CHOOSE d \in Child : TRUE, run |-> None,
           event |-> FALSE, timedOut |-> FALSE, conflict |-> FALSE, end |-> "none"]

Open == {"scheduled", "running", "cancellation_requested"}
Terminal == {"completed", "failed", "cancelled", "timed_out", "accepted", "rejected"}
TaskEnds == {"completed", "failed", "cancelled"}

Acting(o) == proc[ProcessOf[o]] = "alive"
At(o, label) == call[o].pc = label
On(o) == call[o].on
Goes(o, label) == call' = [call EXCEPT ![o].pc = label]

-----------------------------------------------------------------------------
(* _finish_execution: the three rows end together, and the lease with them *)

\* delegations.state and tasks.state for the end of a contract
TaskEnd(end) == IF end = "timed_out" THEN "failed" ELSE end

\* require_task_write_in_transaction, for a change of the state
TaskWritable(d, o) ==
    /\ child[d] \notin TaskEnds
    /\ Active(proc, exec[d]) => HeldBy(proc, exec[d], o)

\* mutant: whatever the child has come to
MayFinishAnyway(o, d, end, withTask) ==
    lease[d] = o /\ contract[d] \in Open /\ record[d] \notin TaskEnds

MayFinish(o, d, end, withTask) ==
    /\ lease[d] = o
    /\ contract[d] \in Open
    /\ record[d] \notin TaskEnds
    /\ withTask => child[d] = TaskEnd(end) \/ TaskWritable(d, o)

Finished(d, end, withTask) ==
    /\ contract' = [contract EXCEPT ![d] = end]
    /\ record' = [record EXCEPT ![d] = TaskEnd(end)]
    /\ child' = [child EXCEPT ![d] = IF withTask THEN TaskEnd(end) ELSE @]
    /\ lease' = [lease EXCEPT ![d] = None]

\* it raises and its transaction is rolled back
FinishRefused(o, d, end, withTask) ==
    MayLapse \/ ~MayFinish(o, d, end, withTask)

-----------------------------------------------------------------------------
(* create_child, complete_delegation, and what users do to the child task *)

Create(d) ==
    /\ contract[d] = "absent"
    /\ contract' = [contract EXCEPT ![d] = "created"]
    /\ record' = [record EXCEPT ![d] = "requested"]
    /\ child' = [child EXCEPT ![d] = "pending"]
    /\ UNCHANGED <<lease, places, proc, call, history>>

\* the record and the task end, and the contract is not looked at
CompleteByHand(d) ==
    /\ d \in Touched
    /\ record[d] = "requested"
    /\ \E end \in TaskEnds :
         /\ child[d] = end \/ (child[d] \notin TaskEnds /\ ~Active(proc, exec[d]))
         /\ record' = [record EXCEPT ![d] = end]
         /\ child' = [child EXCEPT ![d] = end]
    /\ ended' = ended \union {d}
    /\ UNCHANGED <<contract, lease, places, proc, call, invoked>>

\* update_task by anybody but the executor, and recover_task
UserWritesTask(d) ==
    /\ d \in Touched
    /\ child[d] # "absent"
    /\ ~Active(proc, exec[d])
    /\ \/ /\ child[d] \notin TaskEnds
          /\ \E end \in TaskEnds : child' = [child EXCEPT ![d] = end]
          /\ ended' = ended \union {d}
       \/ /\ child[d] = "failed"
          /\ child' = [child EXCEPT ![d] = "pending"]
          /\ UNCHANGED ended
    /\ UNCHANGED <<contract, record, lease, places, proc, call, invoked>>

\* accept: the parent reviews completed work, by compare and swap
Accept(d) ==
    /\ contract[d] = "completed"
    /\ \E verdict \in {"accepted", "rejected"} :
         contract' = [contract EXCEPT ![d] = verdict]
    /\ UNCHANGED <<record, child, lease, places, proc, call, history>>

-----------------------------------------------------------------------------
(* start *)

\* mutant: a run that was lost is started again
StartsReplay(d) == "submit"

StartsAt(d) == IF contract[d] = "running" THEN "stale" ELSE "submit"

Start(o, d) ==
    /\ o \in Starters /\ At(o, "unused")
    /\ contract[d] \in {"created", "scheduled", "running"}
    /\ Claimable(proc, lease[d], o)
    /\ lease' = [lease EXCEPT ![d] = o]
    /\ contract' = [contract EXCEPT ![d] = IF StartsAt(d) = "submit" THEN "scheduled" ELSE @]
    /\ call' = [call EXCEPT ![o].pc = StartsAt(d), ![o].on = d]
    /\ UNCHANGED <<record, child, places, proc, history>>

\* the owner of a running contract was lost: it is not replayed.  The call
\* raises; when it could not be recorded, the lease stays
EndStale(o) ==
    /\ At(o, "stale")
    /\ \/ MayFinish(o, On(o), "failed", TRUE) /\ Finished(On(o), "failed", TRUE)
       \/ FinishRefused(o, On(o), "failed", TRUE) /\ UNCHANGED rows
    /\ Goes(o, "raised")
    /\ UNCHANGED <<places, proc, history>>

\* the run is entered in _RUNS, where cancel finds it
Submit(o) ==
    /\ At(o, "submit")
    /\ Goes(o, "queued")
    /\ UNCHANGED <<rows, places, proc, history>>

\* the pool is shut down
SubmitRaises(o) ==
    /\ At(o, "submit")
    /\ \/ MayFinish(o, On(o), "failed", TRUE) /\ Finished(On(o), "failed", TRUE)
       \/ FinishRefused(o, On(o), "failed", TRUE) /\ UNCHANGED rows
    /\ Goes(o, "raised")
    /\ UNCHANGED <<places, proc, history>>

-----------------------------------------------------------------------------
(* run, on a thread of the pool *)

Running == {"claim", "room", "ready", "adopt", "work", "decide", "finish", "fail"}

\* the timer and the monitor of cancellation, which end with the run
Expire(o) ==
    /\ call[o].pc \in Running
    /\ ~call[o].timedOut
    /\ call' = [call EXCEPT ![o].timedOut = TRUE, ![o].event = TRUE]
    /\ UNCHANGED <<rows, places, proc, history>>

Monitor(o) ==
    /\ call[o].pc \in Running
    /\ contract[On(o)] = "cancellation_requested"
    /\ ~call[o].event
    /\ call' = [call EXCEPT ![o].event = TRUE]
    /\ UNCHANGED <<rows, places, proc, history>>

Ends(o, end) == call' = [call EXCEPT ![o].pc = "finish", ![o].end = end]

Begin(o) ==
    /\ At(o, "queued")
    /\ IF contract[On(o)] = "cancellation_requested" THEN Ends(o, "cancelled")
       ELSE Goes(o, "claim")
    /\ UNCHANGED <<rows, places, proc, history>>

ClaimTask(o) ==
    /\ At(o, "claim")
    /\ IF Claimable(proc, exec[On(o)], o)
       THEN /\ exec' = [exec EXCEPT ![On(o)] = o]
            /\ Goes(o, IF On(o) \in Exclusive THEN "room" ELSE "ready")
       ELSE /\ call' = [call EXCEPT ![o].pc = "fail", ![o].conflict = TRUE]
            /\ UNCHANGED exec
    /\ UNCHANGED <<rows, room, proc, history>>

ClaimRoom(o) ==
    /\ At(o, "room")
    /\ Claimable(proc, room, o)
    /\ room' = o
    /\ Goes(o, "ready")
    /\ UNCHANGED <<rows, exec, proc, history>>

\* cancelled or out of time while it waits: in both cases a TimeoutError
RoomTimeout(o) ==
    /\ At(o, "room")
    /\ ~Claimable(proc, room, o)
    /\ call[o].event
    /\ Goes(o, "fail")
    /\ UNCHANGED <<rows, places, proc, history>>

Ready(o) ==
    /\ At(o, "ready")
    /\ \/ call[o].event /\ Ends(o, "cancelled") /\ UNCHANGED contract
       \/ /\ ~call[o].event
          /\ contract[On(o)] = "scheduled" /\ lease[On(o)] = o
          /\ contract' = [contract EXCEPT ![On(o)] = "running"]
          /\ Goes(o, "adopt")
       \/ /\ ~call[o].event
          /\ MayLapse \/ contract[On(o)] # "scheduled" \/ lease[On(o)] # o
          /\ Goes(o, "fail") /\ UNCHANGED contract
    /\ UNCHANGED <<record, child, lease, places, proc, history>>

\* the child task is set to running
Adopt(o) ==
    /\ At(o, "adopt")
    /\ IF TaskWritable(On(o), o)
       THEN /\ child' = [child EXCEPT ![On(o)] = "running"]
            /\ invoked' = [invoked EXCEPT ![On(o)] = @ + 1]
            /\ Goes(o, "work")
       ELSE Goes(o, "fail") /\ UNCHANGED <<child, invoked>>
    /\ UNCHANGED <<contract, record, lease, places, proc, ended>>

\* an AgentLoop ends its own task before it returns
LoopEnds(o) ==
    /\ At(o, "work")
    /\ On(o) \in Looped
    /\ TaskWritable(On(o), o)
    /\ \E end \in TaskEnds : child' = [child EXCEPT ![On(o)] = end]
    /\ UNCHANGED <<contract, record, lease, places, proc, call, history>>

\* A loop has completed its task, or was not begun as the call was cancelled by then,
\* or the boundary raises; anything may raise, a heartbeat that lost its lease too.
WorkEnds(o) ==
    /\ At(o, "work")
    /\ \/ /\ On(o) \notin Looped \/ child[On(o)] = "completed" \/ call[o].event
          /\ Goes(o, "decide")
       \/ Goes(o, "fail")
    /\ UNCHANGED <<rows, places, proc, history>>

\* the flags are read once; a summary may be missing
Decide(o) ==
    /\ At(o, "decide")
    /\ IF call[o].timedOut THEN Ends(o, "timed_out")
       ELSE IF call[o].event THEN Ends(o, "cancelled")
       ELSE Ends(o, "completed") \/ Goes(o, "fail")
    /\ UNCHANGED <<rows, places, proc, history>>

FinishRun(o) ==
    /\ At(o, "finish")
    /\ \/ /\ MayFinish(o, On(o), call[o].end, TRUE)
          /\ Finished(On(o), call[o].end, TRUE)
          /\ Goes(o, "leave")
       \/ /\ FinishRefused(o, On(o), call[o].end, TRUE)
          /\ Goes(o, "fail")
          /\ UNCHANGED rows
    /\ UNCHANGED <<places, proc, history>>

\* The handler: a conflict over the child leaves its task alone, and a refusal
\* is swallowed.
Fail(o) ==
    /\ At(o, "fail")
    /\ LET end == IF call[o].timedOut THEN "timed_out" ELSE "failed"
           withTask == ~call[o].conflict
       IN \/ MayFinish(o, On(o), end, withTask) /\ Finished(On(o), end, withTask)
          \/ FinishRefused(o, On(o), end, withTask) /\ UNCHANGED rows
    /\ Goes(o, "leave")
    /\ UNCHANGED <<places, proc, history>>

\* the leases are released, and the future leaves _RUNS
Leave(o) ==
    /\ At(o, "leave")
    /\ exec' = [exec EXCEPT ![On(o)] = IF @ = o THEN None ELSE @]
    /\ room' = IF room = o THEN None ELSE room
    /\ call' = [call EXCEPT ![o] = [Unused EXCEPT !.pc = "over", !.on = On(o)]]
    /\ UNCHANGED <<rows, proc, history>>

Run(o) ==
    \/ Begin(o) \/ ClaimTask(o) \/ ClaimRoom(o) \/ RoomTimeout(o) \/ Ready(o) \/ Adopt(o)
    \/ LoopEnds(o) \/ WorkEnds(o) \/ Decide(o) \/ FinishRun(o) \/ Fail(o) \/ Leave(o)
    \/ Expire(o) \/ Monitor(o)

-----------------------------------------------------------------------------
(* cancel *)

\* _RUNS of the caller's process
RunsOf(o, d) ==
    {r \in Owner : /\ ProcessOf[r] = ProcessOf[o]
                   /\ On(r) = d
                   /\ call[r].pc \in Running \union {"queued", "leave"}}

CancelLooks(o, d) ==
    /\ o \in Cancellers /\ d \in Touched /\ At(o, "unused")
    /\ contract[d] \in Open \union {"created"}
    /\ \E run \in IF RunsOf(o, d) = {} THEN {None} ELSE RunsOf(o, d) :
         call' = [call EXCEPT ![o].pc = "looked", ![o].on = d, ![o].run = run]
    /\ UNCHANGED <<rows, places, proc, history>>

\* without a run in this process, the caller tries to take the contract over
CancelMarks(o) ==
    /\ At(o, "looked")
    /\ LET marks == contract[On(o)] \in {"created", "scheduled", "running"}
           was == contract[On(o)] = "cancellation_requested"
       IN /\ contract' = [contract EXCEPT ![On(o)] =
                            IF marks THEN "cancellation_requested" ELSE @]
          /\ Goes(o, IF call[o].run # None THEN (IF marks THEN "signal" ELSE "done")
                     ELSE IF marks \/ was THEN "reclaim" ELSE "done")
    /\ UNCHANGED <<record, child, lease, places, proc, history>>

\* mutant: the lease is taken from whoever has it
CancelReclaimsAny(o) ==
    /\ At(o, "reclaim")
    /\ lease' = [lease EXCEPT ![On(o)] = o]
    /\ Goes(o, "settle")
    /\ UNCHANGED <<contract, record, child, places, proc, history>>

CancelReclaims(o) ==
    /\ At(o, "reclaim")
    /\ IF Claimable(proc, lease[On(o)], o)
       THEN lease' = [lease EXCEPT ![On(o)] = o] /\ Goes(o, "settle")
       ELSE Goes(o, "done") /\ UNCHANGED lease
    /\ UNCHANGED <<contract, record, child, places, proc, history>>

\* a future that no thread has picked up is cancelled, and leaves _RUNS
CancelSignals(o) ==
    /\ At(o, "signal")
    /\ LET r == call[o].run
           queued == At(r, "queued")
       IN call' = [call EXCEPT ![r].event = TRUE,
                               ![r].pc = IF queued THEN "over" ELSE @,
                               ![o].pc = IF queued THEN "settle" ELSE "done"]
    /\ UNCHANGED <<rows, places, proc, history>>

\* under the caller's own lease, or that of the run whose future it cancelled;
\* what it raises, its caller gets
CancelSettles(o) ==
    /\ At(o, "settle")
    /\ LET as == IF call[o].run = None THEN o ELSE call[o].run
       IN \/ MayFinish(as, On(o), "cancelled", TRUE) /\ Finished(On(o), "cancelled", TRUE)
          \/ FinishRefused(as, On(o), "cancelled", TRUE) /\ UNCHANGED rows
    /\ Goes(o, "done")
    /\ UNCHANGED <<places, proc, history>>

Cancel(o) == CancelMarks(o) \/ CancelReclaims(o) \/ CancelSignals(o) \/ CancelSettles(o)

-----------------------------------------------------------------------------
Crash(p) ==
    /\ proc[p] = "alive"
    /\ proc' = [proc EXCEPT ![p] = "gone"]
    /\ UNCHANGED <<rows, places, call, history>>

Init ==
    /\ proc = [p \in Process |-> "alive"]
    /\ contract = [d \in Child |-> "absent"]
    /\ record = [d \in Child |-> "absent"]
    /\ child = [d \in Child |-> "absent"]
    /\ lease = [d \in Child |-> None]
    /\ exec = [d \in Child |-> None]
    /\ room = None
    /\ call = [o \in Owner |-> Unused]
    /\ invoked = [d \in Child |-> 0]
    /\ ended = {}

Calls(o) ==
    \/ \E d \in Child : Start(o, d) \/ CancelLooks(o, d)
    \/ EndStale(o) \/ Submit(o) \/ SubmitRaises(o)
    \/ Run(o)
    \/ Cancel(o)

Next ==
    \/ \E d \in Child : Create(d) \/ CompleteByHand(d) \/ UserWritesTask(d) \/ Accept(d)
    \/ \E o \in Owner : Acting(o) /\ Calls(o)
    \/ \E p \in Process : Crash(p)

Spec == Init /\ [][Next]_vars

-----------------------------------------------------------------------------
(* Properties *)

\* While an executor is at work it is the only one of its child, under all of
\* the leases of the run, its contract is open and it is the first that was
\* ever invoked (delegation.py:409 "previous child execution owner was lost;
\* outcome is ambiguous"; docs/DELEGATION.md:5 "Shared writable workspaces use
\* an exclusive scheduler lock").
OneExecution ==
    \A o \in Owner :
        Acting(o) /\ At(o, "work") =>
            /\ lease[On(o)] = o /\ exec[On(o)] = o
            /\ On(o) \in Exclusive => room = o
            /\ contract[On(o)] \in {"running", "cancellation_requested"}
            /\ invoked[On(o)] = 1

\* What has ended stays as it ended, whichever of the run, its cancellation, the
\* recovery of a lost run and the user comes second; only completed work is
\* reviewed, and only a failed task is recovered.
EndsStay ==
    [][\A d \in Child :
         /\ child[d] \in {"completed", "cancelled"} => child'[d] = child[d]
         /\ record[d] \in TaskEnds => record'[d] = record[d]
         /\ contract[d] \in Terminal =>
              \/ contract'[d] = contract[d]
              \/ contract[d] = "completed" /\ contract'[d] \in {"accepted", "rejected"}]_vars

\* A run that is over has ended its contract, unless a user had ended its
\* record or its child without it, or its loop had: then its writes are refused,
\* and nobody but the death of its process frees the contract.  An owner that
\* is not seen to live cannot write its task either.
RunsSettle ==
    \A o \in Owner :
        OwnerAlive(proc, o) /\ At(o, "over") /\ ~MayLapse =>
            \/ contract[On(o)] \in Terminal
            \/ On(o) \in ended
            \/ On(o) \in Looped /\ child[On(o)] \in {"completed", "cancelled"}
            \/ \E c \in Owner : call[c].pc = "settle" /\ call[c].run = o

\* A child has one executor, and its contract ends with it.
ChildIsSound == OneExecution /\ RunsSettle
=============================================================================
