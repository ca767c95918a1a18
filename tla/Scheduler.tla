------------------------------ MODULE Scheduler ------------------------------
(***************************************************************************)
(* The durable scheduler (scheduler.py): the service thread of the Core    *)
(* (run_forever), passes started by `tars schedule run-due', and the users *)
(* who create, edit, pause, resume and remove schedules meanwhile.  Each   *)
(* database transaction is one step; a pass works on the schedules as it   *)
(* listed them, on the instant at which it listed them, and re-reads a row *)
(* only inside the transaction that claims a run of it.                    *)
(*                                                                         *)
(* Instants are numbers, and intervals multiples of a tick.  A schedule    *)
(* has a task of its own.  All schedules have the default concurrency key. *)
(* Delivery targets are refused at registration, so the deliveries of a    *)
(* run are left out.                                                       *)
(***************************************************************************)
EXTENDS Leases, Naturals, FiniteSets

CONSTANTS
    Schedule,
    KindOf,         \* the kind of a schedule: no edit changes it
    Intervals,      \* intervals that expressions name
    Policies,       \* missed-run policies that are used
    Service,        \* the owners that are service threads
    MaxConcurrency, \* max_concurrency of the schedulers
    KeyLimit,       \* max_concurrency of the schedules
    CatchUp,        \* max_catch_up of the schedules
    MaxWait,        \* the longest wait of the service
    Horizon,        \* bound: the last instant of the clock
    MaxRevision,    \* bound: revisions of a schedule
    Faults          \* TRUE: leases lapse and notifications are lost

Kinds == {"one-shot", "recurring", "condition"}

ASSUME KindsOfSchedules == KindOf \in [Schedule -> Kinds]
ASSUME IntervalsArePositive == Intervals \subseteq Nat \ {0}
ASSUME PoliciesAreKnown == Policies \subseteq {"skip", "run-once", "catch-up"}
ASSUME ServicesAreOwners == Service \subseteq Owner
ASSUME LimitsAreNat ==
    {MaxConcurrency, KeyLimit, CatchUp, MaxWait, Horizon, MaxRevision} \subseteq Nat
ASSUME FaultsIsBool == Faults \in BOOLEAN

Instant == 0..Horizon
Never == 9999   \* COALESCE(next_run_at, '9999')

Run == Schedule \X Nat      \* UNIQUE(schedule_id, planned_for)

VARIABLES
    proc,       \* the processes: alive or gone
    now,        \* the clock
    world,      \* the truth of the predicate of all condition watches
    row,        \* schedules: the row of a schedule, revision 0 before it exists
    run,        \* schedule_runs.state, as a function of the runs that exist
    lease,      \* owner of the lease schedule-run of such a run, or None
    exec,       \* owner of the lease task-execution of the schedule's task
    ran,        \* history: how often the executor was invoked for a run
    armed,      \* history: the predicate was false, or the watch reset, since
                \* the last run of the condition watch
    unsent,     \* a change is committed and its notification not yet sent
    datagram,   \* a datagram waits in the socket of the service
    pc,         \* where the thread of a scheduler is
    at,         \* `current' of its pass
    snap,       \* the schedules as listed by the pass
    todo,       \* those still to visit
    item,       \* the schedule being visited
    slots,      \* its planned slots still to claim
    got,        \* how many runs the pass has claimed
    batch,      \* the claimed runs to execute
    doing,      \* the run being executed
    deadline    \* when the wait of the service ends

clockVars == <<proc, now, world>>
rowVars == <<row, unsent, armed>>
runRows == <<run, lease, exec, ran>>
passVars == <<at, snap, todo, item, slots, got>>
workVars == <<batch, doing>>
vars == <<clockVars, rowVars, runRows, passVars, workVars, datagram, pc, deadline>>

Absent == [next |-> Never, every |-> 1, policy |-> "run-once", enabled |-> FALSE,
           seen |-> FALSE, removed |-> FALSE, revision |-> 0]
Unknown == [s \in Schedule |-> Absent]
Nothing == CHOOSE s \in Schedule : TRUE

Goto(o, label) == pc' = [pc EXCEPT ![o] = label]
Acting(o) == proc[ProcessOf[o]] = "alive"

Unfinished == {r \in DOMAIN run : run[r] \in {"claimed", "running"}}

\* f with the value at the owners of S, who no longer hold what it kept
Cleared(f, S, value) == [o \in Owner |-> IF o \in S THEN value ELSE f[o]]

\* what a call of claim_due knew
Forget(S) ==
    /\ at' = Cleared(at, S, 0)
    /\ snap' = Cleared(snap, S, Unknown)
    /\ todo' = Cleared(todo, S, {})
    /\ item' = Cleared(item, S, Nothing)
    /\ slots' = Cleared(slots, S, {})
    /\ got' = Cleared(got, S, 0)

\* the passes of S are over: what their threads knew is gone, and the socket of
\* a service with it
Over(S) ==
    /\ pc' = Cleared(pc, S, "over")
    /\ Forget(S)
    /\ batch' = Cleared(batch, S, {})
    /\ doing' = Cleared(doing, S, <<>>)
    /\ deadline' = Cleared(deadline, S, 0)
    /\ datagram' = (datagram /\ ~\E o \in S \cap Service : pc[o] \notin {"off", "over"})

Earliest(S) == CHOOSE t \in S : \A u \in S : t <= u

-----------------------------------------------------------------------------
(* Users: the functions of the module that change a schedule *)

Live(s) == row[s].revision > 0 /\ ~row[s].removed

\* mutant: the change is not notified
ChangedQuietly(s, new) ==
    /\ row' = [row EXCEPT ![s] = new]
    /\ armed' = [armed EXCEPT ![s] = @ \/ (row[s].seen /\ ~new.seen)]
    /\ UNCHANGED <<clockVars, unsent, runRows, passVars, workVars, datagram, pc, deadline>>

Changed(s, new) ==
    /\ row' = [row EXCEPT ![s] = new]
    /\ unsent' = TRUE
    /\ armed' = [armed EXCEPT ![s] = @ \/ (row[s].seen /\ ~new.seen)]
    /\ UNCHANGED <<clockVars, runRows, passVars, workVars, datagram, pc, deadline>>

CreateSchedule(s) ==
    /\ row[s].revision = 0
    /\ \E t \in Instant, e \in Intervals, p \in Policies :
         Changed(s, [next |-> t, every |-> e, policy |-> p, enabled |-> TRUE,
                     seen |-> FALSE, removed |-> FALSE, revision |-> 1])

\* edit_schedule with another expression: the next run is recomputed or given,
\* and a condition watch forgets what it saw
EditExpression(s) ==
    \E e \in Intervals, t \in Instant :
        Changed(s, [row[s] EXCEPT !.every = e, !.next = t, !.revision = @ + 1,
                                  !.seen = IF KindOf[s] = "condition" THEN FALSE ELSE @])

\* edit_schedule with another next run, or another missed-run policy
EditNext(s) ==
    \E t \in Instant : Changed(s, [row[s] EXCEPT !.next = t, !.revision = @ + 1])

EditPolicy(s) ==
    \E p \in Policies : Changed(s, [row[s] EXCEPT !.policy = p, !.revision = @ + 1])

EditSchedule(s) ==
    /\ Live(s)
    /\ row[s].revision < MaxRevision
    /\ EditExpression(s) \/ EditNext(s) \/ EditPolicy(s)

SetEnabled(s) ==
    /\ Live(s)
    /\ row[s].revision < MaxRevision
    /\ \E b \in BOOLEAN :
         Changed(s, [row[s] EXCEPT !.enabled = b, !.revision = @ + 1])

\* remove_schedule does not notify
RemoveSchedule(s) ==
    /\ row[s].revision > 0
    /\ ~\E r \in Unfinished : r[1] = s
    /\ row' = [row EXCEPT ![s].enabled = FALSE, ![s].removed = TRUE]
    /\ UNCHANGED <<clockVars, unsent, armed, runRows, passVars, workVars, datagram, pc,
                   deadline>>

\* notify_scheduler, after the commit; nobody may listen
Notify ==
    /\ unsent
    /\ unsent' = FALSE
    /\ \/ datagram' = \E o \in Service : pc[o] \notin {"off", "over"}
       \/ Faults /\ UNCHANGED datagram
    /\ UNCHANGED <<clockVars, row, armed, runRows, passVars, workVars, pc, deadline>>

-----------------------------------------------------------------------------
(* Starting: recover() *)

Start(o) ==
    /\ pc[o] = "off"
    /\ o \in Service => \A other \in Service : pc[other] \in {"off", "over"}
    /\ Goto(o, "recover")
    /\ UNCHANGED <<clockVars, rowVars, runRows, passVars, workVars, datagram, deadline>>

\* mutant: whatever runs was interrupted
InterruptedAny(o) == {r \in DOMAIN run : run[r] = "running"}

\* runs that a dead scheduler had started
Interrupted(o) == {r \in DOMAIN run : run[r] = "running" /\ Claimable(proc, lease[r], o)}

\* mutant: the interrupted run is claimed again
RecoverAs(o, end) ==
    /\ pc[o] = "recover"
    /\ run' = [r \in DOMAIN run |-> IF r \in Interrupted(o) THEN end ELSE run[r]]
    /\ lease' = [r \in DOMAIN run |-> IF r \in Interrupted(o) THEN None ELSE lease[r]]
    /\ Goto(o, "list")
    /\ UNCHANGED <<clockVars, rowVars, exec, ran, passVars, workVars, datagram, deadline>>

RecoverReclaims(o) == RecoverAs(o, "claimed")

Recover(o) ==
    /\ pc[o] = "recover"
    /\ run' = [r \in DOMAIN run |-> IF r \in Interrupted(o) THEN "failed" ELSE run[r]]
    /\ lease' = [r \in DOMAIN run |-> IF r \in Interrupted(o) THEN None ELSE lease[r]]
    /\ Goto(o, "list")
    /\ UNCHANGED <<clockVars, rowVars, exec, ran, passVars, workVars, datagram, deadline>>

-----------------------------------------------------------------------------
(* claim_due *)

Due(s, instant) == Live(s) /\ row[s].enabled /\ row[s].next <= instant

\* list_schedules(enabled=True); what is not due at this instant is passed over
List(o) ==
    /\ pc[o] = "list"
    /\ at' = [at EXCEPT ![o] = now]
    /\ snap' = [snap EXCEPT ![o] = row]
    /\ todo' = [todo EXCEPT ![o] = {s \in Schedule : Due(s, now)}]
    /\ got' = [got EXCEPT ![o] = 0]
    /\ Goto(o, "visit")
    /\ UNCHANGED <<clockVars, rowVars, runRows, item, slots, workVars, datagram, deadline>>

\* mutant: missed occurrences collapse whatever the policy
AdvancedFromNow(s, r, planned, current) ==
    IF KindOf[s] = "one-shot" THEN Never ELSE current + r.every

\* _advance
Advanced(s, r, planned, current) ==
    LET candidate == planned + r.every
        missed == candidate <= current
    IN  CASE KindOf[s] = "one-shot" -> Never
          [] KindOf[s] = "condition" -> current + r.every
          [] KindOf[s] = "recurring" /\ r.policy = "skip" /\ missed ->
               candidate + r.every * ((current - candidate) \div r.every + 1)
          [] KindOf[s] = "recurring" /\ r.policy = "run-once" /\ missed ->
               current + r.every
          [] OTHER -> candidate

PlannedSlots(s, r, current) ==
    {r.next} \union
    {t \in {r.next + k * r.every : k \in 1..(CatchUp - 1)} :
        t <= current /\ KindOf[s] = "recurring" /\ r.policy = "catch-up"}

Visit(o) ==
    /\ pc[o] = "visit"
    /\ got[o] < MaxConcurrency
    /\ \E s \in todo[o] :
         /\ \A other \in todo[o] : snap[o][s].next <= snap[o][other].next
         /\ item' = [item EXCEPT ![o] = s]
         /\ todo' = [todo EXCEPT ![o] = @ \ {s}]
         /\ slots' = [slots EXCEPT ![o] = PlannedSlots(s, snap[o][s], at[o])]
         /\ Goto(o, IF KindOf[s] = "condition" THEN "observe" ELSE "claim")
    /\ UNCHANGED <<clockVars, rowVars, runRows, at, snap, got, workVars, datagram, deadline>>

VisitsEnd(o) ==
    /\ pc[o] = "visit"
    /\ todo[o] = {} \/ got[o] >= MaxConcurrency
    /\ Forget({o})
    /\ Goto(o, "fetch")
    /\ UNCHANGED <<clockVars, rowVars, runRows, workVars, datagram, deadline>>

\* _condition_due: the predicate is read, or raises, outside any transaction
Observe(o) ==
    /\ pc[o] = "observe"
    /\ Goto(o, IF world THEN "saw true" ELSE "saw false") \/ Goto(o, "advance")
    /\ UNCHANGED <<clockVars, rowVars, runRows, passVars, workVars, datagram, deadline>>

\* mutant: the watch looks at the level of its predicate
RecordLevel(o) ==
    /\ pc[o] \in {"saw true", "saw false"}
    /\ row' = [row EXCEPT ![item[o]].seen = pc[o] = "saw true"]
    /\ Goto(o, IF pc[o] = "saw true" THEN "claim" ELSE "advance")
    /\ UNCHANGED <<clockVars, unsent, armed, runRows, passVars, workVars, datagram, deadline>>

\* what was seen is written over the row as it is now, and compared with what
\* the listed schedule had seen
Record(o) ==
    /\ pc[o] \in {"saw true", "saw false"}
    /\ LET s == item[o]
           current == pc[o] = "saw true"
       IN  /\ row' = [row EXCEPT ![s].seen = current]
           /\ Goto(o, IF current /\ ~snap[o][s].seen THEN "claim" ELSE "advance")
    /\ UNCHANGED <<clockVars, unsent, armed, runRows, passVars, workVars, datagram, deadline>>

\* _set_next
SetNext(o) ==
    /\ pc[o] = "advance"
    /\ LET s == item[o] IN
       row' = [row EXCEPT ![s].next = Advanced(s, snap[o][s], snap[o][s].next, at[o])]
    /\ Goto(o, "visit")
    /\ UNCHANGED <<clockVars, unsent, armed, runRows, passVars, workVars, datagram, deadline>>

Slot(o) == Earliest(slots[o])
Candidate(o) == <<item[o], Slot(o)>>

\* mutant: the revision is not compared
StaleByTime(o) ==
    \/ row[item[o]].removed \/ ~row[item[o]].enabled
    \/ Slot(o) = snap[o][item[o]].next /\ row[item[o]].next # snap[o][item[o]].next

\* the row is not the one that was listed
Stale(o) ==
    LET s == item[o] IN
    \/ row[s].removed \/ ~row[s].enabled
    \/ row[s].revision # snap[o][s].revision
    \/ Slot(o) = snap[o][s].next /\ row[s].next # snap[o][s].next

\* mutant: claimed runs are not counted
AtCeilingRunning ==
    Cardinality({r \in DOMAIN run : run[r] = "running"}) >= KeyLimit

AtCeiling == Cardinality(Unfinished) >= MaxConcurrency \/ Cardinality(Unfinished) >= KeyLimit

\* the rest of the slots, then the next schedule
Continue(o, rest, claimed) ==
    /\ slots' = [slots EXCEPT ![o] = rest]
    /\ got' = [got EXCEPT ![o] = @ + claimed]
    /\ Goto(o, IF rest = {} \/ got[o] + claimed >= MaxConcurrency THEN "visit" ELSE "claim")
    /\ UNCHANGED <<clockVars, unsent, exec, at, snap, todo, item, workVars,
                   datagram, deadline>>

\* the slot is passed over: its row has changed, or its run exists already
PassOver(o) ==
    /\ pc[o] = "claim"
    /\ Stale(o) \/ (~AtCeiling /\ Candidate(o) \in DOMAIN run)
    /\ Continue(o, slots[o] \ {Slot(o)}, 0)
    /\ UNCHANGED <<row, run, lease, ran, armed>>

Refuse(o) ==
    /\ pc[o] = "claim"
    /\ ~Stale(o)
    /\ AtCeiling
    /\ Continue(o, {}, 0)
    /\ UNCHANGED <<row, run, lease, ran, armed>>

With(f, r, value) == [x \in DOMAIN f \union {r} |-> IF x = r THEN value ELSE f[x]]

\* the run, its lease and the next run of the schedule commit together
Claim(o) ==
    /\ pc[o] = "claim"
    /\ ~Stale(o)
    /\ ~AtCeiling
    /\ Candidate(o) \notin DOMAIN run
    /\ LET s == item[o]
           missed == Slot(o) < at[o] /\ snap[o][s].policy = "skip"
           next == Advanced(s, row[s], Slot(o), at[o])
       IN  /\ run' = With(run, Candidate(o), IF missed THEN "skipped" ELSE "claimed")
           /\ lease' = With(lease, Candidate(o), IF missed THEN None ELSE o)
           /\ ran' = With(ran, Candidate(o), 0)
           /\ armed' = [armed EXCEPT ![s] = KindOf[s] = "condition" => ~world]
           /\ row' = [row EXCEPT ![s].next = next, ![s].enabled = next # Never]
           /\ Continue(o, slots[o] \ {Slot(o)}, IF missed THEN 0 ELSE 1)

-----------------------------------------------------------------------------
(* execute_claimed *)

Claimed == {r \in DOMAIN run : run[r] = "claimed"}

\* the first MaxConcurrency of the claimed runs, whoever claimed them
Fetch(o) ==
    /\ pc[o] = "fetch"
    /\ \E S \in SUBSET Claimed :
         /\ Cardinality(S) =
              IF Cardinality(Claimed) < MaxConcurrency THEN Cardinality(Claimed)
              ELSE MaxConcurrency
         /\ \A r \in S, other \in Claimed \ S : r[2] <= other[2]
         /\ batch' = [batch EXCEPT ![o] = S]
    /\ Goto(o, "start")
    /\ UNCHANGED <<clockVars, rowVars, runRows, passVars, doing, datagram, deadline>>

Picked(o, r) ==
    /\ pc[o] = "start"
    /\ r \in batch[o]
    /\ \A other \in batch[o] : r[2] <= other[2]
    /\ batch' = [batch EXCEPT ![o] = @ \ {r}]
    /\ UNCHANGED <<clockVars, rowVars, exec, ran, passVars, datagram, deadline>>

StartRun(o) ==
    \E r \in batch[o] :
        /\ Picked(o, r)
        /\ Claimable(proc, lease[r], o)
        /\ run[r] = "claimed"
        /\ run' = [run EXCEPT ![r] = "running"]
        /\ lease' = [lease EXCEPT ![r] = o]
        /\ doing' = [doing EXCEPT ![o] = r]
        /\ Goto(o, "enter")

\* another scheduler owns the run, or has ended it: then its lease is taken
\* for nothing
SkipRun(o) ==
    \E r \in batch[o] :
        /\ Picked(o, r)
        /\ \/ ~Claimable(proc, lease[r], o) /\ UNCHANGED lease
           \/ /\ Claimable(proc, lease[r], o)
              /\ run[r] # "claimed"
              /\ lease' = [lease EXCEPT ![r] = o]
        /\ UNCHANGED <<run, doing, pc>>

TaskOf(o) == doing[o][1]

EnterScope(o) ==
    /\ pc[o] = "enter"
    /\ Claimable(proc, exec[TaskOf(o)], o)
    /\ exec' = [exec EXCEPT ![TaskOf(o)] = o]
    /\ ran' = [ran EXCEPT ![doing[o]] = @ + 1]
    /\ Goto(o, "run")
    /\ UNCHANGED <<clockVars, rowVars, run, lease, passVars, workVars, datagram, deadline>>

\* the task has another executor, is fenced or ended, or recovery raised
ScopeRefused(o) ==
    /\ pc[o] = "enter"
    /\ Goto(o, "finish failed")
    /\ UNCHANGED <<clockVars, rowVars, runRows, passVars, workVars, datagram, deadline>>

\* the executor returns or raises, and the scope is left
ExecutorEnds(o) ==
    /\ pc[o] = "run"
    /\ exec' = [exec EXCEPT ![TaskOf(o)] = IF @ = o THEN None ELSE @]
    /\ \E end \in {"finish succeeded", "finish failed"} : Goto(o, end)
    /\ UNCHANGED <<clockVars, rowVars, run, lease, ran, passVars, workVars, datagram, deadline>>

Finishing(o) == pc[o] \in {"finish succeeded", "finish failed"}

Finish(o) ==
    /\ Finishing(o)
    /\ lease[doing[o]] = o
    /\ run[doing[o]] = "running"
    /\ run' = [run EXCEPT ![doing[o]] =
                 IF pc[o] = "finish succeeded" THEN "succeeded" ELSE "failed"]
    /\ lease' = [lease EXCEPT ![doing[o]] = None]
    /\ doing' = [doing EXCEPT ![o] = <<>>]
    /\ Goto(o, "start")
    /\ UNCHANGED <<clockVars, rowVars, exec, ran, passVars, batch, datagram, deadline>>

\* _finish raises: the lease is released and the pass, or the service, ends
FinishRaises(o) ==
    /\ Finishing(o)
    /\ Faults \/ lease[doing[o]] # o \/ run[doing[o]] # "running"
    /\ lease' = [lease EXCEPT ![doing[o]] = IF @ = o THEN None ELSE @]
    /\ Over({o})
    /\ UNCHANGED <<clockVars, rowVars, run, exec, ran>>

\* a statement outside of the executor's try raises: the pass, or the service,
\* ends and a run it has started stays with its owner
PassRaises(o) ==
    /\ Faults
    /\ pc[o] \in {"recover", "list", "visit", "advance", "claim", "fetch", "start", "enter",
                  "sleep"}
    /\ Over({o})
    /\ UNCHANGED <<clockVars, rowVars, runRows>>

PassEnds(o) ==
    /\ pc[o] = "start"
    /\ batch[o] = {}
    /\ Goto(o, IF o \in Service THEN "sleep" ELSE "over")
    /\ UNCHANGED <<clockVars, rowVars, runRows, passVars, workVars, datagram, deadline>>

-----------------------------------------------------------------------------
(* run_forever: the wait *)

NextWake ==
    LET times == {row[s].next : s \in {s \in Schedule : Live(s) /\ row[s].enabled}}
                 \union {now + MaxWait}
    IN  IF Claimed # {} THEN now ELSE Earliest(times)

Sleep(o) ==
    /\ pc[o] = "sleep"
    /\ deadline' = [deadline EXCEPT ![o] = NextWake]
    /\ Goto(o, "wait")
    /\ UNCHANGED <<clockVars, rowVars, runRows, passVars, workVars, datagram>>

\* mutant: the wait has no timeout
WakeOnDatagram(o) ==
    /\ pc[o] = "wait"
    /\ datagram
    /\ datagram' = FALSE
    /\ deadline' = [deadline EXCEPT ![o] = 0]
    /\ Goto(o, "list")
    /\ UNCHANGED <<clockVars, rowVars, runRows, passVars, workVars>>

Wake(o) ==
    /\ pc[o] = "wait"
    /\ datagram \/ now >= deadline[o]
    /\ datagram' = FALSE
    /\ deadline' = [deadline EXCEPT ![o] = 0]
    /\ Goto(o, "list")
    /\ UNCHANGED <<clockVars, rowVars, runRows, passVars, workVars>>

-----------------------------------------------------------------------------
(* The world *)

Tick ==
    /\ now < Horizon
    /\ now' = now + 1
    /\ UNCHANGED <<proc, world, rowVars, runRows, passVars, workVars, datagram, pc, deadline>>

Turn ==
    /\ \E s \in Schedule : KindOf[s] = "condition"
    /\ world' = ~world
    /\ armed' = [s \in Schedule |-> armed[s] \/ ~world']
    /\ UNCHANGED <<proc, now, row, unsent, runRows, passVars, workVars, datagram, pc, deadline>>

Crash(p) ==
    /\ proc[p] = "alive"
    /\ proc' = [proc EXCEPT ![p] = "gone"]
    /\ Over({o \in Owner : ProcessOf[o] = p})
    /\ UNCHANGED <<now, world, rowVars, runRows>>

-----------------------------------------------------------------------------
\* nothing runs and nothing has run
Idle ==
    /\ proc = [p \in Process |-> "alive"]
    /\ now = 0
    /\ world = FALSE
    /\ run = <<>> /\ lease = <<>> /\ ran = <<>>
    /\ exec = [s \in Schedule |-> None]
    /\ armed = [s \in Schedule |-> TRUE]
    /\ unsent = FALSE /\ datagram = FALSE
    /\ pc = [o \in Owner |-> "off"]
    /\ at = [o \in Owner |-> 0]
    /\ snap = [o \in Owner |-> Unknown]
    /\ todo = [o \in Owner |-> {}]
    /\ item = [o \in Owner |-> Nothing]
    /\ slots = [o \in Owner |-> {}]
    /\ got = [o \in Owner |-> 0]
    /\ batch = [o \in Owner |-> {}]
    /\ doing = [o \in Owner |-> <<>>]
    /\ deadline = [o \in Owner |-> 0]

Init == row = Unknown /\ Idle

Users ==
    \/ \E s \in Schedule :
         CreateSchedule(s) \/ EditSchedule(s) \/ SetEnabled(s) \/ RemoveSchedule(s)
    \/ Notify

Claiming(o) ==
    \/ List(o) \/ Visit(o) \/ VisitsEnd(o) \/ Observe(o) \/ Record(o) \/ SetNext(o)
    \/ PassOver(o) \/ Refuse(o) \/ Claim(o)

Executing(o) ==
    \/ Fetch(o) \/ StartRun(o) \/ SkipRun(o) \/ EnterScope(o) \/ ScopeRefused(o)
    \/ ExecutorEnds(o) \/ Finish(o) \/ FinishRaises(o) \/ PassRaises(o) \/ PassEnds(o)

Thread(o) == Recover(o) \/ Claiming(o) \/ Executing(o) \/ Sleep(o) \/ Wake(o)

Next ==
    \/ Users
    \/ \E o \in Owner : Start(o) \/ Thread(o)
    \/ Tick \/ Turn
    \/ \E p \in Process : Crash(p)

Spec == Init /\ [][Next]_vars

\* A service is started and goes on, its executor returns, committed changes
\* are notified and time passes.
Fairness ==
    /\ \A o \in Service : WF_vars(Start(o) \/ Thread(o))
    /\ WF_vars(Notify) /\ WF_vars(Tick)

FairSpec == Spec /\ Fairness

-----------------------------------------------------------------------------
(* Properties *)

\* The executor is invoked at most once for a planned occurrence, whichever
\* schedulers claim, start, crash and recover ("a running action is never
\* replayed after owner loss", tests/test_scheduler.py:164).
AtMostOnce == \A r \in DOMAIN run : ran[r] <= 1

\* A run that a living scheduler executes is its own until it has finished:
\* nobody else ends, recovers or starts it, and while its executor works the
\* task is executed by this scheduler and no other.
RunIsOwned ==
    \A o \in Owner :
        /\ pc[o] \in {"enter", "run", "finish succeeded", "finish failed"} =>
             lease[doing[o]] = o /\ run[doing[o]] = "running"
        /\ pc[o] = "run" => exec[TaskOf(o)] = o

\* One executor for each occurrence, then and ever.
RunIsExclusive == AtMostOnce /\ RunIsOwned

\* Claimed and running runs never exceed the ceilings, whoever claims.
Ceilings ==
    Cardinality(Unfinished) <= MaxConcurrency /\ Cardinality(Unfinished) <= KeyLimit

\* The next run of a schedule moves on only past occurrences that are in the
\* journal: its own, and with catch-up all of those in between.
NoOccurrenceLost ==
    [][\A s \in Schedule :
         LET from == row[s].next
             to == row'[s].next
         IN  (/\ KindOf[s] # "condition" /\ to # from
              /\ row'[s].revision = row[s].revision)
             => /\ <<s, from>> \in DOMAIN run'
                /\ (KindOf[s] = "recurring" /\ row[s].policy = "catch-up") =>
                     \A t \in from..(to - 1) :
                        (t - from) % row[s].every = 0 => <<s, t>> \in DOMAIN run']_vars

\* The next run that a user has set is only replaced by a scheduler that has
\* listed it ("claim does not overwrite a concurrent schedule edit",
\* tests/test_scheduler.py:56).
EditSurvives ==
    [][\A s \in Schedule :
         row'[s].next # row[s].next /\ row'[s].revision = row[s].revision =>
            \E o \in Owner : /\ pc[o] \in {"claim", "advance"}
                             /\ item[o] = s
                             /\ snap[o][s].revision = row[s].revision]_vars

\* The service never sleeps past the next run of an enabled schedule, unless
\* it is about to be woken (docs/SCHEDULER.md:13 "earlier work interrupts the
\* current wait").
NoLostWake ==
    \A o \in Service, s \in Schedule :
        (pc[o] = "wait" /\ ~datagram /\ ~unsent /\ Live(s) /\ row[s].enabled) =>
            deadline[o] <= row[s].next \/ deadline[o] <= now

\* A watch claims no second run while its predicate stays true, until a user has
\* reset what it saw (docs/SCHEDULER.md:11 "Watches fire on a false-to-true edge"):
\* not for an edit, a removal or a turn of the predicate between the reading of the
\* service, its record and its claim.  It is so when every scheduler is a service,
\* one of which runs at a time; a second scheduler, such as a `run-due', may read
\* the same edge.
EdgeFiresOnce ==
    [][\A s \in Schedule :
         KindOf[s] = "condition" /\ ~armed[s] =>
            \A r \in DOMAIN run' \ DOMAIN run : r[1] # s]_vars

\* A due occurrence does not stay due: it is claimed, skipped or paused, unless
\* the service ends (docs/SCHEDULER.md:5 "Each due occurrence receives a stable
\* idempotency key and an append-preserved run-journal record").
DueIsServed ==
    \A s \in Schedule, t \in Instant, o \in Service :
        (Due(s, now) /\ row[s].next = t) ~>
            (row[s].next # t \/ ~Live(s) \/ ~row[s].enabled \/ pc[o] = "over")
=============================================================================
