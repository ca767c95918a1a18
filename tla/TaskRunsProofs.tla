--------------------------- MODULE TaskRunsProofs ---------------------------
(***************************************************************************)
(* The runs of a task and what goes in and out of them, for every number   *)
(* of runs, runners, roles, messages, clients and connections: a run       *)
(* infers and promotes at most once, one is active at a time, and every    *)
(* epoch that is over ends with the one checkpoint that closes it, however *)
(* many were made in between (TaskRuns); a stream shows a client each      *)
(* event once, in order and without a gap, and ends with its authorization *)
(* (CoreService); a projection fits its budget or says why not             *)
(* (ContextWindow).                                                        *)
(***************************************************************************)
EXTENDS TaskRuns, CoreService, ContextWindow, TLAPS, SequenceTheorems, FiniteSetTheorems,
        WellFoundedInduction

RunStates == {"none", "queued", "running", "paused", "completed", "failed", "cancelled"}
RunRow == [state : RunStates, control : {"none", "pause", "cancel"}, inferred : Nat, promoted : Nat,
           cancelledInQueue : BOOLEAN]
RunnerPlaces == {"off", "entered", "loaded", "begun", "first-boundary", "cancels", "pauses", "builds",
                 "infers", "last-boundary", "cancels-late", "promotes", "takes-snapshot", "checkpoints",
                 "hands-back", "completes", "raises", "fails", "leaves"}
RunnerRow == [at : RunnerPlaces, run : Run \union {NoRunner}, role : Owners \union {NoRunner}, epoch : Nat]
AskingRow == [action : {"none", "pause", "resume", "cancel"}, run : Run \union {NoRunner},
              state : RunStates \union {"no-run"}]
TaskStates == {"pending", "running", "paused", "completed", "failed", "cancelled"}
TaskRow == [state : TaskStates, role : Owners, epoch : Nat \ {0}]
SnapshotRow == [role : Owners, epoch : Nat, of : (Owners \union {NoRunner}) \X Nat, closes : BOOLEAN]

RunsTypes ==
    /\ taskRow \in TaskRow
    /\ taskHolder \in Runner \union {NoRunner}
    /\ runs \in [Run -> RunRow]
    /\ runner \in [Runner -> RunnerRow]
    /\ asking \in AskingRow
    /\ snapshots \in Seq(SnapshotRow)

\* Who executes has the lease, for as long as it does.
RunnersInTurn == \A w \in Runner : runner[w].at # "off" <=> taskHolder = w

\* What can still be executed has not inferred; a run infers before it promotes,
\* and is cancelled before that.
RunInOrder(r) ==
    /\ runs[r].inferred <= 1 /\ runs[r].promoted <= runs[r].inferred
    /\ runs[r].state \in {"none", "queued", "paused"} => runs[r].inferred = 0
    /\ runs[r].state = "cancelled" => runs[r].promoted = 0

OneActive == \A r, q \in ActiveRuns : r = q

BeforeInference == {"loaded", "begun", "first-boundary", "builds", "infers"}
\* What a runner has found and done; what it may set active again is alone.
RunnerInOrder(w) ==
    /\ runner[w].at # "off" => runner[w].run \in Run /\ runs[runner[w].run].state # "none"
    /\ runner[w].at \in BeforeInference => runs[runner[w].run].inferred = 0
    /\ runner[w].at \in {"last-boundary", "promotes"} =>
         runs[runner[w].run].inferred = 1 /\ runs[runner[w].run].promoted = 0
    /\ runner[w].at \in (BeforeInference \ {"loaded"}) \union {"last-boundary", "promotes"} =>
         runs[runner[w].run].state \in {"running", "completed"}
    /\ runner[w].at \in {"loaded", "begun", "first-boundary"} => ActiveRuns \subseteq {runner[w].run}

RunsInv ==
    /\ RunsTypes /\ RunnersInTurn /\ OneActive /\ EpochsClosed
    /\ \A r \in Run : RunInOrder(r)
    /\ \A w \in Runner : RunnerInOrder(w)

-----------------------------------------------------------------------------
(* What steps leave as it is *)

\* One thread executes at a time.
LEMMA OneExecutes ==
  ASSUME RunsInv, NEW w \in Runner, NEW v \in Runner, runner[w].at # "off", runner[v].at # "off"
  PROVE  w = v
BY DEF RunsInv, RunnersInTurn

\* The thread that executes moves on, with the row of its run.
LEMMA RunnerMoves ==
  ASSUME RunsInv, NEW w \in Runner, runner[w].at # "off", NEW n \in RunnerRow, n.at # "off",
         runner' = [runner EXCEPT ![w] = n],
         NEW r \in Run, r = runner[w].run, n.run = r,
         NEW row \in RunRow, runs' = [runs EXCEPT ![r] = row], row.state # "none",
         taskHolder' = taskHolder, asking' = asking, taskRow' \in TaskRow,
         snapshots' \in Seq(SnapshotRow), EpochsClosed',
         row.state \in {"queued", "running", "paused"} =>
            r \in ActiveRuns \/ runner[w].at \in {"loaded", "begun", "first-boundary"},
         RunInOrder(r)',
         n.at \in BeforeInference => row.inferred = 0,
         n.at \in {"last-boundary", "promotes"} => row.inferred = 1 /\ row.promoted = 0,
         n.at \in (BeforeInference \ {"loaded"}) \union {"last-boundary", "promotes"} => row.state \in {"running", "completed"},
         n.at \in {"loaded", "begun", "first-boundary"} =>
            r \in ActiveRuns \/ runner[w].at \in {"loaded", "begun", "first-boundary"}
  PROVE  RunsInv'
<1>1. /\ RunsTypes /\ RunnersInTurn /\ OneActive
      /\ \A q \in Run : RunInOrder(q)
      /\ \A v \in Runner : RunnerInOrder(v)
  BY DEF RunsInv
<1>2. RunsTypes'
  BY <1>1 DEF RunsTypes
<1>3. /\ runner'[w] = n /\ \A v \in Runner : v # w => runner'[v] = runner[v]
      /\ runs'[r] = row /\ \A q \in Run : q # r => runs'[q] = runs[q]
  BY <1>1 DEF RunsTypes
<1>4. RunnersInTurn'
  BY <1>1, <1>3 DEF RunnersInTurn
<1>5. ActiveRuns' \subseteq ActiveRuns \union {r} /\ (r \in ActiveRuns' /\ r \notin ActiveRuns => ActiveRuns = {})
  <2>1. ActiveRuns' \subseteq ActiveRuns \union {r}
    BY <1>3 DEF ActiveRuns
  <2>2. ASSUME r \in ActiveRuns', r \notin ActiveRuns PROVE ActiveRuns = {}
    <3>1. row.state \in {"queued", "running", "paused"}
      BY <1>3, <2>2 DEF ActiveRuns
    <3>2. ActiveRuns \subseteq {r}
      BY <1>1, <2>2, <3>1 DEF RunnerInOrder
    <3>3. QED BY <2>2, <3>2
  <2>3. QED BY <2>1, <2>2
<1>6. OneActive'
  BY <1>1, <1>5 DEF OneActive
<1>7. ASSUME NEW q \in Run PROVE RunInOrder(q)'
  BY <1>1, <1>3 DEF RunInOrder
<1>8. ASSUME NEW v \in Runner PROVE RunnerInOrder(v)'
  <2>1. CASE v = w
    <3>1. n.at \in {"loaded", "begun", "first-boundary"} => ActiveRuns' \subseteq {r}
      <4>1. CASE r \in ActiveRuns
        BY <1>1, <1>5, <4>1 DEF OneActive
      <4>2. CASE runner[w].at \in {"loaded", "begun", "first-boundary"}
        BY <1>1, <1>5, <4>2 DEF RunnerInOrder
      <4>3. QED BY <4>1, <4>2
    <3>2. QED BY <1>3, <2>1, <3>1 DEF RunnerInOrder
  <2>2. CASE v # w
    <3>1. runner'[v].at = "off"
      BY <1>3, <2>2, OneExecutes
    <3>2. QED BY <3>1 DEF RunnerInOrder, BeforeInference
  <2>3. QED BY <2>1, <2>2
<1>9. QED BY <1>2, <1>4, <1>6, <1>7, <1>8 DEF RunsInv

\* Nobody executes and nothing of a run is written that these rely on.
LEMMA RunsStand ==
  ASSUME RunsInv, UNCHANGED <<taskHolder, runs, runner>>, asking' \in AskingRow,
         taskRow' \in TaskRow, snapshots' \in Seq(SnapshotRow), EpochsClosed'
  PROVE  RunsInv'
<1>1. RunsTypes'
  BY DEF RunsInv, RunsTypes
<1>2. RunnersInTurn' /\ OneActive'
  BY DEF RunsInv, RunnersInTurn, OneActive, ActiveRuns
<1>3. \A r \in Run : RunInOrder(r)'
  BY DEF RunsInv, RunInOrder
<1>4. \A w \in Runner : RunnerInOrder(w)'
  BY DEF RunsInv, RunnerInOrder, ActiveRuns
<1>5. QED BY <1>1, <1>2, <1>3, <1>4 DEF RunsInv

\* A checkpoint, and the end of the epoch if it is one that closes it.
LEMMA CheckpointKeeps ==
  ASSUME RunsTypes, EpochsClosed, NEW role \in Owners \union {NoRunner}, NEW epoch \in Nat, NEW closes \in BOOLEAN,
         role = taskRow.role, epoch = taskRow.epoch,
         Checkpoint(role, epoch, closes), taskRow' \in TaskRow,
         taskRow'.epoch = IF closes THEN taskRow.epoch + 1 ELSE taskRow.epoch
  PROVE  snapshots' \in Seq(SnapshotRow) /\ EpochsClosed'
<1> DEFINE s == [role |-> taskRow.role, epoch |-> taskRow.epoch, of |-> <<role, epoch>>, closes |-> closes]
           n == Len(snapshots) + 1
<1>1. taskRow \in TaskRow /\ snapshots \in Seq(SnapshotRow) /\ snapshots' = Append(snapshots, s)
  BY DEF RunsTypes, Checkpoint
<1>2. s \in SnapshotRow /\ s.epoch = taskRow.epoch /\ s.of = <<s.role, s.epoch>> /\ s.closes = closes
  BY <1>1 DEF TaskRow, SnapshotRow
<1> HIDE DEF s
<1>3. /\ snapshots' \in Seq(SnapshotRow) /\ Len(snapshots') = n
      /\ \A i \in 1..Len(snapshots) : snapshots'[i] = snapshots[i]
      /\ snapshots'[n] = s
  BY <1>1, <1>2, AppendProperties
<1>4. /\ taskRow.epoch \in Nat /\ taskRow'.epoch \in Nat /\ Len(snapshots) \in Nat
      /\ DOMAIN snapshots = 1..Len(snapshots) /\ DOMAIN snapshots' = 1..n
      /\ DOMAIN snapshots' = DOMAIN snapshots \union {n} /\ n \notin DOMAIN snapshots
  BY <1>1, <1>3, LenProperties DEF TaskRow
<1>5. ASSUME NEW i \in DOMAIN snapshots
      PROVE  /\ snapshots'[i] = snapshots[i] /\ i < n /\ snapshots[i] \in SnapshotRow
             /\ snapshots[i].epoch \in Nat /\ snapshots[i].epoch <= taskRow.epoch
             /\ snapshots[i].closes => snapshots[i].epoch < taskRow.epoch
  <2>1. i \in 1..Len(snapshots) /\ i < n
    BY <1>4, <1>5
  <2>2. snapshots[i] \in SnapshotRow
    BY <1>1, <2>1, ElementOfSeq
  <2>3. snapshots[i].epoch <= taskRow.epoch /\ (snapshots[i].closes => snapshots[i].epoch < taskRow.epoch)
    BY <1>5 DEF EpochsClosed
  <2>4. QED BY <1>3, <2>1, <2>2, <2>3 DEF SnapshotRow
<1>6. ASSUME NEW e \in 1..(taskRow'.epoch - 1)
      PROVE  \E i \in DOMAIN snapshots' : snapshots'[i].epoch = e /\ snapshots'[i].closes
  <2>1. CASE e \in 1..(taskRow.epoch - 1)
    <3>1. PICK i \in DOMAIN snapshots : snapshots[i].epoch = e /\ snapshots[i].closes
      BY <2>1 DEF EpochsClosed
    <3>2. QED BY <1>4, <1>5, <3>1
  <2>2. CASE e \notin 1..(taskRow.epoch - 1)
    <3>1. e = taskRow.epoch /\ closes
      BY <1>4, <1>6, <2>2
    <3>2. QED BY <1>2, <1>3, <1>4, <3>1
  <2>3. QED BY <2>1, <2>2
<1>7. ASSUME NEW i \in DOMAIN snapshots'
      PROVE  /\ snapshots'[i].epoch <= taskRow'.epoch /\ (snapshots'[i].closes => snapshots'[i].epoch < taskRow'.epoch)
             /\ snapshots'[i].of = <<snapshots'[i].role, snapshots'[i].epoch>>
  <2>1. CASE i \in DOMAIN snapshots
    <3>1. snapshots[i].of = <<snapshots[i].role, snapshots[i].epoch>>
      BY <2>1 DEF EpochsClosed
    <3>2. QED BY <1>4, <1>5, <2>1, <3>1
  <2>2. CASE i = n
    BY <1>2, <1>3, <1>4, <2>2
  <2>3. QED BY <1>4, <2>1, <2>2
<1>8. ASSUME NEW i \in DOMAIN snapshots', NEW j \in DOMAIN snapshots', i < j
      PROVE  /\ snapshots'[i].epoch <= snapshots'[j].epoch
             /\ snapshots'[i].closes => snapshots'[i].epoch < snapshots'[j].epoch
  <2>1. i \in DOMAIN snapshots
    BY <1>4, <1>8
  <2>2. CASE j \in DOMAIN snapshots
    <3>1. /\ snapshots[i].epoch <= snapshots[j].epoch
          /\ snapshots[i].closes => snapshots[i].epoch < snapshots[j].epoch
      BY <1>8, <2>1, <2>2 DEF EpochsClosed
    <3>2. QED BY <1>5, <2>1, <2>2, <3>1
  <2>3. CASE j = n
    BY <1>2, <1>3, <1>5, <2>1, <2>3
  <2>4. QED BY <1>4, <2>2, <2>3
<1>9. QED BY <1>3, <1>6, <1>7, <1>8 DEF EpochsClosed

\* What a thread that executes has before a step.
LEMMA Executing ==
  ASSUME RunsInv, NEW w \in Runner, runner[w].at # "off"
  PROVE  /\ runner[w] \in RunnerRow /\ runner[w].run \in Run /\ runs[runner[w].run] \in RunRow
         /\ runs[runner[w].run].state # "none" /\ RunInOrder(runner[w].run) /\ RunnerInOrder(w)
         /\ taskRow \in TaskRow /\ snapshots \in Seq(SnapshotRow) /\ EpochsClosed
         /\ \A at \in RunnerPlaces :
              LET n == [runner[w] EXCEPT !.at = at]
              IN  /\ n \in RunnerRow /\ n.at = at /\ n.run = runner[w].run
                  /\ ToStep(w, at) => runner' = [runner EXCEPT ![w] = n]
BY DEF RunsInv, RunsTypes, RunnerInOrder, RunnerRow, ToStep

\* A step that moves a thread, and may write the state of the task.
LEMMA OnlyRunnerMoves ==
  ASSUME RunsInv, NEW w \in Runner, runner[w].at # "off", NEW n \in RunnerRow, n.at # "off",
         runner' = [runner EXCEPT ![w] = n], n.run = runner[w].run,
         UNCHANGED <<taskHolder, asking, snapshots, runs>>,
         taskRow' \in TaskRow, taskRow'.epoch = taskRow.epoch,
         n.at \in BeforeInference => runs[n.run].inferred = 0,
         n.at \in {"last-boundary", "promotes"} => runs[n.run].inferred = 1 /\ runs[n.run].promoted = 0,
         n.at \in (BeforeInference \ {"loaded"}) \union {"last-boundary", "promotes"} => runs[n.run].state \in {"running", "completed"},
         n.at \in {"loaded", "begun", "first-boundary"} =>
            n.run \in ActiveRuns \/ runner[w].at \in {"loaded", "begun", "first-boundary"}
  PROVE  RunsInv'
<1>1. PICK r \in Run : r = runner[w].run
  BY Executing
<1>2. runs[r] \in RunRow /\ runs[r].state # "none" /\ RunInOrder(r) /\ snapshots \in Seq(SnapshotRow) /\ EpochsClosed
  BY <1>1, Executing
<1>3. runs' = [runs EXCEPT ![r] = runs[r]]
  BY DEF RunsInv, RunsTypes
<1>4. snapshots' \in Seq(SnapshotRow) /\ EpochsClosed'
  BY <1>2 DEF EpochsClosed
<1>5. RunInOrder(r)'
  BY <1>2 DEF RunInOrder
<1>6. runs[r].state \in {"queued", "running", "paused"} => r \in ActiveRuns
  BY DEF ActiveRuns
<1>7. runs[r].state \in {"queued", "running", "paused"} =>
        r \in ActiveRuns \/ runner[w].at \in {"loaded", "begun", "first-boundary"}
  BY <1>6
<1>8. n.run = r /\ taskHolder' = taskHolder /\ asking' = asking
  BY <1>1
<1>9. PICK row \in RunRow : row = runs[r]
  BY <1>2
<1>10. /\ n.at \in BeforeInference => row.inferred = 0
       /\ n.at \in {"last-boundary", "promotes"} => row.inferred = 1 /\ row.promoted = 0
       /\ n.at \in (BeforeInference \ {"loaded"}) \union {"last-boundary", "promotes"} => row.state \in {"running", "completed"}
       /\ n.at \in {"loaded", "begun", "first-boundary"} =>
            r \in ActiveRuns \/ runner[w].at \in {"loaded", "begun", "first-boundary"}
  BY <1>8, <1>9
<1>11. runs' = [runs EXCEPT ![r] = row] /\ row.state # "none"
       /\ (row.state \in {"queued", "running", "paused"} =>
              r \in ActiveRuns \/ runner[w].at \in {"loaded", "begun", "first-boundary"})
  BY <1>2, <1>3, <1>7, <1>9
<1>12. QED BY <1>1, <1>4, <1>5, <1>8, <1>10, <1>11, RunnerMoves

LEMMA WriteTaskKeeps ==
  ASSUME RunsInv, NEW w \in Runner, NEW from \in RunnerPlaces, from # "off", NEW state \in TaskStates,
         NEW to \in RunnerPlaces, to # "off", NEW otherwise \in {"leaves", "raises"},
         to \in BeforeInference \union {"last-boundary", "promotes"} => to = "first-boundary" /\ from = "begun",
         WriteTask(w, from, state, to, otherwise)
  PROVE  RunsInv'
<1>1. runner[w].at = from /\ UNCHANGED <<taskHolder, asking, snapshots, runs>>
  BY DEF WriteTask, RunnerAt
<1>2. taskRow' \in TaskRow /\ taskRow'.epoch = taskRow.epoch
  BY <1>1, Executing DEF WriteTask, TaskRow
<1>3. PICK at \in {to, otherwise} : ToStep(w, at)
  BY DEF WriteTask
<1>4. at \in RunnerPlaces /\ at # "off"
  BY DEF RunnerPlaces
<1> DEFINE n == [runner[w] EXCEPT !.at = at]
<1>5. n \in RunnerRow /\ n.at = at /\ n.run = runner[w].run /\ runner' = [runner EXCEPT ![w] = n]
  BY <1>1, <1>3, <1>4, Executing
<1> HIDE DEF n
<1>6. at \in BeforeInference \union {"last-boundary", "promotes"} => at = "first-boundary" /\ from = "begun"
  BY DEF BeforeInference
<1>7. at = "first-boundary" /\ from = "begun" =>
        runs[runner[w].run].inferred = 0 /\ runs[runner[w].run].state \in {"running", "completed"}
  BY <1>1, Executing DEF RunnerInOrder, BeforeInference
<1>8. QED BY <1>1, <1>2, <1>4, <1>5, <1>6, <1>7, OnlyRunnerMoves DEF BeforeInference

\* The state of a run is written where the thread that executes it is.
LEMMA RowMoves ==
  ASSUME RunsInv, NEW w \in Runner, runner[w].at # "off", NEW at \in RunnerPlaces \ {"off"}, ToStep(w, at),
         NEW r \in Run, r = runner[w].run,
         NEW row \in RunRow, runs' = [runs EXCEPT ![r] = row], row.state # "none",
         UNCHANGED <<taskRow, taskHolder, asking, snapshots>>,
         row.state \in {"queued", "running", "paused"} =>
            r \in ActiveRuns \/ runner[w].at \in {"loaded", "begun", "first-boundary"},
         row.inferred <= 1 /\ row.promoted <= row.inferred,
         row.state \in {"queued", "paused"} => row.inferred = 0,
         row.state = "cancelled" => row.promoted = 0,
         at \in BeforeInference => row.inferred = 0,
         at \in {"last-boundary", "promotes"} => row.inferred = 1 /\ row.promoted = 0,
         at \in (BeforeInference \ {"loaded"}) \union {"last-boundary", "promotes"} => row.state \in {"running", "completed"},
         at \in {"loaded", "begun", "first-boundary"} => runner[w].at \in {"loaded", "begun", "first-boundary"}
  PROVE  RunsInv'
<1> DEFINE n == [runner[w] EXCEPT !.at = at]
<1>1. /\ n \in RunnerRow /\ n.at = at /\ n.run = runner[w].run /\ runner' = [runner EXCEPT ![w] = n]
      /\ taskRow \in TaskRow /\ snapshots \in Seq(SnapshotRow) /\ EpochsClosed
  BY Executing
<1> HIDE DEF n
<1>2. EpochsClosed'
  BY <1>1 DEF EpochsClosed
<1>3. RunInOrder(r)'
  <2>1. runs'[r] = row
    BY DEF RunsInv, RunsTypes
  <2>2. QED BY <2>1 DEF RunInOrder
<1>4. QED BY <1>1, <1>2, <1>3, RunnerMoves
-----------------------------------------------------------------------------
(* The steps *)

\* The steps of a thread that write the row of its run.
LEMMA RunStepKeeps ==
  ASSUME RunsInv, NEW w \in Runner,
         \/ LoadRun(w) \/ BeginRun(w) \/ FirstBoundary(w) \/ BuildContext(w) \/ Infer(w) \/ LastBoundary(w)
         \/ CompleteRun(w) \/ FailRun(w) \/ PromoteMessage(w) \/ Snapshot(w)
  PROVE  RunsInv'
<1>1. runner[w].at # "off" /\ UNCHANGED <<taskRow, taskHolder, asking, snapshots>>
  BY DEF LoadRun, BeginRun, FirstBoundary, BuildContext, Infer, LastBoundary, CompleteRun, FailRun,
         PromoteMessage, Snapshot, RunnerAt
<1>2. PICK r \in Run : r = runner[w].run
  BY <1>1, Executing
<1>3. /\ runs[r] \in RunRow /\ runs[r].state # "none" /\ RunInOrder(r) /\ RunnerInOrder(w)
      /\ taskRow \in TaskRow /\ runner[w] \in RunnerRow
  BY <1>1, <1>2, Executing
<1>4. ASSUME NEW at \in RunnerPlaces, at # "off", ToStep(w, at), NEW state \in RunStates \ {"none"}, SetRun(r, state),
             state \in {"running", "paused"} => runner[w].at \in {"loaded", "begun", "first-boundary"},
             state # "queued",
             state = "paused" => runs[r].inferred = 0, state = "cancelled" => runs[r].promoted = 0,
             at \in BeforeInference \union {"last-boundary", "promotes"} =>
                at = "begun" /\ state = "running" /\ runner[w].at = "loaded"
      PROVE  RunsInv'
  <2> DEFINE row == [runs[r] EXCEPT !.state = state, !.control = "none"]
  <2>1. /\ row \in RunRow /\ row.state = state /\ row.inferred = runs[r].inferred /\ row.promoted = runs[r].promoted
    BY <1>3 DEF RunRow
  <2>2. runs' = [runs EXCEPT ![r] = row]
    BY <1>3, <1>4 DEF SetRun, RunsInv, RunsTypes, RunRow
  <2> HIDE DEF row
  <2>3. row.inferred <= 1 /\ row.promoted <= row.inferred
    BY <1>3, <2>1 DEF RunInOrder
  <2>4. at \in BeforeInference => row.inferred = 0
    BY <1>2, <1>3, <1>4, <2>1 DEF RunnerInOrder, BeforeInference
  <2>5. /\ at \in {"last-boundary", "promotes"} => row.inferred = 1 /\ row.promoted = 0
        /\ at \in (BeforeInference \ {"loaded"}) \union {"last-boundary", "promotes"} => row.state \in {"running", "completed"}
        /\ at \in {"loaded", "begun", "first-boundary"} => runner[w].at \in {"loaded", "begun", "first-boundary"}
    BY <1>4, <2>1 DEF BeforeInference
  <2>6. row.state # "none" /\ (row.state \in {"queued", "running", "paused"} =>
            r \in ActiveRuns \/ runner[w].at \in {"loaded", "begun", "first-boundary"})
    BY <1>4, <2>1
  <2>7. (row.state \in {"queued", "paused"} => row.inferred = 0) /\ (row.state = "cancelled" => row.promoted = 0)
    BY <1>4, <2>1
  <2>8. QED BY <1>1, <1>2, <1>4, <2>1, <2>2, <2>3, <2>4, <2>5, <2>6, <2>7, RowMoves
<1>5. ASSUME NEW at \in RunnerPlaces, at # "off", ToStep(w, at), UNCHANGED runs,
             at \in BeforeInference =>
                at \in {"builds", "infers"} /\ runner[w].at \in {"first-boundary", "builds"},
             at \in {"last-boundary", "promotes"} => at = "promotes" /\ runner[w].at = "last-boundary"
      PROVE  RunsInv'
  <2> DEFINE n == [runner[w] EXCEPT !.at = at]
  <2>1. n \in RunnerRow /\ n.at = at /\ n.run = r /\ runner' = [runner EXCEPT ![w] = n]
    BY <1>1, <1>2, <1>5, Executing
  <2> HIDE DEF n
  <2>2. at \in BeforeInference => runs[r].inferred = 0 /\ runs[r].state \in {"running", "completed"}
    BY <1>2, <1>3, <1>5 DEF RunnerInOrder, BeforeInference
  <2>3. at \in {"last-boundary", "promotes"} =>
          runs[r].inferred = 1 /\ runs[r].promoted = 0 /\ runs[r].state \in {"running", "completed"}
    BY <1>2, <1>3, <1>5 DEF RunnerInOrder
  <2>4. at \notin {"loaded", "begun", "first-boundary"}
    BY <1>5 DEF BeforeInference
  <2>5. QED BY <1>1, <1>2, <1>3, <1>5, <2>1, <2>2, <2>3, <2>4, OnlyRunnerMoves
<1>6. CASE LoadRun(w)
  <2>1. CASE SetRun(r, "failed") /\ ToStep(w, "fails")
    BY <2>1, <1>4 DEF RunnerPlaces, RunStates, BeforeInference
  <2>2. CASE UNCHANGED runs /\ ToStep(w, "leaves")
    BY <2>2, <1>5 DEF RunnerPlaces, BeforeInference
  <2>3. CASE /\ runs[r].state \in {"queued", "paused"} /\ UNCHANGED runs
             /\ runner' = [runner EXCEPT ![w].at = "loaded", ![w].role = taskRow.role, ![w].epoch = taskRow.epoch]
    <3> DEFINE n == [runner[w] EXCEPT !.at = "loaded", !.role = taskRow.role, !.epoch = taskRow.epoch]
    <3>1. n \in [at : {"loaded"}, run : {r}, role : {taskRow.role}, epoch : {taskRow.epoch}]
      BY <1>2, <1>3 DEF RunnerRow
    <3>2. runner' = [runner EXCEPT ![w] = n]
      BY <2>3, <1>3 DEF RunnerRow, RunsInv, RunsTypes
    <3> HIDE DEF n
    <3>3. n \in RunnerRow /\ n.at = "loaded" /\ n.run = r
      BY <1>3, <3>1 DEF RunnerRow, RunnerPlaces, TaskRow
    <3>4. r \in ActiveRuns /\ runs[r].inferred = 0
      BY <1>3, <2>3 DEF ActiveRuns, RunInOrder
    <3>5. QED BY ZenonT(60), <1>1, <1>2, <1>3, <2>3, <3>2, <3>3, <3>4, OnlyRunnerMoves DEF BeforeInference
  <2>4. QED BY <1>2, <1>6, <2>1, <2>2, <2>3 DEF LoadRun
<1>7. CASE BeginRun(w)
  BY <1>2, <1>4, <1>7 DEF BeginRun, RunnerAt, RunnerPlaces, RunStates
<1>8. CASE FirstBoundary(w)
  <2>1. runner[w].at = "first-boundary" /\ runs[r].inferred = 0 /\ runs[r].promoted = 0
    <3>1. runner[w].at = "first-boundary" /\ runs[r].inferred = 0
      BY <1>2, <1>3, <1>8 DEF FirstBoundary, RunnerAt, RunnerInOrder, BeforeInference
    <3>2. QED BY <1>3, <3>1 DEF RunInOrder, RunRow
  <2>2. CASE SetRun(r, "cancelled") /\ ToStep(w, "cancels")
    BY <2>1, <2>2, <1>4 DEF RunnerPlaces, RunStates, BeforeInference
  <2>3. CASE SetRun(r, "paused") /\ ToStep(w, "pauses")
    BY <2>1, <2>3, <1>4 DEF RunnerPlaces, RunStates, BeforeInference
  <2>4. CASE UNCHANGED runs /\ ToStep(w, "builds")
    BY <2>1, <2>4, <1>5 DEF RunnerPlaces
  <2>5. QED BY <1>2, <1>8, <2>2, <2>3, <2>4 DEF FirstBoundary
<1>9. CASE BuildContext(w)
  <2>1. CASE ToStep(w, "infers")
    BY <1>9, <2>1, <1>5 DEF BuildContext, RunnerAt, RunnerPlaces
  <2>2. CASE ToStep(w, "leaves")
    BY <1>9, <2>2, <1>5 DEF BuildContext, RunnerPlaces, BeforeInference
  <2>3. QED BY <1>9, <2>1, <2>2 DEF BuildContext
<1>10. CASE Infer(w)
  <2>1. PICK at \in {"last-boundary", "raises"} : ToStep(w, at)
    BY <1>10 DEF Infer
  <2> DEFINE row == [runs[r] EXCEPT !.inferred = @ + 1]
  <2>2. row \in RunRow /\ row.state = runs[r].state /\ row.inferred = runs[r].inferred + 1 /\ row.promoted = runs[r].promoted
    BY <1>3 DEF RunRow
  <2>3. runs' = [runs EXCEPT ![r] = row]
    BY <1>2, <1>3, <1>10 DEF Infer, RunsInv, RunsTypes, RunRow
  <2> HIDE DEF row
  <2>4. runner[w].at = "infers" /\ runs[r].inferred = 0 /\ runs[r].promoted = 0 /\ runs[r].state \in {"running", "completed"}
    <3>1. runner[w].at = "infers" /\ runs[r].inferred = 0 /\ runs[r].state \in {"running", "completed"}
      BY <1>2, <1>3, <1>10 DEF Infer, RunnerAt, RunnerInOrder, BeforeInference
    <3>2. QED BY <1>3, <3>1 DEF RunInOrder, RunRow
  <2>5. row.inferred = 1 /\ row.promoted = 0 /\ row.state \in {"running", "completed"}
    BY <2>2, <2>4
  <2>6. at \in RunnerPlaces \ {"off"} /\ at \notin BeforeInference
    BY DEF RunnerPlaces, BeforeInference
  <2>7. runs[r].state = "running" => r \in ActiveRuns
    BY DEF ActiveRuns
  <2>8. /\ row.inferred <= 1 /\ row.promoted <= row.inferred /\ row.state # "none"
        /\ row.state \in {"queued", "running", "paused"} => r \in ActiveRuns
        /\ row.state \notin {"queued", "paused", "cancelled"}
    BY <2>2, <2>5, <2>7
  <2>9. QED BY <1>1, <1>2, <2>1, <2>2, <2>3, <2>5, <2>6, <2>8, RowMoves
<1>11. CASE LastBoundary(w)
  <2>1. runner[w].at = "last-boundary" /\ runs[r].promoted = 0
    BY <1>2, <1>3, <1>11 DEF LastBoundary, RunnerAt, RunnerInOrder
  <2>2. CASE SetRun(r, "cancelled") /\ ToStep(w, "cancels-late")
    BY <2>1, <2>2, <1>4 DEF RunnerPlaces, RunStates, BeforeInference
  <2>3. CASE UNCHANGED runs /\ ToStep(w, "promotes")
    BY <2>1, <2>3, <1>5 DEF RunnerPlaces, BeforeInference
  <2>4. QED BY <1>2, <1>11, <2>2, <2>3 DEF LastBoundary
<1>12. CASE CompleteRun(w)
  BY <1>2, <1>4, <1>12 DEF CompleteRun, RunnerPlaces, RunStates, BeforeInference
<1>13. CASE FailRun(w)
  <2> DEFINE row == [runs[r] EXCEPT !.state = "failed"]
  <2>1. /\ row \in RunRow /\ row.state = "failed" /\ row.inferred = runs[r].inferred
        /\ row.promoted = runs[r].promoted
    BY <1>3 DEF RunRow, RunStates
  <2>2. runs' = [runs EXCEPT ![r] = row] /\ ToStep(w, "fails")
    BY <1>2, <1>3, <1>13 DEF FailRun, RunsInv, RunsTypes, RunRow
  <2> HIDE DEF row
  <2>3. row.inferred <= 1 /\ row.promoted <= row.inferred
    BY <1>3, <2>1 DEF RunInOrder
  <2>4. "fails" \in RunnerPlaces \ {"off"} /\ "fails" \notin BeforeInference
    BY DEF RunnerPlaces, BeforeInference
  <2>5. QED BY ZenonT(60), <1>1, <1>2, <2>1, <2>2, <2>3, <2>4, RowMoves
<1>14. CASE PromoteMessage(w)
  <2> DEFINE row == [runs[r] EXCEPT !.promoted = @ + 1]
  <2>1. row \in RunRow /\ row.state = runs[r].state /\ row.inferred = runs[r].inferred /\ row.promoted = runs[r].promoted + 1
    BY <1>3 DEF RunRow
  <2>2. runs' = [runs EXCEPT ![r] = row] /\ ToStep(w, "takes-snapshot")
    BY <1>2, <1>3, <1>14 DEF PromoteMessage, RunsInv, RunsTypes, RunRow
  <2> HIDE DEF row
  <2>3. runs[r].inferred = 1 /\ runs[r].promoted = 0 /\ runs[r].state \in {"running", "completed"}
    BY <1>2, <1>3, <1>14 DEF PromoteMessage, RunnerAt, RunnerInOrder
  <2>4. runs[r].state = "running" => r \in ActiveRuns
    BY DEF ActiveRuns
  <2>5. row.inferred = 1 /\ row.promoted = 1
    BY <2>1, <2>3
  <2>6. "takes-snapshot" \in RunnerPlaces \ {"off"} /\ "takes-snapshot" \notin BeforeInference
    BY DEF RunnerPlaces, BeforeInference
  <2>7. /\ row.inferred <= 1 /\ row.promoted <= row.inferred /\ row.state # "none"
        /\ row.state \in {"queued", "running", "paused"} => r \in ActiveRuns
        /\ row.state \notin {"queued", "paused", "cancelled"}
    BY <2>1, <2>3, <2>4, <2>5
  <2>8. UNCHANGED <<taskRow, taskHolder, asking, snapshots>> /\ runner[w].at # "off"
    BY <1>1
  <2>9. QED BY ZenonT(60), <1>2, <2>1, <2>2, <2>6, <2>7, <2>8, RowMoves
<1>15. CASE Snapshot(w)
  <2> DEFINE n == [runner[w] EXCEPT !.at = "checkpoints", !.role = taskRow.role, !.epoch = taskRow.epoch]
  <2>1. n \in [at : {"checkpoints"}, run : {r}, role : {taskRow.role}, epoch : {taskRow.epoch}]
    BY <1>2, <1>3 DEF RunnerRow
  <2>2. runner' = [runner EXCEPT ![w] = n] /\ UNCHANGED runs
    BY <1>3, <1>15 DEF Snapshot, RunnerRow, RunsInv, RunsTypes
  <2> HIDE DEF n
  <2>3. n \in RunnerRow /\ n.at = "checkpoints" /\ n.run = r
    BY <1>3, <2>1 DEF RunnerRow, RunnerPlaces, TaskRow
  <2>4. QED BY <1>1, <1>2, <1>3, <2>2, <2>3, OnlyRunnerMoves DEF BeforeInference
<1>16. QED BY <1>6, <1>7, <1>8, <1>9, <1>10, <1>11, <1>12, <1>13, <1>14, <1>15
\* The newest of the active runs is the one there is.
LEMMA NewestIsActive ==
  ASSUME OneActive, NEW r \in ActiveRuns
  PROVE  r \in Run /\ ActiveRuns = {r} /\ Latest(ActiveRuns) = r
<1>1. r \in Run /\ ActiveRuns = {r}
  BY DEF OneActive, ActiveRuns
<1>2. r <= r
  BY <1>1, RunsAreNumbered
<1>3. QED BY <1>1, <1>2 DEF Latest

\* A run is created when nobody executes, and the one that lost its executor is failed.
LEMMA CreateRunKeeps == ASSUME RunsInv, CreateRun PROVE RunsInv'
<1>1. /\ RunsTypes /\ RunnersInTurn /\ OneActive /\ EpochsClosed
      /\ taskHolder = NoRunner /\ \A q \in ActiveRuns : runs[q].state = "running"
      /\ UNCHANGED <<taskRow, taskHolder, runner, asking, snapshots>>
  BY DEF RunsInv, CreateRun
<1>2. PICK r \in Run :
         /\ runs[r].state = "none"
         /\ runs' = [q \in Run |-> IF q = r THEN [runs[q] EXCEPT !.state = "queued"]
                                   ELSE IF q \in ActiveRuns /\ q = Latest(ActiveRuns) THEN [runs[q] EXCEPT !.state = "failed"]
                                   ELSE runs[q]]
  BY DEF CreateRun
<1>3. \A q \in Run : runs[q] \in RunRow /\ RunInOrder(q)
  BY <1>1 DEF RunsInv, RunsTypes
<1>4. \A q \in ActiveRuns : q = Latest(ActiveRuns)
  BY <1>1, NewestIsActive
<1>5. ASSUME NEW q \in Run
      PROVE  /\ runs'[q] \in RunRow /\ runs'[q].inferred = runs[q].inferred /\ runs'[q].promoted = runs[q].promoted
             /\ runs'[q].state = IF q = r THEN "queued" ELSE IF q \in ActiveRuns THEN "failed" ELSE runs[q].state
  BY <1>2, <1>3, <1>4 DEF RunRow, RunStates
<1>6. RunsTypes'
  BY <1>1, <1>2, <1>5 DEF RunsTypes
<1>7. ASSUME NEW q \in Run PROVE RunInOrder(q)'
  BY <1>2, <1>3, <1>5 DEF RunInOrder
<1>8. ActiveRuns' \subseteq {r}
  BY <1>5 DEF ActiveRuns
<1>9. ASSUME NEW w \in Runner PROVE RunnerInOrder(w)'
  <2>1. runner'[w].at = "off"
    BY <1>1, OwnersAndRunners DEF RunnersInTurn
  <2>2. QED BY <2>1 DEF RunnerInOrder, BeforeInference
<1>10. RunnersInTurn' /\ OneActive' /\ EpochsClosed'
  BY <1>1, <1>8 DEF RunnersInTurn, OneActive, EpochsClosed
<1>11. QED BY <1>6, <1>7, <1>9, <1>10 DEF RunsInv

\* What was read of a run may be outdated when it is written: what is written does
\* not set it active again.
LEMMA ControlKeeps ==
  ASSUME RunsInv, ResumeRun \/ LeaveControl
  PROVE  RunsInv'
<1>1. /\ RunsTypes /\ RunnersInTurn /\ OneActive /\ EpochsClosed
      /\ UNCHANGED <<taskRow, taskHolder, runner, snapshots>> /\ asking.run \in Run
  BY DEF RunsInv, ResumeRun, LeaveControl, RunsTypes, AskingRow
<1>2. \A r \in Run : RunInOrder(r) /\ runs[r] \in RunRow
  BY <1>1 DEF RunsInv, RunsTypes
<1>3. asking' \in AskingRow
  <2>1. NotAsking \in AskingRow
    BY DEF NotAsking, AskingRow, RunStates
  <2>2. [asking EXCEPT !.run = NoRunner, !.state = "no-run"] \in AskingRow
    BY <1>1 DEF RunsTypes, AskingRow
  <2>3. QED BY <2>1, <2>2 DEF ResumeRun, LeaveControl
<1>4. \/ UNCHANGED runs
      \/ \E row \in RunRow :
           /\ runs' = [runs EXCEPT ![asking.run] = row]
           /\ row.inferred = runs[asking.run].inferred /\ row.promoted = runs[asking.run].promoted
           /\ row.state \in {runs[asking.run].state, "completed"}
  <2>1. CASE ResumeRun
    <3> DEFINE row == [runs[asking.run] EXCEPT !.state = "completed", !.control = "none"]
    <3>1. /\ row \in RunRow /\ row.state = "completed" /\ row.inferred = runs[asking.run].inferred
          /\ row.promoted = runs[asking.run].promoted
      BY <1>1, <1>2 DEF RunRow, RunStates
    <3>2. SetRun(asking.run, "completed") => runs' = [runs EXCEPT ![asking.run] = row]
      BY <1>1, <1>2 DEF SetRun, RunsTypes, RunRow
    <3>3. QED BY <2>1, <3>1, <3>2 DEF ResumeRun
  <2>2. CASE LeaveControl
    <3>1. PICK queued \in BOOLEAN :
            queued = (runs[asking.run].cancelledInQueue \/ (asking.action = "cancel" /\ runs[asking.run].state = "queued"))
      BY <1>1, <1>2 DEF RunRow
    <3> DEFINE row == [runs[asking.run] EXCEPT !.control = asking.action, !.cancelledInQueue = queued]
    <3>2. runs[asking.run] \in RunRow /\ asking.action \in {"none", "pause", "cancel"}
      BY <1>1, <1>2, <2>2 DEF LeaveControl
    <3>3. row \in RunRow
      BY <3>2 DEF RunRow
    <3>4. /\ row.state = runs[asking.run].state /\ row.inferred = runs[asking.run].inferred
          /\ row.promoted = runs[asking.run].promoted
      BY <3>2 DEF RunRow
    <3>5. runs' = [runs EXCEPT ![asking.run] = row]
      BY <1>1, <1>2, <2>2, <3>1 DEF LeaveControl, RunsTypes, RunRow
    <3>6. QED BY <3>3, <3>4, <3>5
  <2>3. QED BY <2>1, <2>2
<1>5. ASSUME NEW r \in Run
      PROVE  /\ runs'[r] \in RunRow /\ runs'[r].inferred = runs[r].inferred /\ runs'[r].promoted = runs[r].promoted
             /\ runs'[r].state \in {runs[r].state, "completed"}
             /\ runs[r].state = "none" => runs'[r].state \in {"none", "completed"}
  BY <1>1, <1>2, <1>4 DEF RunsTypes
<1>6. RunsTypes'
  <2>1. runs' = [r \in Run |-> runs'[r]]
    BY <1>1, <1>4 DEF RunsTypes
  <2>2. QED BY <1>1, <1>3, <1>5, <2>1 DEF RunsTypes
<1>7. ActiveRuns' \subseteq ActiveRuns
  BY <1>5 DEF ActiveRuns
<1>8. ASSUME NEW r \in Run PROVE RunInOrder(r)'
  BY <1>2, <1>5 DEF RunInOrder
<1>9. ASSUME NEW w \in Runner PROVE RunnerInOrder(w)'
  <2>1. RunnerInOrder(w) /\ runner'[w] = runner[w]
    BY <1>1 DEF RunsInv
  <2>2. CASE runner[w].at = "off"
    BY <2>1, <2>2 DEF RunnerInOrder, BeforeInference
  <2>3. CASE runner[w].at # "off"
    <3>1. PICK r \in Run : r = runner[w].run
      BY <2>1, <2>3 DEF RunnerInOrder
    <3>2. /\ runs'[r].inferred = runs[r].inferred /\ runs'[r].promoted = runs[r].promoted
          /\ runs'[r].state \in {runs[r].state, "completed"}
      BY <1>5
    <3>3. QED BY <1>7, <2>1, <3>1, <3>2 DEF RunnerInOrder
  <2>4. QED BY <2>2, <2>3
<1>10. RunnersInTurn' /\ OneActive' /\ EpochsClosed'
  BY <1>1, <1>7 DEF RunnersInTurn, OneActive, EpochsClosed
<1>11. QED BY <1>6, <1>8, <1>9, <1>10 DEF RunsInv

\* The user, who asks of what there is, and writes the task when nobody executes it.
LEMMA UserKeeps ==
  ASSUME RunsInv,
         \/ \E action \in {"pause", "resume", "cancel"} : AskControl(action)
         \/ ControlTask \/ UserSetsTask
         \/ \E by \in {"user", "control"} : AddMessage(by)
         \/ \E w \in Runner : TaskLeaseLapses(w)
  PROVE  RunsInv'
<1>1. /\ RunsTypes /\ OneActive /\ EpochsClosed /\ taskRow \in TaskRow /\ asking \in AskingRow
      /\ snapshots \in Seq(SnapshotRow) /\ UNCHANGED <<taskHolder, runs, runner, snapshots>>
  BY DEF RunsInv, RunsTypes, AskControl, ControlTask, UserSetsTask, AddMessage, TaskLeaseLapses
<1>2. taskRow' \in TaskRow /\ taskRow'.epoch = taskRow.epoch
  <2>1. \/ UNCHANGED taskRow
        \/ \E state \in TaskStates : taskRow' = [taskRow EXCEPT !.state = state]
    <3>1. CASE ControlTask
      BY <3>1 DEF ControlTask, TaskStateFor, TaskStates
    <3>2. CASE UserSetsTask
      BY <3>2 DEF UserSetsTask, TaskStates
    <3>3. CASE ~ControlTask /\ ~UserSetsTask
      BY <3>3 DEF AskControl, AddMessage, TaskLeaseLapses
    <3>4. QED BY <3>1, <3>2, <3>3
  <2>2. QED BY <1>1, <2>1 DEF TaskRow
<1>3. asking' \in AskingRow
  <2>1. CASE \E action \in {"pause", "resume", "cancel"} : AskControl(action)
    <3>1. PICK action \in {"pause", "resume", "cancel"} : AskControl(action)
      BY <2>1
    <3>2. CASE ActiveRuns = {}
      BY <3>1, <3>2 DEF AskControl, NotAsking, AskingRow
    <3>3. CASE ActiveRuns # {}
      <4>1. PICK r \in ActiveRuns : r \in Run /\ Latest(ActiveRuns) = r
        BY <1>1, <3>3, NewestIsActive
      <4>2. runs[r] \in RunRow
        BY <1>1, <4>1 DEF RunsTypes
      <4>3. asking' = [action |-> action, run |-> r, state |-> runs[r].state]
        BY <3>1, <3>3, <4>1 DEF AskControl
      <4>4. QED BY <4>1, <4>2, <4>3 DEF AskingRow, RunRow
    <3>4. QED BY <3>2, <3>3
  <2>2. CASE ControlTask
    BY <2>2 DEF ControlTask, NotAsking, AskingRow, RunStates
  <2>3. CASE UNCHANGED asking
    BY <1>1, <2>3
  <2>4. QED BY <2>1, <2>2, <2>3 DEF UserSetsTask, AddMessage, TaskLeaseLapses
<1>4. EpochsClosed'
  BY <1>1, <1>2 DEF EpochsClosed
<1>5. QED BY <1>1, <1>2, <1>3, <1>4, RunsStand

\* A hand-off, a rollover and the promotion of a run end an epoch with its checkpoint,
\* as the user may, who makes others too.
LEMMA EpochStepKeeps ==
  ASSUME RunsInv,
         \/ \E role \in Owners : HandOff(role)
         \/ Rollover
         \/ CheckpointTask
         \/ \E w \in Runner : CheckpointEpoch(w)
  PROVE  RunsInv'
<1>1. RunsTypes /\ EpochsClosed /\ taskRow \in TaskRow /\ asking \in AskingRow
  BY DEF RunsInv, RunsTypes
<1>2. ASSUME NEW role \in Owners, HandOff(role) PROVE RunsInv'
  <2>1. taskRow' = [taskRow EXCEPT !.role = role, !.epoch = @ + 1] /\ Checkpoint(taskRow.role, taskRow.epoch, TRUE)
        /\ UNCHANGED <<taskHolder, runs, runner, asking>>
    BY <1>2 DEF HandOff
  <2>2. taskRow' \in TaskRow /\ taskRow'.epoch = taskRow.epoch + 1
    <3>1. taskRow.epoch \in Nat
      BY <1>1 DEF TaskRow
    <3>2. PICK n \in Nat \ {0} : n = taskRow.epoch + 1
      BY <3>1
    <3>3. taskRow' = [taskRow EXCEPT !.role = role, !.epoch = n]
      BY <1>1, <2>1, <3>2 DEF TaskRow
    <3>4. QED BY <1>1, <3>2, <3>3 DEF TaskRow
  <2>3. taskRow.role \in Owners /\ taskRow.epoch \in Nat
    BY <1>1 DEF TaskRow
  <2>4. snapshots' \in Seq(SnapshotRow) /\ EpochsClosed'
    BY <1>1, <2>1, <2>2, <2>3, CheckpointKeeps
  <2>5. QED BY <1>1, <2>1, <2>2, <2>4, RunsStand
<1>3. CASE Rollover
  <2>1. taskRow' = [taskRow EXCEPT !.epoch = @ + 1] /\ Checkpoint(taskRow.role, taskRow.epoch, TRUE)
        /\ UNCHANGED <<taskHolder, runs, runner, asking>>
    BY <1>3 DEF Rollover
  <2>2. taskRow' \in TaskRow /\ taskRow'.epoch = taskRow.epoch + 1
    BY <1>1, <2>1 DEF TaskRow
  <2>3. taskRow.role \in Owners /\ taskRow.epoch \in Nat
    BY <1>1 DEF TaskRow
  <2>4. snapshots' \in Seq(SnapshotRow) /\ EpochsClosed'
    BY <1>1, <2>1, <2>2, <2>3, CheckpointKeeps
  <2>5. QED BY <1>1, <2>1, <2>2, <2>4, RunsStand
<1>4. ASSUME NEW w \in Runner, CheckpointEpoch(w) PROVE RunsInv'
  <2>1. runner[w].at = "checkpoints" /\ UNCHANGED <<taskHolder, runs, asking>>
    BY <1>4 DEF CheckpointEpoch, RunnerAt
  <2>2. PICK at \in {"hands-back", "raises"} :
          /\ ToStep(w, at)
          /\ IF at = "hands-back"
             THEN Checkpoint(runner[w].role, runner[w].epoch, TRUE) /\ Matches(w)
                  /\ taskRow' = [taskRow EXCEPT !.epoch = @ + 1]
             ELSE UNCHANGED <<taskRow, snapshots>>
    BY <1>4 DEF CheckpointEpoch
  <2>3. PICK r \in Run : r = runner[w].run
    BY <2>1, Executing
  <2>4. runs[r] \in RunRow /\ runs[r].state # "none" /\ RunInOrder(r) /\ runner[w] \in RunnerRow
    BY <2>1, <2>3, Executing
  <2>5. at \in RunnerPlaces /\ at # "off" /\ at \notin BeforeInference
    BY DEF RunnerPlaces, BeforeInference
  <2> DEFINE n == [runner[w] EXCEPT !.at = at]
  <2>6. n \in RunnerRow /\ n.at = at /\ n.run = r /\ runner' = [runner EXCEPT ![w] = n]
    BY <2>1, <2>2, <2>3, <2>5, Executing
  <2> HIDE DEF n
  <2>7. taskRow' \in TaskRow /\ snapshots' \in Seq(SnapshotRow) /\ EpochsClosed'
    <3>1. CASE at = "hands-back"
      <4>1. taskRow' \in TaskRow /\ taskRow'.epoch = taskRow.epoch + 1
        BY <1>1, <2>2, <3>1 DEF TaskRow
      <4>2. runner[w].role \in Owners \union {NoRunner} /\ runner[w].epoch \in Nat
        BY <2>4 DEF RunnerRow
      <4>3. QED BY <1>1, <2>2, <3>1, <4>1, <4>2, CheckpointKeeps DEF Matches
    <3>2. CASE at = "raises"
      BY <1>1, <2>2, <3>2 DEF EpochsClosed, RunsTypes
    <3>3. QED BY <3>1, <3>2
  <2>8. PICK row \in RunRow : row = runs[r]
    BY <2>4
  <2>9. runs' = [runs EXCEPT ![r] = row] /\ row.state # "none"
    BY <1>1, <2>1, <2>4, <2>8 DEF RunsTypes
  <2>10. RunInOrder(r)'
    BY <2>1, <2>4 DEF RunInOrder
  <2>11. row.state \in {"queued", "running", "paused"} => r \in ActiveRuns
    BY <2>8 DEF ActiveRuns
  <2>12. at \notin {"last-boundary", "promotes", "loaded", "begun", "first-boundary"}
    OBVIOUS
  <2>13. taskHolder' = taskHolder /\ asking' = asking /\ runner[w].at # "off"
    BY <2>1
  <2>14. QED BY <2>3, <2>5, <2>6, <2>7, <2>9, <2>10, <2>11, <2>12, <2>13, RunnerMoves
<1>5. CASE CheckpointTask
  <2>1. PICK closes \in BOOLEAN :
          /\ Checkpoint(taskRow.role, taskRow.epoch, closes)
          /\ taskRow' = IF closes THEN [taskRow EXCEPT !.epoch = @ + 1] ELSE taskRow
    BY <1>5 DEF CheckpointTask
  <2>2. taskRow' \in TaskRow /\ taskRow'.epoch = IF closes THEN taskRow.epoch + 1 ELSE taskRow.epoch
    BY <1>1, <2>1 DEF TaskRow
  <2>3. taskRow.role \in Owners /\ taskRow.epoch \in Nat
    BY <1>1 DEF TaskRow
  <2>4. snapshots' \in Seq(SnapshotRow) /\ EpochsClosed'
    BY <1>1, <2>1, <2>2, <2>3, CheckpointKeeps
  <2>5. UNCHANGED <<taskHolder, runs, runner, asking>>
    BY <1>5 DEF CheckpointTask
  <2>6. QED BY <1>1, <2>2, <2>4, <2>5, RunsStand
<1>6. QED BY <1>2, <1>3, <1>4, <1>5

\* The lease on the execution comes and goes with who executes.
LEMMA EntryKeeps ==
  ASSUME RunsInv, NEW w \in Runner,
         (\E r \in Run : EnterRun(w, r)) \/ LeaveRun(w) \/ RunnerCrashes(w)
  PROVE  RunsInv'
<1>1. /\ RunsTypes /\ RunnersInTurn /\ OneActive /\ EpochsClosed
      /\ UNCHANGED <<taskRow, runs, asking, snapshots>>
  BY DEF RunsInv, EnterRun, LeaveRun, RunnerCrashes
<1>2. Off \in RunnerRow /\ Off.at = "off"
  BY DEF Off, RunnerRow, RunnerPlaces
<1>3. /\ OneActive' /\ EpochsClosed' /\ ActiveRuns' = ActiveRuns
      /\ \A r \in Run : RunInOrder(r)'
  BY <1>1 DEF OneActive, EpochsClosed, ActiveRuns, RunsInv, RunInOrder
<1>4. CASE \E r \in Run : EnterRun(w, r)
  <2>1. PICK r \in Run : EnterRun(w, r)
    BY <1>4
  <2> DEFINE n == [Off EXCEPT !.at = "entered", !.run = r]
  <2>2. n \in RunnerRow /\ n.at = "entered" /\ n.run = r
    BY <1>2 DEF RunnerRow, RunnerPlaces
  <2>3. runner' = [runner EXCEPT ![w] = n] /\ taskHolder = NoRunner /\ taskHolder' = w /\ runs[r].state # "none"
    BY <2>1 DEF EnterRun
  <2> HIDE DEF n
  <2>4. runner'[w] = n /\ \A v \in Runner : v # w => runner'[v] = runner[v]
    BY <1>1, <2>3 DEF RunsTypes
  <2>5. \A v \in Runner : v # w => runner'[v].at = "off"
    BY <1>1, <2>3, <2>4, OwnersAndRunners DEF RunnersInTurn
  <2>6. RunnersInTurn'
    BY <2>2, <2>3, <2>4, <2>5 DEF RunnersInTurn
  <2>7. ASSUME NEW v \in Runner PROVE RunnerInOrder(v)'
    BY <1>1, <2>2, <2>3, <2>4, <2>5 DEF RunnerInOrder, BeforeInference
  <2>8. RunsTypes'
    BY <1>1, <2>2, <2>3 DEF RunsTypes
  <2>9. QED BY <1>3, <2>6, <2>7, <2>8 DEF RunsInv
<1>5. CASE LeaveRun(w) \/ RunnerCrashes(w)
  <2>1. /\ runner[w].at # "off" /\ taskHolder' = NoRunner
        /\ runner' = [runner EXCEPT ![w] = Off]
    BY <1>5 DEF LeaveRun, RunnerCrashes, RunnerAt
  <2>2. runner'[w] = Off /\ \A v \in Runner : v # w => runner'[v] = runner[v]
    BY <1>1, <2>1 DEF RunsTypes
  <2>3. \A v \in Runner : runner'[v].at = "off"
    BY <1>2, <2>1, <2>2, OneExecutes
  <2>4. RunnersInTurn'
    BY <2>1, <2>3, OwnersAndRunners DEF RunnersInTurn
  <2>5. ASSUME NEW v \in Runner PROVE RunnerInOrder(v)'
    BY <2>3 DEF RunnerInOrder, BeforeInference
  <2>6. RunsTypes'
    BY <1>1, <1>2, <2>1 DEF RunsTypes
  <2>7. QED BY <1>3, <2>4, <2>5, <2>6 DEF RunsInv
<1>6. QED BY <1>4, <1>5

LEMMA RunsInitially == RunsInit => RunsInv
<1> SUFFICES ASSUME RunsInit PROVE RunsInv
  OBVIOUS
<1>1. RunsTypes
  <2>1. taskRow \in TaskRow /\ asking \in AskingRow /\ snapshots \in Seq(SnapshotRow)
    BY OwnersAndRunners DEF RunsInit, NotAsking, TaskRow, AskingRow, TaskStates, RunStates
  <2>2. runs \in [Run -> RunRow]
    BY DEF RunsInit, RunRow, RunStates
  <2>3. runner \in [Runner -> RunnerRow]
    BY DEF RunsInit, Off, RunnerRow, RunnerPlaces
  <2>4. QED BY <2>1, <2>2, <2>3 DEF RunsInit, RunsTypes
<1>2. RunnersInTurn
  BY OwnersAndRunners DEF RunsInit, RunnersInTurn, Off
<1>3. OneActive /\ \A r \in Run : RunInOrder(r)
  BY DEF RunsInit, OneActive, ActiveRuns, RunInOrder
<1>4. EpochsClosed
  BY DEF RunsInit, EpochsClosed
<1>5. \A w \in Runner : RunnerInOrder(w)
  BY DEF RunsInit, RunnerInOrder, Off, BeforeInference
<1>6. QED BY <1>1, <1>2, <1>3, <1>4, <1>5 DEF RunsInv

\* Whoever dies, loses its lease or leaves a word in the row of a run: it infers and
\* promotes once, a cancelled one has promoted nothing, one is active at a time, and
\* each epoch that is over ends with the one checkpoint that closes it; the checkpoints
\* that close none come before it, and each is of what the task was then
\* (runner.py, checkpoints.py, orchestration.py, tasks.py).
THEOREM TaskRunsAreSound == RunsSpec => []RunsAreSound
<1>1. RunsInv /\ [RunsNext]_runVars => RunsInv'
  <2> SUFFICES ASSUME RunsInv, [RunsNext]_runVars PROVE RunsInv'
    OBVIOUS
  <2>1. CASE \/ \E action \in {"pause", "resume", "cancel"} : AskControl(action)
             \/ ControlTask \/ UserSetsTask
             \/ \E by \in {"user", "control"} : AddMessage(by)
             \/ \E w \in Runner : TaskLeaseLapses(w)
    BY <2>1, UserKeeps
  <2>2. CASE CreateRun \/ ResumeRun \/ LeaveControl
    BY <2>2, CreateRunKeeps, ControlKeeps
  <2>3. CASE Rollover \/ CheckpointTask \/ (\E role \in Owners : HandOff(role)) \/ \E w \in Runner : CheckpointEpoch(w)
    BY <2>3, EpochStepKeeps
  <2>4. CASE \E w \in Runner : (\E r \in Run : EnterRun(w, r)) \/ LeaveRun(w) \/ RunnerCrashes(w)
    BY <2>4, EntryKeeps
  <2>5. CASE \E w \in Runner :
               \/ LoadRun(w) \/ BeginRun(w) \/ FirstBoundary(w) \/ BuildContext(w) \/ Infer(w) \/ LastBoundary(w)
               \/ CompleteRun(w) \/ FailRun(w) \/ PromoteMessage(w) \/ Snapshot(w)
    BY <2>5, RunStepKeeps
  <2>6. CASE \E w \in Runner :
               \/ TaskRunning(w) \/ TaskCancelled(w) \/ TaskPaused(w) \/ TaskCancelledLate(w)
               \/ TaskHandedBack(w) \/ TaskFailed(w)
    <3>1. PICK w \in Runner :
             \/ TaskRunning(w) \/ TaskCancelled(w) \/ TaskPaused(w) \/ TaskCancelledLate(w)
             \/ TaskHandedBack(w) \/ TaskFailed(w)
      BY <2>6
    <3>2. CASE TaskRunning(w)
      BY <3>2, WriteTaskKeeps DEF TaskRunning, RunnerPlaces, TaskStates
    <3>3. CASE TaskCancelled(w) \/ TaskPaused(w) \/ TaskFailed(w)
      BY SMTT(60), <3>3, WriteTaskKeeps DEF TaskCancelled, TaskPaused, TaskFailed, RunnerPlaces, TaskStates, BeforeInference
    <3>4. CASE TaskCancelledLate(w) \/ TaskHandedBack(w)
      BY SMTT(60), <3>4, WriteTaskKeeps DEF TaskCancelledLate, TaskHandedBack, RunnerPlaces, TaskStates, BeforeInference
    <3>5. QED BY <3>1, <3>2, <3>3, <3>4
  <2>7. CASE UNCHANGED runVars
    BY <2>7, RunsStand DEF runVars, RunsInv, RunsTypes, EpochsClosed
  <2>8. QED BY <2>1, <2>2, <2>3, <2>4, <2>5, <2>6, <2>7 DEF RunsNext
<1>2. RunsInv => RunsAreSound
  <2> SUFFICES ASSUME RunsInv PROVE RunsAreSound
    OBVIOUS
  <2>1. RunsTypes /\ OneActive /\ EpochsClosed /\ taskRow \in TaskRow /\ snapshots \in Seq(SnapshotRow)
    BY DEF RunsInv, RunsTypes
  <2>2. \A r \in Run : /\ runs[r].inferred <= 1 /\ runs[r].promoted <= runs[r].inferred
                       /\ runs[r].state = "cancelled" => runs[r].promoted = 0
    BY DEF RunsInv, RunInOrder
  <2>3. Cardinality(ActiveRuns) <= 1
    <3>1. CASE ActiveRuns = {}
      BY <3>1, FS_EmptySet
    <3>2. CASE ActiveRuns # {}
      <4>1. PICK r : ActiveRuns = {r}
        BY <2>1, <3>2, NewestIsActive
      <4>2. Cardinality({r}) = 1
        BY FS_Singleton
      <4>3. QED BY <4>1, <4>2
    <3>3. QED BY <3>1, <3>2
  <2>4. QED BY <2>1, <2>2, <2>3 DEF RunsAreSound
<1>3. QED BY <1>1, <1>2, RunsInitially, PTL DEF RunsSpec

-----------------------------------------------------------------------------
(* What a client of the Core service is given.  A code that made a client  *)
(* is used; a stream goes on where its client is, and has of what follows  *)
(* no event without those before it; who acts for a revoked client has     *)
(* been let in before, and is let in no more.                              *)

ClientRow == [state : {"none", "active", "revoked"}, code : Code \union {NoCode}, has : BOOLEAN]
ConnectionRow == [at : {"off", "matched", "checks", "acts", "reads", "sends"}, call : Calls,
                  cursor : Nat, batch : SUBSET Nat]

CoreTypes ==
    /\ pairing \in [Code -> {"none", "open", "used", "expired"}]
    /\ client \in [Client -> ClientRow]
    /\ events \in Seq({"normal", "internal"})
    /\ connection \in [Connection -> ConnectionRow]
    /\ got \in [Connection -> Seq(Nat)]
    /\ overdue \in [Connection -> Nat]

CodesInv ==
    /\ \A c \in Client : client[c].state = "none" => client[c].code = NoCode
    /\ \A c \in Client : client[c].code \in Code => pairing[client[c].code] = "used"
    /\ \A c, d \in Client : client[c].code = client[d].code /\ client[c].code \in Code => c = d

\* what the client at the other end has, and what is on the way to it
GotInv(k) ==
    /\ {got[k][i] : i \in DOMAIN got[k]} = Select(1 .. LastOf(got[k]))
    /\ \A i, j \in DOMAIN got[k] : i < j => got[k][i] < got[k][j]
    /\ LastOf(got[k]) \in 0 .. Len(events)

BatchInv(k) ==
    /\ connection[k].at # "off" => connection[k].cursor = LastOf(got[k])
    /\ connection[k].at = "sends" =>
         /\ connection[k].batch \subseteq Select(connection[k].cursor + 1 .. Len(events))
         /\ \A id \in connection[k].batch : Select(connection[k].cursor + 1 .. id) \subseteq connection[k].batch

CutInv(k) ==
    /\ connection[k].at # "off" => client[ClientAt[k]].state # "none"
    /\ overdue[k] <= 1
    /\ overdue[k] = 1 => client[ClientAt[k]].state = "revoked" /\ connection[k].at \notin {"acts", "reads"}

CoreInv ==
    /\ CoreTypes /\ CodesInv
    /\ \A k \in Connection : GotInv(k) /\ BatchInv(k) /\ CutInv(k)

-----------------------------------------------------------------------------
\* events stay as they are when others follow
EventsStay ==
    /\ Len(events) \in Nat /\ Len(events') \in Nat /\ Len(events) <= Len(events')
    /\ \A id \in 1 .. Len(events) : events'[id] = events[id]

LEMMA EventsAreKept ==
    ASSUME CoreTypes, (\E v \in {"normal", "internal"} : events' = Append(events, v)) \/ UNCHANGED events
    PROVE  EventsStay
<1>1. CASE UNCHANGED events
  BY <1>1 DEF CoreTypes, EventsStay
<1>2. ASSUME NEW v \in {"normal", "internal"}, events' = Append(events, v)
      PROVE  EventsStay
  <2>1. events \in Seq({"normal", "internal"})
    BY DEF CoreTypes
  <2> QED BY <1>2, <2>1 DEF EventsStay
<1> QED BY <1>1, <1>2

\* what was selected of them too
LEMMA SelectionStays ==
    ASSUME EventsStay, NEW ids, ids \subseteq 1 .. Len(events)
    PROVE  Select(ids)' = Select(ids)
  BY DEF Select, Visible, EventsStay

LEMMA LastIsNat ==
    ASSUME NEW ids \in Seq(Nat)
    PROVE  LastOf(ids) \in Nat
<1>1. CASE ids = <<>> BY <1>1 DEF LastOf
<1>2. CASE ids # <<>>
  <2>1. Len(ids) \in DOMAIN ids
    BY <1>2
  <2> QED BY <1>2, <2>1 DEF LastOf
<1> QED BY <1>1, <1>2

LEMMA GotStays ==
    ASSUME CoreTypes, EventsStay, NEW k \in Connection, GotInv(k), got'[k] = got[k]
    PROVE  GotInv(k)'
<1>1. PICK n, s : n = LastOf(got[k]) /\ s = got[k]
  OBVIOUS
<1>2. n \in 0 .. Len(events) /\ {s[i] : i \in DOMAIN s} = Select(1 .. n)
  BY <1>1 DEF GotInv
<1>3. 1 .. n \subseteq 1 .. Len(events) /\ n \in 0 .. Len(events')
  BY <1>2 DEF EventsStay
<1>4. Select(1 .. n)' = Select(1 .. n)
  BY <1>3, SelectionStays
<1>5. got'[k] = s /\ LastOf(got'[k]) = n
  BY <1>1
<1>6. \A i, j \in DOMAIN s : i < j => s[i] < s[j]
  BY <1>1 DEF GotInv
<1> QED BY <1>2, <1>3, <1>4, <1>5, <1>6 DEF GotInv, Select, Visible

LEMMA BatchStays ==
    ASSUME CoreTypes, EventsStay, NEW k \in Connection, BatchInv(k), got'[k] = got[k],
           connection'[k] = connection[k]
    PROVE  BatchInv(k)'
<1>1. PICK n, b : n = connection[k].cursor /\ b = connection[k].batch
  OBVIOUS
<1>2. n \in Nat /\ connection'[k].cursor = n /\ connection'[k].batch = b
      /\ connection'[k].at = connection[k].at
  BY <1>1 DEF CoreTypes, ConnectionRow
<1>3. connection'[k].at # "off" => n = LastOf(got'[k])
  BY <1>1, <1>2 DEF BatchInv
<1>4. ASSUME connection[k].at = "sends"
      PROVE  /\ b \subseteq Select(n + 1 .. Len(events))'
             /\ \A id \in b : Select(n + 1 .. id)' \subseteq b
  <2>1. b \subseteq Select(n + 1 .. Len(events)) /\ \A id \in b : Select(n + 1 .. id) \subseteq b
    BY <1>1, <1>4 DEF BatchInv
  <2>2. \A id \in b : id \in n + 1 .. Len(events)
    BY <2>1 DEF Select
  <2>3. b \subseteq Select(n + 1 .. Len(events))'
    BY <1>2, <2>1, <2>2 DEF Select, Visible, EventsStay
  <2>4. ASSUME NEW id \in b PROVE Select(n + 1 .. id)' = Select(n + 1 .. id)
    <3>1. n + 1 .. id \subseteq 1 .. Len(events)
      BY <1>2, <2>2 DEF EventsStay
    <3> QED BY <3>1, SelectionStays
  <2> QED BY <2>1, <2>3, <2>4
<1> QED BY <1>2, <1>3, <1>4 DEF BatchInv

\* a connection that begins, ends, or goes on without a batch
LEMMA BatchBegins ==
    ASSUME NEW k \in Connection,
           connection'[k].at # "off" => connection'[k].cursor = LastOf(got'[k]),
           connection'[k].at # "sends"
    PROVE  BatchInv(k)'
  BY DEF BatchInv

\* the fields of a connection
LEMMA ConnectionFields ==
    ASSUME CoreTypes, NEW k \in Connection, NEW at, Onwards(k, at)
    PROVE  /\ connection'[k].at = at /\ connection'[k].cursor = connection[k].cursor
           /\ connection'[k].call = connection[k].call /\ connection'[k].batch = connection[k].batch
           /\ \A q \in Connection : q # k => connection'[q] = connection[q]
           /\ DOMAIN connection' = Connection
  BY DEF CoreTypes, ConnectionRow, Onwards

LEMMA HungUpFields ==
    ASSUME CoreTypes, NEW k \in Connection, HangsUp(k)
    PROVE  /\ connection'[k] = HungUp /\ connection'[k].at = "off"
           /\ \A q \in Connection : q # k => connection'[q] = connection[q]
  BY DEF CoreTypes, HangsUp, HungUp

-----------------------------------------------------------------------------
\* What one connection does

\* CoreInv of a step of k: the events stay, and so do the others
LEMMA ConnectionMoves ==
    ASSUME CoreInv, NEW k \in Connection, CoreTypes', EventsStay, UNCHANGED <<pairing, client>>,
           \A q \in Connection : q # k => connection'[q] = connection[q] /\ got'[q] = got[q]
                                          /\ overdue'[q] = overdue[q],
           GotInv(k)', BatchInv(k)', CutInv(k)'
    PROVE  CoreInv'
<1>1. CodesInv'
  BY DEF CoreInv, CodesInv
<1>2. ASSUME NEW q \in Connection, q # k
      PROVE  GotInv(q)' /\ BatchInv(q)' /\ CutInv(q)'
  <2>1. CutInv(q)'
    BY <1>2 DEF CoreInv, CutInv
  <2> QED BY <1>2, <2>1, GotStays, BatchStays DEF CoreInv
<1> QED BY <1>1, <1>2 DEF CoreInv

\* CoreInv of a step outside of the connections
LEMMA OthersMove ==
    ASSUME CoreInv, CoreTypes', CodesInv', EventsStay, UNCHANGED <<connection, got, overdue>>,
           \A c \in Client : /\ client[c].state # "none" => client'[c].state # "none"
                             /\ client[c].state = "revoked" => client'[c].state = "revoked"
    PROVE  CoreInv'
<1>1. ASSUME NEW k \in Connection PROVE GotInv(k)' /\ BatchInv(k)' /\ CutInv(k)'
  <2>1. ClientAt[k] \in Client
    BY EachHasAClient
  <2>2. CutInv(k)'
    BY <2>1 DEF CoreInv, CutInv
  <2> QED BY <2>2, GotStays, BatchStays DEF CoreInv
<1> QED BY <1>1 DEF CoreInv

\* what an act counts is at most one, of a client that is let in no more
LEMMA OverdueOnce ==
    ASSUME CoreTypes, NEW k \in Connection, CutInv(k), connection[k].at \in {"acts", "reads"},
           overdue' = Overdue(k), client'[ClientAt[k]] = client[ClientAt[k]],
           connection'[k].at \notin {"acts", "reads"}
    PROVE  CutInv(k)' /\ \A q \in Connection : q # k => overdue'[q] = overdue[q]
<1>1. ClientAt[k] \in Client
  BY EachHasAClient
<1>2. overdue[k] = 0 /\ client[ClientAt[k]].state # "none"
  BY DEF CutInv, CoreTypes
<1>3. CASE IsActive(ClientAt[k])
  BY <1>2, <1>3 DEF Overdue, CutInv
<1>4. CASE ~IsActive(ClientAt[k])
  <2>1. client[ClientAt[k]].state = "revoked"
    BY <1>1, <1>2, <1>4 DEF IsActive, CoreTypes, ClientRow
  <2>2. overdue' = [overdue EXCEPT ![k] = overdue[k] + 1]
    BY <1>4 DEF Overdue
  <2>3. overdue'[k] = 1 /\ \A q \in Connection : q # k => overdue'[q] = overdue[q]
    BY <1>2, <2>2 DEF CoreTypes
  <2> QED BY <1>2, <2>1, <2>3 DEF CutInv
<1> QED BY <1>3, <1>4

-----------------------------------------------------------------------------
\* CreatePairing, PairingExpires: a code that no client has
LEMMA CodeMoves ==
    ASSUME CoreInv, NEW g \in Code, CreatePairing(g) \/ PairingExpires(g)
    PROVE  CoreInv'
<1>1. /\ CoreTypes /\ CodesInv /\ UNCHANGED <<client, events, connection, got, overdue>>
      /\ pairing[g] # "used"
      /\ \E s \in {"open", "expired"} : pairing' = [pairing EXCEPT ![g] = s]
  BY DEF CreatePairing, PairingExpires, CoreInv
<1>2. CoreTypes'
  BY <1>1 DEF CoreTypes
<1>3. CodesInv'
  BY <1>1 DEF CodesInv, CoreTypes
<1> QED BY <1>1, <1>2, <1>3, EventsAreKept, OthersMove

LEMMA ExchangePairingKeeps ==
    ASSUME CoreInv, NEW g \in Code, NEW c \in Client, ExchangePairing(g, c)
    PROVE  CoreInv'
<1>1. /\ CoreTypes /\ CodesInv /\ UNCHANGED <<events, connection, got, overdue>>
      /\ pairing[g] = "open" /\ client[c].state = "none"
      /\ pairing' = [pairing EXCEPT ![g] = "used"]
  BY DEF ExchangePairing, Exchangeable, CoreInv
<1>2. PICK has \in BOOLEAN : client' = [client EXCEPT ![c] = [state |-> "active", code |-> g, has |-> has]]
  BY DEF ExchangePairing
<1>3. CoreTypes'
  BY <1>1, <1>2 DEF CoreTypes, ClientRow
<1>4. client'[c].state = "active" /\ client'[c].code = g /\ pairing'[g] = "used"
      /\ (\A d \in Client : d # c => client'[d] = client[d])
      /\ (\A h \in Code : pairing[h] = "used" => pairing'[h] = "used")
  BY <1>1, <1>2 DEF CoreTypes
<1>5. \A d \in Client : client[d].code # g
  BY <1>1 DEF CodesInv
<1>6. CodesInv'
  <2>1. \A d \in Client : client'[d].state = "none" => client'[d].code = NoCode
    BY <1>1, <1>4 DEF CodesInv
  <2>2. \A d \in Client : client'[d].code \in Code => pairing'[client'[d].code] = "used"
    BY <1>1, <1>4 DEF CodesInv
  <2>3. \A d, e \in Client : client'[d].code = client'[e].code /\ client'[d].code \in Code => d = e
    BY <1>1, <1>4, <1>5 DEF CodesInv
  <2> QED BY <2>1, <2>2, <2>3 DEF CodesInv
<1>7. \A d \in Client : /\ client[d].state # "none" => client'[d].state # "none"
                        /\ client[d].state = "revoked" => client'[d].state = "revoked"
  BY <1>1, <1>4
<1> QED BY <1>1, <1>3, <1>6, <1>7, EventsAreKept, OthersMove

\* who is revoked keeps its code
LEMMA RevokedFields ==
    ASSUME CoreTypes, CodesInv, NEW c \in Client, IsActive(c), Revoked(c), UNCHANGED pairing
    PROVE  /\ client' \in [Client -> ClientRow] /\ CodesInv'
           /\ \A d \in Client : d # c => client'[d] = client[d]
           /\ \A d \in Client : /\ client[d].state # "none" => client'[d].state # "none"
                                /\ client[d].state = "revoked" => client'[d].state = "revoked"
<1>1. client' \in [Client -> ClientRow]
  BY DEF CoreTypes, ClientRow, Revoked
<1>2. client'[c].state = "revoked" /\ client'[c].code = client[c].code
      /\ \A d \in Client : d # c => client'[d] = client[d]
  BY DEF CoreTypes, ClientRow, Revoked
<1>3. CodesInv'
  BY <1>2 DEF CodesInv, IsActive
<1> QED BY <1>1, <1>2, <1>3

LEMMA RevokeByHandKeeps ==
    ASSUME CoreInv, NEW c \in Client, RevokeByHand(c)
    PROVE  CoreInv'
<1>1. /\ CoreTypes /\ CodesInv /\ IsActive(c) /\ Revoked(c)
      /\ UNCHANGED <<pairing, events, connection, got, overdue>>
  BY DEF RevokeByHand, CoreInv
<1>2. CoreTypes'
  BY <1>1, RevokedFields DEF CoreTypes
<1> QED BY <1>1, <1>2, RevokedFields, EventsAreKept, OthersMove

LEMMA AppendEventKeeps ==
    ASSUME CoreInv, NEW v \in {"normal", "internal"}, AppendEvent(v)
    PROVE  CoreInv'
<1>1. /\ CoreTypes /\ CodesInv /\ events' = Append(events, v)
      /\ UNCHANGED <<pairing, client, connection, got, overdue>>
  BY DEF AppendEvent, CoreInv
<1>2. CoreTypes'
  BY <1>1 DEF CoreTypes
<1>3. CodesInv'
  BY <1>1 DEF CodesInv
<1>4. EventsStay
  BY <1>1, EventsAreKept
<1> QED BY <1>1, <1>2, <1>3, <1>4, OthersMove

-----------------------------------------------------------------------------
LEMMA ActKeeps ==
    ASSUME CoreInv, NEW k \in Connection, NEW v \in {"normal", "internal"}, Act(k, v)
    PROVE  CoreInv'
<1>1. /\ CoreTypes /\ GotInv(k) /\ CutInv(k) /\ connection[k].at = "acts" /\ events' = Append(events, v)
      /\ overdue' = Overdue(k) /\ HangsUp(k) /\ UNCHANGED <<pairing, client, got>>
  BY DEF Act, CoreInv
<1>2. EventsStay
  BY <1>1, EventsAreKept
<1>3. connection'[k].at = "off" /\ \A q \in Connection : q # k => connection'[q] = connection[q]
  BY <1>1, HungUpFields
<1>4. CutInv(k)' /\ \A q \in Connection : q # k => overdue'[q] = overdue[q]
  BY <1>1, <1>3, OverdueOnce
<1>5. GotInv(k)' /\ BatchInv(k)'
  BY <1>1, <1>2, <1>3, GotStays, BatchBegins
<1>6. CoreTypes'
  BY <1>1 DEF CoreTypes, HangsUp, HungUp, ConnectionRow, Calls, Overdue
<1> QED BY <1>1, <1>2, <1>3, <1>4, <1>5, <1>6, ConnectionMoves

\* its own part as an act, and the other client as by hand
LEMMA RevokeOtherKeeps ==
    ASSUME CoreInv, NEW k \in Connection, NEW c \in Client, RevokeOther(k, c)
    PROVE  CoreInv'
<1>1. /\ CoreTypes /\ CodesInv /\ GotInv(k) /\ CutInv(k) /\ connection[k].at = "acts"
      /\ c # ClientAt[k] /\ IsActive(c) /\ Revoked(c)
      /\ overdue' = Overdue(k) /\ HangsUp(k) /\ UNCHANGED <<pairing, events, got>>
  BY DEF RevokeOther, CoreInv
<1>2. EventsStay
  BY <1>1, EventsAreKept
<1>3. connection'[k].at = "off" /\ \A q \in Connection : q # k => connection'[q] = connection[q]
  BY <1>1, HungUpFields
<1>4. CodesInv' /\ client'[ClientAt[k]] = client[ClientAt[k]]
  BY <1>1, EachHasAClient, RevokedFields
<1>5. CutInv(k)' /\ \A q \in Connection : q # k => overdue'[q] = overdue[q]
  BY <1>1, <1>3, <1>4, OverdueOnce
<1>6. GotInv(k)' /\ BatchInv(k)'
  BY <1>1, <1>2, <1>3, GotStays, BatchBegins
<1>7. CoreTypes'
  <2>1. client' \in [Client -> ClientRow]
    BY <1>1, RevokedFields
  <2> QED BY <1>1, <2>1 DEF CoreTypes, HangsUp, HungUp, ConnectionRow, Calls, Overdue
<1>8. ASSUME NEW q \in Connection, q # k
      PROVE  GotInv(q)' /\ BatchInv(q)' /\ CutInv(q)'
  <2>1. ClientAt[q] \in Client
    BY EachHasAClient
  <2>2. CutInv(q)'
    BY <1>1, <1>3, <1>5, <1>8, <2>1, RevokedFields DEF CoreInv, CutInv
  <2> QED BY <1>1, <1>2, <1>3, <1>8, <2>2, GotStays, BatchStays DEF CoreInv
<1> QED BY <1>4, <1>5, <1>6, <1>7, <1>8 DEF CoreInv

\* Authenticate, Require, CheckActive, EndBatch, ConnectionBreaks: from one place to another
LEMMA ConnectionGoes ==
    ASSUME CoreInv, NEW k \in Connection, UNCHANGED <<pairing, client, events, got, overdue>>,
           HangsUp(k) \/ (connection[k].at # "off" /\ \E at \in {"checks", "acts", "reads"} :
                             /\ Onwards(k, at)
                             /\ at \in {"acts", "reads"} => IsActive(ClientAt[k]))
    PROVE  CoreInv'
<1>1. CoreTypes /\ GotInv(k) /\ BatchInv(k) /\ CutInv(k) /\ EventsStay
  BY EventsAreKept DEF CoreInv
<1>2. CASE HangsUp(k)
  <2>1. CoreTypes'
    BY <1>1, <1>2 DEF CoreTypes, HangsUp, HungUp, ConnectionRow, Calls
  <2>2. connection'[k].at = "off" /\ \A q \in Connection : q # k => connection'[q] = connection[q]
    BY <1>1, <1>2, HungUpFields
  <2>3. GotInv(k)' /\ BatchInv(k)' /\ CutInv(k)'
    BY <1>1, <2>2, GotStays, BatchBegins DEF CutInv
  <2> QED BY <1>1, <2>1, <2>2, <2>3, ConnectionMoves
<1>3. ASSUME NEW at \in {"checks", "acts", "reads"}, Onwards(k, at), connection[k].at # "off",
             at \in {"acts", "reads"} => IsActive(ClientAt[k])
      PROVE  CoreInv'
  <2>1. CoreTypes'
    BY ZenonT(60), <1>1, <1>3 DEF CoreTypes, Onwards, ConnectionRow
  <2>2. connection'[k].at = at /\ connection'[k].cursor = connection[k].cursor
        /\ \A q \in Connection : q # k => connection'[q] = connection[q]
    BY <1>1, <1>3, ConnectionFields
  <2>3. GotInv(k)'
    BY <1>1, GotStays
  <2>4. BatchInv(k)'
    BY <1>1, <1>3, <2>2, BatchBegins DEF BatchInv
  <2>5. CutInv(k)'
    BY <1>1, <1>3, <2>2 DEF CutInv, IsActive
  <2> QED BY <1>1, <2>1, <2>2, <2>3, <2>4, <2>5, ConnectionMoves
<1> QED BY <1>2, <1>3

LEMMA PassingKeeps ==
    ASSUME CoreInv, NEW k \in Connection,
           Require(k) \/ CheckActive(k) \/ EndBatch(k) \/ ConnectionBreaks(k)
    PROVE  CoreInv'
<1>1. UNCHANGED <<pairing, client, events, got, overdue>>
  BY DEF Require, CheckActive, EndBatch, ConnectionBreaks
<1>2. CASE Require(k)
  BY <1>1, <1>2, ConnectionGoes DEF Require
<1>3. CASE CheckActive(k)
  BY <1>1, <1>3, ConnectionGoes DEF CheckActive, StillActive
<1>4. CASE EndBatch(k) \/ ConnectionBreaks(k)
  BY <1>1, <1>4, ConnectionGoes DEF EndBatch, ConnectionBreaks
<1> QED BY <1>2, <1>3, <1>4

\* a client is let in where it is
LEMMA AuthenticateKeeps ==
    ASSUME CoreInv, NEW k \in Connection, NEW call \in Calls, Authenticate(k, call)
    PROVE  CoreInv'
<1>1. /\ CoreTypes /\ GotInv(k) /\ CutInv(k) /\ IsActive(ClientAt[k])
      /\ UNCHANGED <<pairing, client, events, got, overdue>>
      /\ connection' = [connection EXCEPT ![k] =
             [at |-> "matched", call |-> call, cursor |-> LastOf(got[k]), batch |-> {}]]
  BY DEF Authenticate, CoreInv
<1>2. EventsStay
  BY <1>1, EventsAreKept
<1>3. CoreTypes'
  <2>1. LastOf(got[k]) \in Nat
    BY <1>1, LastIsNat DEF CoreTypes
  <2> QED BY <1>1, <2>1 DEF CoreTypes, ConnectionRow
<1>4. connection'[k].at = "matched" /\ connection'[k].cursor = LastOf(got[k])
      /\ \A q \in Connection : q # k => connection'[q] = connection[q]
  BY <1>1 DEF CoreTypes
<1>5. GotInv(k)' /\ BatchInv(k)' /\ CutInv(k)'
  BY <1>1, <1>2, <1>4, GotStays, BatchBegins DEF CutInv, IsActive
<1> QED BY <1>1, <1>2, <1>3, <1>4, <1>5, ConnectionMoves

\* a batch is all there is to see, up to its last event
LEMMA ReadEventsKeeps ==
    ASSUME CoreInv, NEW k \in Connection, ReadEvents(k)
    PROVE  CoreInv'
<1>1. PICK n, b : n = connection[k].cursor /\ b = Select(Since(n))
  OBVIOUS
<1>2. /\ CoreTypes /\ GotInv(k) /\ BatchInv(k) /\ CutInv(k) /\ connection[k].at = "reads"
      /\ UNCHANGED <<pairing, client, events, got>> /\ overdue' = Overdue(k)
      /\ connection' = [connection EXCEPT ![k].at = "sends", ![k].batch = b]
  BY <1>1 DEF ReadEvents, CoreInv
<1>3. EventsStay
  BY <1>2, EventsAreKept
<1>4. n \in Nat /\ Len(events) \in Nat /\ b \in SUBSET Nat
  BY <1>1, <1>2, <1>3 DEF CoreTypes, ConnectionRow, Select, Since, EventsStay
<1>5. /\ connection'[k].at = "sends" /\ connection'[k].cursor = n /\ connection'[k].batch = b
      /\ \A q \in Connection : q # k => connection'[q] = connection[q]
  BY <1>1, <1>2 DEF CoreTypes, ConnectionRow
<1>6. CoreTypes'
  <2>1. connection' \in [Connection -> ConnectionRow]
    BY ZenonT(60), <1>2, <1>4 DEF CoreTypes, ConnectionRow
  <2>2. overdue' \in [Connection -> Nat]
    BY <1>2 DEF CoreTypes, Overdue
  <2> QED BY <1>2, <2>1, <2>2 DEF CoreTypes
<1>7. CutInv(k)' /\ \A q \in Connection : q # k => overdue'[q] = overdue[q]
  BY <1>2, <1>5, OverdueOnce
<1>8. BatchInv(k)'
  <2>1. n = LastOf(got'[k])
    BY <1>1, <1>2 DEF BatchInv
  <2>2. b \subseteq Select(n + 1 .. Len(events))
    BY <1>1, <1>4 DEF Select, Since
  <2>3. ASSUME NEW id \in b PROVE Select(n + 1 .. id) \subseteq b
    BY <1>1, <1>4, BatchIsNat DEF Select, Since
  <2>4. b \subseteq Select(n + 1 .. Len(events))' /\ \A id \in b : Select(n + 1 .. id)' \subseteq b
    BY <1>2, <2>2, <2>3 DEF Select, Visible
  <2> QED BY <1>5, <2>1, <2>4 DEF BatchInv
<1>9. GotInv(k)'
  BY <1>2, <1>3, GotStays
<1> QED BY <1>2, <1>3, <1>5, <1>6, <1>7, <1>8, <1>9, ConnectionMoves

\* the least of the batch is the next there is to see
LEMMA SendEventKeeps ==
    ASSUME CoreInv, NEW k \in Connection, SendEvent(k)
    PROVE  CoreInv'
<1>1. PICK n, b, s : n = connection[k].cursor /\ b = connection[k].batch /\ s = got[k]
  OBVIOUS
<1>2. PICK id \in b :
          /\ \A other \in b : id <= other
          /\ connection' = [connection EXCEPT ![k].batch = b \ {id}, ![k].cursor = id]
          /\ got' = [got EXCEPT ![k] = Append(s, id)]
  BY <1>1 DEF SendEvent
<1>3. /\ CoreTypes /\ GotInv(k) /\ BatchInv(k) /\ CutInv(k) /\ connection[k].at = "sends"
      /\ UNCHANGED <<pairing, client, events, overdue>>
  BY DEF SendEvent, CoreInv
<1>4. EventsStay
  BY <1>3, EventsAreKept
<1>5. /\ n \in Nat /\ b \in SUBSET Nat /\ s \in Seq(Nat) /\ n = LastOf(s) /\ Len(events) \in Nat
      /\ b \subseteq Select(n + 1 .. Len(events))
      /\ \A other \in b : Select(n + 1 .. other) \subseteq b
  BY <1>1, <1>3, <1>4 DEF CoreTypes, ConnectionRow, BatchInv, EventsStay
<1>6. id \in n + 1 .. Len(events) /\ Visible(id) /\ id \in Nat
  BY <1>5 DEF Select
<1>7. /\ connection'[k].at = "sends" /\ connection'[k].cursor = id /\ connection'[k].batch = b \ {id}
      /\ \A q \in Connection : q # k => connection'[q] = connection[q] /\ got'[q] = got[q]
      /\ got'[k] = Append(s, id)
  BY <1>2, <1>3 DEF CoreTypes, ConnectionRow
<1>8. CoreTypes'
  <2>1. connection' \in [Connection -> ConnectionRow]
    BY ZenonT(60), <1>2, <1>3, <1>5, <1>6 DEF CoreTypes, ConnectionRow
  <2>2. Append(s, id) \in Seq(Nat)
    BY <1>5, <1>6
  <2>3. got' \in [Connection -> Seq(Nat)]
    BY <1>2, <1>3, <2>2 DEF CoreTypes
  <2> QED BY <1>3, <2>1, <2>3 DEF CoreTypes
<1>9. PICK t : t = Append(s, id)
  OBVIOUS
<1>10. /\ t \in Seq(Nat) /\ t # <<>> /\ Len(t) = Len(s) + 1 /\ t[Len(t)] = id
       /\ DOMAIN t = DOMAIN s \union {Len(t)} /\ \A i \in DOMAIN s : t[i] = s[i]
       /\ DOMAIN s = 1 .. Len(s) /\ Len(s) \in Nat
  BY <1>5, <1>6, <1>9
<1>11. LastOf(t) = id
  BY <1>10 DEF LastOf
<1>12. GotInv(k)'
  <2>1. {s[i] : i \in DOMAIN s} = Select(1 .. n) /\ \A i, j \in DOMAIN s : i < j => s[i] < s[j]
    BY <1>1, <1>3, <1>5 DEF GotInv
  <2>2. {t[i] : i \in DOMAIN t} = {s[i] : i \in DOMAIN s} \union {id}
    BY <1>10
  <2>3. Select(1 .. id) = Select(1 .. n) \union {id}
    <3>1. ASSUME NEW x \in Select(1 .. id), x \notin 1 .. n PROVE x = id
      <4>1. x \in Select(n + 1 .. id) /\ x \in 1 .. id
        BY <1>5, <1>6, <3>1 DEF Select
      <4>2. x \in b
        BY <1>5, <4>1
      <4> QED BY <1>2, <1>6, <4>1, <4>2
    <3> QED BY <1>5, <1>6, <3>1 DEF Select
  <2>4. Select(1 .. id)' = Select(1 .. id)
    BY <1>3 DEF Select, Visible
  <2>5. ASSUME NEW i \in DOMAIN t, NEW j \in DOMAIN t, i < j PROVE t[i] < t[j]
    <3>1. CASE j \in DOMAIN s
      BY <1>10, <2>1, <2>5, <3>1
    <3>2. CASE j = Len(t)
      <4>1. i \in DOMAIN s
        BY <1>10, <2>5, <3>2
      <4>2. s[i] \in 1 .. n
        BY <2>1, <4>1 DEF Select
      <4> QED BY <1>5, <1>6, <1>10, <3>2, <4>1, <4>2
    <3> QED BY <1>10, <3>1, <3>2
  <2>6. id \in 0 .. Len(events')
    BY <1>3, <1>5, <1>6
  <2>7. {t[i] : i \in DOMAIN t} = Select(1 .. id)'
    BY <2>1, <2>2, <2>3, <2>4
  <2> QED BY <1>7, <1>9, <1>11, <2>5, <2>6, <2>7 DEF GotInv
<1>13. BatchInv(k)'
  <2>1. b \ {id} \subseteq Select(id + 1 .. Len(events))
    BY <1>2, <1>5, <1>6 DEF Select
  <2>2. ASSUME NEW other \in b \ {id} PROVE Select(id + 1 .. other) \subseteq b \ {id}
    <3>1. Select(id + 1 .. other) \subseteq Select(n + 1 .. other)
      BY <1>5, <1>6 DEF Select
    <3> QED BY <1>5, <1>6, <3>1 DEF Select
  <2>3. /\ b \ {id} \subseteq Select(id + 1 .. Len(events))'
        /\ \A other \in b \ {id} : Select(id + 1 .. other)' \subseteq b \ {id}
    BY <1>3, <2>1, <2>2 DEF Select, Visible
  <2> QED BY <1>7, <1>9, <1>11, <2>3 DEF BatchInv
<1>14. CutInv(k)'
  BY <1>3, <1>7 DEF CutInv
<1> QED BY <1>3, <1>4, <1>7, <1>8, <1>12, <1>13, <1>14, ConnectionMoves

-----------------------------------------------------------------------------
LEMMA CoreStarts == CoreInit => CoreInv
<1> SUFFICES ASSUME CoreInit PROVE CoreInv
  OBVIOUS
<1>1. CoreTypes
  BY DEF CoreInit, CoreTypes, ClientRow, ConnectionRow, Calls, HungUp
<1>2. CodesInv
  BY NoCodeIsNone DEF CoreInit, CodesInv
<1>3. ASSUME NEW k \in Connection PROVE GotInv(k) /\ BatchInv(k) /\ CutInv(k)
  <2>1. got[k] = <<>> /\ events = <<>> /\ connection[k] = HungUp /\ overdue[k] = 0
    BY DEF CoreInit
  <2>2. LastOf(got[k]) = 0 /\ DOMAIN got[k] = {} /\ Len(events) = 0
    BY <2>1 DEF LastOf
  <2>3. GotInv(k)
    BY <2>2 DEF GotInv, Select
  <2> QED BY <2>1, <2>3 DEF BatchInv, CutInv, HungUp
<1> QED BY <1>1, <1>2, <1>3 DEF CoreInv

LEMMA CoreSteps == CoreInv /\ [CoreNext]_coreVars => CoreInv'
<1> SUFFICES ASSUME CoreInv, [CoreNext]_coreVars PROVE CoreInv'
  OBVIOUS
<1>1. CASE \E g \in Code : CreatePairing(g) \/ PairingExpires(g) \/ \E c \in Client : ExchangePairing(g, c)
  BY <1>1, CodeMoves, ExchangePairingKeeps
<1>2. CASE \E c \in Client : RevokeByHand(c)
  BY <1>2, RevokeByHandKeeps
<1>3. CASE \E v \in {"normal", "internal"} : AppendEvent(v) \/ \E k \in Connection : Act(k, v)
  BY <1>3, AppendEventKeeps, ActKeeps
<1>4. ASSUME NEW k \in Connection,
             \/ \E c \in Client : RevokeOther(k, c)
             \/ \E call \in Calls : Authenticate(k, call)
             \/ Require(k) \/ CheckActive(k) \/ ReadEvents(k) \/ SendEvent(k) \/ EndBatch(k) \/ ConnectionBreaks(k)
      PROVE  CoreInv'
  BY <1>4, RevokeOtherKeeps, AuthenticateKeeps, PassingKeeps, ReadEventsKeeps, SendEventKeeps
<1>5. CASE UNCHANGED coreVars
  <2>1. /\ CoreTypes /\ CodesInv /\ UNCHANGED <<pairing, client, events, connection, got, overdue>>
    BY <1>5 DEF coreVars, CoreInv
  <2>2. CoreTypes' /\ CodesInv'
    BY <2>1 DEF CoreTypes, CodesInv
  <2> QED BY <2>1, <2>2, EventsAreKept, OthersMove
<1> QED BY <1>1, <1>2, <1>3, <1>4, <1>5 DEF CoreNext

LEMMA CoreInvariant == CoreSpec => []CoreInv
  BY CoreStarts, CoreSteps, PTL DEF CoreSpec

\* core_auth.py, core_api.py, events.py: a pairing code makes one client, a stream
\* passes over nothing and repeats nothing, and revocation lets at most the step
\* under way go on, for any number of clients, connections and events
THEOREM CoreServesSoundly == CoreSpec => []CoreIsSound
<1>1. ASSUME CoreInv PROVE CoreIsSound
  <2>1. ASSUME NEW g \in Code PROVE Cardinality({c \in Client : client[c].code = g}) <= 1
    <3>1. PICK S : S = {c \in Client : client[c].code = g}
      OBVIOUS
    <3>2. S = {} \/ \E d \in S : S = {d}
      BY <1>1, <3>1 DEF CoreInv, CodesInv
    <3>3. Cardinality(S) <= 1
      BY <3>2, FS_EmptySet, FS_Singleton
    <3> QED BY <3>1, <3>3
  <2> QED BY <1>1, <2>1 DEF CoreInv, GotInv, CutInv, CoreIsSound, OneClientPerCode, StreamIsExact, RevocationCuts
<1> QED BY <1>1, CoreInvariant, PTL

-----------------------------------------------------------------------------
(* What of a transcript the model is shown.  A dropped message is never    *)
(* the newest nor a protected one, a projection that was cut begins where  *)
(* an exchange does, and messages are only dropped when all of them do not *)
(* fit.                                                                    *)

BuildRow == [at : {"idle", "prunes", "counts", "counted", "built", "refused"}, count : Nat,
             attempts : 0 .. MaxAttempts]

ContextTypes ==
    /\ history \in Seq(Message) /\ shown \subseteq DOMAIN history
    /\ budget \in [usable : Nat, excess : Nat]
    /\ building \in BuildRow

\* the newest message and what is protected are among those in S
Holds(S) == Len(history) \in S /\ \A i \in DOMAIN history : history[i].kept => i \in S

\* S begins where an exchange does, or nothing can be said of it
Begins(S) ==
    \/ S = DOMAIN history \/ S = {Len(history)}
    \/ \E i \in S : (\A j \in S : i <= j) /\ (history[i].by = "user" \/ history[i].kept)

AllFit == Estimate(DOMAIN history) <= Target /\ Exact(DOMAIN history) <= budget.usable

\* the estimate fits, with room for the remark when nothing was left out yet
EstimateFits ==
    \/ Removable(shown) = {}
    \/ Estimate(shown) <= budget.usable /\ (shown = DOMAIN history => Estimate(shown) <= Target)

ContextInv ==
    /\ ContextTypes
    /\ ~BuildAt("idle") => Holds(shown)
    /\ building.at \in {"counts", "counted", "built", "refused"} =>
         Begins(shown) /\ (AllFit => shown = DOMAIN history)
    /\ BuildAt("prunes") => shown = DOMAIN history \/ Estimate(DOMAIN history) > Target
    /\ BuildAt("counts") => EstimateFits
    /\ building.at \in {"counted", "refused"} =>
         \/ building.count <= budget.usable
         \/ Removable(shown) = {} \/ building.attempts = MaxAttempts
    /\ BuildAt("built") => building.count <= budget.usable
    /\ BuildAt("refused") => building.count > budget.usable

-----------------------------------------------------------------------------
(* Projections.  Every set of naturals has a least member.                 *)
LEMMA LeastOf ==
    ASSUME NEW S, S \subseteq Nat, S # {}
    PROVE  \E i \in S : \A j \in S : i <= j
<1>1. PICK R : R = OpToRel(<, Nat)
  OBVIOUS
<1>2. IsWellFoundedOn(R, Nat)
  BY <1>1, NatLessThanWellFounded
<1>3. \A x, y \in Nat : x < y => <<x, y>> \in R
  BY <1>1 DEF OpToRel
<1>4. PICK i \in S : \A j \in S : ~(<<j, i>> \in R)
  BY <1>2, WFMin
<1>5. ASSUME NEW j \in S PROVE i <= j
  <2>1. i \in Nat /\ j \in Nat /\ ~(j < i)
    BY <1>3, <1>4
  <2> QED BY ONLY <2>1
<1> QED BY <1>5

LEMMA NewestIs ==
    ASSUME history \in Seq(Message), NEW S, S \subseteq DOMAIN history, Len(history) \in S
    PROVE  Newest(S) = Len(history)
<1>1. \A i \in S : i \in Nat /\ i <= Len(history)
  OBVIOUS
<1>2. \A i \in S : (\A j \in S : j <= i) => i = Len(history)
  BY <1>1
<1>3. \E i \in S : \A j \in S : j <= i
  BY <1>1
<1> QED BY <1>2, <1>3 DEF Newest

\* how large a projection is estimated, for part of one
LEMMA EstimateIsNat ==
    ASSUME history \in Seq(Message), NEW S, S \subseteq DOMAIN history
    PROVE  IsFiniteSet(S) /\ IsFiniteSet(Units(S)) /\ Estimate(S) \in Nat
           /\ Cardinality(S) \in Nat /\ Cardinality(Units(S)) \in Nat
<1>1. IsFiniteSet(1 .. Len(history)) /\ IsFiniteSet(1 .. MaxSize)
  BY FS_Interval, TokensAreCounted
<1>2. IsFiniteSet(S)
  BY <1>1, FS_Subset
<1>3. IsFiniteSet(S \X (1 .. MaxSize))
  BY <1>1, <1>2, FS_Product
<1>4. IsFiniteSet(Units(S))
  BY <1>3, FS_Subset DEF Units
<1>5. Cardinality(Units(S)) \in Nat /\ Cardinality(S) \in Nat
  BY <1>2, <1>4, FS_CardinalityType
<1>6. Around(S) \in Nat
  BY DEF Around
<1> QED BY <1>2, <1>4, <1>5, <1>6 DEF Estimate

LEMMA LessIsLess ==
    ASSUME history \in Seq(Message), NEW S, S \subseteq DOMAIN history, NEW T, T \subseteq S
    PROVE  Estimate(T) <= Estimate(S) + 1 /\ (S # DOMAIN history \/ T = S => Estimate(T) <= Estimate(S))
<1>1. Cardinality(Units(T)) \in Nat /\ Cardinality(Units(S)) \in Nat /\ IsFiniteSet(Units(S))
  BY EstimateIsNat
<1>2. Cardinality(Units(T)) <= Cardinality(Units(S))
  <2>1. Units(T) \subseteq Units(S)
    BY DEF Units
  <2> QED BY <1>1, <2>1, FS_Subset
<1>3. /\ Around(T) \in {1, 2} /\ Around(S) \in {1, 2}
      /\ S # DOMAIN history => Around(T) = 2 /\ Around(S) = 2
      /\ T = S => Around(T) = Around(S)
  <2>1. T = DOMAIN history => S = DOMAIN history
    OBVIOUS
  <2>2. \A A : Around(A) \in {1, 2} /\ (A # DOMAIN history => Around(A) = 2)
    BY DEF Around
  <2> QED BY <2>1, <2>2
<1> QED BY <1>1, <1>2, <1>3 DEF Estimate

\* the target leaves room
LEMMA TargetIsLess ==
    ASSUME budget \in [usable : Nat, excess : Nat]
    PROVE  Target \in Nat /\ Target <= budget.usable
           /\ \A n \in Nat : n <= Target /\ 1 <= n => n + 1 <= budget.usable
<1>1. PICK u \in Nat : u = budget.usable
  OBVIOUS
<1>2. /\ (94 * u) \div 100 \in Nat /\ (94 * u) \div 100 <= u
      /\ u >= 1 => (94 * u) \div 100 + 1 <= u
  BY <1>1
<1>3. Target = (94 * u) \div 100
  BY <1>1 DEF Target
<1> QED BY <1>1, <1>2, <1>3

LEMMA DropKeeps ==
    ASSUME history \in Seq(Message), NEW S, S \subseteq DOMAIN history, Holds(S), NEW n
    PROVE  DropOldest(S, n) \subseteq S /\ Holds(DropOldest(S, n))
<1>1. DropOldest(S, n) \subseteq S
  BY DEF DropOldest
<1>2. Newest(S) = Len(history)
  BY NewestIs DEF Holds
<1> QED BY <1>1, <1>2 DEF Holds, DropOldest, Removable

LEMMA NormalizedKeeps ==
    ASSUME history \in Seq(Message), NEW S, S \subseteq DOMAIN history, Holds(S)
    PROVE  Normalized(S) \subseteq S /\ Holds(Normalized(S)) /\ Begins(Normalized(S))
<1>1. PICK N : N = Normalized(S)
  OBVIOUS
<1>2. Newest(S) = Len(history) /\ N \subseteq S
  BY <1>1, NewestIs DEF Holds, Normalized
<1>3. \A i \in S : i \in N <=> i = Len(history) \/ \E j \in S : j <= i /\ (history[j].by # "reply" \/ history[j].kept)
  BY <1>1, <1>2 DEF Normalized
<1>4. S \subseteq Nat /\ \A i \in S : i <= Len(history)
  OBVIOUS
<1>5. Holds(N)
  BY <1>3, <1>4 DEF Holds
<1>6. \A i \in S : history[i].by \in {"user", "reply"}
  <2>1. \A i \in S : history[i] \in Message
    OBVIOUS
  <2> QED BY <2>1 DEF Message, Author
<1>7. PICK m \in N : \A j \in N : m <= j
  BY <1>2, <1>4, <1>5, LeastOf DEF Holds
<1>8. Begins(N)
  <2>1. CASE \E j \in S : j <= m /\ (history[j].by # "reply" \/ history[j].kept)
    <3>1. PICK j \in S : j <= m /\ (history[j].by # "reply" \/ history[j].kept)
      BY <2>1
    <3>2. j \in N
      BY <1>3, <1>4, <3>1
    <3>3. j = m
      BY <1>2, <1>4, <1>7, <3>1, <3>2
    <3> QED BY <1>6, <1>7, <3>1, <3>3 DEF Begins
  <2>2. CASE m = Len(history)
    <3>1. N = {Len(history)}
      BY <1>2, <1>4, <1>7, <2>2
    <3> QED BY <3>1 DEF Begins
  <2> QED BY <1>2, <1>3, <1>7, <2>1, <2>2
<1> QED BY <1>1, <1>2, <1>5, <1>8

LEMMA NothingMoreToDrop ==
    ASSUME history \in Seq(Message), NEW S, S \subseteq DOMAIN history, Holds(S),
           NEW T, T \subseteq S, Holds(T), Removable(S) = {}
    PROVE  Removable(T) = {}
<1>1. Newest(S) = Len(history) /\ Newest(T) = Len(history)
  BY NewestIs DEF Holds
<1> QED BY <1>1 DEF Removable

-----------------------------------------------------------------------------
\* A step that leaves the transcript and the budget alone keeps what is said of
\* what is shown.
LEMMA TranscriptStays ==
    ASSUME UNCHANGED <<history, budget>>
    PROVE  /\ Target' = Target /\ AllFit' = AllFit /\ (DOMAIN history)' = DOMAIN history
           /\ Estimate(DOMAIN history)' = Estimate(DOMAIN history)
           /\ UNCHANGED shown => /\ Holds(shown)' = Holds(shown) /\ Begins(shown)' = Begins(shown)
                                 /\ Removable(shown)' = Removable(shown)
  BY DEF Target, AllFit, Estimate, Exact, Around, Units, Holds, Begins, Removable, Newest

LEMMA AskForContextKeeps ==
    ASSUME ContextInv, AskForContext
    PROVE  ContextInv'
<1>1. PICK n \in 1 .. MaxHistory : history' \in [1 .. n -> Message]
  BY DEF AskForContext
<1>2. history' \in Seq(Message) /\ DOMAIN history' = 1 .. n /\ Len(history') = n /\ n \in 1 .. n
  BY <1>1, LimitsAreCounted
<1>3. /\ shown' = DOMAIN history' /\ budget' \in [usable : Usables, excess : Excesses]
      /\ building' = [building EXCEPT !.at = "prunes"]
  BY DEF AskForContext, BuildTo
<1>4. building' \in BuildRow /\ building'.at = "prunes"
  BY <1>3 DEF ContextInv, ContextTypes, BuildRow
<1>5. budget' \in [usable : Nat, excess : Nat]
  BY <1>3, TokensAreCounted
<1>6. ContextTypes'
  BY <1>2, <1>3, <1>4, <1>5 DEF ContextTypes
<1>7. Holds(shown)'
  BY <1>2, <1>3 DEF Holds
<1> QED BY <1>3, <1>4, <1>6, <1>7 DEF ContextInv, BuildAt

LEMMA PruneByEstimateKeeps ==
    ASSUME ContextInv, PruneByEstimate
    PROVE  ContextInv'
<1>1. /\ ContextTypes /\ building.at = "prunes" /\ Holds(shown) /\ UNCHANGED <<history, budget>>
      /\ shown = DOMAIN history \/ Estimate(DOMAIN history) > Target
      /\ history \in Seq(Message) /\ shown \subseteq DOMAIN history
  BY DEF PruneByEstimate, BuildAt, ContextInv, ContextTypes
<1> DEFINE tooLong == Estimate(shown) > Target /\ Removable(shown) # {}
<1>2. /\ Estimate(shown) \in Nat /\ Estimate(DOMAIN history) \in Nat /\ Target \in Nat
      /\ Target <= budget.usable /\ budget.usable \in Nat
  BY <1>1, EstimateIsNat, TargetIsLess DEF ContextTypes
<1>3. CASE tooLong /\ shown' = DropOldest(shown, Eighth(Cardinality(shown))) /\ UNCHANGED building
  <2>1. shown' \subseteq shown /\ Holds(shown')
    BY <1>1, <1>3, DropKeeps
  <2>2. Estimate(DOMAIN history) > Target
    BY <1>1, <1>3
  <2>3. ContextTypes' /\ Holds(shown)'
    BY <1>1, <1>3, <2>1 DEF ContextTypes, Holds
  <2> QED BY <1>1, <1>3, <2>2, <2>3, TranscriptStays DEF ContextInv, BuildAt
<1>4. ASSUME ~tooLong, shown' = NormalizedIfCut(shown)
      PROVE  /\ shown' \subseteq shown /\ Holds(shown') /\ Begins(shown') /\ (AllFit => shown' = DOMAIN history)
             /\ \/ Removable(shown') = {}
                \/ Estimate(shown') <= budget.usable /\ (shown' = DOMAIN history => Estimate(shown') <= Target)
             /\ Estimate(shown') \in Nat
  <2>1. CASE shown = DOMAIN history
    <3>1. shown' = shown
      BY <1>4, <2>1 DEF NormalizedIfCut
    <3> QED BY <1>1, <1>2, <1>4, <2>1, <3>1 DEF Begins
  <2>2. CASE shown # DOMAIN history
    <3>1. shown' = Normalized(shown)
      BY <1>4, <2>2 DEF NormalizedIfCut
    <3>2. shown' \subseteq shown /\ Holds(shown') /\ Begins(shown')
      BY <1>1, <3>1, NormalizedKeeps
    <3>3. ~AllFit
      BY <1>1, <1>2, <2>2 DEF AllFit
    <3>4. Removable(shown) = {} => Removable(shown') = {}
      BY <1>1, <3>2, NothingMoreToDrop
    <3>5. Estimate(shown') \in Nat /\ Estimate(shown') <= Estimate(shown)
      BY <1>1, <2>2, <3>2, EstimateIsNat, LessIsLess
    <3> QED BY <1>1, <1>2, <1>4, <2>2, <3>2, <3>3, <3>4, <3>5
  <2> QED BY <2>1, <2>2
<1>5. ASSUME ~tooLong, shown' = NormalizedIfCut(shown), NEW n \in Nat,
             \/ building' = [building EXCEPT !.at = "counts"]
             \/ building' = [building EXCEPT !.at = "counted", !.count = n] /\ n = Estimate(shown')
      PROVE  ContextInv'
  <2>1. building' \in BuildRow /\ building'.at \in {"counts", "counted"}
        /\ (building'.at = "counted" => building'.count = Estimate(shown'))
    BY <1>1, <1>5 DEF ContextTypes, BuildRow
  <2>2. ContextTypes' /\ Holds(shown)' /\ Begins(shown)' /\ (AllFit' => shown' = DOMAIN history')
    <3>1. Holds(shown)' /\ Begins(shown)'
      BY <1>1, <1>4, <1>5 DEF Holds, Begins
    <3> QED BY <1>1, <1>4, <1>5, <2>1, <3>1, TranscriptStays DEF ContextTypes
  <2>3. \/ Removable(shown)' = {}
        \/ Estimate(shown') <= budget.usable /\ (shown' = DOMAIN history => Estimate(shown') <= Target)
    BY <1>1, <1>4, <1>5 DEF Removable, Newest
  <2>4. EstimateFits'
    <3>1. Estimate(shown)' = Estimate(shown')
      BY <1>1 DEF Estimate, Around, Units
    <3> QED BY <1>1, <2>3, <3>1, TranscriptStays DEF EstimateFits
  <2>5. building'.at = "counted" => building'.count <= budget'.usable \/ Removable(shown)' = {}
    BY <1>1, <2>1, <2>3
  <2> QED BY <2>1, <2>2, <2>4, <2>5 DEF ContextInv, BuildAt
<1>6. CASE ~tooLong /\ shown' = NormalizedIfCut(shown)
           /\ (BuildTo("counts") \/ building' = [building EXCEPT !.at = "counted", !.count = Estimate(shown')])
  BY <1>4, <1>5, <1>6 DEF BuildTo
<1> QED BY <1>3, <1>6 DEF PruneByEstimate

LEMMA CountExactlyKeeps ==
    ASSUME ContextInv, CountExactly
    PROVE  ContextInv'
<1>1. /\ ContextTypes /\ building.at = "counts" /\ Holds(shown) /\ UNCHANGED <<history, budget>>
      /\ Begins(shown) /\ (AllFit => shown = DOMAIN history) /\ EstimateFits
      /\ history \in Seq(Message) /\ shown \subseteq DOMAIN history /\ building \in BuildRow
  BY DEF CountExactly, BuildAt, ContextInv, ContextTypes
<1> DEFINE again == Exact(shown) > budget.usable /\ Removable(shown) # {} /\ building.attempts < MaxAttempts
<1>2. /\ Estimate(shown) \in Nat /\ Target \in Nat /\ budget.usable \in Nat
      /\ Target <= budget.usable /\ (\A n \in Nat : n <= Target /\ 1 <= n => n + 1 <= budget.usable)
      /\ Exact(shown) \in Nat /\ 1 <= Estimate(shown)
  <2>1. Estimate(shown) \in Nat /\ Cardinality(shown) \in Nat /\ Cardinality(Units(shown)) \in Nat
    BY <1>1, EstimateIsNat
  <2>2. budget.usable \in Nat /\ budget.excess \in Nat
    BY <1>1 DEF ContextTypes
  <2>3. Exact(shown) \in Nat
    BY <2>1, <2>2 DEF Exact
  <2>4. 1 <= Estimate(shown)
    BY <2>1 DEF Estimate, Around
  <2> QED BY <1>1, <2>1, <2>2, <2>3, <2>4, TargetIsLess DEF ContextTypes
<1>3. ASSUME again, NEW n, shown' = Normalized(DropOldest(shown, n)),
             building' = [building EXCEPT !.attempts = building.attempts + 1]
      PROVE  ContextInv'
  <2>1. DropOldest(shown, n) \subseteq shown /\ Holds(DropOldest(shown, n))
    BY <1>1, DropKeeps
  <2>2. shown' \subseteq shown /\ Holds(shown') /\ Begins(shown')
    BY <1>1, <1>3, <2>1, NormalizedKeeps
  <2>3. ~AllFit
    BY <1>1, <1>2, <1>3 DEF AllFit
  <2>4. building' \in BuildRow /\ building'.at = "counts"
    BY <1>1, <1>3, LimitsAreCounted DEF BuildRow
  <2>5. Estimate(shown') <= budget.usable /\ (shown' = DOMAIN history => Estimate(shown') <= Target)
    <3>1. Estimate(shown) <= budget.usable /\ (shown = DOMAIN history => Estimate(shown) <= Target)
      BY <1>1, <1>3 DEF EstimateFits
    <3>2. /\ Estimate(shown') \in Nat /\ Estimate(shown') <= Estimate(shown) + 1
          /\ shown # DOMAIN history \/ shown' = shown => Estimate(shown') <= Estimate(shown)
      BY <1>1, <2>2, EstimateIsNat, LessIsLess
    <3>3. shown' = DOMAIN history => shown = DOMAIN history /\ shown' = shown
      BY <1>1, <2>2
    <3> QED BY <1>2, <3>1, <3>2, <3>3
  <2>6. ContextTypes' /\ Holds(shown)' /\ Begins(shown)' /\ ~AllFit'
    <3>1. Holds(shown)' /\ Begins(shown)'
      BY <1>1, <2>2 DEF Holds, Begins
    <3> QED BY <1>1, <2>2, <2>3, <2>4, <3>1, TranscriptStays DEF ContextTypes
  <2>7. EstimateFits'
    <3>1. Estimate(shown)' = Estimate(shown')
      BY <1>1 DEF Estimate, Around, Units
    <3> QED BY <1>1, <2>5, <3>1, TranscriptStays DEF EstimateFits
  <2> QED BY <2>4, <2>6, <2>7 DEF ContextInv, BuildAt
<1>4. ASSUME ~again, UNCHANGED shown, NEW n \in Nat, n = Exact(shown),
             building' = [building EXCEPT !.at = "counted", !.count = n]
      PROVE  ContextInv'
  <2>1. building' \in BuildRow /\ building'.at = "counted" /\ building'.count = n
        /\ building'.attempts = building.attempts
    BY <1>1, <1>4 DEF BuildRow
  <2>2. n <= budget.usable \/ Removable(shown) = {} \/ building.attempts = MaxAttempts
    BY <1>1, <1>2, <1>4, LimitsAreCounted DEF BuildRow
  <2>3. ContextTypes'
    BY <1>1, <1>4, <2>1 DEF ContextTypes
  <2> QED BY <1>1, <1>4, <2>1, <2>2, <2>3, TranscriptStays DEF ContextInv, BuildAt
<1> QED BY <1>2, <1>3, <1>4 DEF CountExactly

LEMMA TokenizerRaisesKeeps ==
    ASSUME ContextInv, TokenizerRaises
    PROVE  ContextInv'
<1>1. /\ ContextTypes /\ building.at = "counts" /\ Holds(shown) /\ UNCHANGED <<history, shown, budget>>
      /\ Begins(shown) /\ (AllFit => shown = DOMAIN history) /\ EstimateFits /\ building \in BuildRow
      /\ building' = [building EXCEPT !.at = "counted", !.count = Estimate(shown)]
  BY DEF TokenizerRaises, BuildAt, ContextInv, ContextTypes
<1>2. PICK n \in Nat : n = Estimate(shown)
  BY <1>1, EstimateIsNat DEF ContextTypes
<1>3. building' \in BuildRow /\ building'.at = "counted" /\ building'.count = n
  BY <1>1, <1>2 DEF BuildRow
<1>4. n <= budget.usable \/ Removable(shown) = {}
  BY <1>1, <1>2 DEF EstimateFits
<1>5. ContextTypes'
  BY <1>1, <1>3 DEF ContextTypes
<1> QED BY <1>1, <1>3, <1>4, <1>5, TranscriptStays DEF ContextInv, BuildAt

LEMMA ProjectKeeps ==
    ASSUME ContextInv, Project
    PROVE  ContextInv'
<1>1. /\ ContextTypes /\ building.at = "counted" /\ UNCHANGED <<history, shown, budget>> /\ building \in BuildRow
      /\ building' = [building EXCEPT !.at = IF building.count > budget.usable THEN "refused" ELSE "built"]
  BY DEF Project, BuildAt, BuildTo, ContextInv, ContextTypes
<1>2. /\ building' \in BuildRow /\ building'.count = building.count /\ building'.attempts = building.attempts
      /\ building'.at = IF building.count > budget.usable THEN "refused" ELSE "built"
  BY <1>1 DEF BuildRow
<1>3. ContextTypes' /\ building.count \in Nat /\ budget.usable \in Nat
  BY <1>1, <1>2 DEF ContextTypes, BuildRow
<1> QED BY <1>1, <1>2, <1>3, TranscriptStays DEF ContextInv, BuildAt

LEMMA ContextSteps == ContextInv /\ [ContextNext]_contextVars => ContextInv'
<1> SUFFICES ASSUME ContextInv, [ContextNext]_contextVars PROVE ContextInv'
  OBVIOUS
<1>1. CASE UNCHANGED contextVars
  <2>1. UNCHANGED <<history, shown, budget, building>>
    BY <1>1 DEF contextVars
  <2>2. EstimateFits' = EstimateFits
    BY <2>1 DEF EstimateFits, Removable, Newest, Estimate, Around, Units, Target
  <2> QED BY <2>1, <2>2, TranscriptStays DEF ContextInv, ContextTypes, BuildAt
<1> QED BY <1>1, AskForContextKeeps, PruneByEstimateKeeps, CountExactlyKeeps, TokenizerRaisesKeeps,
           ProjectKeeps DEF ContextNext

LEMMA ContextStarts == ContextInit => ContextInv
<1> SUFFICES ASSUME ContextInit PROVE ContextInv
  OBVIOUS
<1>1. /\ history = <<>> /\ shown = {} /\ budget = [usable |-> 0, excess |-> 0]
      /\ building = [at |-> "idle", count |-> 0, attempts |-> 0]
  BY DEF ContextInit
<1>2. ContextTypes
  BY <1>1, LimitsAreCounted DEF ContextTypes, BuildRow
<1> QED BY <1>1, <1>2 DEF ContextInv, BuildAt

LEMMA ContextInvariant == ContextSpec => []ContextInv
  BY ContextStarts, ContextSteps, PTL DEF ContextSpec

\* ContextManager.build: what the model is shown fits, has the newest message and
\* what is protected, begins with an exchange and leaves nothing out in vain, and
\* is refused only when nothing can be dropped or the tokenizer was asked often
\* enough, for every length and size of the messages and every budget
THEOREM ProjectionsAreSound == ContextSpec => []ContextIsSound
<1>1. ASSUME ContextInv PROVE ContextIsSound
  <2>1. ASSUME BuildAt("built")
        PROVE  LET begins == CHOOSE i \in shown : \A j \in shown : i <= j
               IN  shown = DOMAIN history \/ shown = {Len(history)} \/ history[begins].by = "user" \/ history[begins].kept
    <3>1. Begins(shown) /\ \A i \in shown : i \in Nat
      BY <1>1, <2>1 DEF ContextInv, ContextTypes, BuildAt
    <3>2. CASE \E i \in shown : (\A j \in shown : i <= j) /\ (history[i].by = "user" \/ history[i].kept)
      <4>1. PICK i \in shown : (\A j \in shown : i <= j) /\ (history[i].by = "user" \/ history[i].kept)
        BY <3>2
      <4>2. \A x \in shown : (\A j \in shown : x <= j) => x = i
        BY <3>1, <4>1
      <4>3. (CHOOSE x \in shown : \A j \in shown : x <= j) = i
        BY <4>1, <4>2
      <4> QED BY <4>1, <4>3
    <3> QED BY <3>1, <3>2 DEF Begins
  <2>2. BuildAt("built") =>
          /\ building.count <= budget.usable /\ Holds(shown) /\ (AllFit => shown = DOMAIN history)
    BY <1>1 DEF ContextInv, BuildAt
  <2>3. BuildAt("refused") => Removable(shown) = {} \/ building.attempts = MaxAttempts
    <3>1. building.count \in Nat /\ budget.usable \in Nat
      BY <1>1 DEF ContextInv, ContextTypes, BuildRow
    <3> QED BY <1>1, <3>1 DEF ContextInv, BuildAt
  <2> QED BY <2>1, <2>2, <2>3 DEF ContextIsSound, Holds, AllFit
<1> QED BY <1>1, ContextInvariant, PTL
=============================================================================
