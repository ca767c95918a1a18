# T.A.R.S. Task Agent Runtime Supervisor: a TLA+ development

This directory holds TLA+ models of the program under `src/tars/`, TLC
configurations that check them on small instances, and theorems about them that
TLAPS checks. `PROJECT.json` lists the components, the runs, the source lines
that each definition stands for, the hazards of the code and the theorems.

Every name of a file or function below is one of `src/tars/` unless it says
otherwise.

## 1. Inventory

T.A.R.S. runs tasks with local models. Its actors are threads and processes that
share one SQLite file: a CLI or chat process, the Core service with its
scheduler thread, processes that run a task, and their callback and heartbeat
threads. They share no memory across processes. Three mechanisms hold it
together: `BEGIN IMMEDIATE` transactions (`state_store.transaction`), leases with
evidence of liveness (`ownership.py`), and unique keys.

| component | state it keeps | operations | what is hard | what makes it correct |
|---|---|---|---|---|
| leases (`ownership`) | `resource_leases`: owner token, pid, start time, expiry | claim, renew, release, held_by, execution scope | owner dead, alive or unknowable; late heartbeats; a lease lost in mid-work | one acting owner per resource; takeover only on proof of death |
| control queue (`control_queue`) | `task_controls`, `control_cancellations`, four kinds of lease | enqueue, begin, resolve, reconcile, abandon and recover a cancellation; claim, finish and requeue a control | crash between any two steps; several open cancellations; recovery against late owners | unknown outcomes fail closed; the fence covers open attempts; outcomes are final |
| agent loop (`agent_loop`) | position of `run()`, the active tool binding, cancellation threads, outcomes waiting to be recorded | run, submit_control, close, boundaries | callbacks racing tool ends; waits that give up; faults in handlers | a callback only meets its own tool; no action of a superseded plan; one executor |
| task record (`tasks`) | `tasks.state`, phase, event log | create, update, recover | late writers, monotone end states | terminal states are final |
| runner (`runner`) | `task_runs` | run_task, run_task_epoch, request_control | check then act on the executor | one run at a time; requests are not lost |
| scheduler (`scheduler`) | `schedules`, `schedule_runs`, `schedule_deliveries` | create, edit, enable, remove; claim, execute, recover, deliver; wake loop | edits during evaluation, ceilings, crashes, lost wakeups | no occurrence runs twice; ceilings hold; due work is claimed |
| action journal (`action_journal`, `tool_core`) | `action_journal`, leases of actions and workspaces | begin, finish, recover | crash between effect and record; one of several actions refused | every effect has a running row; records are true; nothing stays behind |
| approvals and rules (`approvals`, `policy`) | `approvals`, `policy_rules` | request, decide, authorize, consume, expire; add a rule | check then consume | a one-call approval is used once |
| delegation (`delegation`, `orchestration`) | `delegations`, `delegation_contracts`, the child's task, leases of the delegation, the child and a shared workspace | create, start, run, time out, cancel, accept, complete by hand | the end of a run races its cancellation, its timeout, the recovery of a lost run, the user | three rows end together, once; a child is executed once |
| checkpoints and epochs (`checkpoints`, `context_epochs`) | snapshots, epoch of the task | create, with or without a new epoch, roll over, hand off | a run or a hand-off that dies between two transactions | each epoch that is over is closed by one checkpoint, its last |
| backup, workspace recovery, file transactions | journal of a restore, workspace checkpoints, lock files | back up, restore, replay; preview, roll back | crash between two moves; concurrent edits | all or nothing; no lost edit |
| runtime configuration (`runtime_config`, `roles`, `registry`) | TOML files under a lock, generation numbers | edit, apply, roll back | apply racing another writer | no newer generation is undone |
| processes (`process_supervision`, `terminal_tools`, `execution_backends`) | supervised processes, their leases and actions, the list of the manager | start, poll, wait, signal, close, watch | several finders of one end; a start during close; writes and releases that raise; children that outlive their parent | what a caller is told about a process holds |
| runtime and calibration | `gpu-slot` lease with process fences; stage files, calibration records | scope, route, infer, unload; measure, cache, promote | owner dead with its child alive, late heartbeats; stages pieced together from several runs; an alias that changes while a run waits | one user of the slot; a record is one chain of measurements |
| models (`model_lifecycle`, `registry`) | model registry, artifacts by digest, partial downloads, bindings | import, pull, verify, bind, remove | artifacts shared by aliases, removal against import | no role is bound to nothing, no artifact in use is deleted |
| memory (`memory`, `memory_maintenance`) | documents, index, history, candidates, review and maintenance leases | remember, forget, rebuild, stage, decide, maintain | file and index in two steps; two reviewers; a review that breaks off | nothing remembered is lost; a candidate is decided once |
| Core service (`core_api`, `core_auth`, `events`) | pairing codes, clients, event log, cursors of streams | pair, authenticate, revoke, request, stream | revocation in the middle; streams that break and resume | a code pairs once; a revoked client is cut off; a stream has no gap |
| context assembly (`context`) | the messages of a projection | build | two measures of one budget | a projection fits and keeps what is protected |
| MCP client (`mcp`) | one pipe to a server, its lock, the state of its close | call, close | threads on one pipe, close in the middle of a request, late answers | answers meet requests; closed is quiet |
| tools, policy, state store, user interfaces | mostly none shared | single calls | external protocols | sequential functions |

The interactions: the CLI and the chat enqueue controls (`submit_task_control`,
`request_control`) or call `submit_control` on a loop of their own process. The
runner and the scheduler enter `task_execution_scope`, which calls
`recover_cancellations` and claims the lease `task-execution`, then run an
`AgentLoop`. The loop reads the queue at its boundaries, writes the task through
`update_task` (whose guard asks for the lease), and starts one thread for each
cancellation callback. The queue writes the task's state and fence in the
transaction that settles a cancellation.

## 2. The modules

| module | models | reads as |
|---|---|---|
| `Leases` | `ownership.py`: liveness evidence and the rules of a lease row | operators without state |
| `ControlQueue` | `control_queue.py`, the guarded writes of `tasks.py`, the leases of one task | the abstract specification: any live owner calls any operation at any time |
| `AgentLoop` | `agent_loop.py`, the execution scope of `ownership.py`, `request_control` of `runner.py` | the detailed specification: which operation is called when |
| `Scheduler` | `scheduler.py` but its deliveries, over the rules of `Leases` | users, the service thread and run-due passes on the schedules and their runs |
| `Approvals` | `approvals.py`, the rules of `policy.py` | what users and requesters do with grants and rules |
| `ToolActions` | `action_journal.py`, `ToolRuntime` of `tool_core.py`, `GuardedExecutor` of `execution_backends.py`, `claim_workspace` of `ownership.py`; composed with `Approvals` over `Leases` | a tool call from its policy check to the record of its end |
| `Delegation` | `delegation.py`, `complete_delegation` of `orchestration.py`, over `Leases` | calls of start and cancel with their pool threads, and users, on the three rows of a delegation |
| `TaskRuns` | `runner.py`, `checkpoints.py`, `context_epochs.py`, the hand-off of `orchestration.py` | a run from its creation to its promotion, one transaction at a time |
| `Restore`, `AtomicRestore` | `backup.py`; what it promises | a restore, write by write, and the abstract specification it implements |
| `WorkspaceRecovery` | `workspace_recovery.py` | checkpoints and rollback against a user who edits, stages and commits |
| `RuntimeConfig` | `roles.py`, `runtime_config.py`, `file_transactions.py` | writers of the Role Registry, the switch and its undoing, the service |
| `ModelSlot` | the slot of `ownership.py`, `runtime.py`, `runtime_routing.py`, `runtime_backends.py`, the processes of `calibration_engine.py` | scopes, inference, supervised children |
| `ModelLifecycle` | `model_lifecycle.py`, `registry.py`, `bind_model` | import, pull, verify, bind and remove on shared artifacts |
| `Calibration` | `calibration_engine.py`, `calibration.py` | stages, their files, promotion |
| `Terminal` | `terminal_tools.py`, `process_supervision.py` | the manager of background processes and its callers |
| `Memory` | `memory.py`, `memory_maintenance.py`, the review of `delegation.py` | documents, index, candidates, leases |
| `ContextWindow` | `build` of `context.py` | which messages are shown |
| `CoreService` | `core_auth.py`, `core_api.py`, `events.py` | pairing, requests, event streams |
| `McpClient` | the stdio client of `mcp.py` | threads on one pipe, a server, a close |
| `MCAgentLoop`, `MCScheduler`, `MCSchedulerWatch`, `MCToolActions`, `MCDelegation`, `MCTaskRuns`, `MCComponents` | the instances for TLC | |
| `AgentLoopProofs` | theorems about `ControlQueue` and `AgentLoop` | |
| `ToolActionsProofs` | theorems about `ToolActions` with `Approvals`: approvals, workspaces, journal, leftovers | |
| `SchedulerProofs` | theorems about `Scheduler` | |
| `DelegationProofs` | theorems about `Delegation` and `Memory` | |
| `TaskRunsProofs` | theorems about `TaskRuns`, `CoreService` and `ContextWindow` | |
| `RestoreProofs` | theorems about `Restore` with `AtomicRestore`, and `WorkspaceRecovery` | |
| `RuntimeProofs` | theorems about `ModelSlot`, `RuntimeConfig`, `ModelLifecycle` and `Calibration` | |
| `ProcessProofs` | theorems about `McpClient` and `Terminal` | |

`ControlQueue` is parameterised by the owners, their processes, the processes
whose start time cannot be read (`Opaque`), the number of controls and their
kinds. One task is modelled: no operation reads the rows of two tasks.

- `proc` is what `/proc` shows of a process. `OwnerGone` needs positive evidence,
  `OwnerAlive` too: an opaque process is neither.
- `task` is `tasks.state`, with `recovery` for a failed task in the phase
  `cancellation-recovery-required`, which the code treats as a state of its own
  wherever it looks at either.
- `exec`, `fence`, `can`, `own` are the owners of the leases `task-execution`,
  `task-execution-fence`, `control-cancellation` and `task-control`.
- `state` and `cancel` are the columns of the same meaning. A resolved
  cancellation is split into `unattempted` and `reported` because the code
  reports `requested: false` for one and what the callback said for the other.
- Expiry is not a clock: a heartbeat may be late at any moment, so wherever the
  code compares `expires_at`, the model may find the row expired. Expiry never
  makes a lease claimable in this code; it makes guarded writes fail
  (`WriteRaises`, `ReconcileRaises`) and recovery treat a live attempt as
  ambiguous (`Lapsable`).

`AgentLoop` adds one program counter per loop (`pc`), the call of
`_apply_controls` it is in (`site`), the control it applies (`cur`), the intent a
submitting thread is between (`sub`, which also says that `_active_lock` is held),
the controls of the current operation (`op`), and one thread per cancellation
(`cb`, `by`). Each database transaction is one step. The model's answer, the
tool's result and the limits of the loop are choices. `called` is the only
history variable.

`Scheduler` is parameterised by the owners (each one `Scheduler` object, the
service threads among them in `Service`), the schedules and their kinds, the two
ceilings and the catch-up limit. A pass is a thread with a program counter: it
lists the schedules (`snap`, at the instant `at`), visits those that were due in
order of their next run (`todo`, `item`, `slots`), and re-reads a row only in the
transaction that claims a run, as `claim_due` does; then it executes what is
claimed, whoever claimed it (`batch`, `doing`). `row` is the row of a schedule,
`run` and `lease` the journal keyed by schedule and planned instant, which is
the unique index of the table. A predicate (`world`) is read in one step and
recorded in another. `unsent` and `datagram` are the two stages of a
notification: a change is committed, then the socket of the service has a
datagram. `ran` and `armed` are history variables.

`Approvals` has the rows of the table in the order of their requests (`grant`),
those whose `expires_at` has passed (`lapsed`; a row becomes `expired` only when
somebody loads or lists), and the policy rules, the newest of which that covers
an intent decides. An intent is the digest of a request, its authority the same
without the arguments, which is all that a grant for a `target` compares. The
expiry of a grant may fall between any two steps.

`ToolActions` gives each owner (the thread that makes a call) one record of local
variables (`thread`): the requests still to begin with the decisions that were
read for them (`queue`), the approval that `authorize` found and `_create` has
still to consume (`auth`), the actions begun (`mine`), and the workspaces still to
claim and claimed, without those that it has borrowed. `journal` and `holder` are
the rows of the journal and the leases `action`; `ws` is the lease `workspace` of a
path. The two callers differ in the order in which they claim, begin, finish and
release (`Onward`, `Back`). A thread of a delegation (`Delegated`) holds a
workspace around its calls (`scope`), so that its calls borrow it. The history
variables are `touched`, the actions whose effect may have begun, and `left`, the
owners of which a `finish_action` raised.

`Delegation` gives each owner one call: of start, with the thread of the pool that
runs the child, or of cancel. The three rows (`contract`, `record`, `child`) are
written in one transaction when a run ends, if each is still open; users write
`record` and `child` without the contract. `invoked` counts invocations of the
executor, which must stay at one: a run that was lost is ended as ambiguous and not
started again. `TaskRuns` has the same shape: a thread of a run (`runner`) goes from
claim to promotion with a transaction at each step, a user calls
`request_control` in two steps, a read and a write (`asking`), and snapshots carry
the role and epoch of their row beside those of their content. A checkpoint closes its
epoch (`closes`) or leaves it open: the first are made by a run, a hand-off, a rollover
or a user (`CheckpointEpoch`, `HandOff`, `Rollover`, `CheckpointTask`), the others by
`checkpoint_task`, an agent loop or the end of `update_task`, which is a transaction of its own and
therefore a step of its own (`CheckpointTask`).

`Restore` has a position (`place`) for every durable write and a purpose to come back
to; the caller may raise or die at each. The content of an item is the number of
the restore that brought it, so that the refinement mapping `VersionOfState` can say
which version the journal vouches for. `WorkspaceRecovery` numbers contents: every
edit writes a new one, and what a rollback may lose can be counted. In
`RuntimeConfig` the nested locks are one with a depth, because they are always taken
in one order; a writer is between two atomic replacements of a file at every step. In
`ModelSlot` a child is spawned behind a gate, named in the lease, and only then let
go: these are three steps; a scope has the backend of its route (`backend`), which loads and
unloads when told to or, like the reference backend, loads on the first request and
leaves its model to a time to live. `ModelLifecycle` copies artifacts outside of the transaction
and registers them inside. `Calibration` keeps with each reading what it was measured
on (`on`), which is what promotion has to respect, and with the run the content its alias had
when it looked for the record to replace (`looked`); the content it is for is any, because the alias
was read before the wait for the slot. `Terminal` keeps with each caller
the answer to its last call, so that its truth can be stated; a lease whose release
raised is `left`: nobody renews it, and it is good until it expires. In `CoreService` the
client at the other end keeps what it received (`got`) and resumes from the last
event; in `McpClient` the line in the pipe says which request it answers, which the
code never looks at.

Definitions marked `mutant` in a comment are deliberate bugs. No specification
uses them; each replaces the definition after it to show that a property depends
on it (`PROJECT.json`, `mutants`).

## 3. The runs

All were sized so that the interesting cases happen and TLC ends within minutes.

| run | instance | shows |
|---|---|---|
| `loop` | 2 loops in 2 processes, one is closed, possibly again; 2 controls of 4 kinds, no faults | `CallbackHitsOnlyItsTool`, `FenceJustified`, `NoOldPlanAction`, `SubmissionOrder` |
| `faults` | 2 loops, one of them in a process whose start time cannot be read, both may be closed; 1 control, faults | `TruthfulOutcome`, `SingleExecutor`; the loops implement the queue (`ImplementsQueue`) |
| `live` | 2 loops, 2 controls of two priorities, fair, runs are retried | `ControlsDrain`, `FenceLifted` |
| `recovery` | 2 loops, 1 control, no fairness | a violation, see section 6 |
| `scheduler` | the service and a run-due pass in 2 processes, 1 recurring schedule with the policies skip and catch-up for missed occurrences (run-once is that of `watch` and `stuck`), ceilings 2 and 1, edits, crashes, lapsing leases | `Ceilings`, `RunIsExclusive`, `NoOccurrenceLost`, `EditSurvives` |
| `watch` | a fair service, a one-shot schedule that was made and edited before it started, and a watch that users make, edit once, turn off and on and remove while it runs; the predicate turns at any time | `NoLostWake`, `EdgeFiresOnce`, `DueIsServed` |
| `stuck` | 1 scheduler, 1 schedule | a violation, see section 6 |
| `actions` | 2 owners in 2 processes, one of a delegation; 2 calls out of a tool call that writes a file and another one, an execution in the directory of the first, and one without destinations; 3 intents of which 2 differ in their arguments only; 1 approval, rules about one intent, a finish that may raise for one of the owners | `OneCallOnce`, `Authorized`, `JournalIsTrue`, `WorkspaceExclusive`, `NothingLeftBehind` |
| `no_destination` | 1 call of an executor for which network is requested | a violation, see section 6 |
| `delegation` | part *delegation*: 3 calls in 2 processes on 2 children that share a workspace, one of which is an agent loop and one of which users write to; part *memory*: 2 processes, 1 candidate and 1 entry of the user with the same text, 1 fault | `ChildIsSound`, `EndsStay`, `MemoryKeepsItsWord` |
| `components` | twelve parts, see below | `FailClosed`, `FenceCoversOpen`, `OneProcessor`, `ExecutionFenced`, `EndsAreFinal`, `RestoreIsAtomic`, `RollbackLosesNothing`, `ConfigIsSound`, `OneUserOfTheSlot`, `NothingDangles`, `PromotionIsSound`, `AnswersAreTrue`, `RunsAreSound`, `ContextIsSound`, `CoreIsSound`, `McpIsSound` |
| `lost_cancel` | 2 runs, 1 runner | a violation, see section 6 |

`MCComponents` and `MCDelegation` check components that share no table with one
another in one run: the variable `part`, chosen at the beginning, says which
component the behaviour is of; the others stay as they are in their initial
states. Their states are the disjoint union of those of the parts, which `PartView`
makes explicit to TLC: the variables of the other parts are left out of the
fingerprint, and they are constant. A property of one part is thus checked in all
states of that part and, vacuously, in one state of the others. The parts of
`MCComponents` are:

| part | instance |
|---|---|
| `queue` | 2 owners in 2 processes, 2 controls of the kinds interrupt and cancel, every order of calls |
| `restore` | 2 items of which 1 is present at first, 2 restores, any number of interruptions |
| `recovery` | a tracked and an untracked file, 2 edits, 1 commit, 1 checkpoint that is asked for, 3 in all |
| `config` | 2 writers, 2 roles, 2 bindings of which one belongs to a foreign backend, 2 generations |
| `slot` | 3 scopes, two of them in one process, backends of both kinds, 1 child, nesting of depth 2 |
| `lifecycle` | 2 aliases of one content, one imported and one both pulled and shipped, 2 processes of which one pulls, 1 role |
| `calibration` | 2 contents of an alias, any number of runs that wait, 1 machine, 2 depths of one and two stages, 2 readings of which one is idle |
| `terminal` | 1 process, 2 threads that use the manager, of which one starts and one closes; writes and releases may raise |
| `runs` | 2 runs, 1 runner, 2 roles, 3 epochs, 2 messages, 2 calls of the user, which may be checkpoints that close the epoch or do not |
| `context` | up to 3 messages of 1 to 3 units, budgets of 4 and 8, an exact count that agrees with the estimate or exceeds it by one, 2 attempts |
| `core` | 2 codes, 2 clients, 1 connection, 4 events, batches of 2 |
| `mcp` | 2 threads, 3 lines of requests, 1 notification, one close that may be repeated |

Why the bounds are enough. Two controls are the least at which one cancellation
settles while another is open, at which a control overtakes another, and at
which the fence belongs to one of several intents; the operations look at other
controls only as "some other is open" or "some other comes before". Two owners in
two processes give the executor, its successor, and recovery by either; in
`faults` one of them is an owner of whom nothing is known. Deadlock is not checked: controls are bounded,
processes may all have crashed, and a terminal task is meant to stop.

For the scheduler, two owners are a claimant and whoever competes with it or
recovers after it; a schedule is listed at one instant and claimed at a later one
within two ticks of the clock; one edit (`MaxRevision` 2) is what a listing can
miss. `NoLostWake` is checked without faults: after a lost datagram the service
sleeps to the end of its wait (`MaxWait`, an hour in the code). `EditSurvives` is checked for
schedules that are no watches: a watch does overwrite an edit (section 6). `EdgeFiresOnce`
holds for one service and not for a second scheduler beside it (section 6). In `watch` an edit
is tried on the schedule that it can go wrong for; the other one competes for the service, and the users
can only remove it.

For tool calls, two calls are what can meet at one approval, at one workspace, or as
an action and its recovery; a call with two requests is the least of which one
can be begun and the other refused; one rule is the least that can change a
decision after it was read, one approval that two calls find at once. Deadlock is
not checked: calls are bounded.

For the parts: two restores are one and its successor, which finds what the
interrupted one left; one of its items is present and one is new, which are the two
kinds of exchange. One alias more than contents is what sharing needs. Two stages are
the least of which one can be stale under the other. Three scopes give the owner, a
thread beside it and a competitor in another process. Two callers are the finder
of an end and who waits for it, or a starter and a closer. Three messages are one
that may be protected among others that go, and budgets of 4 and 8 are below and above what three
can need (four messages were checked apart). A run executes only with the one lease, so that a
second runner adds only waiting (two were checked apart). What these bounds leave out, the theorems
of section 4 cover: they hold for every value of the constants. Four events are two batches, so that a stream
can break in the first and resume into the second; with three, a cursor that is ahead by one would pass
unseen. Three requests are the handshake, the list and one call, or those of two
threads. Deadlock is not checked in these runs: everything they do is bounded.

`Faults = FALSE` takes away raising statements and lapsing leases, not crashes.
The properties of `loop` and `live` are about the order of steps and are stated
for a database that answers; what survives faults as well is checked in
`faults` or proved: the theorems about `CallbackHitsOnlyItsTool`, `FenceJustified`
and `NoOldPlanAction` do not ask whether `Faults` holds. A live owner whose lease
lapsed is then recovered as ambiguous while its callback still runs; this fails
the task, so that no other tool begins, but cannot stop the tool that has begun.
`SubmissionOrder` and `NoLostWake` are false with faults (section 6, item 2, and
the hour's sleep above), and their theorems say so.

Fairness. `FairSpec` assumes weak fairness of the thread of `run()` and of the
submitting thread, each as one: a started thread is scheduled, a model call and a
tool call return. Nothing is assumed of callbacks, users, close() or processes.
`RetrySpec` adds that somebody keeps asking the live loops to run the task, which
is what the scheduler and the user do; without it nobody calls recovery. The
scheduler's `FairSpec` assumes that a service is started and its one thread
goes on, that the executor returns, that a committed change is notified
and that time passes. `DueIsServed` excuses a service that has ended.

## 4. The proofs

Every invariant and every action property that a passing run checks is a theorem,
for all values of the constants that satisfy the named assumptions; the refinements
`ImplementsQueue` and `RestoreIsAtomic` are too. Each proof has an inductive invariant, a
lemma per group of actions and, where steps are many, a frame lemma that says
pointwise what a step can change, so that the invariant is proved against few cases and
not against every action. Proofs are grouped by subject in eight modules.

`AgentLoopProofs`, the queue. `QInv` is the
conjunction of the type invariant, `FailClosed`, `FenceCoversOpen` and
`OneProcessor` with the facts these lean on: which rows exist together, who owns
the lease of an open cancellation. `FailClosed` is not inductive alone: a step
that settles one control must not disturb another, and `FenceCoversOpen` needs to
know that a settled control is not open. The
action properties follow from `QInv` at the first state of the step.

The loops. `LoopImplementsQueue` shows that every step of the loops is a
`QueueNext` step or leaves the queue's variables alone, which carries `QInv` over to
the loops; `SingleExecutor` and `TruthfulOutcome` follow from `LInv`, which adds that a
loop that has not died lives in a living process (`Lifetimes`) and that a callback
thread exists only for a control whose attempt has begun (`Begun`): the first is
what makes a takeover on proof of death incompatible with a loop that goes on, the
second what ties the history of a callback to the row that recovery reads. `BInv`
says what holds at the boundaries: between the settling at a boundary and the next tool no
cancellation is open (`NoneOpen`), all open ones have one owner, who runs the task if anybody does
(`OpenIsOne`), an ambiguous one is still to be applied or stops the loop
(`AmbiguousStops`), and who decides has no callback and no control of its last tool left
(`DecidesClean`). From it follow `FenceJustified`, `CallbackHitsOnlyItsTool` and
`NoOldPlanAction`, with faults as well as without. `SubmissionOrder` needs
`Faults = FALSE` (section 6, item 2 is the counterexample): `OrderInv` says that controls are
numbered as they come, that what was submitted before the one in processing, at its
priority, is over, and that the one in processing is in the hands of the loop that applies
it, or of a dead one, and then no loop has come past the requeue since (`InHand`). A
`finish` that raises twice breaks just that.

`ToolActionsProofs`, approvals. A call chooses an approval in one transaction and uses it in
another, and between the two the approval may expire, be revoked or be consumed
by somebody else. `AInv` therefore says, beside `OneCallOnce` and `Authorized`,
that the rows have their fields (`Shapes`), what is known of an approval
that a call has chosen and not yet used (`Chosen`: it was given for this very
request, which the policy wanted approved), and what is known of every action
that has begun (`Justified`). The lemma `Carried` reduces the steps to four facts
about them: an approval is never given to another request and a consumed one stays
consumed (`GrantsKept`), rows keep what they were created with, a new row is
rightful, and calls move along known ways (`Moved`). `OneCallOnce` then
holds because the one step that adds an action under a one-call approval also
consumes it, and needs it unconsumed.

Workspaces. `WorkspaceExclusive` holds for every set of paths and every
reflexive and symmetric relation `Overlaps`. `WInv` says of each owner
what he holds at each point of a call (`Holds`) and that of two overlapping leases of
two owners one is of a dead owner (`Apart`). Claiming keeps the first for
everybody who acts, because a lease of a living owner is never deleted
(`ClaimIsFair`). The part that could go wrong is borrowing: `Holds` has to say
that the workspace of a delegation is never among those that a call counts as its
own and releases.

The journal and what is left. `JInv` says that a row has its lease while it is running
and that its end is true of what was touched (`RowsTrue`), and of each call that its rows are running and
its own (`Rows`) and what it may still write about them (`Phase`, `Verdict`). `LInv` accounts for each
lease of a call by what the call has still to give back. `NothingStaysBehind` supposes that
no call is open, i.e. that all of them name where they go: with an open call the property is
false, which is what the run `no_destination` shows.

`SchedulerProofs`. `SInv` (what a thread executes is claimed in its name, a run that is only
claimed has not run) gives `Ceilings` and `RunIsExclusive`, with cardinalities of finite
sets. `RowInv` relates a listing to the rows of now: a row that still has the listed revision
has the listed expression and policy (`SnapIsOld`), the occurrences that it has moved past since are in the
journal (`Journaled`), and so are the slots that a pass has behind it (`SlotsDone`); from it follows `NoOccurrenceLost`. Three theorems have a
hypothesis, because the property is false without it. `SchedulerEditSurvives` is
about schedules that are no watches: `_set_next` compares nothing (section 6, item
8). `SchedulerNoLostWake` needs a database that answers, and no watch or no
scheduler but services: a pass of `run-due` that defers a watch may move it back past an edit.
`SchedulerEdgeFiresOnce` needs that all schedulers are services, of which one runs at a
time (section 6, item 7): `EdgeInv` says that a watch which has fired since its predicate was last
false has recorded it (`ArmedIs`), that who has read a false predicate knows of a watch that may fire
again (`EdgeRead`), and that a watch listed before its edge may fire until the pass is
done with it (`EdgeAhead`).

`DelegationProofs`. `DelegationInv` says what a call relies on at each place as long as its
owner is not proved gone (`RunInv`: the lease of the delegation, that of the child task, the
workspace), how far the three rows agree (`RowInv`), what holds of who has the child task
(`HolderInv`) and of a run that a cancellation has found in `_RUNS` (`CancelInv`), and that who leaves
has settled its delegation or somebody is about to (`SettleInv`). It
carries `ChildIsSound` and `EndsStay`. `RunsSettle`, one half of `ChildIsSound`,
speaks of owners that are seen alive. `MemoryInv` says
that where files and index differ somebody is between the two writes (`CorpusInv`), what a
call has found and done (`MindOK`), and that a candidate has been
remembered when it is promoted and is decided as its proposal is (`CandidateInv`).

`TaskRunsProofs`. `RunsInv`: whoever executes has the lease, one run is active, a run infers before it
promotes and is cancelled before that, and `EpochsClosed`, which is inductive by itself: a checkpoint
is of the epoch of now, and either nothing later is of that epoch or it stays open. The step that could go wrong is a runner that marks its run active a second time:
`RunnerInOrder` says that at that place no other run is. `CoreInv`: what a client has is every normal event up to
its last one, a batch has no gap, and at most the one call that was let in acts for a client
that is revoked. `ContextInv`: what is shown holds the newest and the protected messages and begins where an
exchange does; the lemmas about projections give the monotonicity of the estimate by
sums over finite sets and a least element from the well-foundedness of the naturals.

`RestoreProofs`. `RInv` ties the journal to what lies at each destination: every
item of a restore that is not committed is original, aside, or fresh
(`Recoverable`), and what a process would see without the marker is the version for which
the journal vouches (`Showable`). `RestoreRefines` maps initial states to initial states and
each step to a step of `AtomicRestore` or to a stutter. `RecoveryInv` of `WorkspaceRecovery` follows a
rollback part by part: index, tracked files and untracked files are safe one after the
other, and all of them before the first is touched (`GitCovered`, `FilesCovered`); a content is safe
if it was committed, is in a checkpoint, or was written when the checkpoint had already been taken.

`RuntimeProofs`. `SlotInv`: whoever is in a scope has the lease, inference happens inside of a scope, and a
child that was let go is named in the lease for as long as it runs (`ChildFenced`). `ConfigInv`: only the
holder of the lock is anywhere and leaves what it entered (`LockInv`), what each writer has done
and can take back at each step (`WriterInv`), and that the service runs what is installed unless a
writer is about to see to it (`ServiceInv`). `LifecycleInv`: a binding reads that its model is registered,
a removal that no role has its own, and each writes in a later step; what was read is
still true, because only the holder of the transaction is between the two
(`StepOutside`, `AloneInside`). `CalibrationInv`: each stage file is of what its digest says
(`FileIsTrue`), a record and the run are built on one chain of readings, and a run does not replace a deeper
record of the same content and machine if it looked at that record (`NotShallower`).

`ProcessProofs`. `MInv` of the MCP client: requests take turns under the lock, closing waits for
it, and unless a request timed out or the server spoke unasked, what is in the pipe answers who waits, as long as its output is open
(`Flight`, `AnswersMatch`). `TInv` of the terminal: what is on the list keeps its lease until it is
finalised, by one who then writes its end and gives the lease up, whether or not the release
raises (`OnTheList`); what is not is being started or left nothing
(`OffTheList`); a close that erred nowhere has still to see whatever is not finalised (`CloseInOrder`).

The assumptions on constants are those named in the modules.
Owners and slots of processes: `OwnersLiveInProcesses`, `OpaqueAreProcesses`,
`NoneIsNoOwner`, `ScopesHaveProcesses`. Values that stand for nothing are
nothing else: `NoScopeIsNone`, `NobodyWrites`, `MissingIsNoContent`, `NoUserIsNoThread`, `CallersAreNoProcesses`,
`NoMindIsNobody`, `NoCodeIsNone`, `OwnersAndRunners`, `LifecycleAssumption`. Bounds are naturals and flags
Booleans: `MaxControlsIsNat`, `LimitsAreNat`, `GrantBoundsAreNat`, `CallBounds`, `MaxRestoresIsNat`,
`MaxDepthIsNat`, `BatchIsNat`, `TokensAreCounted`, `LimitsAreCounted`, `RunsAreNumbered`, `FaultsIsBoolean`,
`FaultsIsBool`, `MayLapseIsBool`. Kinds, policies and parts are those of the program: `KindsAreControlKinds`,
`KindsOfSchedules`, `IntervalsArePositive`, `PoliciesAreKnown`, `ServicesAreOwners`,
`ClosersAreLoops`, `DefaultsAreDecisions`, `ScopesAreKnown`, `AddedAreDecisions`, `RuledAreIntents`, `DelegatedHaveRoot`,
`ChildrenOfKinds`, `PresentAreItems`, `TrackedOrNot`, `EntriesAreApart`, `EachHasAClient`,
`DepthsHaveStages`, `SomethingToMeasure`. Of calls: `CallsAreCalls`, and `CallsAct`, that whichever of its requests
have to be asked for a call begins at least one action. Of paths:
`OverlapIsReflexive`, `OverlapIsSymmetric`. TLC evaluates each on the instances.

Only model-checked: the liveness properties `DueIsServed`, `ControlsDrain` and `FenceLifted`,
since TLAPS proves neither liveness under fairness nor ENABLED. The four violations of section 6 are
of course shown by TLC alone. No module declares a
RECURSIVE operator, and no theorem needs an induction over data.


## 5. What is abstracted, and what is not modelled

- Payloads, messages, prompts, results and texts of errors.
- Counters of the loop's limits: each limit is a choice that it trips.
- The scope that a delegated child borrows from its parent
  (`inherited_execution_owner`): the loop always claims the execution itself.
- A release of the execution that raises: the row is then taken over by nobody
  until its process ends, which a crash shows as well.
- The effect on the conversation of a control that is applied twice after a
  crash (hazard at `agent_loop.py:540`).
- The deliveries of scheduled runs: registration and edits refuse a delivery
  target, so each run has a delivery row in the state `suppressed`.
- The probe and unlink of the wake socket; one service binds it at a time.
- In a tool call: several evaluations of the policy are one step; a
  `KeyError` for an approval that does not exist is left out (it withdraws the call as a
  refusal does, without a row); one thread has one call at a time, so the count of
  nested groups of `ToolRuntime` does not appear; a tool of a third party may report
  any final state, which is outside of `TruthfulRecord`.
- The heartbeat of an action that finishes before its group ends: it may see its
  lease gone and make `ToolRuntime.finish` raise after the outcome was recorded.
- What a claim of a workspace that is refused deletes on its way: leases of dead
  owners, which are in nobody's way.
- Several concurrency keys: all schedules have one, and all one limit.
- What a delegation contract allows its child (tools, paths, hosts, budgets): predicates
  over data that does not change while the child runs.
- The bytes of archives, models, patches, prompts and TOML; a malformed one is a
  call that raises. The search inside of a calibration stage is a choice of its reading.
- In `Restore` other processes: all of TARS's own writers of these files take the same
  lock. A file changed by hand meanwhile is what the identity checks are for.
- In `McpClient` the HTTP transport, which has no shared pipe, and the schema checks. What
  `McpIsSound` says of answers holds as long as no request times out and the server
  sends no notification: afterwards the code does take a late line for the answer to the
  next request, since nothing compares the ids (`mcp.py:650`).
- In `CoreService` the routes that only call components modelled elsewhere. An unread
  run of 200 internal events would stall a stream, whose cursor moves only over events that it
  shows (`core_api.py:207`); nothing in the program writes internal events, and the instance has
  no such run within `Batch`.
- In `Terminal` a process id that is used again while its supervisor lives: the check of the
  identity of a process with a lease always succeeds.
- In `ContextWindow` the construction of the prompt around the messages.
- Every component listed as `not_modelled` in `PROJECT.json`, with its reason.

## 6. Where code and documents differ

1. *Recovery of a cancelled task.* `ownership.py:383` says that recovery
   "atomically places an attempted outcome into fail-closed state". If the task
   became terminal after the check of `run()` (the user cancels it, nobody
   executes it), the guard of the fail-closed write raises inside
   `recover_cancellations`: the transaction rolls back, the attempt stays open
   and its fence stays set. Run `recovery`. The task cannot run again, so the
   harm is a row that stays `attempting`.
2. *Submission order.* `docs/AGENT_LOOP.md:12` promises submission order among
   messages of equal priority. Without faults that holds (run `loop`). A control whose
   `finish` raises twice stays `processing` under its live owner and is requeued by
   the next `run()`, so a later message is applied before it: `SubmissionOrder` fails
   in `loop` with `Faults = TRUE`.
3. *A schedule is stuck.* `docs/SCHEDULER.md:5` says that each due occurrence
   receives a record. Edited back to an instant for which it has a run, a
   schedule stays due: the insert hits the unique index and the slot is passed over
   without an advance, so the service wakes at once, for ever. Run `stuck`.
4. *An action that nobody settles.* `docs/POLICY.md:11` says that completion records
   contain the real terminal state. When network is requested and no destination is
   named, `execution_backends.py:573` cancels only the first action: the one begun for
   a workspace or a mount stays `running` while its process lives, and becomes
   `unknown` afterwards although nothing was executed. Run `no_destination`.
5. *A cancel is forgotten.* `runner.py:236` tells the user that a request "will apply at the
   next safe boundary". A cancel or pause of a run that is still queued is left in its row,
   and the start of the run clears it (`runner.py:296`). Run `lost_cancel`.
6. *An edge is lost.* `docs/SCHEDULER.md:11` says "Watches fire on a
   false-to-true edge". What a watch saw is committed before its claim asks for
   the ceilings; refused there, it fires only at the next edge. No run states it.
7. *An edge fires twice.* Same line. A `schedule run-due` that read the predicate
   before the edge records its stale reading after the service has fired:
   `EdgeFiresOnce` fails with two schedulers and one watch.
8. *A lost edit.* `tests/test_scheduler.py:56` tests that a claim does not
   overwrite a concurrent edit. `_set_next`, which moves on a watch that is not due,
   has no such check: `EditSurvives` fails with one watch.
9. *Restarts.* `docs/SCHEDULER.md:7` says that a restart reclaims interrupted runs
   and increments their attempt count. `recover` marks them failed, which
   `tests/test_scheduler.py:164` agrees with, and which `RunIsExclusive` needs: its mutant
   is the doc's version.
10. *A late cancellation of a child.* When the loop of a child has completed the child's
   task and its delegation is cancelled, timed out or ended by a user before the run writes its
   end, the writes of the run are refused and the contract stays open under its lease until the process
   ends. `RunsSettle` excuses exactly these cases.
11. *The latest instruction.* `docs/CONTEXT.md:5` says that the latest user instruction is
   protected. `drop_oldest` keeps the newest message, whoever wrote it, and the protected ones:
   behind a long tool exchange the instruction can be dropped. `ContextIsSound` states
   what the code keeps.
12. *Memory of a child.* `docs/DELEGATION.md:7` says that a candidate of a child cannot be
   promoted before its parent accepts. `decide_candidate` called on the candidate itself
   does not look at its proposal; `MemoryKeepsItsWord` only relates the two when the
   parent has decided. That a promotion by the parent waits for its acceptance of the child
   (`delegation.py:704`) constrains nothing here: acceptance is in another table and may precede all.
13. *A failed check of idleness is cached.* The output of `zero_idle` is written to its stage file before
   it is judged, so that a run after a failure finds the failed reading in the cache. `PromotionIsSound`
   holds all the same: it is not promoted.
14. *A shallower calibration.* `docs/CALIBRATION.md:15` says that a "ready higher-depth result is
   never replaced by a shallower run". A run resolves its alias (`calibration_engine.py:379`), waits for
   the slot and looks for the record through the alias again (line 401). Registered with other
   content by then, the alias leads to another record or none, and the run writes that of the content it
   was asked for (line 446), over a deeper one that another alias of the content has got.
   `PromotionIsSound` excuses exactly the runs whose alias had another content when they looked.
15. *A lease that nobody released.* `terminal_tools.py:380-386` marks a process finalised also
   when the release of its lease raises, and a start that fails goes on after such a release (lines
   202-205). The row stays, without a heartbeat, until it expires or the process of the manager
   dies; meanwhile `poll` says that the process has exited. `AnswersAreTrue` says so: what has exited
   has no lease or one that was left (`LetGo`).
16. *Who unloads.* `docs/RUNTIME_BACKENDS.md:23` calls the release of a route an "unload/TTL contract". With
   the reference backend it is the second only: `unload` reports success and does nothing
   (`runtime_backends.py:191`), so each of its models outlasts the scope that loaded it. What
   `OneUserOfTheSlot` says of loaded models is about backends that do unload; what it says of
   inference and of children is about all.
17. *An import beside a removal.* `import_model` stores the artifact before it takes the lock of the registry
   (`model_lifecycle.py:150-153`). A removal of the last alias of the same content may delete it in between, and the
   new alias is then registered without its artifact; `get_model` finds it, a run does not.
   `ModelLifecycle` has this behaviour, and `NothingDangles` does not speak of it: it is about
   bindings and about what a removal takes from entries that are registered.

## 7. Plan

The safety of what is modelled is proved. What a continuation would add, in this order.

1. Liveness of runs and delegations under the fairness of the pool threads, for TLC: a started
   child ends, a closing supervisor returns.
2. `LoopLimits`: the counters of `AgentLoop.run` and the completion contract; a count of
   the effects of a control that is applied again after a crash (`agent_loop.py:540`).
3. Composition of `TaskRuns` with `AgentLoop` over one task, and of `ModelSlot` with
   `Calibration`.
