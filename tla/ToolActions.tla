----------------------------- MODULE ToolActions -----------------------------
(***************************************************************************)
(* The action journal (action_journal.py) and the two ways in which a tool *)
(* call goes through it: ToolRuntime.authorize and finish (tool_core.py),  *)
(* and GuardedExecutor (execution_backends.py).  A call asks for one or    *)
(* several actions, each with an intent and some with a path.  It is taken *)
(* through policy, approval, journal and workspace leases, has its effect, *)
(* and records how it ended.  An owner is the thread that makes the calls. *)
(* A thread of a delegation owns a workspace around its calls.             *)
(*                                                                         *)
(* Each transaction is one step; those whose interleaving nobody can tell  *)
(* apart (a read of the policy for each request of a call) are merged.     *)
(***************************************************************************)
EXTENDS Leases, Approvals

CONSTANTS
    Path,           \* canonical workspace keys
    Overlaps,       \* pairs of keys, of which one contains the other
    Calls,          \* calls that are made: see Call
    Delegated,      \* owners that run a child with an exclusive workspace
    Root,           \* that workspace
    MaxCalls,       \* bound: calls ever made
    Failing         \* bound: owners of which a finish_action raises, the
                    \* database failing or the lease having expired

NoPath == "no path"

\* kind: through ToolRuntime or GuardedExecutor; open: network is requested
\* and no destination is named, which the executor finds out late
Call == [kind : {"runtime", "executor"}, open : BOOLEAN,
         requests : Seq([intent : Intent, path : Path \union {NoPath}])]

\* the paths that the executor checks, apart from its action
Guarded(c, request) == c.kind = "executor" /\ request.path # NoPath

\* the requests of a call that become actions, when `asked' need an approval
Becoming(c, asked) ==
    SelectSeq([k \in DOMAIN c.requests |-> k], LAMBDA k : Guarded(c, c.requests[k]) => k \in asked)

ASSUME CallsAreCalls == Calls \subseteq Call
\* every call has an action of its own, apart from the paths that are checked
ASSUME CallsAct == \A c \in Calls : \A asked \in SUBSET DOMAIN c.requests : 1 \in DOMAIN Becoming(c, asked)
ASSUME OverlapIsReflexive == \A p \in Path : <<p, p>> \in Overlaps
ASSUME OverlapIsSymmetric == \A p, q \in Path : <<p, q>> \in Overlaps => <<q, p>> \in Overlaps
ASSUME DelegatedHaveRoot == Delegated \subseteq Owner /\ Root \in Path
ASSUME CallBounds == MaxCalls \in Nat /\ Failing \subseteq Owner

VARIABLES
    proc,       \* the processes: alive or gone
    journal,    \* action_journal, in the order of creation
    holder,     \* the owner of the lease `action' of a row, or None
    ws,         \* the owner of the lease `workspace' of a path, or None
    scope,      \* the workspace held around the calls of an owner, or None
    thread,     \* the call of an owner: its local variables
    touched,    \* history: actions whose effect may have begun
    left,       \* history: owners of which a finish_action raised
    made        \* the calls made, for the bound

journalVars == <<journal, holder, touched>>
ghostVars == <<left, made>>
vars == <<grantVars, journalVars, proc, ws, scope, thread, ghostVars>>

\* between calls
Idle == [pc |-> "idle",         \* where the call is
         kind |-> "runtime",
         open |-> FALSE,
         paths |-> {},          \* the workspaces of the call
         todo |-> {},           \* those still to claim
         claimed |-> {},        \* those claimed, and not borrowed
         queue |-> <<>>,        \* requests still to begin, with their decisions
         auth |-> 0,            \* the approval that authorize found for the first
         mine |-> <<>>,         \* the actions begun and not yet finished
         raised |-> FALSE,      \* the executor leaves by an exception
         verdict |-> "none"]    \* the state they will be finished in

Actions == DOMAIN journal
Final == {"succeeded", "failed", "denied", "cancelled", "unknown"}

Acting(o) == proc[ProcessOf[o]] = "alive"
At(o, label) == thread[o].pc = label
Becomes(o, local) == thread' = [thread EXCEPT ![o] = local] /\ UNCHANGED made
Runtime(l) == l.kind = "runtime"

\* What a call has still to do.  The runtime claims its workspaces, begins its
\* actions, and after the effect finishes them and releases the workspaces.  The
\* executor begins, claims, releases and finishes; its exception handler runs
\* before the release.
Work(l, phase) ==
    CASE phase = "claim" -> l.todo # {}
      [] phase = "begin" -> l.queue # <<>> \/ l.open
      [] phase = "finish" -> l.mine # <<>>
      [] phase = "release" -> l.claimed # {}

FirstOf(l, phase, other, end) ==
    IF Work(l, phase) THEN [l EXCEPT !.pc = phase]
    ELSE IF Work(l, other) THEN [l EXCEPT !.pc = other]
    ELSE end

Onward(l) ==
    LET ready == [l EXCEPT !.pc = "ready"]
    IN IF Runtime(l) THEN FirstOf(l, "claim", "begin", ready)
       ELSE FirstOf(l, "begin", "claim", ready)

Back(l) ==
    IF Runtime(l) \/ l.raised THEN FirstOf(l, "finish", "release", Idle)
    ELSE FirstOf(l, "release", "finish", Idle)

\* finish_action: a running row, under an unexpired lease of one's own
Finishable(o, k) == journal[k].state = "running" /\ HeldBy(proc, holder[k], o)

Raises(o, k) ==
    /\ ~Finishable(o, k) \/ o \in Failing
    /\ left' = left \union {o}

\* the row inserted by _create, which has a lease only when it is running
Row(o, request, g, s) ==
    [intent |-> request.intent, policy |-> request.policy, grant |-> g, state |-> s, by |-> o]
Recorded(row) ==
    /\ journal' = Append(journal, row)
    /\ holder' = Append(holder, IF row.state = "running" THEN row.by ELSE None)
    /\ UNCHANGED touched

Settled(k, state) ==
    /\ journal' = [journal EXCEPT ![k].state = state]
    /\ holder' = [holder EXCEPT ![k] = None]
    /\ UNCHANGED touched

-----------------------------------------------------------------------------
(* Workspaces: claim_workspace, release *)

\* mutant: only the lease of the very same path is in the way
InTheWayItself(p, q) == p = q
InTheWay(p, q) == <<p, q>> \in Overlaps

MayClaim(o, p) == \A q \in Path : InTheWay(p, q) => Claimable(proc, ws[q], o)

\* a lease of a dead owner that is in the way is deleted
Claimed(o, p) ==
    ws' = [q \in Path |-> IF q = p THEN o
                          ELSE IF InTheWay(p, q) /\ ws[q] # o THEN None ELSE ws[q]]

Released(o, p) == ws' = [ws EXCEPT ![p] = IF @ = o THEN None ELSE @]

ClaimScope(o) ==
    /\ o \in Delegated
    /\ At(o, "idle")
    /\ scope[o] = None
    /\ MayClaim(o, Root)
    /\ Claimed(o, Root)
    /\ scope' = [scope EXCEPT ![o] = Root]
    /\ UNCHANGED <<grantVars, journalVars, proc, thread, ghostVars>>

ReleaseScope(o) ==
    /\ At(o, "idle")
    /\ scope[o] # None
    /\ Released(o, scope[o])
    /\ scope' = [scope EXCEPT ![o] = None]
    /\ UNCHANGED <<grantVars, journalVars, proc, thread, ghostVars>>

-----------------------------------------------------------------------------
(* A call begins: the policy is evaluated for all of its requests.  The     *)
(* executor records a path that is denied, and raises; of its paths those   *)
(* that need an approval become actions.  The runtime claims the workspaces *)
(* of the others first, and finds the denial when it begins the action.     *)

Decided(c) ==
    [k \in DOMAIN c.requests |->
        [intent |-> c.requests[k].intent, path |-> c.requests[k].path,
         policy |-> Decision(c.requests[k].intent)]]

RefusedPaths(c) ==
    {k \in DOMAIN c.requests : Guarded(c, Decided(c)[k]) /\ Decided(c)[k].policy = "deny"}

Queued(c) ==
    LET kept == Becoming(c, {k \in DOMAIN c.requests : Decided(c)[k].policy = "ask"})
    IN [k \in DOMAIN kept |-> Decided(c)[kept[k]]]

Paths(c) == {r.path : r \in {q \in Range(Decided(c)) : q.policy # "deny"}} \ {NoPath}

Prepared(c) ==
    Onward([Idle EXCEPT !.kind = c.kind, !.open = c.open, !.paths = Paths(c),
                        !.todo = Paths(c), !.queue = Queued(c)])

Start(o, c) ==
    /\ At(o, "idle")
    /\ made < MaxCalls
    /\ made' = made + 1
    /\ IF RefusedPaths(c) # {}
       THEN /\ Recorded(Row(o, Decided(c)[Min(RefusedPaths(c))], 0, "denied"))
            /\ UNCHANGED thread
       ELSE /\ thread' = [thread EXCEPT ![o] = Prepared(c)]
            /\ UNCHANGED journalVars
    /\ UNCHANGED <<grantVars, proc, ws, scope, left>>

-----------------------------------------------------------------------------
(* A workspace that the owner already holds is borrowed.  (A claim that is  *)
(* refused may have deleted leases of dead owners: nobody is hindered by    *)
(* them, and they are left in place.)                                       *)

ClaimWorkspace(o) ==
    /\ At(o, "claim")
    /\ \E p \in thread[o].todo :
         /\ MayClaim(o, p)
         /\ Claimed(o, p)
         /\ Becomes(o, Onward([thread[o] EXCEPT !.todo = @ \ {p},
                                  !.claimed = IF ws[p] = o THEN @ ELSE @ \union {p}]))
    /\ UNCHANGED <<grantVars, journalVars, proc, scope, left>>

WorkspaceRefused(o) ==
    /\ At(o, "claim")
    /\ \E p \in thread[o].todo : ~MayClaim(o, p)
    /\ LET l == thread[o]
       IN Becomes(o, IF Runtime(l) THEN Back([l EXCEPT !.verdict = "cancelled"])
                     ELSE Back([l EXCEPT !.verdict = "failed", !.raised = TRUE]))
    /\ UNCHANGED <<grantVars, journalVars, proc, ws, scope, left>>

-----------------------------------------------------------------------------
(* begin_action: authorize, which only reads, and then _create, which       *)
(* consumes a one-call approval with the insert of the row                  *)

First(o) == Head(thread[o].queue)

\* the caller names the approval, or the broker finds one that matches
Authorize(o) ==
    /\ At(o, "begin")
    /\ thread[o].queue # <<>>
    /\ \/ /\ First(o).policy = "allow"
          /\ Becomes(o, [thread[o] EXCEPT !.pc = "create", !.auth = 0])
          /\ UNCHANGED grant
       \/ /\ First(o).policy = "ask"
          /\ grant' = Expired
          /\ \E g \in Authorizing(First(o).intent) :
               Becomes(o, [thread[o] EXCEPT !.pc = "create", !.auth = g])
    /\ UNCHANGED <<lapsed, rules, journalVars, proc, ws, scope, left>>

\* mutant: the actions that have begun are forgotten
WithdrawAtOnce(o) == Becomes(o, Idle)

\* when one request of a call cannot be begun, those that have are cancelled
Withdraw(o) == Becomes(o, Back([thread[o] EXCEPT !.verdict = "cancelled"]))

\* The policy denies, or no approval is found, or the one that the caller
\* names does not match: the refusal is a row of the journal.
Deny(o) ==
    /\ At(o, "begin")
    /\ thread[o].queue # <<>>
    /\ \/ First(o).policy = "deny" /\ UNCHANGED grant
       \/ /\ First(o).policy = "ask"
          /\ grant' = Expired
          /\ Authorizing(First(o).intent) = {} \/ Authorizing(First(o).intent) # Grants
    /\ Recorded(Row(o, First(o), 0, "denied"))
    /\ Withdraw(o)
    /\ UNCHANGED <<lapsed, rules, proc, ws, scope, left>>

Create(o) ==
    /\ At(o, "create")
    /\ MayUse(thread[o].auth)
    /\ grant' = Used(thread[o].auth)
    /\ Recorded(Row(o, First(o), thread[o].auth, "running"))
    /\ Becomes(o, Onward([thread[o] EXCEPT !.queue = Tail(@), !.auth = 0,
                                           !.mine = Append(@, Len(journal) + 1)]))
    /\ UNCHANGED <<lapsed, rules, proc, ws, scope, left>>

\* somebody else has used the one-call approval: no row at all
CreateRefused(o) ==
    /\ At(o, "create")
    /\ ~MayUse(thread[o].auth)
    /\ Withdraw(o)
    /\ UNCHANGED <<grantVars, journalVars, proc, ws, scope, left>>

\* The executor refuses network without a destination when the actions have
\* begun, and cancels the first of them.
NoDestination(o) ==
    /\ At(o, "begin")
    /\ thread[o].queue = <<>>
    /\ LET k == Head(thread[o].mine)
       IN \/ Finishable(o, k) /\ Settled(k, "cancelled") /\ UNCHANGED left
          \/ Raises(o, k) /\ UNCHANGED journalVars
    /\ Becomes(o, Idle)
    /\ UNCHANGED <<grantVars, proc, ws, scope>>

-----------------------------------------------------------------------------
(* The effect, and finish                                                   *)

Touch(o) ==
    /\ At(o, "ready")
    /\ touched' = touched \union Range(thread[o].mine)
    /\ Becomes(o, [thread[o] EXCEPT !.pc = "touched"])
    /\ UNCHANGED <<grantVars, journal, holder, proc, ws, scope, left>>

\* a tool may know no better than that the outcome is unknown (terminal_tools.py:559)
Ends(l) == IF Runtime(l) THEN {"succeeded", "failed", "unknown"} ELSE {"succeeded", "failed"}

EffectEnds(o) ==
    /\ At(o, "touched")
    /\ \E end \in Ends(thread[o]) :
         Becomes(o, Back([thread[o] EXCEPT !.verdict = end]))
    /\ UNCHANGED <<grantVars, journalVars, proc, ws, scope, left>>

\* at any point, also before anything has been touched
EffectRaises(o) ==
    /\ thread[o].pc \in {"ready", "touched"}
    /\ Becomes(o, Back([thread[o] EXCEPT !.verdict = "failed",
                                         !.raised = ~Runtime(thread[o])]))
    /\ UNCHANGED <<grantVars, journalVars, proc, ws, scope, left>>

FinishAction(o) ==
    /\ At(o, "finish")
    /\ Finishable(o, Head(thread[o].mine))
    /\ Settled(Head(thread[o].mine), thread[o].verdict)
    /\ Becomes(o, Back([thread[o] EXCEPT !.mine = Tail(@)]))
    /\ UNCHANGED <<grantVars, proc, ws, scope, left>>

\* A finish_action that raises ends the call: its row and those after it stay
\* as they are.  The executor still releases its workspaces; the runtime does
\* only if this was the last of its actions.
FinishRaises(o) ==
    /\ At(o, "finish")
    /\ Raises(o, Head(thread[o].mine))
    /\ LET l == thread[o]
       IN Becomes(o, IF Runtime(l) /\ (Len(l.mine) > 1 \/ l.verdict = "cancelled")
                     THEN Idle
                     ELSE Back([l EXCEPT !.mine = <<>>]))
    /\ UNCHANGED <<grantVars, journalVars, proc, ws, scope>>

ReleaseWorkspace(o) ==
    /\ At(o, "release")
    /\ \E p \in thread[o].claimed :
         /\ Released(o, p)
         /\ Becomes(o, Back([thread[o] EXCEPT !.claimed = @ \ {p}]))
    /\ UNCHANGED <<grantVars, journalVars, proc, scope, left>>

-----------------------------------------------------------------------------
(* recover_interrupted_actions, which every listing of the journal runs     *)

\* mutants: rows are recovered whoever holds them, or as if nothing had happened
InterruptedAny == {k \in Actions : journal[k].state = "running"}
Interrupted == {k \in InterruptedAny : ~Active(proc, holder[k])}

RecoveredAsCancelled == "cancelled"
RecoveredAs == "unknown"

\* by an owner made for the purpose
Recover ==
    /\ Interrupted # {}
    /\ journal' = [k \in Actions |->
          IF k \in Interrupted THEN [journal[k] EXCEPT !.state = RecoveredAs] ELSE journal[k]]
    /\ holder' = [k \in Actions |-> IF k \in Interrupted THEN None ELSE holder[k]]
    /\ UNCHANGED <<grantVars, proc, touched, ws, scope, thread, ghostVars>>

\* the calls of a process and what they knew are gone, their rows and leases stay
Crash(p) ==
    /\ proc[p] = "alive"
    /\ proc' = [proc EXCEPT ![p] = "gone"]
    /\ thread' = [o \in Owner |-> IF ProcessOf[o] = p THEN Idle ELSE thread[o]]
    /\ scope' = [o \in Owner |-> IF ProcessOf[o] = p THEN None ELSE scope[o]]
    /\ UNCHANGED <<grantVars, journalVars, ws, ghostVars>>

-----------------------------------------------------------------------------
Init ==
    /\ GrantInit
    /\ proc = [p \in Process |-> "alive"]
    /\ journal = <<>>
    /\ holder = <<>>
    /\ touched = {}
    /\ ws = [p \in Path |-> None]
    /\ scope = [o \in Owner |-> None]
    /\ thread = [o \in Owner |-> Idle]
    /\ left = {}
    /\ made = 0

Entering(o) ==
    \/ ClaimScope(o)
    \/ ReleaseScope(o)
    \/ \E c \in Calls : Start(o, c)
    \/ ClaimWorkspace(o)
    \/ WorkspaceRefused(o)

Preparing(o) ==
    \/ Authorize(o)
    \/ Deny(o)
    \/ Create(o)
    \/ CreateRefused(o)
    \/ NoDestination(o)

Leaving(o) ==
    \/ Touch(o)
    \/ EffectEnds(o)
    \/ EffectRaises(o)
    \/ FinishAction(o)
    \/ FinishRaises(o)
    \/ ReleaseWorkspace(o)

CallStep(o) == Entering(o) \/ Preparing(o) \/ Leaving(o)

\* the broker, from any process: the tools, the CLI, the chat
Broker == GrantNext /\ UNCHANGED <<journalVars, proc, ws, scope, thread, ghostVars>>

Next ==
    \/ \E o \in Owner : Acting(o) /\ CallStep(o)
    \/ Recover
    \/ \E p \in Process : Crash(p)
    \/ Broker

Spec == Init /\ [][Next]_vars

-----------------------------------------------------------------------------
(* Properties *)

\* A row has a lease exactly while it is running (action_journal.py:112, 158, 219).
RowsHaveLeases ==
    /\ Len(holder) = Len(journal)
    /\ \A k \in Actions :
         holder[k] = IF journal[k].state = "running" THEN journal[k].by ELSE None

Begun == {k \in Actions : journal[k].state # "denied"}

\* docs/POLICY.md:9: one-call approvals are atomically consumed.  However many
\* calls find the same approval at once, one of them starts one action.
OneCallOnce ==
    \A j, k \in Begun :
        /\ j # k
        /\ journal[j].grant = journal[k].grant
        /\ journal[j].grant # 0
        => grant[journal[j].grant].scope # "call"

\* An action that the policy wants approved starts only with an approval of
\* that very action, which the user has given, and which is used up if it was
\* for one call (approvals.py:122-133, _matches).
Authorized ==
    \A k \in Begun :
        /\ journal[k].policy # "deny"
        /\ journal[k].policy = "ask" =>
             LET g == journal[k].grant
             IN /\ g # 0
                /\ IF grant[g].scope = "target"
                   THEN AuthorityOf[grant[g].intent] = AuthorityOf[journal[k].intent]
                   ELSE grant[g].intent = journal[k].intent
                /\ grant[g].state \notin {"pending", "denied"}
                /\ grant[g].scope = "call" => grant[g].state = "consumed"

\* docs/POLICY.md:11: completion records contain the real terminal state.  A
\* call that has had an effect is never cancelled or denied, one that has not
\* never succeeded, and an outcome is unknown only when the tool has begun or its
\* caller has died.
TruthfulRecord ==
    \A k \in Actions :
        /\ journal[k].state \in {"cancelled", "denied"} => k \notin touched
        /\ journal[k].state = "succeeded" => k \in touched
        /\ journal[k].state = "unknown" =>
             k \in touched \/ proc[ProcessOf[journal[k].by]] = "gone"

Affecting(o) == Acting(o) /\ At(o, "touched")

\* While a call has its effect, its actions are running under its own leases,
\* and it holds each of its workspaces, borrowed ones too (tool_core.py:57-69).
EffectIsJournaled ==
    \A o \in Owner :
        Affecting(o) =>
            /\ thread[o].mine # <<>>
            /\ \A k \in Range(thread[o].mine) : journal[k].state = "running" /\ holder[k] = o
            /\ \A p \in thread[o].paths : ws[p] = o

\* The journal tells what happens while it happens and what has happened after
\* (docs/POLICY.md:11), and a row has its lease for just that time.
JournalIsTrue == RowsHaveLeases /\ TruthfulRecord /\ EffectIsJournaled

\* docs/DELEGATION.md:5: shared writable workspaces use an exclusive lock.  No
\* two owners affect workspaces of which one contains the other at once, and
\* none does while a delegated child holds one around its calls.
WorkspaceExclusive ==
    \A o, q \in Owner :
        o # q /\ Affecting(o) /\ Acting(q) =>
            \A p \in thread[o].paths :
                /\ At(q, "touched") => \A r \in thread[q].paths : <<p, r>> \notin Overlaps
                /\ scope[q] # None => <<p, scope[q]>> \notin Overlaps

\* A call that has returned leaves nothing behind in its process, no running
\* action and no workspace, unless a finish_action raised (tool_core.py:93-101, execution_backends.py:656-669).
NothingLeftBehind ==
    \A o \in Owner :
        Acting(o) /\ At(o, "idle") /\ o \notin left =>
            /\ \A k \in Actions : holder[k] # o
            /\ \A p \in Path : ws[p] = o => scope[o] = p
=============================================================================
