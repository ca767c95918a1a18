------------------------------ MODULE Terminal ------------------------------
(***************************************************************************)
(* Processes in the background: ProcessManager (terminal_tools.py) and the *)
(* supervisor it talks to (process_supervision.py).  A process is started, *)
(* named in a lease and put on the list; whoever first finds it exited, a  *)
(* reader, close or its watcher, finalises it, and the others wait.        *)
(*                                                                         *)
(* A process stands for its supervisor with all it started.  "killed" is a *)
(* process that was sent its end and is still there.  Handlers that wait   *)
(* may give up.  What a caller was told stays until its next call.         *)
(***************************************************************************)
EXTENDS Naturals, FiniteSets

CONSTANTS
    Managed,        \* processes, each started once
    Caller,         \* threads that use the manager
    Starters,       \* those of them that start and signal processes (bound)
    Closers,        \* those of them that close the manager (bound)
    NoProcess

ASSUME CallersAreNoProcesses == Caller \cap (Managed \union {NoProcess}) = {} /\ NoProcess \notin Managed

VARIABLES
    managed,        \* per process: life, lease, action of the start, place on the list, finalisation
    caller,         \* per thread: its call, where it is, its process, the answer to its last call
    shut,           \* the manager is open, closed or dead
    excused         \* history: processes whose lease lapsed or whose end was not written

terminalVars == <<managed, caller, shut, excused>>

NotStarted == [life |-> "none", lease |-> "none", action |-> "none", listed |-> FALSE,
               final |-> "none", by |-> NoProcess, control |-> FALSE, cancellable |-> TRUE]
AtRest(answer) == [call |-> "none", at |-> "none", on |-> NoProcess, todo |-> {}, erred |-> FALSE, told |-> answer]

Set(p, f, v) == managed' = [managed EXCEPT ![p][f] = v]
Steps(c, at) == caller' = [caller EXCEPT ![c].at = at]
Enters(c, call, at, p) ==
    caller' = [caller EXCEPT ![c] = [AtRest(NoProcess) EXCEPT !.call = call, !.at = at, !.on = p]]
Told(c, what, p) == caller' = [caller EXCEPT ![c] = AtRest([what |-> what, of |-> p])]
CallAt(c, call, at) == caller[c].call = call /\ caller[c].at = at
Starting == {c \in Caller : caller[c].call = "start"}

\* _verify_provenance: the lease, or after it the action with the end in it.  A
\* lease that is "left" has no heartbeat and is good until it expires.
Trusted(p) == managed[p].lease = "held" \/ (managed[p].life = "exited" /\ managed[p].action = "ended")
MayBeTrusted(p) == Trusted(p) \/ managed[p].lease = "left"

-----------------------------------------------------------------------------
(* start *)

StartCall(c, p) ==
    /\ c \in Starters /\ caller[c].call = "none" /\ shut = "open"
    /\ managed[p] = NotStarted /\ \A d \in Starting : caller[d].on # p
    /\ Enters(c, "start", "called", p)
    /\ UNCHANGED <<managed, shut, excused>>

\* the call is refused, or its action begun; a log that cannot be opened leaves
\* the action as it is
AuthorizeStart(c) ==
    LET p == caller[c].on
    IN  /\ CallAt(c, "start", "called")
        /\ \/ Told(c, "raised", p) /\ UNCHANGED <<managed, excused>>
           \/ Set(p, "action", "running") /\ Steps(c, "spawns") /\ UNCHANGED excused
           \/ Set(p, "action", "running") /\ Told(c, "raised", p) /\ excused' = excused \union {p}
        /\ UNCHANGED shut

SpawnManaged(c) ==
    LET p == caller[c].on
    IN  /\ CallAt(c, "start", "spawns")
        /\ \/ managed' = [managed EXCEPT ![p].life = "runs", ![p].control = TRUE] /\ Steps(c, "claims")
           \/ Steps(c, "fails") /\ UNCHANGED managed
        /\ UNCHANGED <<shut, excused>>

ClaimAuthority(c) ==
    LET p == caller[c].on
    IN  /\ CallAt(c, "start", "claims")
        /\ \/ Set(p, "lease", "held") /\ caller' \in {[caller EXCEPT ![c].at = n] : n \in {"enlists", "fails"}}
           \/ Steps(c, "fails") /\ UNCHANGED managed
        /\ UNCHANGED <<shut, excused>>

\* a release may raise and leave the row; the heartbeat has been stopped by then
LeasesLeft(p) == {"none", IF managed[p].lease = "none" THEN "none" ELSE "left"}

\* what was begun is taken back, as far as it can be; a process that does not die
\* in time is left to die
StartFails(c) ==
    LET p == caller[c].on
    IN  /\ CallAt(c, "start", "fails")
        /\ \E life \in (IF managed[p].life = "runs" THEN {"exited", "killed"} ELSE {managed[p].life}),
              written \in BOOLEAN, lease \in LeasesLeft(p) :
             /\ managed' = [managed EXCEPT ![p].life = life, ![p].lease = lease, ![p].control = FALSE,
                                           ![p].action = IF written THEN "ended" ELSE @]
             /\ excused' = IF written THEN excused ELSE excused \union {p}
        /\ Told(c, "raised", p)
        /\ UNCHANGED shut

\* from here on the watcher waits; the evidence of the start may still raise
Enlist(c) ==
    /\ CallAt(c, "start", "enlists")
    /\ Set(caller[c].on, "listed", TRUE)
    /\ \E answer \in {"running", "raised"} : Told(c, answer, caller[c].on)
    /\ UNCHANGED <<shut, excused>>

-----------------------------------------------------------------------------
(* The process, its lease and its watcher *)

ProcessEnds(p) ==
    /\ managed[p].life \in {"runs", "killed"}
    /\ Set(p, "life", "exited")
    /\ UNCHANGED <<caller, shut, excused>>

AuthorityLapses(p) ==
    /\ managed[p].lease = "held"
    /\ Set(p, "lease", "lapsed") /\ excused' = excused \union {p}
    /\ UNCHANGED <<caller, shut>>
AuthorityRenewed(p) ==
    /\ managed[p].lease = "lapsed"
    /\ Set(p, "lease", "held")
    /\ UNCHANGED <<caller, shut, excused>>

\* the one that sets completed_at takes the handles
Claims(p, who) == managed' = [managed EXCEPT ![p].final = "finishing", ![p].by = who]
Watch(p) ==
    /\ managed[p].listed /\ managed[p].life = "exited" /\ managed[p].final = "none"
    /\ Claims(p, p)
    /\ UNCHANGED <<caller, shut, excused>>

\* mutant: a reader that comes second does not wait
RefreshAtOnce(c) ==
    LET p == caller[c].on
    IN  /\ caller[c].call \in {"read", "close"} /\ caller[c].at = "verified"
        /\ IF managed[p].life # "exited" THEN Steps(c, "running") /\ UNCHANGED managed
           ELSE IF managed[p].final = "none" THEN Claims(p, c) /\ Steps(c, "finalises")
           ELSE Steps(c, "exited") /\ UNCHANGED managed
        /\ UNCHANGED <<shut, excused>>

Refresh(c) ==
    LET p == caller[c].on
    IN  /\ caller[c].call \in {"read", "close"} /\ caller[c].at = "verified"
        /\ IF managed[p].life # "exited" THEN Steps(c, "running") /\ UNCHANGED managed
           ELSE IF managed[p].final = "none" THEN Claims(p, c) /\ Steps(c, "finalises")
           ELSE /\ \/ managed[p].final = "done" /\ Steps(c, "exited")
                   \/ managed[p].final # "done" /\ Steps(c, "erred")
                /\ UNCHANGED managed
        /\ UNCHANGED <<shut, excused>>

FinishStart(p) ==
    /\ managed[p].final = "finishing"
    /\ \/ managed' = [managed EXCEPT ![p].action = "ended", ![p].final = "written"] /\ UNCHANGED excused
       \/ Set(p, "final", "written") /\ excused' = excused \union {p}
    /\ UNCHANGED <<caller, shut>>
CloseControl(p) ==
    /\ managed[p].final = "written"
    /\ managed' = [managed EXCEPT ![p].control = FALSE, ![p].final = "closed"]
    /\ UNCHANGED <<caller, shut, excused>>
ReleaseAuthority(p) ==
    /\ managed[p].final = "closed"
    /\ \E lease \in LeasesLeft(p) :
         managed' = [managed EXCEPT ![p].lease = lease, ![p].final = "released"]
    /\ UNCHANGED <<caller, shut, excused>>
\* The others go on in any case.  Whoever finalised goes on with an error if the
\* end was not written, if the lease was not released, or if the heartbeat ended
\* with an error.
Finalized(p) ==
    LET who == managed[p].by
    IN  /\ managed[p].final = "released"
        /\ Set(p, "final", "done")
        /\ \/ who \in Caller /\ Steps(who, "erred")
           \/ who \in Caller /\ managed[p].action = "ended" /\ managed[p].lease = "none" /\ Steps(who, "exited")
           \/ who \notin Caller /\ UNCHANGED caller
        /\ UNCHANGED <<shut, excused>>

-----------------------------------------------------------------------------
(* list, poll, wait *)

Ask(c, call, p) ==
    /\ caller[c].call = "none" /\ managed[p].listed
    /\ \/ MayBeTrusted(p) /\ Enters(c, call, "verified", p)
       \/ ~Trusted(p) /\ Told(c, "refused", p)
    /\ UNCHANGED <<managed, shut, excused>>
Read(c, p) == Ask(c, "read", p)
Answer(c) ==
    /\ caller[c].call = "read" /\ caller[c].at \in {"running", "exited", "erred"}
    /\ Told(c, IF caller[c].at = "erred" THEN "raised" ELSE caller[c].at, caller[c].on)
    /\ UNCHANGED <<managed, shut, excused>>

-----------------------------------------------------------------------------
(* signal, kill *)

Signal(c, p) == c \in Starters /\ Ask(c, "signal", p)

CheckCancellable(c) ==
    /\ CallAt(c, "signal", "verified")
    /\ IF managed[caller[c].on].cancellable THEN Steps(c, "dispatches") ELSE Told(c, "failed", caller[c].on)
    /\ UNCHANGED <<managed, shut, excused>>

\* A signal may be the end of the process, but for descendants in sessions of
\* their own, which the supervisor waits for while it answers that the process
\* has exited; without an answer in time, or over a closed pipe, its outcome is unknown.
Dispatch(c) ==
    LET p == caller[c].on
        Signalled == IF managed[p].life = "runs" THEN {"runs", "killed"} ELSE {managed[p].life}
    IN  /\ CallAt(c, "signal", "dispatches")
        /\ \/ /\ managed[p].life = "exited" \/ managed[p].control
              /\ Told(c, "already-exited", p) /\ UNCHANGED managed
           \/ /\ managed[p].life # "exited" /\ managed[p].control
              /\ \E life \in Signalled : Set(p, "life", life)
              /\ Told(c, "dispatched", p)
           \/ /\ \E life \in (IF managed[p].control THEN Signalled ELSE {managed[p].life}) :
                   managed' = [managed EXCEPT ![p].life = life, ![p].cancellable = FALSE]
              /\ Told(c, "unknown", p)
        /\ UNCHANGED <<shut, excused>>

-----------------------------------------------------------------------------
(* close *)

CloseCall(c) ==
    /\ c \in Closers /\ caller[c].call = "none" /\ shut # "dead"
    /\ shut' = "closed"
    /\ Enters(c, "close", "waits", NoProcess)
    /\ UNCHANGED <<managed, excused>>

Closes(c, erred) ==
    caller' = [caller EXCEPT ![c].at = "next", ![c].erred = erred, ![c].todo = {p \in Managed : managed[p].listed}]
\* mutant: the starts in progress are not waited for
CloseListsEarly(c) ==
    /\ CallAt(c, "close", "waits")
    /\ Closes(c, FALSE)
    /\ UNCHANGED <<managed, shut, excused>>
CloseLists(c) ==
    /\ CallAt(c, "close", "waits")
    /\ Closes(c, Starting # {})
    /\ UNCHANGED <<managed, shut, excused>>

\* each is verified and stopped in the time that is left
CloseOne(c) ==
    /\ CallAt(c, "close", "next")
    /\ \E p \in caller[c].todo :
         LET next == [caller[c] EXCEPT !.todo = @ \ {p}]
         IN  \/ /\ MayBeTrusted(p) /\ managed[p].life # "exited"
                /\ Set(p, "life", "exited")
                /\ caller' = [caller EXCEPT ![c] = [next EXCEPT !.at = "verified", !.on = p]]
             \/ /\ MayBeTrusted(p) /\ managed[p].life = "exited"
                /\ caller' = [caller EXCEPT ![c] = [next EXCEPT !.at = "verified", !.on = p]]
                /\ UNCHANGED managed
             \/ /\ managed[p].life # "exited" \/ ~Trusted(p)
                /\ \/ UNCHANGED managed
                   \/ MayBeTrusted(p) /\ managed[p].life # "exited" /\ Set(p, "life", "killed")
                /\ caller' = [caller EXCEPT ![c] = [next EXCEPT !.erred = TRUE]]
    /\ UNCHANGED <<shut, excused>>

CloseContinues(c) ==
    /\ caller[c].call = "close" /\ caller[c].at \in {"exited", "erred"}
    /\ caller' = [caller EXCEPT ![c].erred = @ \/ caller[c].at = "erred", ![c].at = "next", ![c].on = NoProcess]
    /\ UNCHANGED <<managed, shut, excused>>

CloseReturns(c) ==
    /\ CallAt(c, "close", "next") /\ caller[c].todo = {}
    /\ Told(c, IF caller[c].erred THEN "raised" ELSE "closed", NoProcess)
    /\ UNCHANGED <<managed, shut, excused>>

-----------------------------------------------------------------------------
(* The manager dies with its threads, and the supervisors with it; the next one *)
(* takes the leases of the dead away                                           *)

ManagerDies ==
    /\ managed' = [p \in Managed |->
                     IF managed[p] = NotStarted THEN NotStarted
                     ELSE [managed[p] EXCEPT !.life = IF @ = "runs" THEN "killed" ELSE @, !.listed = FALSE,
                                             !.control = FALSE, !.final = "done",
                                             !.lease = IF @ = "none" THEN @ ELSE "dead"]]
    /\ caller' = [c \in Caller |-> AtRest(NoProcess)]
    /\ shut' = "dead"
    /\ excused' = excused \union {p \in Managed : managed[p].action = "running"}
RecoverDeadAuthority ==
    /\ shut = "dead" /\ shut' = "open"
    /\ managed' = [p \in Managed |-> [managed[p] EXCEPT !.lease = IF @ = "dead" THEN "none" ELSE @]]
    /\ UNCHANGED <<caller, excused>>

TerminalInit ==
    /\ managed = [p \in Managed |-> NotStarted]
    /\ caller = [c \in Caller |-> AtRest(NoProcess)]
    /\ shut = "open" /\ excused = {}

TerminalNext ==
    \/ \E c \in Caller :
         \/ \E p \in Managed : StartCall(c, p) \/ Read(c, p) \/ Signal(c, p)
         \/ AuthorizeStart(c) \/ SpawnManaged(c) \/ ClaimAuthority(c) \/ StartFails(c) \/ Enlist(c)
         \/ Refresh(c) \/ Answer(c) \/ CheckCancellable(c) \/ Dispatch(c)
         \/ CloseCall(c) \/ CloseLists(c) \/ CloseOne(c) \/ CloseContinues(c) \/ CloseReturns(c)
    \/ \E p \in Managed :
         \/ ProcessEnds(p) \/ AuthorityLapses(p) \/ AuthorityRenewed(p) \/ Watch(p)
         \/ FinishStart(p) \/ CloseControl(p) \/ ReleaseAuthority(p) \/ Finalized(p)
    \/ ManagerDies \/ RecoverDeadAuthority

TerminalSpec == TerminalInit /\ [][TerminalNext]_terminalVars

-----------------------------------------------------------------------------
(* Properties *)

Recorded(p) == managed[p].life # "runs" /\ (managed[p].action = "running" => p \in excused)
LetGo(p) == managed[p].lease \in {"none", "left"}

\* What a caller is told holds: a process said to have exited has the end of its
\* action written and its lease given up, whoever finalised it; after close
\* nothing runs, not even what was being started, and no lease is kept; and a
\* process on the list is refused only after its lease lapsed or its end could
\* not be written.  A lease given up is gone, unless its release raised.
AnswersAreTrue ==
    \A c \in Caller :
        LET answer == caller[c].told
        IN  answer # NoProcess =>
              /\ answer.what = "exited" => Recorded(answer.of) /\ LetGo(answer.of)
              /\ answer.what = "closed" => \A p \in Managed : Recorded(p) /\ LetGo(p)
              /\ answer.what = "refused" => answer.of \in excused
=============================================================================
