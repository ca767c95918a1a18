----------------------------- MODULE McpClient -----------------------------
(***************************************************************************)
(* A client of an MCP server over its standard input and output: MCPClient *)
(* and StdioTransport (mcp.py), used by several threads and closed by      *)
(* another one at any moment.                                              *)
(*                                                                         *)
(* A call is made of the requests initialize (once per client), tools/list *)
(* and tools/call.  Nothing in an answer is compared with the request: the *)
(* line that is read is the answer.  What the server sends is read into a  *)
(* buffer, where select does not see it.  The server is external: it takes *)
(* requests in order, may send notifications in between, and may end.      *)
(***************************************************************************)
EXTENDS Naturals, Sequences

CONSTANTS
    User,           \* threads that use the client
    NoUser,
    MaxLines,       \* bound: requests written and notifications sent
    MaxNotices      \* bound: notifications sent

ASSUME NoUserIsNoThread == NoUser \notin User

VARIABLES
    user,           \* per thread: its request, where it is, the state of its action, what it read last
    channel,        \* the lock, the requests under way, the lines in the pipe and in the buffer
    server,         \* the process: runs or dead
    transport,      \* closed, stdout closed, quiesced, the step of close and what it failed at
    ready,          \* _initialized
    asked,          \* requests written so far
    notices,        \* notifications sent so far
    astray          \* history: a request timed out, or a notification was sent

mcpVars == <<user, channel, server, transport, ready, asked, notices, astray>>

NoLine == [of |-> 0, what |-> "notice", good |-> TRUE]
NoCallYet == [at |-> "idle", what |-> "none", request |-> 0, action |-> "none", line |-> NoLine]

\* the next request of the call
Asks(t, what, action) == user' = [user EXCEPT ![t] = [NoCallYet EXCEPT !.at = "asks", !.what = what, !.action = action]]
Frees == [channel EXCEPT !.lock = NoUser]

\* an exception or a result that is an error: what was begun has failed, the call is over
Raised(t) == [user EXCEPT ![t] = [NoCallYet EXCEPT !.action = IF user[t].action = "running" THEN "failed" ELSE "none"]]

-----------------------------------------------------------------------------
(* a call: prepare_call, authorize, tools/call *)

StartCallTool(t) ==
    /\ user[t].at = "idle"
    /\ Asks(t, IF ready THEN "list" ELSE "initialize", "none")
    /\ UNCHANGED <<channel, server, transport, ready, asked, notices, astray>>

\* mutant: nothing keeps a second request out of the pipe
NobodyThere == TRUE

FreeChannel == channel.lock = NoUser

\* the lock of the transport is taken and the request written
WriteRequest(t) ==
    /\ user[t].at = "asks" /\ FreeChannel /\ asked + notices < MaxLines
    /\ ~transport.closed /\ server = "runs"
    /\ asked' = asked + 1
    /\ user' = [user EXCEPT ![t].at = "waits", ![t].request = asked + 1]
    /\ channel' = [channel EXCEPT !.lock = t, !.requests = Append(@, [of |-> asked + 1, what |-> user[t].what])]
    /\ UNCHANGED <<server, transport, ready, notices, astray>>

\* closed already, or its input is gone
WriteRaises(t) ==
    /\ user[t].at = "asks" /\ FreeChannel
    /\ transport.closed \/ server = "dead"
    /\ user' = Raised(t)
    /\ UNCHANGED <<channel, server, transport, ready, asked, notices, astray>>

\* select says there is something, readline takes the oldest line it has
ReadLine(t) ==
    LET lines == channel.buffer \o (IF transport.stdout THEN channel.pipe ELSE <<>>)
    IN  /\ user[t].at = "waits" /\ (channel.pipe # <<>> \/ server = "dead")
        /\ lines # <<>>
        /\ user' = [user EXCEPT ![t].at = "read", ![t].line = Head(lines)]
        /\ channel' = IF channel.buffer = <<>>
                      THEN [Frees EXCEPT !.buffer = Tail(lines), !.pipe = <<>>]
                      ELSE [Frees EXCEPT !.buffer = Tail(channel.buffer)]
        /\ UNCHANGED <<server, transport, ready, asked, notices, astray>>

\* the end of the file, or a descriptor that close has closed, whatever the server does
ReadRaises(t) ==
    /\ user[t].at = "waits"
    /\ ~transport.stdout \/ (server = "dead" /\ channel.buffer = <<>> /\ channel.pipe = <<>>)
    /\ user' = Raised(t) /\ channel' = Frees
    /\ UNCHANGED <<server, transport, ready, asked, notices, astray>>

\* what the server answers after this is still going to be read
TimesOut(t) ==
    /\ user[t].at = "waits" /\ channel.pipe = <<>> /\ server = "runs"
    /\ user' = Raised(t) /\ channel' = Frees /\ astray' = TRUE
    /\ UNCHANGED <<server, transport, ready, asked, notices>>

Initialized(t) ==
    /\ user[t].at = "read" /\ user[t].what = "initialize" /\ user[t].line.good
    /\ ready' = TRUE /\ Asks(t, "list", "none")
    /\ UNCHANGED <<channel, server, transport, asked, notices, astray>>

\* the tool is in the list, its arguments fit and the guard lets it act
Authorized(t) ==
    /\ user[t].at = "read" /\ user[t].what = "list" /\ user[t].line.good /\ user[t].line.what = "list"
    /\ Asks(t, "call", "running")
    /\ UNCHANGED <<channel, server, transport, ready, asked, notices, astray>>

\* an error, no such tool in what was read, arguments that do not fit, a denial
NotPrepared(t) ==
    /\ user[t].at = "read" /\ user[t].what \in {"initialize", "list"}
    /\ user[t].what = "initialize" => ~user[t].line.good
    /\ user' = Raised(t)
    /\ UNCHANGED <<channel, server, transport, ready, asked, notices, astray>>

FinishCallTool(t) ==
    /\ user[t].at = "read" /\ user[t].what = "call"
    /\ user' = IF user[t].line.good THEN [user EXCEPT ![t].at = "idle", ![t].action = "succeeded"] ELSE Raised(t)
    /\ UNCHANGED <<channel, server, transport, ready, asked, notices, astray>>

-----------------------------------------------------------------------------
(* the server *)

AnswerRequest(good) ==
    /\ server = "runs" /\ channel.requests # <<>>
    /\ LET r == Head(channel.requests)
       IN channel' = [channel EXCEPT !.requests = Tail(@),
                                     !.pipe = Append(@, [of |-> r.of, what |-> r.what, good |-> good])]
    /\ UNCHANGED <<user, server, transport, ready, asked, notices, astray>>

SendNotice ==
    /\ server = "runs" /\ notices < MaxNotices /\ asked + notices < MaxLines
    /\ notices' = notices + 1 /\ astray' = TRUE
    /\ channel' = [channel EXCEPT !.pipe = Append(@, NoLine)]
    /\ UNCHANGED <<user, server, transport, ready, asked>>

ServerEnds ==
    /\ server = "runs" /\ server' = "dead"
    /\ UNCHANGED <<user, channel, transport, ready, asked, notices, astray>>

-----------------------------------------------------------------------------
(* close of the transport, which may be tried again *)

CloseInput ==
    /\ transport.at = "none" /\ ~transport.quiesced
    /\ transport' = [transport EXCEPT !.closed = TRUE, !.at = "stops", !.failed = FALSE]
    /\ UNCHANGED <<user, channel, server, ready, asked, notices, astray>>

\* the supervisor is told to end the server, which may not succeed in time
StopServer ==
    /\ transport.at = "stops"
    /\ \E failed \in BOOLEAN :
         /\ transport' = [transport EXCEPT !.at = "locks", !.stdout = FALSE, !.failed = failed]
         /\ server' \in (IF failed THEN {server, "dead"} ELSE {"dead"})
    /\ UNCHANGED <<user, channel, ready, asked, notices, astray>>

\* mutant: the wait for the request under way may end before it does
GaveUpAnyway == FALSE

GaveUp == channel.lock # NoUser

\* the lock is had and given back, or not in time
AwaitRequest ==
    /\ transport.at = "locks"
    /\ transport' = [transport EXCEPT !.at = "ends", !.failed = @ \/ GaveUp]
    /\ UNCHANGED <<user, channel, server, ready, asked, notices, astray>>

\* the thread that drains the errors may be there still
EndClose ==
    /\ transport.at = "ends"
    /\ \E drained \in BOOLEAN :
         transport' = [transport EXCEPT !.at = "none", !.quiesced = drained /\ ~transport.failed /\ server = "dead"]
    /\ UNCHANGED <<user, channel, server, ready, asked, notices, astray>>

-----------------------------------------------------------------------------

McpInit ==
    /\ user = [t \in User |-> NoCallYet]
    /\ channel = [lock |-> NoUser, requests |-> <<>>, pipe |-> <<>>, buffer |-> <<>>]
    /\ server = "runs"
    /\ transport = [closed |-> FALSE, stdout |-> TRUE, quiesced |-> FALSE, at |-> "none", failed |-> FALSE]
    /\ ready = FALSE /\ asked = 0 /\ notices = 0 /\ astray = FALSE

McpNext ==
    \/ \E t \in User :
         \/ StartCallTool(t) \/ WriteRequest(t) \/ WriteRaises(t)
         \/ ReadLine(t) \/ ReadRaises(t) \/ TimesOut(t)
         \/ Initialized(t) \/ Authorized(t) \/ NotPrepared(t) \/ FinishCallTool(t)
    \/ \E good \in BOOLEAN : AnswerRequest(good)
    \/ SendNotice \/ ServerEnds
    \/ CloseInput \/ StopServer \/ AwaitRequest \/ EndClose

McpSpec == McpInit /\ [][McpNext]_mcpVars

-----------------------------------------------------------------------------
(* Properties *)

\* As long as the server answers in time and sends nothing else, what a thread
\* reads, and what its action is recorded to have succeeded with, is the answer
\* to its own request, whatever other threads ask.
AnswersMatch ==
    ~astray => \A t \in User : user[t].at = "read" \/ user[t].action = "succeeded"
                                 => user[t].line.of = user[t].request

\* After a close that returned, the server is dead and no thread is at the pipe
\* or gets there again (docs/SKILLS_MCP.md: "waits for pipe ... quiescence").
QuietAfterClose ==
    transport.quiesced => server = "dead" /\ \A t \in User : user[t].at # "waits"

McpIsSound == AnswersMatch /\ QuietAfterClose
=============================================================================
