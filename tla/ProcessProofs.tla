---------------------------- MODULE ProcessProofs ----------------------------
(***************************************************************************)
(* What is said of processes that T.A.R.S. starts and talks to, for every  *)
(* number of threads and processes: an answer of an MCP server is read by  *)
(* the thread that asked (McpClient), and what a caller is told of a       *)
(* process in the background holds (Terminal).                             *)
(***************************************************************************)
EXTENDS McpClient, Terminal, TLAPS, SequenceTheorems

Requested == {"initialize", "list", "call"}
Query == [of : Nat, what : Requested]
Line == [of : Nat, what : Requested \union {"notice"}, good : BOOLEAN]
Places == {"idle", "asks", "waits", "read"}
UserRow == [at : Places, what : Requested \union {"none"}, request : Nat,
            action : {"none", "running", "failed", "succeeded"}, line : Line]
ChannelRow == [lock : User \union {NoUser}, requests : Seq(Query), pipe : Seq(Line), buffer : Seq(Line)]
TransportRow == [closed : BOOLEAN, stdout : BOOLEAN, quiesced : BOOLEAN,
                 at : {"none", "stops", "locks", "ends"}, failed : BOOLEAN]

McpTypes ==
    /\ user \in [User -> UserRow]
    /\ channel \in ChannelRow
    /\ server \in {"runs", "dead"}
    /\ transport \in TransportRow
    /\ ready \in BOOLEAN /\ astray \in BOOLEAN /\ asked \in Nat /\ notices \in Nat

\* who waits has the lock, and asks for something; who asks again has succeeded with nothing yet
UsersInTurn ==
    \A t \in User : /\ user[t].at = "waits" <=> channel.lock = t
                    /\ user[t].at # "idle" => user[t].what \in Requested /\ user[t].action # "succeeded"

\* s is empty or the one thing that belongs to request n
Single(s, n) == s = <<>> \/ (s = <<Head(s)>> /\ Head(s).of = n)

\* What is under way is the request of who has the lock, or its answer, and there
\* is nothing when the lock is free, the server runs and its output is open.
Flight ==
    /\ channel.buffer = <<>>
    /\ channel.lock # NoUser =>
         /\ channel.requests = <<>> \/ channel.pipe = <<>>
         /\ Single(channel.requests, user[channel.lock].request)
         /\ Single(channel.pipe, user[channel.lock].request)
    /\ server = "runs" /\ transport.stdout /\ channel.lock = NoUser => channel.requests = <<>> /\ channel.pipe = <<>>

\* A transport that is being closed is closed to writers; when its wait for the
\* lock has not failed nobody has it.
Closing ==
    /\ transport.at # "none" \/ transport.quiesced \/ ~transport.stdout => transport.closed
    /\ transport.at = "ends" /\ ~transport.failed => channel.lock = NoUser
    /\ transport.quiesced => server = "dead" /\ channel.lock = NoUser

MInv == McpTypes /\ UsersInTurn /\ Closing /\ (~astray => Flight /\ AnswersMatch)

-----------------------------------------------------------------------------
(* The client *)

\* Sequences of at most one element.
LEMMA Singles ==
  /\ \A x : Append(<<>>, x) = <<x>> /\ Head(<<x>>) = x /\ Tail(<<x>>) = <<>> /\ <<x>> # <<>>
OBVIOUS

\* The values that calls begin and end with.
LEMMA FirstValues == NoLine \in Line /\ NoCallYet \in UserRow
BY DEF NoLine, Line, NoCallYet, UserRow, Places, Requested

\* A thread moves alone.
LEMMA OneMoves ==
  ASSUME McpTypes, NEW t \in User, NEW r \in UserRow, user' = [user EXCEPT ![t] = r]
  PROVE  user' \in [User -> UserRow] /\ user'[t] = r /\ \A u \in User : u # t => user'[u] = user[u]
BY DEF McpTypes

\* What a thread asks next, and what it is left with after an exception.
LEMMA NextRows ==
  ASSUME McpTypes, NEW t \in User
  PROVE  /\ \A what \in Requested : \A action \in {"none", "running"} :
              \E r \in UserRow : /\ Asks(t, what, action) => user' = [user EXCEPT ![t] = r]
                                 /\ r.at = "asks" /\ r.what = what /\ r.action = action
         /\ \E r \in UserRow : /\ Raised(t) = [user EXCEPT ![t] = r]
                               /\ r.at = "idle" /\ r.action # "succeeded"
<1>1. ASSUME NEW what \in Requested, NEW action \in {"none", "running"}
      PROVE  \E r \in UserRow : /\ Asks(t, what, action) => user' = [user EXCEPT ![t] = r]
                                /\ r.at = "asks" /\ r.what = what /\ r.action = action
  <2> DEFINE r == [NoCallYet EXCEPT !.at = "asks", !.what = what, !.action = action]
  <2>1. r \in [at : {"asks"}, what : {what}, request : {0}, action : {action}, line : {NoLine}]
    BY DEF NoCallYet
  <2>2. r \in UserRow /\ r.at = "asks" /\ r.what = what /\ r.action = action
    BY <2>1, FirstValues DEF UserRow, Places
  <2>3. QED BY <2>2 DEF Asks
<1>2. \E r \in UserRow : /\ Raised(t) = [user EXCEPT ![t] = r]
                         /\ r.at = "idle" /\ r.action # "succeeded"
  <2> DEFINE action == IF user[t].action = "running" THEN "failed" ELSE "none"
             r == [at |-> "idle", what |-> "none", request |-> 0, action |-> action, line |-> NoLine]
  <2>1. r = [NoCallYet EXCEPT !.action = action]
    BY DEF NoCallYet
  <2>2. r \in UserRow
    BY FirstValues DEF UserRow, Places
  <2>3. QED BY <2>1, <2>2 DEF Raised
<1>3. QED BY <1>1, <1>2

\* A thread that is not at the pipe moves on, and does not get there.
LEMMA StepBeside ==
  ASSUME MInv, NEW t \in User, NEW r \in UserRow, user' = [user EXCEPT ![t] = r],
         UNCHANGED <<channel, server, transport, astray, asked, notices>>, ready' \in BOOLEAN,
         user[t].at # "waits", r.at # "waits",
         r.at # "idle" => r.what \in Requested /\ r.action # "succeeded",
         ~astray /\ (r.at = "read" \/ r.action = "succeeded") => r.line.of = r.request
  PROVE  MInv'
<1>1. McpTypes /\ UsersInTurn /\ Closing /\ (~astray => Flight /\ AnswersMatch)
  BY DEF MInv
<1>2. user' \in [User -> UserRow] /\ user'[t] = r /\ \A u \in User : u # t => user'[u] = user[u]
  BY <1>1, OneMoves
<1>3. McpTypes'
  BY <1>1, <1>2 DEF McpTypes
<1>4. UsersInTurn'
  BY <1>1, <1>2 DEF UsersInTurn
<1>5. Closing'
  BY <1>1 DEF Closing
<1>6. ASSUME ~astray' PROVE Flight' /\ AnswersMatch'
  <2>1. channel.lock # NoUser => channel.lock \in User /\ channel.lock # t
    BY <1>1 DEF McpTypes, ChannelRow, UsersInTurn
  <2>2. Flight'
    BY <1>1, <1>2, <1>6, <2>1 DEF Flight
  <2>3. AnswersMatch'
    BY <1>1, <1>2, <1>6 DEF AnswersMatch
  <2>4. QED BY <2>2, <2>3
<1>7. QED BY <1>3, <1>4, <1>5, <1>6 DEF MInv

\* A thread leaves the pipe, whatever it has read there.
LEMMA StepAway ==
  ASSUME MInv, NEW t \in User, NEW r \in UserRow, user' = [user EXCEPT ![t] = r],
         user[t].at = "waits", r.at # "waits", channel' \in ChannelRow, channel'.lock = NoUser,
         r.at # "idle" => r.what \in Requested /\ r.action # "succeeded",
         UNCHANGED <<server, transport, ready, asked, notices>>, astray' \in BOOLEAN,
         ~astray' => ~astray /\ (r.at = "read" => r.line.of = r.request) /\ r.action # "succeeded",
         ~astray' => /\ channel'.buffer = <<>>
                     /\ server = "runs" /\ transport.stdout => channel'.requests = <<>> /\ channel'.pipe = <<>>
  PROVE  MInv'
<1>1. McpTypes /\ UsersInTurn /\ Closing /\ (~astray => Flight /\ AnswersMatch)
  BY DEF MInv
<1>2. user' \in [User -> UserRow] /\ user'[t] = r /\ \A u \in User : u # t => user'[u] = user[u]
  BY <1>1, OneMoves
<1>3. channel.lock = t
  BY <1>1 DEF UsersInTurn
<1>4. McpTypes'
  BY <1>1, <1>2 DEF McpTypes
<1>5. UsersInTurn'
  BY <1>1, <1>2, <1>3, NoUserIsNoThread DEF UsersInTurn
<1>6. Closing'
  BY <1>1 DEF Closing
<1>7. ASSUME ~astray' PROVE Flight' /\ AnswersMatch'
  <2>1. Flight'
    BY <1>7 DEF Flight
  <2>2. AnswersMatch'
    BY <1>1, <1>2, <1>7 DEF AnswersMatch
  <2>3. QED BY <2>1, <2>2
<1>8. QED BY <1>4, <1>5, <1>6, <1>7 DEF MInv

\* Nobody but the threads and the server touches the pipe: the rest keeps what is under way.
LEMMA StepElsewhere ==
  ASSUME MInv, UNCHANGED <<user, channel, ready, asked, notices>>, astray' = astray,
         server' \in {server, "dead"}, transport' \in TransportRow, Closing',
         transport'.stdout => transport.stdout
  PROVE  MInv'
<1>1. McpTypes /\ UsersInTurn /\ (~astray => Flight /\ AnswersMatch)
  BY DEF MInv
<1>2. McpTypes'
  BY <1>1 DEF McpTypes
<1>3. UsersInTurn'
  BY <1>1 DEF UsersInTurn
<1>4. ASSUME ~astray' PROVE Flight' /\ AnswersMatch'
  BY <1>1, <1>4 DEF Flight, AnswersMatch
<1>5. QED BY <1>2, <1>3, <1>4 DEF MInv

\* The steps of a call.
LEMMA CallStepKeeps ==
  ASSUME MInv, NEW t \in User,
         \/ StartCallTool(t) \/ WriteRequest(t) \/ WriteRaises(t)
         \/ ReadLine(t) \/ ReadRaises(t) \/ TimesOut(t)
         \/ Initialized(t) \/ Authorized(t) \/ NotPrepared(t) \/ FinishCallTool(t)
  PROVE  MInv'
<1>1. McpTypes /\ UsersInTurn /\ Closing /\ (~astray => Flight /\ AnswersMatch)
  BY DEF MInv
<1>2. user[t] \in UserRow /\ channel \in ChannelRow
  BY <1>1 DEF McpTypes
<1>3. PICK e \in UserRow : /\ Raised(t) = [user EXCEPT ![t] = e]
                           /\ e.at = "idle" /\ e.action # "succeeded"
  BY <1>1, NextRows
<1>4. ASSUME user' = Raised(t), user[t].at # "waits",
             UNCHANGED <<channel, server, transport, ready, asked, notices, astray>>
      PROVE  MInv'
  BY <1>1, <1>3, <1>4, StepBeside DEF McpTypes
<1>5. ASSUME NEW what \in Requested, NEW action \in {"none", "running"}, Asks(t, what, action),
             user[t].at # "waits", ready' \in BOOLEAN,
             UNCHANGED <<channel, server, transport, asked, notices, astray>>
      PROVE  MInv'
  <2>1. PICK r \in UserRow : /\ user' = [user EXCEPT ![t] = r]
                             /\ r.at = "asks" /\ r.what = what /\ r.action = action
    BY <1>1, <1>5, NextRows
  <2>2. QED BY <1>5, <2>1, StepBeside
<1>6. CASE StartCallTool(t)
  <2>1. \E what \in Requested : Asks(t, what, "none")
    BY <1>6 DEF StartCallTool, Requested
  <2>2. QED BY <1>1, <1>5, <1>6, <2>1 DEF StartCallTool, McpTypes
<1>7. CASE Initialized(t)
  BY <1>5, <1>7 DEF Initialized, Requested
<1>8. CASE Authorized(t)
  BY <1>1, <1>5, <1>8 DEF Authorized, Requested, McpTypes
<1>9. CASE WriteRaises(t)
  BY <1>4, <1>9 DEF WriteRaises
<1>10. CASE NotPrepared(t)
  BY <1>4, <1>10 DEF NotPrepared
<1>11. CASE FinishCallTool(t)
  <2>1. CASE user[t].line.good
    <3>1. user' = [user EXCEPT ![t].at = "idle", ![t].action = "succeeded"]
      BY <1>11, <2>1 DEF FinishCallTool
    <3> DEFINE r == [user[t] EXCEPT !.at = "idle", !.action = "succeeded"]
    <3>2. user' = [user EXCEPT ![t] = r]
      BY <1>1, <3>1 DEF McpTypes
    <3>3. r \in UserRow /\ r.at = "idle" /\ r.line = user[t].line /\ r.request = user[t].request
      BY <1>2 DEF UserRow, Places
    <3> HIDE DEF r
    <3>4. ~astray => r.line.of = r.request
      BY <1>1, <1>11, <3>3 DEF AnswersMatch, FinishCallTool
    <3>5. QED BY <1>1, <1>11, <3>2, <3>3, <3>4, StepBeside DEF FinishCallTool, McpTypes
  <2>2. CASE ~user[t].line.good
    BY <1>4, <1>11, <2>2 DEF FinishCallTool
  <2>3. QED BY <2>1, <2>2
\* at the pipe
<1>12. channel' = Frees => channel' \in ChannelRow /\ channel'.lock = NoUser
                           /\ channel'.requests = channel.requests
                           /\ channel'.pipe = channel.pipe /\ channel'.buffer = channel.buffer
  BY <1>2 DEF Frees, ChannelRow
<1>13. CASE ReadRaises(t)
  <2>1. /\ server = "dead" \/ ~transport.stdout
        /\ channel' = Frees /\ user' = [user EXCEPT ![t] = e] /\ user[t].at = "waits"
        /\ UNCHANGED <<server, transport, ready, asked, notices, astray>>
    BY <1>3, <1>13 DEF ReadRaises
  <2>2. astray' \in BOOLEAN /\ (~astray' => channel'.buffer = <<>>)
    BY <1>1, <1>12, <2>1 DEF McpTypes, Flight
  <2>3. QED BY <1>3, <1>12, <2>1, <2>2, StepAway
<1>14. CASE TimesOut(t)
  <2>1. channel' = Frees /\ user' = [user EXCEPT ![t] = e] /\ user[t].at = "waits" /\ astray' = TRUE
        /\ UNCHANGED <<server, transport, ready, asked, notices>>
    BY <1>3, <1>14 DEF TimesOut
  <2>2. QED BY <1>3, <1>12, <2>1, StepAway
<1>15. CASE ReadLine(t)
  <2> DEFINE lines == channel.buffer \o (IF transport.stdout THEN channel.pipe ELSE <<>>)
             rest == IF channel.buffer = <<>> THEN Tail(lines) ELSE Tail(channel.buffer)
             pipe == IF channel.buffer = <<>> THEN <<>> ELSE channel.pipe
             r == [user[t] EXCEPT !.at = "read", !.line = Head(lines)]
  <2>1. /\ user[t].at = "waits" /\ lines # <<>>
        /\ user' = [user EXCEPT ![t].at = "read", ![t].line = Head(lines)]
        /\ channel' = IF channel.buffer = <<>>
                      THEN [Frees EXCEPT !.buffer = Tail(lines), !.pipe = <<>>]
                      ELSE [Frees EXCEPT !.buffer = Tail(channel.buffer)]
        /\ UNCHANGED <<server, transport, ready, asked, notices, astray>>
    BY <1>15 DEF ReadLine
  <2>2. channel.buffer \in Seq(Line) /\ channel.pipe \in Seq(Line) /\ <<>> \in Seq(Line)
    BY <1>2 DEF ChannelRow
  <2>3. lines \in Seq(Line)
    BY <2>2, ConcatProperties
  <2>4. Head(lines) \in Line /\ rest \in Seq(Line) /\ pipe \in Seq(Line)
    BY <2>1, <2>2, <2>3, HeadTailProperties
  <2>5. /\ user' = [user EXCEPT ![t] = r] /\ r \in UserRow
        /\ r.at = "read" /\ r.line = Head(lines) /\ r.request = user[t].request
        /\ r.what = user[t].what /\ r.action = user[t].action
    <3> HIDE DEF lines
    <3>1. user' = [user EXCEPT ![t] = r]
      BY <1>1, <2>1 DEF McpTypes
    <3>2. QED BY <1>2, <2>4, <3>1 DEF UserRow, Places
  <2>6. /\ channel' \in ChannelRow /\ channel'.lock = NoUser
        /\ channel'.requests = channel.requests
        /\ channel'.buffer = rest /\ channel'.pipe = pipe
    <3> HIDE DEF lines
    <3>1. CASE channel.buffer = <<>>
      <4>1. channel' = [Frees EXCEPT !.buffer = Tail(lines), !.pipe = <<>>] /\ Tail(lines) \in Seq(Line)
        BY <2>1, <2>4, <3>1
      <4>2. QED BY <1>2, <2>2, <3>1, <4>1 DEF Frees, ChannelRow
    <3>2. CASE channel.buffer # <<>>
      <4>1. channel' = [Frees EXCEPT !.buffer = Tail(channel.buffer)] /\ Tail(channel.buffer) \in Seq(Line)
        BY <2>1, <2>4, <3>2
      <4>2. QED BY <1>2, <2>2, <3>2, <4>1 DEF Frees, ChannelRow
    <3>3. QED BY <3>1, <3>2
  <2>7. ASSUME ~astray PROVE /\ r.line.of = r.request /\ rest = <<>> /\ pipe = <<>>
                             /\ channel.requests = <<>>
    <3>1. Flight /\ channel.lock = t
      BY <1>1, <2>1, <2>7 DEF UsersInTurn
    <3>2. channel.buffer = <<>>
      BY <3>1 DEF Flight
    <3>3. lines = IF transport.stdout THEN channel.pipe ELSE <<>>
      BY <2>2, <3>2, ConcatEmptySeq
    <3>4. lines = channel.pipe /\ channel.pipe # <<>>
      BY <2>1, <3>3
    <3>5. /\ channel.requests = <<>> /\ Head(lines).of = user[t].request
          /\ lines = <<Head(lines)>>
      BY <3>1, <3>4, NoUserIsNoThread DEF Flight, Single
    <3> HIDE DEF lines
    <3>6. Tail(lines) = <<>>
      BY <3>5, Singles
    <3>7. QED BY <2>5, <3>2, <3>5, <3>6
  <2> HIDE DEF r, lines, rest, pipe
  <2>8. user[t].what \in Requested /\ user[t].action # "succeeded"
    BY <1>1, <2>1 DEF UsersInTurn
  <2>9. astray' \in BOOLEAN
    BY <1>1, <2>1 DEF McpTypes
  <2>10. QED BY <2>1, <2>5, <2>6, <2>7, <2>8, <2>9, StepAway
<1>16. CASE WriteRequest(t)
  <2> DEFINE q == [of |-> asked + 1, what |-> user[t].what]
             r == [user[t] EXCEPT !.at = "waits", !.request = asked + 1]
  <2>1. /\ user[t].at = "asks" /\ channel.lock = NoUser /\ ~transport.closed /\ server = "runs"
        /\ asked' = asked + 1
        /\ user' = [user EXCEPT ![t].at = "waits", ![t].request = asked + 1]
        /\ channel' = [channel EXCEPT !.lock = t, !.requests = Append(@, q)]
        /\ UNCHANGED <<server, transport, ready, notices, astray>>
    BY <1>16 DEF WriteRequest, FreeChannel
  <2>2. user[t].what \in Requested /\ asked \in Nat /\ user[t].action # "succeeded"
    BY <1>1, <2>1 DEF UsersInTurn, McpTypes
  <2>3. /\ user' = [user EXCEPT ![t] = r] /\ r \in UserRow
        /\ r.at = "waits" /\ r.request = asked + 1 /\ r.what = user[t].what /\ r.action = user[t].action
    <3>1. user' = [user EXCEPT ![t] = r]
      BY <1>1, <2>1 DEF McpTypes
    <3>2. PICK n \in Nat : n = asked + 1
      BY <2>2
    <3>3. [user[t] EXCEPT !.at = "waits", !.request = n] \in UserRow
      BY <1>2 DEF UserRow, Places
    <3>4. QED BY <1>2, <3>1, <3>2, <3>3 DEF UserRow
  <2>4. q \in Query /\ q.of = asked + 1
    BY <2>2 DEF Query
  <2> HIDE DEF r, q
  <2>5. channel.requests \in Seq(Query)
    BY <1>2 DEF ChannelRow
  <2>6. Append(channel.requests, q) \in Seq(Query)
    BY <2>4, <2>5, AppendProperties
  <2>7. /\ channel' \in ChannelRow /\ channel'.lock = t
        /\ channel'.requests = Append(channel.requests, q)
        /\ channel'.pipe = channel.pipe /\ channel'.buffer = channel.buffer
    BY <1>2, <2>1, <2>6 DEF ChannelRow
  <2>8. user' \in [User -> UserRow] /\ user'[t] = r /\ \A u \in User : u # t => user'[u] = user[u]
    BY <1>1, <2>3, OneMoves
  <2>9. McpTypes'
    BY <1>1, <2>1, <2>2, <2>7, <2>8 DEF McpTypes
  <2>10. UsersInTurn'
    BY <1>1, <2>1, <2>2, <2>3, <2>7, <2>8, NoUserIsNoThread DEF UsersInTurn
  <2>11. Closing'
    BY <1>1, <2>1 DEF Closing
  <2>12. ASSUME ~astray' PROVE Flight' /\ AnswersMatch'
    <3>1. channel.requests = <<>> /\ channel.pipe = <<>> /\ channel.buffer = <<>>
      BY <1>1, <2>1, <2>12 DEF Flight, Closing
    <3>2. channel'.requests = <<q>> /\ channel'.pipe = <<>> /\ channel'.buffer = <<>>
      BY <2>7, <3>1, Singles
    <3>3. Single(channel'.requests, asked + 1) /\ Single(channel'.pipe, asked + 1)
      BY <2>4, <3>2, Singles DEF Single
    <3>4. user'[channel'.lock].request = asked + 1
      BY <2>3, <2>7, <2>8
    <3>5. Flight'
      BY <2>7, <3>2, <3>3, <3>4, NoUserIsNoThread DEF Flight
    <3>6. AnswersMatch'
      BY <1>1, <2>1, <2>2, <2>3, <2>8, <2>12 DEF AnswersMatch
    <3>7. QED BY <3>5, <3>6
  <2>13. QED BY <2>9, <2>10, <2>11, <2>12 DEF MInv
<1>17. QED
  BY <1>6, <1>7, <1>8, <1>9, <1>10, <1>11, <1>13, <1>14, <1>15, <1>16

\* The steps of the server and of close.
LEMMA RestKeeps ==
  ASSUME MInv,
         \/ \E good \in BOOLEAN : AnswerRequest(good)
         \/ SendNotice \/ ServerEnds
         \/ CloseInput \/ StopServer \/ AwaitRequest \/ EndClose
         \/ UNCHANGED mcpVars
  PROVE  MInv'
<1>1. McpTypes /\ UsersInTurn /\ Closing /\ (~astray => Flight /\ AnswersMatch)
  BY DEF MInv
<1>2. channel \in ChannelRow /\ transport \in TransportRow /\ channel.pipe \in Seq(Line)
      /\ channel.requests \in Seq(Query)
  BY <1>1 DEF McpTypes, ChannelRow
<1>3. ASSUME NEW good \in BOOLEAN, AnswerRequest(good) PROVE MInv'
  <2> DEFINE q == Head(channel.requests)
             line == [of |-> q.of, what |-> q.what, good |-> good]
  <2>1. /\ channel.requests # <<>>
        /\ channel' = [channel EXCEPT !.requests = Tail(@), !.pipe = Append(@, line)]
        /\ UNCHANGED <<user, server, transport, ready, asked, notices, astray>>
    BY <1>3 DEF AnswerRequest
  <2>2. q \in Query /\ Tail(channel.requests) \in Seq(Query)
    BY <1>2, <2>1, HeadTailProperties
  <2>3. line \in Line /\ line.of = q.of
    BY <2>2 DEF Line, Query
  <2> HIDE DEF line
  <2>4. Append(channel.pipe, line) \in Seq(Line)
    BY <1>2, <2>3, AppendProperties
  <2>5. /\ channel' \in ChannelRow /\ channel'.lock = channel.lock
        /\ channel'.requests = Tail(channel.requests) /\ channel'.pipe = Append(channel.pipe, line)
        /\ channel'.buffer = channel.buffer
    BY <1>2, <2>1, <2>2, <2>4 DEF ChannelRow
  <2>6. McpTypes' /\ UsersInTurn' /\ Closing'
    BY <1>1, <2>1, <2>5 DEF McpTypes, UsersInTurn, Closing
  <2>7. ASSUME ~astray' PROVE Flight' /\ AnswersMatch'
    <3>1. Flight /\ AnswersMatch
      BY <1>1, <2>1, <2>7
    <3>2. ASSUME channel.lock # NoUser
          PROVE  /\ channel'.requests = <<>>
                 /\ Single(channel'.pipe, user[channel.lock].request)
      <4>1. /\ channel.pipe = <<>> /\ channel.requests = <<q>>
            /\ q.of = user[channel.lock].request
        BY <2>1, <3>1, <3>2 DEF Flight, Single
      <4> HIDE DEF q
      <4>2. channel'.requests = <<>> /\ channel'.pipe = <<line>>
        BY <2>5, <4>1, Singles
      <4>3. QED BY <2>3, <4>1, <4>2, Singles DEF Single
    <3>3. server = "runs" /\ transport.stdout /\ channel.lock = NoUser => FALSE
      BY <2>1, <3>1 DEF Flight
    <3>4. Flight'
      BY <2>1, <2>5, <3>1, <3>2, <3>3 DEF Flight, Single
    <3>5. AnswersMatch'
      BY <2>1, <3>1 DEF AnswersMatch
    <3>6. QED BY <3>4, <3>5
  <2>8. QED BY <2>6, <2>7 DEF MInv
<1>4. CASE SendNotice
  <2>1. /\ channel' = [channel EXCEPT !.pipe = Append(@, NoLine)] /\ astray' = TRUE
        /\ notices' = notices + 1
        /\ UNCHANGED <<user, server, transport, ready, asked>>
    BY <1>4 DEF SendNotice
  <2>2. Append(channel.pipe, NoLine) \in Seq(Line)
    BY <1>2, FirstValues, AppendProperties
  <2>3. channel' \in ChannelRow /\ channel'.lock = channel.lock
    BY <1>2, <2>1, <2>2 DEF ChannelRow
  <2>4. McpTypes' /\ UsersInTurn' /\ Closing'
    BY <1>1, <2>1, <2>3 DEF McpTypes, UsersInTurn, Closing
  <2>5. QED BY <2>1, <2>4 DEF MInv
<1>5. CASE ServerEnds
  <2>1. Closing'
    BY <1>1, <1>5 DEF ServerEnds, Closing
  <2>2. QED BY <1>2, <1>5, <2>1, StepElsewhere DEF ServerEnds
<1>6. CASE CloseInput
  <2>1. transport' = [transport EXCEPT !.closed = TRUE, !.at = "stops", !.failed = FALSE]
        /\ ~transport.quiesced /\ UNCHANGED <<user, channel, server, ready, asked, notices, astray>>
    BY <1>6 DEF CloseInput
  <2>2. transport' \in TransportRow /\ transport'.closed /\ transport'.at = "stops" /\ ~transport'.quiesced
    BY <1>2, <2>1 DEF TransportRow
  <2>3. Closing'
    BY <2>2 DEF Closing
  <2>4. QED BY <2>1, <2>2, <2>3, StepElsewhere
<1>7. CASE StopServer
  <2>1. PICK failed \in BOOLEAN :
          /\ transport' = [transport EXCEPT !.at = "locks", !.stdout = FALSE, !.failed = failed]
          /\ server' \in {server, "dead"} /\ transport.at = "stops"
          /\ UNCHANGED <<user, channel, ready, asked, notices, astray>>
    BY <1>7 DEF StopServer
  <2>2. /\ transport' \in TransportRow /\ transport'.closed = transport.closed
        /\ transport'.at = "locks" /\ transport'.quiesced = transport.quiesced
    BY <1>2, <2>1 DEF TransportRow
  <2>3. Closing'
    BY <1>1, <2>1, <2>2 DEF Closing
  <2>4. QED BY <2>1, <2>2, <2>3, StepElsewhere
<1>8. CASE AwaitRequest
  <2>1. /\ transport' = [transport EXCEPT !.at = "ends", !.failed = transport.failed \/ GaveUp]
        /\ transport.at = "locks"
        /\ UNCHANGED <<user, channel, server, ready, asked, notices, astray>>
    BY <1>8 DEF AwaitRequest
  <2>2. /\ transport' \in TransportRow /\ transport'.closed = transport.closed
        /\ transport'.at = "ends" /\ transport'.quiesced = transport.quiesced
        /\ (~transport'.failed => channel.lock = NoUser)
    <3>1. GaveUp \in BOOLEAN
      BY DEF GaveUp
    <3>2. PICK f \in BOOLEAN : f = (transport.failed \/ GaveUp)
      BY <1>2, <3>1 DEF TransportRow
    <3>3. transport' = [transport EXCEPT !.at = "ends", !.failed = f]
      BY <2>1, <3>2
    <3>4. /\ transport' \in TransportRow /\ transport'.closed = transport.closed
          /\ transport'.at = "ends" /\ transport'.quiesced = transport.quiesced
          /\ transport'.failed = f
      BY <1>2, <3>3 DEF TransportRow
    <3>5. ~f => channel.lock = NoUser
      BY <3>2 DEF GaveUp
    <3>6. QED BY <3>4, <3>5
  <2>3. Closing'
    BY <1>1, <2>1, <2>2 DEF Closing
  <2>4. QED BY <2>1, <2>2, <2>3, StepElsewhere
<1>9. CASE EndClose
  <2>1. PICK drained \in BOOLEAN :
          transport' = [transport EXCEPT !.at = "none",
                                         !.quiesced = drained /\ ~transport.failed /\ server = "dead"]
    BY <1>9 DEF EndClose
  <2>2. transport.at = "ends" /\ UNCHANGED <<user, channel, server, ready, asked, notices, astray>>
    BY <1>9 DEF EndClose
  <2>3. PICK d \in BOOLEAN : d = (drained /\ ~transport.failed /\ server = "dead")
    OBVIOUS
  <2>4. transport' = [transport EXCEPT !.at = "none", !.quiesced = d]
    BY <2>1, <2>3
  <2>5. /\ transport' \in TransportRow /\ transport'.closed = transport.closed
        /\ transport'.at = "none" /\ transport'.quiesced = d /\ transport'.stdout = transport.stdout
    BY <1>2, <2>4 DEF TransportRow
  <2>6. d => ~transport.failed /\ server = "dead"
    BY <2>3
  <2>7. Closing'
    BY <1>1, <2>2, <2>5, <2>6 DEF Closing
  <2>8. QED BY <2>2, <2>5, <2>7, StepElsewhere
<1>10. CASE UNCHANGED mcpVars
  BY <1>1, <1>2, <1>10, StepElsewhere DEF mcpVars, Closing
<1>11. QED BY <1>3, <1>4, <1>5, <1>6, <1>7, <1>8, <1>9, <1>10

\* Nothing is under way at first.
LEMMA McpStarts == ASSUME McpInit PROVE MInv
<1>1. /\ user = [t \in User |-> NoCallYet]
      /\ channel = [lock |-> NoUser, requests |-> <<>>, pipe |-> <<>>, buffer |-> <<>>]
      /\ transport = [closed |-> FALSE, stdout |-> TRUE, quiesced |-> FALSE, at |-> "none", failed |-> FALSE]
      /\ server = "runs" /\ ready = FALSE /\ asked = 0 /\ notices = 0 /\ astray = FALSE
  BY DEF McpInit
<1>2. channel \in ChannelRow
  <2>1. <<>> \in Seq(Query) /\ <<>> \in Seq(Line)
    OBVIOUS
  <2>2. QED BY <1>1, <2>1 DEF ChannelRow
<1>3. transport \in TransportRow
  BY <1>1 DEF TransportRow
<1>4. McpTypes
  BY <1>1, <1>2, <1>3, FirstValues DEF McpTypes
<1>5. \A t \in User : user[t].at = "idle" /\ user[t].action = "none"
  BY <1>1 DEF NoCallYet
<1>6. UsersInTurn
  BY <1>1, <1>5, NoUserIsNoThread DEF UsersInTurn
<1>7. Closing /\ Flight /\ AnswersMatch
  BY <1>1, <1>5 DEF Closing, Flight, AnswersMatch
<1>8. QED BY <1>4, <1>6, <1>7 DEF MInv

\* As long as the server answers in time and sends nothing else, a thread reads the
\* answer to its own request; after a close that returned, the server is dead and
\* no thread is at the pipe or gets there again (mcp.py: StdioTransport).
THEOREM McpClientIsSound == McpSpec => []McpIsSound
<1>1. McpInit => MInv
  BY McpStarts
<1>2. MInv /\ [McpNext]_mcpVars => MInv'
  <2>1. SUFFICES ASSUME MInv, [McpNext]_mcpVars PROVE MInv'
    OBVIOUS
  <2>2. QED BY <2>1, CallStepKeeps, RestKeeps DEF McpNext
<1>3. MInv => McpIsSound
  <2>1. MInv => AnswersMatch
    BY DEF MInv, AnswersMatch
  <2>2. MInv => QuietAfterClose
    BY NoUserIsNoThread DEF MInv, Closing, UsersInTurn, QuietAfterClose
  <2>3. QED BY <2>1, <2>2 DEF McpIsSound
<1>4. QED BY <1>1, <1>2, <1>3, PTL DEF McpSpec
-----------------------------------------------------------------------------
(* Processes in the background (Terminal) *)

CallPlaces == {"none", "called", "spawns", "claims", "enlists", "fails", "verified", "dispatches",
               "running", "finalises", "exited", "erred", "waits", "next"}
AnswerWords == {"raised", "running", "exited", "refused", "failed", "dispatched", "unknown",
                "already-exited", "closed"}
AnswerRow == [what : AnswerWords, of : Managed \union {NoProcess}]
CallerRow == [call : {"none", "start", "read", "signal", "close"}, at : CallPlaces,
              on : Managed \union {NoProcess}, todo : SUBSET Managed, erred : BOOLEAN,
              told : AnswerRow \union {NoProcess}]
ManagedRow == [life : {"none", "runs", "killed", "exited"}, lease : {"none", "held", "lapsed", "left", "dead"},
               action : {"none", "running", "ended"}, listed : BOOLEAN,
               final : {"none", "finishing", "written", "closed", "released", "done"},
               by : Managed \union Caller \union {NoProcess}, control : BOOLEAN, cancellable : BOOLEAN]

TerminalTypes ==
    /\ managed \in [Managed -> ManagedRow]
    /\ caller \in [Caller -> CallerRow]
    /\ shut \in {"open", "closed", "dead"}
    /\ excused \subseteq Managed

Started(c, p) == caller[c].call = "start" /\ caller[c].on = p
Unaccounted(p) == managed[p].action = "running" /\ p \notin excused

\* What is on the list has been started, keeps its lease until it is finalised,
\* gives it up then if it can be released, and is finalised, after it has exited,
\* by one who then writes its end.
OnTheList(p) ==
    /\ managed[p].listed =>
         /\ managed[p].life # "none" /\ managed[p].action # "none"
         /\ managed[p].final # "none" => managed[p].life = "exited"
         /\ IF managed[p].final \in {"released", "done"} THEN managed[p].lease \in {"none", "left"}
            ELSE managed[p].lease \in {"held", "lapsed"}
    /\ managed[p].final \notin {"none", "finishing"} => ~Unaccounted(p)
    /\ managed[p].lease = "lapsed" => p \in excused
    /\ managed[p].lease = "dead" => shut = "dead" /\ ~managed[p].listed
    /\ managed[p].final \notin {"none", "done"} /\ managed[p].by \in Caller =>
         /\ caller[managed[p].by].call \in {"read", "close"}
         /\ caller[managed[p].by].at = "finalises" /\ caller[managed[p].by].on = p

\* What is not on it is being started, or has left nothing.
OffTheList(p) ==
    ~managed[p].listed =>
        /\ managed[p].final \in {"none", "done"}
        /\ \/ \E c \in Caller : Started(c, p)
           \/ managed[p].life # "runs" /\ ~Unaccounted(p) /\ managed[p].lease \in {"none", "left", "dead"}

\* What a start has come to.
StartInOrder(c) ==
    caller[c].call = "start" =>
        /\ caller[c].on \in Managed
        /\ caller[c].at \in {"called", "spawns", "claims", "enlists", "fails"}
        /\ ~managed[caller[c].on].listed /\ managed[caller[c].on].final = "none"
        /\ managed[caller[c].on].lease # "dead"
        /\ caller[c].at = "called" => managed[caller[c].on] = NotStarted
        /\ caller[c].at # "called" => managed[caller[c].on].action = "running"
        /\ caller[c].at \in {"claims", "enlists"} => managed[caller[c].on].life # "none"
        /\ caller[c].at = "enlists" => managed[caller[c].on].lease \in {"held", "lapsed"}
        /\ \A d \in Caller : Started(d, caller[c].on) => d = c

\* What a reader, a signal and a closer have found.
ReadInOrder(c) ==
    /\ caller[c].call = "none" => caller[c].at = "none"
    /\ caller[c].call = "close" =>
         shut = "closed" /\ caller[c].at \in {"waits", "next", "verified", "finalises", "exited", "erred"}
    /\ caller[c].call = "close" /\ caller[c].at # "waits" => \A p \in caller[c].todo : managed[p].listed
    /\ caller[c].call \in {"read", "signal", "close"} /\ caller[c].at \notin {"waits", "next"} =>
         /\ caller[c].on \in Managed /\ managed[caller[c].on].listed
         /\ caller[c].at = "exited" => managed[caller[c].on].final = "done"
         /\ caller[c].call = "close" => managed[caller[c].on].life = "exited"

\* Of what close has found it has still to see what is not finalised, but for an error.
Quiet == shut = "closed" /\ Starting = {}
CloseInOrder(c) ==
    caller[c].call = "close" /\ caller[c].at # "waits" /\ ~caller[c].erred =>
        /\ Quiet
        /\ \A p \in Managed : managed[p].listed =>
             \/ p \in caller[c].todo \/ managed[p].final = "done"
             \/ caller[c].at # "next" /\ caller[c].on = p

Answered(c) ==
    caller[c].told # NoProcess =>
        LET answer == caller[c].told
        IN  /\ answer.what = "exited" => /\ answer.of \in Managed /\ managed[answer.of].listed
                                         /\ managed[answer.of].final = "done"
            /\ answer.what = "closed" => Quiet /\ \A p \in Managed : managed[p].listed => managed[p].final = "done"
            /\ answer.what = "refused" => answer.of \in excused

ListInv == \A p \in Managed : OnTheList(p) /\ OffTheList(p)
CallInv == \A c \in Caller : StartInOrder(c) /\ ReadInOrder(c) /\ CloseInOrder(c) /\ Answered(c)
TInv == TerminalTypes /\ ListInv /\ CallInv

\* A step of one thread, or of none, that concerns one process, or none, is judged
\* by what it does to these two.
LEMMA TheRestStands ==
  ASSUME TInv, TerminalTypes', NEW c, NEW p, excused \subseteq excused',
         shut' = shut \/ (shut = "open" /\ shut' = "closed"),
         \A q \in Managed : q # p => managed'[q] = managed[q],
         \A d \in Caller : d # c => caller'[d] = caller[d],
         p \in Managed =>
           /\ managed[p].listed => managed'[p].listed
           /\ managed[p].listed /\ managed[p].final = "done" => managed'[p].final = "done"
           /\ managed[p].listed /\ managed[p].life = "exited" => managed'[p].life = "exited"
           /\ managed'[p].listed => managed[p].listed \/ (c \in Caller /\ Started(c, p))
           /\ OnTheList(p)' /\ OffTheList(p)',
         c \in Caller =>
           /\ caller[c].call = "start" => caller[c].on = p
           /\ caller[c].at = "finalises" => caller[c].on = p
           /\ caller'[c].call = "start" =>
                /\ caller'[c].on = p /\ (shut = "open" \/ caller[c].call = "start")
                /\ \A d \in Caller : d # c => ~Started(d, p)
           /\ StartInOrder(c)' /\ ReadInOrder(c)' /\ CloseInOrder(c)' /\ Answered(c)',
         \A d \in Caller : d # c /\ Started(d, p) => StartInOrder(d)'
  PROVE  TInv'
<1>1. TerminalTypes /\ ListInv /\ CallInv
  BY DEF TInv
<1>2. \A d \in Caller : d # c => caller'[d] = caller[d]
  OBVIOUS
<1>3. \A d \in Caller, q \in Managed : q # p => (Started(d, q)' <=> Started(d, q))
  BY DEF Started
<1>4. Quiet => Quiet' /\ \A q \in Managed : managed'[q].listed => managed[q].listed
  BY DEF Quiet, Starting, Started
<1>5. ASSUME NEW q \in Managed PROVE OnTheList(q)' /\ OffTheList(q)'
  <2>1. CASE q # p
    <3>1. OnTheList(q) /\ OffTheList(q) /\ managed'[q] = managed[q]
      BY <1>1, <2>1 DEF ListInv
    <3>2. OnTheList(q)'
      BY <3>1, <2>1 DEF OnTheList, Unaccounted
    <3>3. OffTheList(q)'
      BY <3>1, <1>3, <2>1 DEF OffTheList, Unaccounted
    <3>4. QED BY <3>2, <3>3
  <2>2. QED BY <2>1
<1>6. ASSUME NEW d \in Caller, d # c
      PROVE  StartInOrder(d)' /\ ReadInOrder(d)' /\ CloseInOrder(d)' /\ Answered(d)'
  <2>1. StartInOrder(d) /\ ReadInOrder(d) /\ CloseInOrder(d) /\ Answered(d) /\ caller'[d] = caller[d]
    BY <1>1, <1>6 DEF CallInv
  <2>2. StartInOrder(d)'
    <3>1. CASE Started(d, p)
      BY <3>1, <1>6
    <3>2. CASE ~Started(d, p)
      BY <2>1, <3>2, <1>3 DEF StartInOrder, Started
    <3>3. QED BY <3>1, <3>2
  <2>3. ReadInOrder(d)'
    <3>1. caller[d] \in CallerRow /\ \A q \in Managed : managed[q].listed => managed'[q].listed
      BY <1>1 DEF TerminalTypes
    <3>2. QED BY <2>1, <3>1 DEF ReadInOrder, CallerRow
  <2>4. CloseInOrder(d)'
    BY <2>1, <1>4 DEF CloseInOrder
  <2>5. Answered(d)'
    BY <2>1, <1>4 DEF Answered
  <2>6. QED BY <2>2, <2>3, <2>4, <2>5
<1>7. QED BY <1>5, <1>6 DEF TInv, ListInv, CallInv
\* A thread that is not starting anything moves alone.
LEMMA ThreadMoves ==
  ASSUME TInv, NEW c \in Caller, NEW r \in CallerRow, caller' = [caller EXCEPT ![c] = r],
         UNCHANGED <<managed, excused>>, shut' = shut \/ (shut = "open" /\ shut' = "closed"),
         caller[c].call # "start", r.call # "start", caller[c].at # "finalises",
         ReadInOrder(c)', CloseInOrder(c)', Answered(c)'
  PROVE  TInv'
<1>1. TerminalTypes /\ TerminalTypes'
  BY DEF TInv, TerminalTypes
<1>2. caller'[c] = r /\ \A d \in Caller : d # c => caller'[d] = caller[d]
  BY <1>1 DEF TerminalTypes
<1>3. StartInOrder(c)' /\ \A d \in Caller : d # c /\ Started(d, NoProcess) => StartInOrder(d)'
  BY <1>1, <1>2, CallersAreNoProcesses DEF StartInOrder, Started, TInv, CallInv
<1>4. QED BY <1>1, <1>2, <1>3, TheRestStands, CallersAreNoProcesses

\* A thread that goes on with its call keeps or forgets what it was told before.
LEMMA ThreadGoesOn ==
  ASSUME TInv, NEW c \in Caller, NEW r \in CallerRow, caller' = [caller EXCEPT ![c] = r],
         UNCHANGED <<managed, excused>>, shut' = shut \/ (shut = "open" /\ shut' = "closed"),
         caller[c].call # "start", r.call # "start", caller[c].at # "finalises",
         r.told \in {caller[c].told, NoProcess}, ReadInOrder(c)', CloseInOrder(c)'
  PROVE  TInv'
<1>1. TerminalTypes /\ Answered(c)
  BY DEF TInv, CallInv
<1>2. Quiet => Quiet'
  BY <1>1 DEF Quiet, Starting, TerminalTypes
<1>3. Answered(c)'
  BY <1>1, <1>2 DEF Answered, TerminalTypes
<1>4. QED BY <1>3, ThreadMoves

\* The answer that ends a call.
LEMMA Tells ==
  ASSUME TerminalTypes, NEW c \in Caller, NEW what \in AnswerWords, NEW p \in Managed \union {NoProcess},
         Told(c, what, p)
  PROVE  LET r == AtRest([what |-> what, of |-> p])
         IN  r \in CallerRow /\ caller' = [caller EXCEPT ![c] = r] /\ caller'[c] = r
<1> DEFINE answer == [what |-> what, of |-> p]
<1>1. answer \in AnswerRow
  BY DEF AnswerRow
<1>2. AtRest(answer) \in CallerRow
  BY <1>1 DEF AtRest, CallerRow, CallPlaces
<1>3. QED BY <1>2 DEF Told, TerminalTypes

LEMMA ThreadAnswers ==
  ASSUME TInv, NEW c \in Caller, NEW what \in AnswerWords, NEW p \in Managed \union {NoProcess},
         Told(c, what, p), UNCHANGED <<managed, shut, excused>>,
         caller[c].call # "start", caller[c].at # "finalises",
         what = "exited" => p \in Managed /\ managed[p].listed /\ managed[p].final = "done",
         what = "closed" => Quiet /\ \A q \in Managed : managed[q].listed => managed[q].final = "done",
         what = "refused" => p \in excused
  PROVE  TInv'
<1> DEFINE r == AtRest([what |-> what, of |-> p])
<1>1. r \in CallerRow /\ caller' = [caller EXCEPT ![c] = r] /\ caller'[c] = r
  BY Tells DEF TInv
<1>2. r.call = "none" /\ r.at = "none" /\ r.told.what = what /\ r.told.of = p
  BY DEF AtRest
<1> HIDE DEF r
<1>3. ReadInOrder(c)' /\ CloseInOrder(c)'
  BY <1>1, <1>2 DEF ReadInOrder, CloseInOrder
<1>4. Quiet => Quiet'
  BY <1>1, <1>2 DEF Quiet, Starting, TInv, TerminalTypes
<1>5. Answered(c)'
  BY <1>1, <1>2, <1>4 DEF Answered
<1>6. QED BY <1>1, <1>2, <1>3, <1>5, ThreadMoves

\* What is refused was named by a lease that has lapsed, or has left its end unwritten.
LEMMA AskKeeps ==
  ASSUME TInv, NEW c \in Caller, NEW p \in Managed, NEW call \in {"read", "signal"}, Ask(c, call, p)
  PROVE  TInv'
<1>1. TerminalTypes /\ OnTheList(p) /\ managed[p] \in ManagedRow /\ caller[c] \in CallerRow
  BY DEF TInv, TerminalTypes, ListInv
<1>2. ReadInOrder(c) /\ Answered(c)
  BY DEF TInv, CallInv
<1>3. caller[c].call = "none" /\ caller[c].at = "none" /\ managed[p].listed /\ UNCHANGED <<managed, shut, excused>>
  BY <1>2 DEF Ask, ReadInOrder
<1>4. CASE Enters(c, call, "verified", p)
  <2> DEFINE r == [AtRest(NoProcess) EXCEPT !.call = call, !.at = "verified", !.on = p]
  <2>1. r \in CallerRow /\ r.call = call /\ r.at = "verified" /\ r.on = p /\ r.told = NoProcess
    BY DEF CallerRow, CallPlaces, AtRest
  <2>2. caller' = [caller EXCEPT ![c] = r]
    BY <1>4 DEF Enters
  <2> HIDE DEF r
  <2>3. caller'[c] = r
    BY <1>1, <2>2 DEF TerminalTypes
  <2>4. ReadInOrder(c)' /\ CloseInOrder(c)'
    BY <1>3, <2>1, <2>3 DEF ReadInOrder, CloseInOrder
  <2>5. QED BY <1>3, <2>1, <2>2, <2>4, ThreadGoesOn
<1>5. CASE ~Trusted(p) /\ Told(c, "refused", p)
  <2>1. p \in excused
    BY <1>1, <1>3, <1>5 DEF OnTheList, Trusted, ManagedRow, Unaccounted
  <2>2. QED BY <1>3, <1>5, <2>1, ThreadAnswers DEF AnswerWords
<1>6. QED BY <1>4, <1>5 DEF Ask

\* The end of a read, and a signal that cannot be sent.
LEMMA AnswerKeeps ==
  ASSUME TInv, NEW c \in Caller, Answer(c) \/ CheckCancellable(c)
  PROVE  TInv'
<1>1. TerminalTypes /\ caller[c] \in CallerRow /\ ReadInOrder(c) /\ Answered(c) /\ CloseInOrder(c)
  BY DEF TInv, TerminalTypes, CallInv
<1>2. CASE Answer(c)
  <2>1. PICK what \in {"running", "exited", "raised"} :
           /\ what = IF caller[c].at = "erred" THEN "raised" ELSE caller[c].at
           /\ Told(c, what, caller[c].on)
    BY <1>2 DEF Answer
  <2>2. caller[c].on \in Managed /\ managed[caller[c].on].listed
        /\ (caller[c].at = "exited" => managed[caller[c].on].final = "done")
    BY <1>1, <1>2 DEF Answer, ReadInOrder
  <2>3. caller[c].call # "start" /\ caller[c].at # "finalises" /\ UNCHANGED <<managed, shut, excused>>
    BY <1>2 DEF Answer
  <2>4. QED BY <2>1, <2>2, <2>3, ThreadAnswers DEF AnswerWords
<1>3. CASE CheckCancellable(c)
  <2>1. caller[c].call = "signal" /\ caller[c].at = "verified" /\ UNCHANGED <<managed, shut, excused>>
    BY <1>3 DEF CheckCancellable, CallAt
  <2>2. CASE Told(c, "failed", caller[c].on)
    BY <1>1, <2>1, <2>2, ThreadAnswers DEF AnswerWords, CallerRow
  <2>3. CASE Steps(c, "dispatches")
    <3> DEFINE r == [caller[c] EXCEPT !.at = "dispatches"]
    <3>1. r \in CallerRow /\ r.call = "signal" /\ r.at = "dispatches" /\ r.on = caller[c].on /\ r.told = caller[c].told
      BY <1>1, <2>1 DEF CallerRow, CallPlaces
    <3>2. caller' = [caller EXCEPT ![c] = r]
      BY <2>3, <1>1 DEF Steps, TerminalTypes
    <3> HIDE DEF r
    <3>3. caller'[c] = r
      BY <1>1, <3>2 DEF TerminalTypes
    <3>4. ReadInOrder(c)' /\ CloseInOrder(c)'
      BY <1>1, <2>1, <3>1, <3>3 DEF ReadInOrder, CloseInOrder
    <3>5. QED BY <2>1, <3>1, <3>2, <3>4, ThreadGoesOn
  <2>4. QED BY <1>3, <2>2, <2>3 DEF CheckCancellable
<1>4. QED BY <1>2, <1>3
\* close lists what there is when nothing is being started, or remembers that
\* something is, and ends well when all of it is finalised.
LEMMA CloseKeeps ==
  ASSUME TInv, NEW c \in Caller,
         CloseCall(c) \/ CloseLists(c) \/ CloseContinues(c) \/ CloseReturns(c)
  PROVE  TInv'
<1>1. TerminalTypes /\ caller[c] \in CallerRow /\ ReadInOrder(c) /\ CloseInOrder(c)
  BY DEF TInv, TerminalTypes, CallInv
<1>2. CASE CloseCall(c)
  <2> DEFINE r == [AtRest(NoProcess) EXCEPT !.call = "close", !.at = "waits", !.on = NoProcess]
  <2>1. r \in CallerRow /\ r.call = "close" /\ r.at = "waits" /\ r.told = NoProcess
    BY DEF CallerRow, CallPlaces, AtRest
  <2>2. caller' = [caller EXCEPT ![c] = r] /\ caller[c].call = "none" /\ caller[c].at = "none"
    BY <1>1, <1>2 DEF CloseCall, Enters, ReadInOrder
  <2>3. UNCHANGED <<managed, excused>> /\ (shut' = shut \/ (shut = "open" /\ shut' = "closed"))
    BY <1>1, <1>2 DEF CloseCall, TerminalTypes
  <2> HIDE DEF r
  <2>4. caller'[c] = r
    BY <1>1, <2>2 DEF TerminalTypes
  <2>5. ReadInOrder(c)' /\ CloseInOrder(c)'
    BY <1>2, <2>1, <2>4 DEF CloseCall, ReadInOrder, CloseInOrder
  <2>6. QED BY <2>1, <2>2, <2>3, <2>5, ThreadGoesOn
<1>3. CASE CloseLists(c)
  <2> DEFINE todo == {p \in Managed : managed[p].listed}
  <2>1. PICK erred \in BOOLEAN : erred = (Starting # {})
    OBVIOUS
  <2> DEFINE r == [caller[c] EXCEPT !.at = "next", !.erred = erred, !.todo = todo]
  <2>2. r \in CallerRow /\ r.call = "close" /\ r.at = "next" /\ r.told = caller[c].told
        /\ r.erred = erred /\ r.todo = todo
    BY <1>1, <1>3 DEF CallerRow, CallPlaces, CloseLists, CallAt
  <2>3. caller' = [caller EXCEPT ![c] = r] /\ caller[c].call = "close" /\ caller[c].at = "waits"
        /\ UNCHANGED <<managed, shut, excused>>
    BY <1>1, <1>3, <2>1 DEF CloseLists, Closes, CallAt, TerminalTypes
  <2>4. caller'[c] = r
    BY <1>1, <2>3 DEF TerminalTypes
  <2>5. ~r.erred => shut = "closed" /\ Starting' = {}
    <3>1. Starting' \subseteq Starting
      BY <1>1, <2>2, <2>3, <2>4 DEF Starting, TerminalTypes
    <3>2. shut = "closed"
      BY <1>1, <2>3 DEF ReadInOrder
    <3>3. QED BY <3>1, <3>2, <2>1, <2>2
  <2> HIDE DEF r
  <2>6. ReadInOrder(c)'
    BY <1>1, <2>2, <2>3, <2>4 DEF ReadInOrder
  <2>7. CloseInOrder(c)'
    BY <2>2, <2>3, <2>4, <2>5 DEF CloseInOrder, Quiet
  <2>8. QED BY <2>2, <2>3, <2>6, <2>7, ThreadGoesOn
<1>4. CASE CloseContinues(c)
  <2>1. PICK erred \in BOOLEAN : erred = (caller[c].erred \/ caller[c].at = "erred")
    BY <1>1 DEF CallerRow
  <2> DEFINE r == [caller[c] EXCEPT !.erred = erred, !.at = "next", !.on = NoProcess]
  <2>2. r \in CallerRow /\ r.call = "close" /\ r.at = "next" /\ r.told = caller[c].told
        /\ r.erred = erred /\ r.todo = caller[c].todo
    BY <1>1, <1>4 DEF CallerRow, CallPlaces, CloseContinues
  <2>3. caller' = [caller EXCEPT ![c] = r] /\ caller[c].call = "close" /\ caller[c].at \in {"exited", "erred"}
        /\ UNCHANGED <<managed, shut, excused>>
    BY <1>1, <1>4, <2>1 DEF CloseContinues, TerminalTypes
  <2> HIDE DEF r
  <2>4. caller'[c] = r
    BY <1>1, <2>3 DEF TerminalTypes
  <2>5. ReadInOrder(c)'
    BY <1>1, <2>2, <2>3, <2>4 DEF ReadInOrder
  <2>6. Quiet => Quiet'
    BY <1>1, <2>2, <2>3, <2>4 DEF Quiet, Starting, TerminalTypes
  <2>7. CloseInOrder(c)'
    BY <1>1, <2>1, <2>2, <2>3, <2>4, <2>6 DEF CloseInOrder, ReadInOrder
  <2>8. QED BY <2>2, <2>3, <2>5, <2>7, ThreadGoesOn
<1>5. CASE CloseReturns(c)
  <2>1. PICK what \in {"raised", "closed"} :
           /\ what = IF caller[c].erred THEN "raised" ELSE "closed"
           /\ Told(c, what, NoProcess)
    BY <1>5 DEF CloseReturns
  <2>2. caller[c].call = "close" /\ caller[c].at = "next" /\ caller[c].todo = {}
        /\ UNCHANGED <<managed, shut, excused>>
    BY <1>5 DEF CloseReturns, CallAt
  <2>3. what = "closed" => Quiet /\ \A q \in Managed : managed[q].listed => managed[q].final = "done"
    BY <1>1, <2>1, <2>2 DEF CloseInOrder
  <2>4. QED BY <2>1, <2>2, <2>3, ThreadAnswers DEF AnswerWords
<1>6. QED BY <1>2, <1>3, <1>4, <1>5
\* A process, its lease or its finalisation moves, and no thread does.
LEMMA ProcessMoves ==
  ASSUME TInv, NEW p \in Managed, NEW r \in ManagedRow, managed' = [managed EXCEPT ![p] = r],
         UNCHANGED <<caller, shut>>, excused' \in {excused, excused \union {p}},
         r.listed = managed[p].listed,
         r.listed /\ managed[p].final = "done" => r.final = "done",
         r.listed /\ managed[p].life = "exited" => r.life = "exited",
         OnTheList(p)', OffTheList(p)', \A d \in Caller : Started(d, p) => StartInOrder(d)'
  PROVE  TInv'
<1>1. TerminalTypes /\ TerminalTypes'
  BY DEF TInv, TerminalTypes
<1>2. managed'[p] = r /\ \A q \in Managed : q # p => managed'[q] = managed[q]
  BY <1>1 DEF TerminalTypes
<1>3. QED BY <1>1, <1>2, TheRestStands, CallersAreNoProcesses

LEMMA ProcessStepKeeps ==
  ASSUME TInv, NEW p \in Managed,
         \/ ProcessEnds(p) \/ AuthorityLapses(p) \/ AuthorityRenewed(p) \/ Watch(p)
         \/ FinishStart(p) \/ CloseControl(p) \/ ReleaseAuthority(p)
  PROVE  TInv'
<1>1. /\ TerminalTypes /\ managed[p] \in ManagedRow /\ OnTheList(p) /\ OffTheList(p)
      /\ \A d \in Caller : StartInOrder(d) /\ caller[d] \in CallerRow
  BY DEF TInv, TerminalTypes, ListInv, CallInv
<1>2. CASE ProcessEnds(p) \/ AuthorityLapses(p) \/ AuthorityRenewed(p)
  <2>1. PICK life \in {managed[p].life, "exited"}, lease \in {"none", "held", "lapsed", "left", "dead"} :
          /\ managed' = [managed EXCEPT ![p] = [managed[p] EXCEPT !.life = life, !.lease = lease]]
          /\ managed[p].life = "none" => life = "none"
          /\ \/ lease = managed[p].lease
             \/ lease \in {"held", "lapsed"} /\ managed[p].lease \in {"held", "lapsed"}
          /\ lease = "lapsed" => p \in excused'
    <3>1. CASE ProcessEnds(p)
      <4>1. managed' = [managed EXCEPT ![p] = [managed[p] EXCEPT !.life = "exited", !.lease = managed[p].lease]]
        BY <1>1, <3>1 DEF ProcessEnds, Set, TerminalTypes, ManagedRow
      <4>2. managed[p].lease = "lapsed" => p \in excused'
        BY <1>1, <3>1 DEF ProcessEnds, OnTheList
      <4>3. QED BY <1>1, <3>1, <4>1, <4>2 DEF ProcessEnds, ManagedRow
    <3>2. CASE AuthorityLapses(p)
      <4>1. managed' = [managed EXCEPT ![p] = [managed[p] EXCEPT !.life = managed[p].life, !.lease = "lapsed"]]
        BY <1>1, <3>2 DEF AuthorityLapses, Set, TerminalTypes, ManagedRow
      <4>2. QED BY <3>2, <4>1 DEF AuthorityLapses
    <3>3. CASE AuthorityRenewed(p)
      <4>1. managed' = [managed EXCEPT ![p] = [managed[p] EXCEPT !.life = managed[p].life, !.lease = "held"]]
        BY <1>1, <3>3 DEF AuthorityRenewed, Set, TerminalTypes, ManagedRow
      <4>2. QED BY <3>3, <4>1 DEF AuthorityRenewed
    <3>4. QED BY <1>2, <3>1, <3>2, <3>3
  <2> DEFINE r == [managed[p] EXCEPT !.life = life, !.lease = lease]
  <2>2. /\ r \in ManagedRow /\ r.life = life /\ r.lease = lease /\ r.action = managed[p].action
        /\ r.listed = managed[p].listed /\ r.final = managed[p].final /\ r.by = managed[p].by
    BY <1>1 DEF ManagedRow
  <2>3. managed' = [managed EXCEPT ![p] = r]
    BY <2>1
  <2> HIDE DEF r
  <2>4. managed'[p] = r
    BY <1>1, <2>3 DEF TerminalTypes
  <2>5. UNCHANGED <<caller, shut>> /\ excused' \in {excused, excused \union {p}}
    BY <1>2 DEF ProcessEnds, AuthorityLapses, AuthorityRenewed
  <2>6. OnTheList(p)'
    BY <1>1, <2>1, <2>2, <2>4, <2>5 DEF OnTheList, Unaccounted, ManagedRow
  <2>7. managed[p] # NotStarted
    BY <1>2 DEF ProcessEnds, AuthorityLapses, AuthorityRenewed, NotStarted
  <2>8. \A d \in Caller : Started(d, p) => StartInOrder(d)'
    BY <1>1, <2>1, <2>2, <2>4, <2>5, <2>7 DEF StartInOrder, Started
  <2>9. OffTheList(p)'
    BY <1>1, <1>2, <2>1, <2>2, <2>4, <2>5
       DEF OffTheList, Started, Unaccounted, ProcessEnds, AuthorityLapses, AuthorityRenewed
  <2>10. QED BY <2>1, <2>2, <2>3, <2>5, <2>6, <2>8, <2>9, ProcessMoves
<1>3. CASE Watch(p) \/ FinishStart(p) \/ CloseControl(p) \/ ReleaseAuthority(p)
  <2>1. UNCHANGED <<caller, shut>> /\ excused' \in {excused, excused \union {p}} /\ managed[p].listed
    BY <1>1, <1>3 DEF Watch, Claims, FinishStart, CloseControl, ReleaseAuthority, Set, OffTheList
  <2>2. \A d \in Caller : ~Started(d, p)
    BY <1>1, <2>1 DEF StartInOrder, Started
  <2>3. PICK r \in ManagedRow :
          /\ managed' = [managed EXCEPT ![p] = r]
          /\ r.listed = managed[p].listed /\ r.life = managed[p].life
          /\ r.action \in {managed[p].action, "ended"}
          /\ \/ /\ managed[p].final = "none" /\ managed[p].life = "exited" /\ r.final = "finishing"
                /\ r.by = p /\ r.lease = managed[p].lease
             \/ /\ managed[p].final = "finishing" /\ r.final = "written" /\ r.by = managed[p].by
                /\ r.lease = managed[p].lease /\ (r.action = "ended" \/ p \in excused')
             \/ /\ managed[p].final = "written" /\ r.final = "closed" /\ r.by = managed[p].by
                /\ r.lease = managed[p].lease
             \/ /\ managed[p].final = "closed" /\ r.final = "released" /\ r.by = managed[p].by
                /\ r.lease \in {"none", "left"}
    <3>1. CASE Watch(p)
      <4> DEFINE r == [managed[p] EXCEPT !.final = "finishing", !.by = p]
      <4>1. r \in ManagedRow
        BY <1>1 DEF ManagedRow
      <4>2. QED BY ZenonT(60), <1>1, <3>1, <4>1 DEF Watch, Claims, TerminalTypes, ManagedRow
    <3>2. CASE FinishStart(p)
      <4>1. ASSUME managed' = [managed EXCEPT ![p].action = "ended", ![p].final = "written"]
            PROVE  \E r \in ManagedRow :
                     /\ managed' = [managed EXCEPT ![p] = r]
                     /\ r.listed = managed[p].listed /\ r.life = managed[p].life
                     /\ r.action = "ended"
                     /\ r.final = "written" /\ r.by = managed[p].by /\ r.lease = managed[p].lease
        <5> DEFINE r == [managed[p] EXCEPT !.action = "ended", !.final = "written"]
        <5>1. r \in ManagedRow
          BY <1>1 DEF ManagedRow
        <5>2. managed' = [managed EXCEPT ![p] = r]
          BY <1>1, <4>1 DEF TerminalTypes, ManagedRow
        <5>3. r.listed = managed[p].listed /\ r.life = managed[p].life /\ r.action = "ended"
              /\ r.final = "written" /\ r.by = managed[p].by /\ r.lease = managed[p].lease
          BY <1>1 DEF ManagedRow
        <5>4. QED BY <5>1, <5>2, <5>3
      <4>2. ASSUME Set(p, "final", "written")
            PROVE  \E r \in ManagedRow :
                     /\ managed' = [managed EXCEPT ![p] = r]
                     /\ r.listed = managed[p].listed /\ r.life = managed[p].life
                     /\ r.action = managed[p].action
                     /\ r.final = "written" /\ r.by = managed[p].by /\ r.lease = managed[p].lease
        <5> DEFINE r == [managed[p] EXCEPT !.final = "written"]
        <5>1. r \in ManagedRow
          BY <1>1 DEF ManagedRow
        <5>2. QED BY ZenonT(60), <1>1, <4>2, <5>1 DEF Set, TerminalTypes, ManagedRow
      <4>3. QED BY <3>2, <4>1, <4>2 DEF FinishStart
    <3>3. CASE CloseControl(p)
      <4> DEFINE r == [managed[p] EXCEPT !.control = FALSE, !.final = "closed"]
      <4>1. r \in ManagedRow
        BY <1>1 DEF ManagedRow
      <4>2. QED BY <1>1, <3>3, <4>1 DEF CloseControl, TerminalTypes, ManagedRow
    <3>4. CASE ReleaseAuthority(p)
      <4>1. PICK lease \in {"none", "left"} :
              managed' = [managed EXCEPT ![p].lease = lease, ![p].final = "released"]
        BY <3>4 DEF ReleaseAuthority, LeasesLeft
      <4> DEFINE r == [managed[p] EXCEPT !.lease = lease, !.final = "released"]
      <4>2. /\ r \in ManagedRow /\ r.lease = lease /\ r.final = "released" /\ r.listed = managed[p].listed
            /\ r.life = managed[p].life /\ r.action = managed[p].action /\ r.by = managed[p].by
        BY <1>1 DEF ManagedRow
      <4>3. managed' = [managed EXCEPT ![p] = r]
        BY <1>1, <4>1 DEF TerminalTypes, ManagedRow
      <4> HIDE DEF r
      <4>4. managed[p].final = "closed"
        BY <3>4 DEF ReleaseAuthority
      <4>5. QED BY <4>2, <4>3, <4>4
    <3>5. QED BY <1>3, <3>1, <3>2, <3>3, <3>4
  <2>4. managed'[p] = r
    BY <1>1, <2>3 DEF TerminalTypes
  <2>5. OnTheList(p)'
    BY <1>1, <2>1, <2>3, <2>4, CallersAreNoProcesses DEF OnTheList, Unaccounted
  <2>6. OffTheList(p)'
    BY <2>1, <2>3, <2>4 DEF OffTheList
  <2>7. QED BY <2>1, <2>2, <2>3, <2>5, <2>6, ProcessMoves
<1>4. QED BY <1>2, <1>3
\* A thread that reads, signals or closes a process on the list moves with it.
LEMMA ReaderMoves ==
  ASSUME TInv, NEW c \in Caller, NEW p \in Managed, NEW r \in ManagedRow, NEW s \in CallerRow,
         managed' = [managed EXCEPT ![p] = r], caller' = [caller EXCEPT ![c] = s],
         UNCHANGED <<shut, excused>>, managed[p].listed, r.listed,
         managed[p].final = "done" => r.final = "done",
         managed[p].life = "exited" => r.life = "exited",
         caller[c].call # "start", s.call # "start",
         caller[c].at = "finalises" => caller[c].on = p,
         s.told = caller[c].told \/ Answered(c)',
         OnTheList(p)', ReadInOrder(c)', CloseInOrder(c)'
  PROVE  TInv'
<1>1. TerminalTypes /\ TerminalTypes' /\ CallInv
  BY DEF TInv, TerminalTypes
<1>2. /\ managed'[p] = r /\ \A q \in Managed : q # p => managed'[q] = managed[q]
      /\ caller'[c] = s /\ \A d \in Caller : d # c => caller'[d] = caller[d]
  BY <1>1 DEF TerminalTypes
<1>3. \A d \in Caller : ~Started(d, p)
  BY <1>1 DEF CallInv, StartInOrder, Started
<1>4. OffTheList(p)' /\ StartInOrder(c)'
  BY <1>2 DEF OffTheList, StartInOrder
<1>5. Quiet => Quiet' /\ \A q \in Managed : managed'[q].listed => managed[q].listed
  BY <1>1, <1>2 DEF Quiet, Starting
<1>6. Answered(c)'
  BY <1>1, <1>2, <1>5 DEF CallInv, Answered
<1>7. QED BY <1>1, <1>2, <1>3, <1>4, <1>6, TheRestStands

\* Who finds that a process has exited finalises it, or waits for who does.
LEMMA RefreshKeeps ==
  ASSUME TInv, NEW c \in Caller, Refresh(c)
  PROVE  TInv'
<1>1. /\ TerminalTypes /\ caller[c] \in CallerRow /\ ReadInOrder(c) /\ CloseInOrder(c)
      /\ caller[c].call \in {"read", "close"} /\ caller[c].at = "verified" /\ UNCHANGED <<shut, excused>>
  BY DEF TInv, TerminalTypes, CallInv, Refresh
<1> PICK p \in Managed : p = caller[c].on
  BY <1>1 DEF ReadInOrder
<1>2. managed[p].listed /\ managed[p] \in ManagedRow
  BY <1>1 DEF ReadInOrder, TerminalTypes
<1>3. OnTheList(p)
  BY <1>2 DEF TInv, ListInv
<1>4. ASSUME NEW at \in {"running", "exited", "erred"}, Steps(c, at), UNCHANGED managed,
             at = "exited" => managed[p].final = "done",
             at = "running" => managed[p].life # "exited"
      PROVE  TInv'
  <2> DEFINE s == [caller[c] EXCEPT !.at = at]
  <2>1. /\ s \in CallerRow /\ s.at = at /\ s.call = caller[c].call /\ s.on = p /\ s.told = caller[c].told
        /\ s.todo = caller[c].todo /\ s.erred = caller[c].erred
    BY <1>1 DEF CallerRow, CallPlaces
  <2>2. caller' = [caller EXCEPT ![c] = s]
    BY <1>1, <1>4 DEF Steps, TerminalTypes
  <2> HIDE DEF s
  <2>3. caller'[c] = s
    BY <1>1, <2>2 DEF TerminalTypes
  <2>4. ReadInOrder(c)'
    BY <1>1, <1>2, <1>4, <2>1, <2>3 DEF ReadInOrder
  <2>5. Quiet => Quiet'
    BY <1>1, <2>1, <2>2, <2>3 DEF Quiet, Starting, TerminalTypes
  <2>6. CloseInOrder(c)'
    BY <1>1, <1>4, <2>1, <2>3, <2>5 DEF CloseInOrder
  <2>7. QED BY <1>1, <1>4, <2>1, <2>2, <2>4, <2>6, ThreadGoesOn
<1>5. ASSUME Claims(p, c), Steps(c, "finalises"), managed[p].final = "none", managed[p].life = "exited"
      PROVE  TInv'
  <2> DEFINE s == [caller[c] EXCEPT !.at = "finalises"]
             r == [managed[p] EXCEPT !.final = "finishing", !.by = c]
  <2>1. /\ s \in CallerRow /\ s.at = "finalises" /\ s.call = caller[c].call /\ s.on = p
        /\ s.told = caller[c].told /\ s.todo = caller[c].todo /\ s.erred = caller[c].erred
    BY <1>1 DEF CallerRow, CallPlaces
  <2>2. /\ r \in ManagedRow /\ r.final = "finishing" /\ r.by = c /\ r.listed /\ r.life = managed[p].life
        /\ r.lease = managed[p].lease /\ r.action = managed[p].action
    BY <1>2 DEF ManagedRow
  <2>3. caller' = [caller EXCEPT ![c] = s] /\ managed' = [managed EXCEPT ![p] = r]
    BY <1>1, <1>5 DEF Steps, Claims, TerminalTypes
  <2> HIDE DEF s, r
  <2>4. caller'[c] = s /\ managed'[p] = r /\ \A q \in Managed : q # p => managed'[q] = managed[q]
    BY <1>1, <1>2, <2>3 DEF TerminalTypes
  <2>5. OnTheList(p)'
    BY <1>1, <1>2, <1>3, <1>5, <2>1, <2>2, <2>4 DEF OnTheList, Unaccounted
  <2>6. ReadInOrder(c)'
    <3>1. \A q \in Managed : managed[q].listed => managed'[q].listed
      BY <2>2, <2>4
    <3>2. caller[c].todo \subseteq Managed
      BY <1>1 DEF CallerRow
    <3>3. QED BY <1>1, <1>2, <1>5, <2>1, <2>2, <2>4, <3>1, <3>2 DEF ReadInOrder
  <2>7. Quiet => Quiet'
    BY <1>1, <2>1, <2>3, <2>4 DEF Quiet, Starting, TerminalTypes
  <2>8. CloseInOrder(c)'
    BY <1>1, <1>2, <2>1, <2>2, <2>4, <2>7 DEF CloseInOrder
  <2>9. QED BY ZenonT(60), <1>1, <1>2, <1>5, <2>1, <2>2, <2>3, <2>5, <2>6, <2>8, ReaderMoves
<1>6. QED
  <2>1. CASE managed[p].life # "exited"
    BY <2>1, <1>4 DEF Refresh
  <2>2. CASE managed[p].life = "exited" /\ managed[p].final = "none"
    BY <2>2, <1>5 DEF Refresh
  <2>3. CASE managed[p].life = "exited" /\ managed[p].final # "none"
    BY <2>3, <1>4 DEF Refresh
  <2>4. QED BY <2>1, <2>2, <2>3

\* The end of a finalisation.
LEMMA FinalizedKeeps ==
  ASSUME TInv, NEW p \in Managed, Finalized(p)
  PROVE  TInv'
<1> PICK who : who = managed[p].by
  OBVIOUS
<1> DEFINE r == [managed[p] EXCEPT !.final = "done"]
<1>1. /\ TerminalTypes /\ managed[p] \in ManagedRow /\ OnTheList(p) /\ OffTheList(p)
      /\ managed[p].final = "released" /\ UNCHANGED <<shut, excused>>
  BY DEF TInv, TerminalTypes, ListInv, Finalized
<1>2. managed[p].listed
  BY <1>1 DEF OffTheList
<1>3. /\ r \in ManagedRow /\ r.final = "done" /\ r.by = managed[p].by /\ r.listed
      /\ r.life = managed[p].life /\ r.lease = managed[p].lease /\ r.action = managed[p].action
  BY <1>1, <1>2 DEF ManagedRow
<1>4. managed' = [managed EXCEPT ![p] = r]
  BY <1>1 DEF Finalized, Set, TerminalTypes
<1> HIDE DEF r
<1>5. managed'[p] = r /\ \A q \in Managed : q # p => managed'[q] = managed[q]
  BY <1>1, <1>4 DEF TerminalTypes
<1>6. OnTheList(p)'
  BY <1>1, <1>2, <1>3, <1>5 DEF OnTheList, Unaccounted
<1>7. OffTheList(p)'
  BY <1>3, <1>5 DEF OffTheList
<1>8. CASE who \notin Caller
  <2>1. UNCHANGED caller
    BY <1>8 DEF Finalized
  <2>2. \A d \in Caller : ~Started(d, p)
    BY <1>2 DEF TInv, CallInv, StartInOrder, Started
  <2>3. QED BY <1>1, <1>2, <1>3, <1>4, <1>6, <1>7, <2>1, <2>2, ProcessMoves
<1>9. CASE who \in Caller
  <2>1. PICK at \in {"exited", "erred"} : Steps(who, at)
    BY <1>9 DEF Finalized
  <2> DEFINE s == [caller[who] EXCEPT !.at = at]
  <2>2. /\ caller[who].call \in {"read", "close"} /\ caller[who].at = "finalises" /\ caller[who].on = p
        /\ caller[who] \in CallerRow /\ ReadInOrder(who) /\ CloseInOrder(who)
    BY <1>1, <1>9 DEF OnTheList, TInv, CallInv, TerminalTypes
  <2>3. /\ s \in CallerRow /\ s.at = at /\ s.call = caller[who].call /\ s.on = p
        /\ s.told = caller[who].told /\ s.todo = caller[who].todo /\ s.erred = caller[who].erred
    BY <2>2 DEF CallerRow, CallPlaces
  <2>4. caller' = [caller EXCEPT ![who] = s]
    BY <2>1, <1>1, <1>9 DEF Steps, TerminalTypes
  <2> HIDE DEF s
  <2>5. caller'[who] = s
    BY <1>1, <1>9, <2>4 DEF TerminalTypes
  <2>6. ReadInOrder(who)'
    <3>1. \A q \in Managed : managed[q].listed => managed'[q].listed
      BY <1>3, <1>5
    <3>2. caller[who].todo \subseteq Managed
      BY <2>2 DEF CallerRow
    <3>3. QED BY <1>1, <1>2, <1>3, <1>5, <2>2, <2>3, <2>5, <3>1, <3>2 DEF ReadInOrder
  <2>7. Quiet => Quiet'
    BY <1>1, <1>9, <2>2, <2>3, <2>4, <2>5 DEF Quiet, Starting, TerminalTypes
  <2>8. CloseInOrder(who)'
    BY <1>2, <1>3, <1>5, <2>2, <2>3, <2>5, <2>7 DEF CloseInOrder
  <2>9. caller[who].call # "start" /\ s.call # "start" /\ UNCHANGED <<shut, excused>>
    BY <1>1, <2>2, <2>3
  <2>10. managed[p].life = "exited" => r.life = "exited"
    BY <1>3
  <2>11. QED BY <1>2, <1>3, <1>4, <1>6, <1>9, <2>2, <2>3, <2>4, <2>6, <2>8, <2>9, <2>10, ReaderMoves
<1>10. QED BY <1>8, <1>9
\* A signal ends the life of a process or leaves it, and never brings it back.
LEMMA DispatchKeeps ==
  ASSUME TInv, NEW c \in Caller, Dispatch(c)
  PROVE  TInv'
<1>1. /\ TerminalTypes /\ caller[c] \in CallerRow /\ ReadInOrder(c)
      /\ caller[c].call = "signal" /\ caller[c].at = "dispatches" /\ UNCHANGED <<shut, excused>>
  BY DEF TInv, TerminalTypes, CallInv, Dispatch, CallAt
<1> PICK p \in Managed : p = caller[c].on
  BY <1>1 DEF ReadInOrder
<1>2. managed[p].listed /\ managed[p] \in ManagedRow /\ OnTheList(p)
  BY <1>1 DEF ReadInOrder, TerminalTypes, TInv, ListInv
<1>3. ASSUME NEW what \in {"already-exited", "dispatched", "unknown"}, Told(c, what, p),
             NEW life \in {managed[p].life, "killed"}, managed[p].life = "exited" => life = "exited",
             NEW can \in BOOLEAN,
             managed' = [managed EXCEPT ![p] = [managed[p] EXCEPT !.life = life, !.cancellable = can]]
      PROVE  TInv'
  <2> DEFINE r == [managed[p] EXCEPT !.life = life, !.cancellable = can]
             s == AtRest([what |-> what, of |-> p])
  <2>1. /\ r \in ManagedRow /\ r.life = life /\ r.listed /\ r.final = managed[p].final /\ r.by = managed[p].by
        /\ r.lease = managed[p].lease /\ r.action = managed[p].action
    <3>1. r \in [life : {life}, lease : {managed[p].lease}, action : {managed[p].action}, listed : {managed[p].listed},
                 final : {managed[p].final}, by : {managed[p].by}, control : {managed[p].control}, cancellable : {can}]
      BY ZenonT(60), <1>2 DEF ManagedRow
    <3>2. r \in ManagedRow
      BY ZenonT(60), <1>2, <3>1 DEF ManagedRow
    <3>3. QED BY <1>2, <3>1, <3>2
  <2>2. s \in CallerRow /\ caller' = [caller EXCEPT ![c] = s] /\ caller'[c] = s
    BY <1>1, <1>3, Tells DEF AnswerWords
  <2>3. s.call = "none" /\ s.at = "none" /\ s.told.what = what
    BY DEF AtRest
  <2>4. managed' = [managed EXCEPT ![p] = r]
    BY <1>3
  <2> HIDE DEF r, s
  <2>5. managed'[p] = r
    BY <1>1, <2>4 DEF TerminalTypes
  <2>6. \A d \in Caller : d # c => caller'[d] = caller[d]
    BY <1>1, <2>2 DEF TerminalTypes
  <2>7. OnTheList(p)'
    <3>1. managed[p].by \in Caller /\ managed[p].final \notin {"none", "done"} => managed[p].by # c
      BY <1>1, <1>2 DEF OnTheList
    <3>2. managed'[p].final \notin {"none", "done"} /\ managed'[p].by \in Caller =>
            LET d == managed[p].by
            IN  caller'[d].call \in {"read", "close"} /\ caller'[d].at = "finalises" /\ caller'[d].on = p
      BY <1>2, <2>1, <2>5, <2>6, <3>1 DEF OnTheList
    <3>3. managed[p].life = "exited" => managed'[p].life = "exited"
      BY <1>3, <2>1, <2>5
    <3>4. managed[p].life # "none" => managed'[p].life # "none"
      BY <1>3, <2>1, <2>5
    <3>5. Unaccounted(p)' <=> Unaccounted(p)
      BY <1>1, <2>1, <2>5 DEF Unaccounted
    <3>6. QED BY <1>1, <1>2, <2>1, <2>5, <3>2, <3>3, <3>4, <3>5 DEF OnTheList
  <2>8. ReadInOrder(c)' /\ CloseInOrder(c)'
    BY <2>2, <2>3 DEF ReadInOrder, CloseInOrder
  <2>9. Answered(c)'
    BY <2>2, <2>3 DEF Answered
  <2>10. QED BY ZenonT(60), <1>1, <1>2, <1>3, <2>1, <2>2, <2>3, <2>4, <2>7, <2>8, <2>9, ReaderMoves
<1>4. CASE Told(c, "already-exited", p) /\ UNCHANGED managed
  BY <1>1, <1>4, ThreadAnswers DEF AnswerWords
<1>5. ASSUME NEW life \in (IF managed[p].life = "runs" THEN {"runs", "killed"} ELSE {managed[p].life}),
             managed' = [managed EXCEPT ![p].life = life], Told(c, "dispatched", p)
      PROVE  TInv'
  <2>1. managed' = [managed EXCEPT ![p] = [managed[p] EXCEPT !.life = life, !.cancellable = managed[p].cancellable]]
    BY <1>1, <1>2, <1>5 DEF TerminalTypes, ManagedRow
  <2>2. managed[p].cancellable \in BOOLEAN
    BY <1>2 DEF ManagedRow
  <2>3. QED BY <1>3, <1>5, <2>1, <2>2
<1>6. ASSUME NEW life \in (IF managed[p].life = "runs" THEN {"runs", "killed"} ELSE {managed[p].life}),
             managed' = [managed EXCEPT ![p].life = life, ![p].cancellable = FALSE], Told(c, "unknown", p)
      PROVE  TInv'
  <2>1. managed' = [managed EXCEPT ![p] = [managed[p] EXCEPT !.life = life, !.cancellable = FALSE]]
    BY <1>1, <1>2, <1>6 DEF TerminalTypes, ManagedRow
  <2>2. QED BY <1>3, <1>6, <2>1
<1>7. QED BY <1>4, <1>5, <1>6 DEF Dispatch, Set

\* What close has left to see are processes on the list.
LEMMA CloseOneKeeps ==
  ASSUME TInv, NEW c \in Caller, CloseOne(c)
  PROVE  TInv'
<1>1. /\ TerminalTypes /\ caller[c] \in CallerRow /\ ReadInOrder(c) /\ CloseInOrder(c)
      /\ caller[c].call = "close" /\ caller[c].at = "next" /\ UNCHANGED <<shut, excused>>
  BY DEF TInv, TerminalTypes, CallInv, CloseOne, CallAt
<1>2. PICK p \in caller[c].todo :
         LET next == [caller[c] EXCEPT !.todo = @ \ {p}]
         IN  \/ /\ MayBeTrusted(p) /\ managed[p].life # "exited"
                /\ Set(p, "life", "exited")
                /\ caller' = [caller EXCEPT ![c] = [next EXCEPT !.at = "verified", !.on = p]]
             \/ /\ MayBeTrusted(p) /\ managed[p].life = "exited"
                /\ caller' = [caller EXCEPT ![c] = [next EXCEPT !.at = "verified", !.on = p]]
                /\ UNCHANGED managed
             \/ /\ managed[p].life # "exited" \/ ~Trusted(p)
                /\ \/ UNCHANGED managed
                   \/ MayBeTrusted(p) /\ managed[p].life # "exited" /\ Set(p, "life", "killed")
                /\ caller' = [caller EXCEPT ![c] = [next EXCEPT !.erred = TRUE]]
  BY DEF CloseOne
<1>3. p \in Managed /\ managed[p].listed /\ managed[p] \in ManagedRow /\ OnTheList(p)
  BY <1>1 DEF ReadInOrder, TerminalTypes, TInv, ListInv, CallerRow
<1>4. ASSUME NEW at \in {"verified", "next"}, NEW on \in {p, caller[c].on}, NEW erred \in BOOLEAN,
             NEW life \in {managed[p].life, "exited", "killed"},
             at = "verified" => on = p /\ life = "exited" /\ erred = caller[c].erred, at = "next" => erred,
             managed[p].life = "exited" => life = "exited",
             managed' = [managed EXCEPT ![p] = [managed[p] EXCEPT !.life = life]],
             NEW s \in CallerRow, caller' = [caller EXCEPT ![c] = s],
             s.call = "close" /\ s.at = at /\ s.on = on /\ s.erred = erred,
             s.todo = caller[c].todo \ {p} /\ s.told = caller[c].told
      PROVE  TInv'
  <2> DEFINE r == [managed[p] EXCEPT !.life = life]
  <2>1. /\ r \in ManagedRow /\ r.life = life /\ r.listed /\ r.final = managed[p].final /\ r.by = managed[p].by
        /\ r.lease = managed[p].lease /\ r.action = managed[p].action
    BY <1>3 DEF ManagedRow
  <2>2. managed' = [managed EXCEPT ![p] = r]
    BY <1>4
  <2> HIDE DEF r
  <2>3. managed'[p] = r /\ \A q \in Managed : q # p => managed'[q] = managed[q]
    BY <1>1, <1>3, <2>2 DEF TerminalTypes
  <2>4. caller'[c] = s /\ \A d \in Caller : d # c => caller'[d] = caller[d]
    BY <1>1, <1>4 DEF TerminalTypes
  <2>5. OnTheList(p)'
    <3>1. managed[p].by \in Caller /\ managed[p].final \notin {"none", "done"} => managed[p].by # c
      BY <1>1, <1>3 DEF OnTheList
    <3>2. QED BY <1>1, <1>3, <1>4, <2>1, <2>3, <2>4, <3>1 DEF OnTheList, Unaccounted, ManagedRow
  <2>6. ReadInOrder(c)'
    <3>1. \A q \in Managed : managed[q].listed => managed'[q].listed
      BY <2>1, <2>3
    <3>2. caller[c].todo \subseteq Managed
      BY <1>1 DEF CallerRow
    <3>3. QED BY <1>1, <1>3, <1>4, <2>1, <2>3, <2>4, <3>1, <3>2 DEF ReadInOrder
  <2>7. Quiet => Quiet'
    BY <1>1, <1>4, <2>4 DEF Quiet, Starting
  <2>8. CloseInOrder(c)'
    BY <1>1, <1>3, <1>4, <2>1, <2>3, <2>4, <2>7 DEF CloseInOrder
  <2>9. QED BY <1>1, <1>3, <1>4, <2>1, <2>2, <2>5, <2>6, <2>8, ReaderMoves
<1> DEFINE next == [caller[c] EXCEPT !.todo = @ \ {p}]
           chosen == [next EXCEPT !.at = "verified", !.on = p]
           failed == [next EXCEPT !.erred = TRUE]
<1>5. /\ chosen \in CallerRow /\ chosen.call = "close" /\ chosen.at = "verified" /\ chosen.on = p
      /\ chosen.erred = caller[c].erred /\ chosen.todo = caller[c].todo \ {p}
      /\ chosen.told = caller[c].told
  BY <1>1, <1>3 DEF CallerRow, CallPlaces
<1>6. /\ failed \in CallerRow /\ failed.call = "close" /\ failed.at = "next" /\ failed.on = caller[c].on
      /\ failed.erred = TRUE /\ failed.todo = caller[c].todo \ {p}
      /\ failed.told = caller[c].told
  BY <1>1, <1>3 DEF CallerRow, CallPlaces
<1>7. managed = [managed EXCEPT ![p] = [managed[p] EXCEPT !.life = managed[p].life]]
  BY <1>1, <1>3 DEF TerminalTypes, ManagedRow
<1>8. CASE /\ caller' = [caller EXCEPT ![c] = chosen]
           /\ Set(p, "life", "exited") \/ (managed[p].life = "exited" /\ UNCHANGED managed)
  <2>1. managed' = [managed EXCEPT ![p] = [managed[p] EXCEPT !.life = "exited"]]
    BY <1>1, <1>3, <1>7, <1>8 DEF Set, TerminalTypes
  <2> HIDE DEF chosen
  <2>2. caller[c].erred \in BOOLEAN
    BY <1>1 DEF CallerRow
  <2>3. QED BY <1>4, <1>5, <1>8, <2>1, <2>2
<1>9. CASE /\ caller' = [caller EXCEPT ![c] = failed]
           /\ \/ UNCHANGED managed
              \/ managed[p].life # "exited" /\ managed' = [managed EXCEPT ![p].life = "killed"]
  <2>1. PICK life \in {managed[p].life, "killed"} :
           /\ managed[p].life = "exited" => life = "exited"
           /\ managed' = [managed EXCEPT ![p] = [managed[p] EXCEPT !.life = life]]
    BY <1>1, <1>3, <1>7, <1>9 DEF TerminalTypes
  <2> HIDE DEF failed
  <2>2. QED BY <1>4, <1>6, <1>9, <2>1
<1>10. QED BY <1>2, <1>8, <1>9 DEF Set
\* A thread that starts a process moves with it.
LEMMA StarterMoves ==
  ASSUME TInv, NEW c \in Caller, NEW p \in Managed, NEW r \in ManagedRow, NEW s \in CallerRow,
         managed' = [managed EXCEPT ![p] = r], caller' = [caller EXCEPT ![c] = s],
         UNCHANGED shut, excused' \in {excused, excused \union {p}}, Started(c, p),
         \/ s.call = "start" /\ s.on = p /\ s.told = caller[c].told
         \/ s.call = "none" /\ s.at = "none" /\ (s.told # NoProcess => s.told.what \in {"raised", "running"}),
         r.final = "none", r.lease # "dead", r.lease = "lapsed" => p \in excused',
         r.listed => r.life # "none" /\ r.action # "none" /\ r.lease \in {"held", "lapsed"},
         OffTheList(p)', StartInOrder(c)'
  PROVE  TInv'
<1>1. TerminalTypes /\ TerminalTypes' /\ CallInv
  BY DEF TInv, TerminalTypes
<1>2. /\ managed'[p] = r /\ \A q \in Managed : q # p => managed'[q] = managed[q]
      /\ caller'[c] = s /\ \A d \in Caller : d # c => caller'[d] = caller[d]
  BY <1>1 DEF TerminalTypes
<1>3. StartInOrder(c) /\ ReadInOrder(c) /\ Answered(c)
  BY <1>1 DEF CallInv
<1>4. ~managed[p].listed /\ \A d \in Caller : d # c => ~Started(d, p)
  BY <1>3 DEF StartInOrder, Started
<1>5. OnTheList(p)'
  BY <1>2 DEF OnTheList
<1>6. ReadInOrder(c)' /\ CloseInOrder(c)'
  BY <1>2 DEF ReadInOrder, CloseInOrder
<1>7. Answered(c)'
  <2>1. CASE s.call = "none"
    BY <1>2, <2>1 DEF Answered
  <2>2. CASE s.call = "start"
    <3>1. ~Quiet
      BY DEF Quiet, Starting, Started
    <3>2. caller[c].told # NoProcess => caller[c].told.what # "closed"
      BY <1>3, <3>1 DEF Answered
    <3>3. caller[c].told # NoProcess /\ caller[c].told.what = "exited" => caller[c].told.of # p
      BY <1>3, <1>4 DEF Answered
    <3>4. QED BY <1>2, <1>3, <2>2, <3>2, <3>3 DEF Answered
  <2>3. QED BY <2>1, <2>2
<1>8. caller[c].at # "finalises"
  BY <1>3 DEF StartInOrder, Started
<1>9. caller[c].call = "start" /\ caller[c].on = p
  BY DEF Started
<1>10. QED BY <1>1, <1>2, <1>4, <1>5, <1>6, <1>7, <1>8, <1>9, TheRestStands
\* A start that goes on, fails or has put its process on the list.
LEMMA StartMoves ==
  ASSUME TInv, NEW c \in Caller, NEW p \in Managed, NEW r \in ManagedRow, NEW s \in CallerRow,
         managed' = [managed EXCEPT ![p] = r], caller' = [caller EXCEPT ![c] = s],
         UNCHANGED shut, excused' \in {excused, excused \union {p}}, Started(c, p),
         r.final = "none", r.lease # "dead", r.lease = "lapsed" => p \in excused',
         \/ /\ s.call = "start" /\ s.on = p /\ s.told = caller[c].told
            /\ s.at \in {"spawns", "claims", "enlists", "fails"}
            /\ ~r.listed /\ r.action = "running"
            /\ s.at \in {"claims", "enlists"} => r.life # "none"
            /\ s.at = "enlists" => r.lease \in {"held", "lapsed"}
         \/ /\ s.call = "none" /\ s.at = "none" /\ s.told.what \in {"raised", "running"}
            /\ \/ /\ ~r.listed /\ r.life # "runs" /\ (r.action = "running" => p \in excused')
                  /\ r.lease \in {"none", "left"}
               \/ r.listed /\ r.life # "none" /\ r.action # "none" /\ r.lease \in {"held", "lapsed"}
  PROVE  TInv'
<1>1. TerminalTypes /\ StartInOrder(c)
  BY DEF TInv, CallInv
<1>2. managed'[p] = r /\ caller'[c] = s /\ \A d \in Caller : d # c => caller'[d] = caller[d]
  BY <1>1 DEF TerminalTypes
<1>3. \A d \in Caller : d # c => ~Started(d, p)
  BY <1>1 DEF StartInOrder, Started
<1>4. OffTheList(p)'
  BY <1>2 DEF OffTheList, Started, Unaccounted
<1>5. StartInOrder(c)'
  BY <1>2, <1>3 DEF StartInOrder, Started
<1>6. QED BY <1>4, <1>5, StarterMoves

LEMMA StartCallKeeps ==
  ASSUME TInv, NEW c \in Caller, NEW p \in Managed, StartCall(c, p)
  PROVE  TInv'
<1>1. /\ TerminalTypes /\ caller[c] \in CallerRow /\ managed[p] \in ManagedRow
      /\ ReadInOrder(c) /\ Answered(c) /\ OnTheList(p)
      /\ caller[c].call = "none" /\ managed[p] = NotStarted /\ shut = "open"
      /\ UNCHANGED <<managed, shut, excused>>
  BY DEF TInv, TerminalTypes, CallInv, ListInv, StartCall
<1> DEFINE s == [AtRest(NoProcess) EXCEPT !.call = "start", !.at = "called", !.on = p]
<1>2. s \in CallerRow /\ s.call = "start" /\ s.at = "called" /\ s.on = p /\ s.told = NoProcess
  BY DEF CallerRow, CallPlaces, AtRest
<1>3. caller' = [caller EXCEPT ![c] = s]
  BY DEF StartCall, Enters
<1> HIDE DEF s
<1>4. caller'[c] = s /\ \A d \in Caller : d # c => caller'[d] = caller[d]
  BY <1>1, <1>3 DEF TerminalTypes
<1>5. TerminalTypes'
  BY <1>1, <1>2, <1>3 DEF TerminalTypes
<1>6. \A d \in Caller : ~Started(d, p)
  BY DEF StartCall, Starting, Started
<1>7. OnTheList(p)'
  BY <1>1 DEF OnTheList, Unaccounted, NotStarted
<1>8. OffTheList(p)'
  BY <1>1, <1>2, <1>4 DEF OffTheList, NotStarted, Started
<1>9. StartInOrder(c)'
  BY <1>1, <1>2, <1>4, <1>6 DEF StartInOrder, Started, NotStarted
<1>10. ReadInOrder(c)' /\ CloseInOrder(c)'
  BY <1>2, <1>4 DEF ReadInOrder, CloseInOrder
<1>11. Answered(c)'
  BY <1>1, <1>2, <1>4 DEF Answered, Quiet
<1>12. caller[c].at = "none"
  BY <1>1 DEF ReadInOrder
<1>13. QED BY <1>1, <1>2, <1>4, <1>5, <1>6, <1>7, <1>8, <1>9, <1>10, <1>11, <1>12, TheRestStands

\* The rest of a start.
LEMMA StartStepKeeps ==
  ASSUME TInv, NEW c \in Caller,
         AuthorizeStart(c) \/ SpawnManaged(c) \/ ClaimAuthority(c) \/ StartFails(c) \/ Enlist(c)
  PROVE  TInv'
<1>1. TerminalTypes /\ caller[c] \in CallerRow /\ StartInOrder(c) /\ caller[c].call = "start" /\ UNCHANGED shut
  BY DEF TInv, TerminalTypes, CallInv, AuthorizeStart, SpawnManaged, ClaimAuthority, StartFails, Enlist, CallAt
<1> PICK p \in Managed : p = caller[c].on
  BY <1>1 DEF StartInOrder
<1>2. Started(c, p) /\ managed[p] \in ManagedRow /\ OnTheList(p)
  BY <1>1 DEF Started, TerminalTypes, TInv, ListInv
<1>3. /\ ~managed[p].listed /\ managed[p].final = "none" /\ managed[p].lease # "dead"
      /\ managed[p].lease = "lapsed" => p \in excused
      /\ caller[c].at = "called" => managed[p] = NotStarted
      /\ caller[c].at # "called" => managed[p].action = "running"
      /\ caller[c].at \in {"claims", "enlists"} => managed[p].life # "none"
      /\ caller[c].at = "enlists" => managed[p].lease \in {"held", "lapsed"}
  BY <1>1, <1>2 DEF StartInOrder, OnTheList
<1>4. managed = [managed EXCEPT ![p] = managed[p]]
  BY <1>1 DEF TerminalTypes
<1>5. ASSUME NEW at \in {"spawns", "claims", "enlists", "fails"}, Steps(c, at)
      PROVE  \E s \in CallerRow : /\ caller' = [caller EXCEPT ![c] = s]
                                  /\ s.call = "start" /\ s.on = p /\ s.told = caller[c].told /\ s.at = at
  <2> DEFINE s == [caller[c] EXCEPT !.at = at]
  <2>1. s \in CallerRow /\ s.call = "start" /\ s.on = p /\ s.told = caller[c].told /\ s.at = at
    BY <1>1 DEF CallerRow, CallPlaces
  <2>2. caller' = [caller EXCEPT ![c] = s]
    BY <1>1, <1>5 DEF Steps, TerminalTypes
  <2>3. QED BY <2>1, <2>2
<1>6. ASSUME NEW what \in {"raised", "running"}, Told(c, what, p)
      PROVE  \E s \in CallerRow : /\ caller' = [caller EXCEPT ![c] = s]
                                  /\ s.call = "none" /\ s.at = "none" /\ s.told.what = what
  <2> DEFINE s == AtRest([what |-> what, of |-> p])
  <2>1. s \in CallerRow /\ caller' = [caller EXCEPT ![c] = s]
    BY <1>1, <1>6, Tells DEF AnswerWords
  <2>2. s.call = "none" /\ s.at = "none" /\ s.told.what = what
    BY DEF AtRest
  <2>3. QED BY <2>1, <2>2
<1>7. CASE AuthorizeStart(c)
  <2>1. managed[p] = NotStarted /\ excused' \in {excused, excused \union {p}}
    BY <1>3, <1>7 DEF AuthorizeStart, CallAt
  <2>2. managed[p].life = "none" /\ managed[p].lease = "none" /\ managed[p].action = "none"
    BY <2>1 DEF NotStarted
  <2>3. CASE Told(c, "raised", p) /\ UNCHANGED <<managed, excused>>
    <3>1. PICK s \in CallerRow : /\ caller' = [caller EXCEPT ![c] = s]
                                 /\ s.call = "none" /\ s.at = "none" /\ s.told.what = "raised"
      BY <1>6, <2>3
    <3>2. managed' = [managed EXCEPT ![p] = managed[p]]
      BY <1>4, <2>3
    <3>3. QED BY <1>1, <1>2, <1>3, <2>1, <2>3, <2>2, <3>1, <3>2, StartMoves
  <2>4. CASE Set(p, "action", "running") /\ (Steps(c, "spawns") \/ (Told(c, "raised", p) /\ p \in excused'))
    <3> DEFINE r == [managed[p] EXCEPT !.action = "running"]
    <3>1. /\ r \in ManagedRow /\ r.life = "none" /\ r.lease = "none" /\ ~r.listed /\ r.final = "none"
          /\ r.action = "running"
      BY <1>2, <1>3, <2>2 DEF ManagedRow
    <3>2. managed' = [managed EXCEPT ![p] = r]
      BY <1>1, <2>4 DEF Set, TerminalTypes
    <3> HIDE DEF r
    <3>3. CASE Steps(c, "spawns")
      <4>1. PICK s \in CallerRow : /\ caller' = [caller EXCEPT ![c] = s] /\ s.call = "start"
                                   /\ s.on = p /\ s.told = caller[c].told /\ s.at = "spawns"
        BY <1>5, <3>3
      <4>2. QED BY <1>1, <1>2, <2>1, <3>1, <3>2, <4>1, StartMoves
    <3>4. CASE Told(c, "raised", p) /\ p \in excused'
      <4>1. PICK s \in CallerRow : /\ caller' = [caller EXCEPT ![c] = s]
                                   /\ s.call = "none" /\ s.at = "none" /\ s.told.what = "raised"
        BY <1>6, <3>4
      <4>2. QED BY <1>1, <1>2, <2>1, <3>1, <3>2, <3>4, <4>1, StartMoves
    <3>5. QED BY <2>4, <3>3, <3>4
  <2>5. QED BY <1>7, <2>3, <2>4 DEF AuthorizeStart
<1>8. CASE SpawnManaged(c) \/ ClaimAuthority(c)
  <2>1. caller[c].at \in {"spawns", "claims"} /\ UNCHANGED excused
    BY <1>8 DEF SpawnManaged, ClaimAuthority, CallAt
  <2>2. CASE Steps(c, "fails") /\ UNCHANGED managed
    <3>1. PICK s \in CallerRow : /\ caller' = [caller EXCEPT ![c] = s] /\ s.call = "start"
                                 /\ s.on = p /\ s.told = caller[c].told /\ s.at = "fails"
      BY <1>5, <2>2
    <3>2. managed' = [managed EXCEPT ![p] = managed[p]]
      BY <1>4, <2>2
    <3>3. managed[p].action = "running"
      BY <1>3, <2>1
    <3>4. QED BY <1>1, <1>2, <1>3, <2>1, <3>1, <3>2, <3>3, StartMoves
  <2>3. CASE SpawnManaged(c) /\ Steps(c, "claims")
             /\ managed' = [managed EXCEPT ![p].life = "runs", ![p].control = TRUE]
    <3> DEFINE r == [managed[p] EXCEPT !.life = "runs", !.control = TRUE]
    <3>1. /\ r \in ManagedRow /\ r.life = "runs" /\ r.lease = managed[p].lease /\ ~r.listed
          /\ r.final = "none" /\ r.action = "running"
      BY <1>2, <1>3, <2>1 DEF ManagedRow
    <3>2. managed' = [managed EXCEPT ![p] = r]
      BY <1>1, <1>2, <2>3 DEF TerminalTypes, ManagedRow
    <3> HIDE DEF r
    <3>3. PICK s \in CallerRow : /\ caller' = [caller EXCEPT ![c] = s] /\ s.call = "start"
                                 /\ s.on = p /\ s.told = caller[c].told /\ s.at = "claims"
      BY <1>5, <2>3
    <3>4. QED BY <1>1, <1>2, <1>3, <2>1, <3>1, <3>2, <3>3, StartMoves
  <2>4. ASSUME ClaimAuthority(c), Set(p, "lease", "held"), NEW at \in {"enlists", "fails"}, Steps(c, at)
        PROVE  TInv'
    <3> DEFINE r == [managed[p] EXCEPT !.lease = "held"]
    <3>1. /\ r \in ManagedRow /\ r.life = managed[p].life /\ r.lease = "held" /\ ~r.listed
          /\ r.final = "none" /\ r.action = "running"
      BY <1>2, <1>3, <2>1 DEF ManagedRow
    <3>2. managed' = [managed EXCEPT ![p] = r]
      BY <1>1, <2>4 DEF Set, TerminalTypes
    <3> HIDE DEF r
    <3>3. PICK s \in CallerRow : /\ caller' = [caller EXCEPT ![c] = s] /\ s.call = "start"
                                 /\ s.on = p /\ s.told = caller[c].told /\ s.at = at
      BY <1>5, <2>4
    <3>4. r.life # "none"
      BY <1>3, <2>4, <3>1 DEF ClaimAuthority, CallAt
    <3>5. QED BY <1>1, <1>2, <1>3, <2>1, <3>1, <3>2, <3>3, <3>4, StartMoves
  <2>5. QED
    <3>1. CASE SpawnManaged(c)
      BY <2>2, <2>3, <3>1 DEF SpawnManaged
    <3>2. CASE ClaimAuthority(c)
      BY <2>2, <2>4, <3>2 DEF ClaimAuthority, Steps
    <3>3. QED BY <1>8, <3>1, <3>2
<1>9. CASE StartFails(c)
  <2>1. PICK life \in (IF managed[p].life = "runs" THEN {"exited", "killed"} ELSE {managed[p].life}),
             written \in BOOLEAN, lease \in {"none", "left"} :
           /\ managed' = [managed EXCEPT ![p].life = life, ![p].lease = lease, ![p].control = FALSE,
                                         ![p].action = IF written THEN "ended" ELSE @]
           /\ excused' = IF written THEN excused ELSE excused \union {p}
    BY ZenonT(60), <1>9 DEF StartFails, LeasesLeft
  <2> DEFINE r == [managed[p] EXCEPT !.life = life, !.lease = lease, !.control = FALSE,
                                     !.action = IF written THEN "ended" ELSE @]
  <2>2. r \in [life : {life}, lease : {lease}, action : {IF written THEN "ended" ELSE managed[p].action},
               listed : {managed[p].listed}, final : {managed[p].final}, by : {managed[p].by},
               control : {FALSE}, cancellable : {managed[p].cancellable}]
    BY ZenonT(60), <1>2 DEF ManagedRow
  <2>3. managed' = [managed EXCEPT ![p] = r]
    BY <1>1, <1>2, <2>1 DEF TerminalTypes, ManagedRow
  <2> HIDE DEF r
  <2>4. r \in ManagedRow
    BY ZenonT(60), <1>2, <2>2 DEF ManagedRow
  <2>5. PICK s \in CallerRow : /\ caller' = [caller EXCEPT ![c] = s]
                               /\ s.call = "none" /\ s.at = "none" /\ s.told.what = "raised"
    BY <1>6, <1>9 DEF StartFails
  <2>6. /\ ~r.listed /\ r.life # "runs" /\ (r.action = "running" => p \in excused')
        /\ r.final = "none" /\ r.lease \in {"none", "left"}
    BY <1>3, <2>1, <2>2
  <2>7. excused' \in {excused, excused \union {p}}
    BY <2>1
  <2>8. QED BY <1>1, <1>2, <2>3, <2>4, <2>5, <2>6, <2>7, StartMoves
<1>10. CASE Enlist(c)
  <2> DEFINE r == [managed[p] EXCEPT !.listed = TRUE]
  <2>1. /\ r \in ManagedRow /\ r.life = managed[p].life /\ r.lease = managed[p].lease /\ r.listed
        /\ r.final = "none" /\ r.action = managed[p].action
    BY <1>2, <1>3 DEF ManagedRow
  <2>2. managed' = [managed EXCEPT ![p] = r] /\ UNCHANGED excused /\ caller[c].at = "enlists"
    BY <1>1, <1>10 DEF Enlist, Set, CallAt, TerminalTypes
  <2> HIDE DEF r
  <2>3. PICK answer \in {"running", "raised"} : Told(c, answer, p)
    BY <1>10 DEF Enlist
  <2>4. PICK s \in CallerRow : /\ caller' = [caller EXCEPT ![c] = s]
                               /\ s.call = "none" /\ s.at = "none" /\ s.told.what = answer
    BY <1>6, <2>3
  <2>5. r.life # "none" /\ r.action # "none" /\ r.lease \in {"held", "lapsed"}
    BY <1>3, <2>1, <2>2
  <2>6. QED BY <1>1, <1>2, <1>3, <2>1, <2>2, <2>4, <2>5, StartMoves
<1>11. QED BY <1>7, <1>8, <1>9, <1>10
\* A manager that dies leaves nothing on the list, and nobody in a call.
LEMMA ManagerDiesKeeps ==
  ASSUME TInv, ManagerDies
  PROVE  TInv'
<1>1. TerminalTypes /\ \A p \in Managed : managed[p] \in ManagedRow
  BY DEF TInv, TerminalTypes
<1>2. ASSUME NEW p \in Managed
      PROVE  /\ managed'[p] \in ManagedRow /\ managed'[p].life # "runs" /\ managed'[p].lease \in {"none", "dead"}
             /\ ~managed'[p].listed /\ managed'[p].final \in {"none", "done"}
             /\ managed'[p].action = managed[p].action
  <2>1. CASE managed[p] = NotStarted
    <3>1. managed'[p] = NotStarted
      BY <2>1 DEF ManagerDies
    <3>2. NotStarted.life = "none" /\ NotStarted.lease = "none" /\ ~NotStarted.listed /\ NotStarted.final = "none"
      BY DEF NotStarted
    <3>3. managed'[p] \in ManagedRow
      BY <1>1, <2>1, <3>1
    <3>4. QED BY <2>1, <3>1, <3>2, <3>3
  <2>2. CASE managed[p] # NotStarted
    <3> DEFINE r == [managed[p] EXCEPT !.life = IF @ = "runs" THEN "killed" ELSE @, !.listed = FALSE,
                                       !.control = FALSE, !.final = "done",
                                       !.lease = IF @ = "none" THEN @ ELSE "dead"]
    <3>1. r \in [life : {IF managed[p].life = "runs" THEN "killed" ELSE managed[p].life},
                 lease : {IF managed[p].lease = "none" THEN "none" ELSE "dead"},
                 action : {managed[p].action}, listed : {FALSE}, final : {"done"}, by : {managed[p].by},
                 control : {FALSE}, cancellable : {managed[p].cancellable}]
      BY ZenonT(60), <1>1 DEF ManagedRow
    <3>2. managed'[p] = r
      BY <2>2 DEF ManagerDies
    <3> HIDE DEF r
    <3>3. QED BY <1>1, <3>1, <3>2 DEF ManagedRow
  <2>3. QED BY <2>1, <2>2
<1>3. /\ \A c \in Caller : /\ caller'[c] \in CallerRow /\ caller'[c].call = "none" /\ caller'[c].at = "none"
                           /\ caller'[c].told = NoProcess
      /\ DOMAIN caller' = Caller /\ caller' = [c \in Caller |-> caller'[c]]
  <2>1. AtRest(NoProcess) \in CallerRow
    BY DEF AtRest, CallerRow, CallPlaces
  <2>2. AtRest(NoProcess).call = "none" /\ AtRest(NoProcess).at = "none" /\ AtRest(NoProcess).told = NoProcess
    BY DEF AtRest
  <2> HIDE DEF AtRest
  <2>3. caller' = [c \in Caller |-> AtRest(NoProcess)]
    BY DEF ManagerDies
  <2>4. QED BY <2>1, <2>2, <2>3
<1>4. shut' = "dead" /\ \A p \in Managed : managed[p].action = "running" => p \in excused'
  BY DEF ManagerDies
<1>5. TerminalTypes'
  <2>1. managed' = [p \in Managed |-> managed'[p]]
    BY DEF ManagerDies
  <2>2. excused' \subseteq Managed
    BY <1>1 DEF ManagerDies, TerminalTypes
  <2>3. QED BY <1>2, <1>3, <1>4, <2>1, <2>2 DEF TerminalTypes
<1>6. ListInv'
  BY <1>2, <1>4 DEF ListInv, OnTheList, OffTheList, Unaccounted
<1>7. CallInv'
  BY <1>3 DEF CallInv, StartInOrder, ReadInOrder, CloseInOrder, Answered
<1>8. QED BY <1>5, <1>6, <1>7 DEF TInv

LEMMA RecoverKeeps ==
  ASSUME TInv, RecoverDeadAuthority
  PROVE  TInv'
<1>1. /\ TerminalTypes /\ ListInv /\ CallInv /\ \A p \in Managed : managed[p] \in ManagedRow
      /\ UNCHANGED <<caller, excused>> /\ shut = "dead" /\ shut' = "open"
  BY DEF TInv, TerminalTypes, RecoverDeadAuthority
<1>2. ASSUME NEW p \in Managed
      PROVE  /\ managed'[p] \in ManagedRow /\ managed'[p].life = managed[p].life
             /\ managed'[p].listed = managed[p].listed /\ managed'[p].final = managed[p].final
             /\ managed'[p].action = managed[p].action /\ managed'[p].by = managed[p].by
             /\ managed'[p].lease = IF managed[p].lease = "dead" THEN "none" ELSE managed[p].lease
             /\ managed[p].lease # "dead" => managed'[p] = managed[p]
  <2> DEFINE r == [managed[p] EXCEPT !.lease = IF @ = "dead" THEN "none" ELSE @]
  <2>1. managed'[p] = r
    BY DEF RecoverDeadAuthority
  <2>2. /\ r \in ManagedRow /\ r.life = managed[p].life /\ r.listed = managed[p].listed
        /\ r.final = managed[p].final /\ r.action = managed[p].action /\ r.by = managed[p].by
        /\ r.lease = IF managed[p].lease = "dead" THEN "none" ELSE managed[p].lease
        /\ managed[p].lease # "dead" => r = managed[p]
    BY <1>1 DEF ManagedRow
  <2> HIDE DEF r
  <2>3. QED BY <2>1, <2>2
<1>3. TerminalTypes'
  <2>1. managed' = [p \in Managed |-> managed'[p]]
    BY DEF RecoverDeadAuthority
  <2>2. QED BY <1>1, <1>2, <2>1 DEF TerminalTypes
<1>4. \A c \in Caller, p \in Managed : Started(c, p)' <=> Started(c, p)
  BY <1>1 DEF Started
<1>5. ASSUME NEW p \in Managed PROVE OnTheList(p)' /\ OffTheList(p)'
  <2>1. OnTheList(p)'
    BY <1>1, <1>2 DEF ListInv, OnTheList, Unaccounted
  <2>2. OffTheList(p)'
    BY <1>1, <1>2, <1>4 DEF ListInv, OffTheList, Unaccounted
  <2>3. QED BY <2>1, <2>2
<1>6. ASSUME NEW c \in Caller
      PROVE  StartInOrder(c)' /\ ReadInOrder(c)' /\ CloseInOrder(c)' /\ Answered(c)'
  <2>1. StartInOrder(c) /\ ReadInOrder(c) /\ CloseInOrder(c) /\ Answered(c) /\ caller[c] \in CallerRow
    BY <1>1 DEF CallInv, TerminalTypes
  <2>2. StartInOrder(c)'
    BY <1>1, <1>2, <2>1 DEF StartInOrder, Started
  <2>3. ReadInOrder(c)'
    BY <1>1, <1>2, <2>1 DEF ReadInOrder, CallerRow
  <2>4. CloseInOrder(c)'
    BY <1>1, <2>1 DEF CloseInOrder, Quiet
  <2>5. Answered(c)'
    BY <1>1, <1>2, <2>1 DEF Answered, Quiet
  <2>6. QED BY <2>2, <2>3, <2>4, <2>5
<1>7. QED BY <1>3, <1>5, <1>6 DEF TInv, ListInv, CallInv

LEMMA TerminalInitially == TerminalInit => TInv
<1> SUFFICES ASSUME TerminalInit PROVE TInv
  OBVIOUS
<1>1. /\ NotStarted \in ManagedRow /\ NotStarted.life = "none" /\ NotStarted.lease = "none" /\ ~NotStarted.listed
      /\ NotStarted.final = "none" /\ NotStarted.action = "none"
  BY DEF NotStarted, ManagedRow
<1>2. /\ AtRest(NoProcess) \in CallerRow
      /\ AtRest(NoProcess).call = "none" /\ AtRest(NoProcess).at = "none" /\ AtRest(NoProcess).told = NoProcess
  BY DEF AtRest, CallerRow, CallPlaces
<1> HIDE DEF NotStarted, AtRest
<1>3. TerminalTypes
  BY <1>1, <1>2 DEF TerminalInit, TerminalTypes
<1>4. ListInv
  BY <1>1 DEF TerminalInit, ListInv, OnTheList, OffTheList, Unaccounted
<1>5. CallInv
  BY <1>2 DEF TerminalInit, CallInv, StartInOrder, ReadInOrder, CloseInOrder, Answered
<1>6. QED BY <1>3, <1>4, <1>5 DEF TInv

\* What is finalised has its end written, or is excused, and its lease given up.
LEMMA FinalisedIsRecorded ==
  ASSUME TInv, NEW p \in Managed, managed[p].listed => managed[p].final = "done",
         managed[p].listed \/ Quiet
  PROVE  Recorded(p) /\ LetGo(p)
<1>1. TerminalTypes /\ OnTheList(p) /\ OffTheList(p)
  BY DEF TInv, ListInv
<1>2. CASE managed[p].listed
  BY <1>1, <1>2 DEF OnTheList, Recorded, LetGo, Unaccounted
<1>3. CASE ~managed[p].listed
  BY <1>1, <1>3 DEF OnTheList, OffTheList, Quiet, Starting, Started, Recorded, LetGo, Unaccounted
<1>4. QED BY <1>2, <1>3

\* Whatever the order in which processes exit, are watched, read, signalled and
\* closed, and whichever writes and releases raise: what is said of one that has
\* exited, of all after close, and of one that is refused, is so, and a lease is
\* left behind only by a release that raised (terminal_tools.py,
\* process_supervision.py).
THEOREM TerminalAnswersAreTrue == TerminalSpec => []AnswersAreTrue
<1>1. TInv /\ [TerminalNext]_terminalVars => TInv'
  <2> SUFFICES ASSUME TInv, [TerminalNext]_terminalVars PROVE TInv'
    OBVIOUS
  <2>1. ASSUME NEW c \in Caller, NEW p \in Managed, StartCall(c, p) \/ Read(c, p) \/ Signal(c, p)
        PROVE  TInv'
    BY <2>1, StartCallKeeps, AskKeeps DEF Read, Signal
  <2>2. ASSUME NEW c \in Caller,
               \/ AuthorizeStart(c) \/ SpawnManaged(c) \/ ClaimAuthority(c) \/ StartFails(c) \/ Enlist(c)
               \/ Refresh(c) \/ Answer(c) \/ CheckCancellable(c) \/ Dispatch(c)
               \/ CloseCall(c) \/ CloseLists(c) \/ CloseOne(c) \/ CloseContinues(c) \/ CloseReturns(c)
        PROVE  TInv'
    BY <2>2, StartStepKeeps, RefreshKeeps, AnswerKeeps, DispatchKeeps, CloseKeeps, CloseOneKeeps
  <2>3. ASSUME NEW p \in Managed,
               \/ ProcessEnds(p) \/ AuthorityLapses(p) \/ AuthorityRenewed(p) \/ Watch(p)
               \/ FinishStart(p) \/ CloseControl(p) \/ ReleaseAuthority(p) \/ Finalized(p)
        PROVE  TInv'
    BY <2>3, ProcessStepKeeps, FinalizedKeeps
  <2>4. CASE ManagerDies \/ RecoverDeadAuthority
    BY <2>4, ManagerDiesKeeps, RecoverKeeps
  <2>5. CASE UNCHANGED terminalVars
    <3>1. UNCHANGED <<managed, caller, shut, excused>>
      BY <2>5 DEF terminalVars
    <3>2. TerminalTypes'
      BY <3>1 DEF TInv, TerminalTypes
    <3>3. ListInv'
      BY <3>1 DEF TInv, ListInv, OnTheList, OffTheList, Unaccounted, Started
    <3>4. CallInv'
      <4>1. Quiet' = Quiet /\ \A c \in Caller : \A q : Started(c, q)' = Started(c, q)
        BY <3>1 DEF Quiet, Starting, Started
      <4>2. QED BY <3>1, <4>1 DEF TInv, CallInv, StartInOrder, ReadInOrder, CloseInOrder, Answered
    <3>5. QED BY <3>2, <3>3, <3>4 DEF TInv
  <2>6. QED BY <2>1, <2>2, <2>3, <2>4, <2>5 DEF TerminalNext
<1>2. TInv => AnswersAreTrue
  <2> SUFFICES ASSUME TInv, NEW c \in Caller, caller[c].told # NoProcess
               PROVE  LET answer == caller[c].told
                      IN  /\ answer.what = "exited" => Recorded(answer.of) /\ LetGo(answer.of)
                          /\ answer.what = "closed" => \A p \in Managed : Recorded(p) /\ LetGo(p)
                          /\ answer.what = "refused" => answer.of \in excused
    BY DEF AnswersAreTrue
  <2>1. Answered(c)
    BY DEF TInv, CallInv
  <2>2. QED BY <2>1, FinalisedIsRecorded DEF Answered
<1>3. QED BY <1>1, <1>2, TerminalInitially, PTL DEF TerminalSpec

=============================================================================
