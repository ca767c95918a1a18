------------------------- MODULE ToolActionsProofs -------------------------
(***************************************************************************)
(* Tool calls, for every set of owners, intents, calls, approvals and      *)
(* paths, and every way in which paths contain one another: an action that *)
(* needs an approval has one of its own; the workspaces of calls are       *)
(* exclusive; the journal tells what calls do and have done; and, when     *)
(* each of them names where it goes, they leave nothing behind.            *)
(***************************************************************************)
EXTENDS ToolActions, TLAPS, SequenceTheorems

\* What is known of values whose parts are of no interest here.
IsSequence(s) == \E S : s \in Seq(S)
IsRow(r) ==
    r \in [intent : {r.intent}, policy : {r.policy}, grant : {r.grant},
           state : {r.state}, by : {r.by}]
IsLocal(l) ==
    l \in [pc : {l.pc}, kind : {l.kind}, open : {l.open}, paths : {l.paths},
           todo : {l.todo}, claimed : {l.claimed}, queue : {l.queue}, auth : {l.auth},
           mine : {l.mine}, raised : {l.raised}, verdict : {l.verdict}]

GrantRow == [intent : Intent, scope : Scopes, state : GrantStates]

Shapes ==
    /\ grant \in Seq(GrantRow)
    /\ IsSequence(journal) /\ \A k \in Actions : IsRow(journal[k])
    /\ thread = [o \in Owner |-> thread[o]] /\ \A o \in Owner : IsLocal(thread[o])

\* g is what an action with this intent and this decision needs
Given(g, intent, policy) ==
    \/ policy = "allow" /\ g = 0
    \/ /\ policy = "ask"
       /\ g \in Grants
       /\ grant[g].state \notin {"pending", "denied"}
       /\ Covers(g, intent)

\* between authorize and _create
Chosen ==
    \A o \in Owner :
        At(o, "create") => Given(thread[o].auth, First(o).intent, First(o).policy)

Justified ==
    \A k \in Begun :
        /\ Given(journal[k].grant, journal[k].intent, journal[k].policy)
        /\ journal[k].grant # 0 /\ grant[journal[k].grant].scope = "call" =>
             grant[journal[k].grant].state = "consumed"

AInv == Shapes /\ Chosen /\ Justified /\ OneCallOnce

-----------------------------------------------------------------------------
(* Sequences and local variables *)

\* Appending keeps what was there.
LEMMA Appended ==
  ASSUME NEW s, IsSequence(s), NEW e
  PROVE  /\ IsSequence(Append(s, e))
         /\ Len(s) \in Nat
         /\ DOMAIN s = 1..Len(s)
         /\ DOMAIN Append(s, e) = 1..(Len(s) + 1)
         /\ \A i \in 1..Len(s) : Append(s, e)[i] = s[i]
         /\ Append(s, e)[Len(s) + 1] = e
<1>1. PICK S : s \in Seq(S)
  BY DEF IsSequence
<1>2. s \in Seq(S \union {e})
  BY <1>1, SeqMonotonic
<1>3. Append(s, e) \in Seq(S \union {e}) /\ Len(Append(s, e)) = Len(s) + 1
  BY <1>2, AppendProperties
<1>4. QED BY <1>2, <1>3, AppendProperties, LenProperties DEF IsSequence

\* A function on the positions of a sequence is one.
LEMMA Rewritten ==
  ASSUME NEW s, IsSequence(s), NEW t, DOMAIN t = DOMAIN s, t = [i \in DOMAIN t |-> t[i]]
  PROVE  IsSequence(t)
<1>1. PICK S : s \in Seq(S)
  BY DEF IsSequence
<1>2. Len(s) \in Nat /\ DOMAIN s = 1..Len(s)
  BY <1>1, LenProperties
<1>3. DEFINE T == {t[i] : i \in DOMAIN t}
<1>4. t \in [1..Len(s) -> T]
  BY <1>2
<1>5. t \in Seq(T)
  BY <1>2, <1>4
<1>6. QED BY <1>5 DEF IsSequence

\* Where a call goes on is never in the middle of begin_action.
LEMMA Phases ==
  ASSUME NEW l, IsLocal(l)
  PROVE  /\ IsLocal(Onward(l)) /\ Onward(l).pc # "create"
         /\ IsLocal(Back(l)) /\ Back(l).pc # "create"
<1>1. IsLocal([l EXCEPT !.pc = "claim"]) /\ IsLocal([l EXCEPT !.pc = "begin"])
      /\ IsLocal([l EXCEPT !.pc = "finish"]) /\ IsLocal([l EXCEPT !.pc = "release"])
      /\ IsLocal([l EXCEPT !.pc = "ready"]) /\ IsLocal(Idle)
  BY DEF IsLocal, Idle
<1>2. /\ [l EXCEPT !.pc = "claim"].pc = "claim" /\ [l EXCEPT !.pc = "begin"].pc = "begin"
      /\ [l EXCEPT !.pc = "finish"].pc = "finish"
      /\ [l EXCEPT !.pc = "release"].pc = "release"
      /\ [l EXCEPT !.pc = "ready"].pc = "ready" /\ Idle.pc = "idle"
  BY DEF IsLocal, Idle
<1>3. QED BY <1>1, <1>2 DEF Onward, Back, FirstOf

-----------------------------------------------------------------------------
(* What a step does to grants and rows *)

\* A grant keeps its intent and its scope, never goes back to be decided, and
\* leaves approved for consumed or expired.
Kept(g) ==
    /\ g \in DOMAIN grant'
    /\ grant'[g].intent = grant[g].intent
    /\ grant'[g].scope = grant[g].scope
    /\ grant[g].state \notin {"pending", "denied"} => grant'[g].state \notin {"pending", "denied"}
    /\ grant[g].state = "consumed" => grant'[g].state = "consumed"

GrantsKept == grant' \in Seq(GrantRow) /\ \A g \in Grants : Kept(g)

\* The grants are unchanged, expired, used, or changed by the broker.
LEMMA GrantsAreKept ==
  ASSUME grant \in Seq(GrantRow),
         \/ UNCHANGED grant
         \/ grant' = Expired
         \/ \E g \in Grants \union {0} : grant' = Used(g)
         \/ GrantNext
  PROVE  GrantsKept
<1>1. Len(grant) \in Nat /\ Grants = 1..Len(grant) /\ \A g \in Grants : grant[g] \in GrantRow
  BY LenProperties, ElementOfSeq DEF Grants
<1>2. CASE UNCHANGED grant
  BY <1>1, <1>2 DEF GrantsKept, Kept, Grants
<1>3. CASE grant' = Expired
  <2>1. \A g \in Grants : Expired[g] \in GrantRow
    BY <1>1 DEF Expired, GrantRow, GrantStates
  <2>2. Expired \in Seq(GrantRow)
    BY <1>1, <2>1 DEF Expired
  <2>3. QED BY <1>1, <1>3, <2>2 DEF GrantsKept, Kept, Expired, Grants, GrantRow
<1>4. ASSUME NEW g \in Grants, NEW v \in GrantStates, grant' = [grant EXCEPT ![g].state = v],
             \/ grant[g].state = "pending" /\ v \in {"approved", "denied"}
             \/ v = "consumed"
      PROVE  GrantsKept
  <2>1. [grant[g] EXCEPT !.state = v] \in GrantRow
    BY <1>1 DEF GrantRow
  <2>2. grant' \in Seq(GrantRow)
    BY <1>1, <1>4, <2>1, ExceptSeq
  <2>3. QED BY <1>1, <1>4, <2>2 DEF GrantsKept, Kept, Grants, GrantRow
<1>5. ASSUME NEW g \in Grants \union {0}, grant' = Used(g) PROVE GrantsKept
  BY <1>2, <1>4, <1>5 DEF Used, GrantStates
<1>6. CASE Request
  <2>1. PICK e \in GrantRow : grant' = Append(grant, e)
    BY <1>6 DEF Request, GrantRow, GrantStates
  <2>2. /\ grant' \in Seq(GrantRow)
        /\ DOMAIN grant' = 1..(Len(grant) + 1)
        /\ \A i \in 1..Len(grant) : grant'[i] = grant[i]
    BY <2>1, AppendProperties, LenProperties
  <2>3. QED BY <1>1, <2>2 DEF GrantsKept, Kept
<1>7. ASSUME NEW g \in Grants, Decide(g) PROVE GrantsKept
  BY <1>4, <1>7 DEF Decide, GrantStates
<1>8. QED BY <1>2, <1>3, <1>5, <1>6, <1>7 DEF GrantNext, Lapse, AddRule, Expire

\* A kept grant still covers what it covered.
LEMMA GivenIsKept ==
  ASSUME GrantsKept, NEW g, NEW i, NEW p, Given(g, i, p)
  PROVE  Given(g, i, p)'
BY DEF GrantsKept, Kept, Given, Covers, Grants

\* A row keeps its intent, its decision and its grant; what was refused stays so.
RowsKept ==
    /\ IsSequence(journal')
    /\ DOMAIN journal' = Actions
    /\ \A k \in Actions :
         /\ IsRow(journal'[k])
         /\ journal'[k].intent = journal[k].intent
         /\ journal'[k].policy = journal[k].policy
         /\ journal'[k].grant = journal[k].grant
         /\ journal[k].state = "denied" => journal'[k].state = "denied"

\* The other way to change the rows is to add one.
RowAdded(row) ==
    /\ IsSequence(journal')
    /\ IsRow(row)
    /\ DOMAIN journal' = Actions \union {Len(journal) + 1}
    /\ Len(journal) + 1 \notin Actions
    /\ \A k \in Actions : journal'[k] = journal[k]
    /\ journal'[Len(journal) + 1] = row

\* The calls go on: one that comes to be between authorize and _create has
\* what it needs.
ThreadsKept ==
    /\ thread' = [o \in Owner |-> thread'[o]]
    /\ \A o \in Owner :
         /\ IsLocal(thread'[o])
         /\ \/ thread'[o] = thread[o]
            \/ At(o, "create")' => Given(thread[o].auth, First(o).intent, First(o).policy)'

\* A new row records a refusal, or an action that is given its grant just now.
Rightful(row) ==
    \/ row.state = "denied"
    \/ /\ \E g, i, p : /\ row.grant = g /\ row.intent = i /\ row.policy = p
                      /\ Given(g, i, p)
       /\ row.grant # 0 /\ grant[row.grant].scope = "call" =>
            grant[row.grant].state = "approved" /\ grant'[row.grant].state = "consumed"

\* A step of one call moves the calls on.
LEMMA Moved ==
  ASSUME Shapes, NEW o \in Owner, NEW l, IsLocal(l), l.pc # "create", Becomes(o, l)
  PROVE  ThreadsKept
BY DEF Shapes, Becomes, ThreadsKept, At

\* Finishing a row, or nothing, keeps the rows.
LEMMA SettledKeeps ==
  ASSUME Shapes, \/ UNCHANGED journal
                 \/ \E k, s : journal[k].state = "running" /\ Settled(k, s)
                 \/ Recover
  PROVE  RowsKept
<1>1. CASE UNCHANGED journal
  BY <1>1 DEF Shapes, RowsKept, Actions
<1>2. ASSUME NEW k, NEW s, journal[k].state = "running", Settled(k, s) PROVE RowsKept
  <2>1. journal' = [journal EXCEPT ![k].state = s]
    BY <1>2 DEF Settled
  <2>2. DOMAIN journal' = DOMAIN journal /\ journal' = [i \in DOMAIN journal' |-> journal'[i]]
    BY <2>1
  <2>3. IsSequence(journal')
    BY <2>2, Rewritten DEF Shapes
  <2>4. ASSUME NEW i \in Actions, i # k PROVE journal'[i] = journal[i]
    BY <2>1, <2>4 DEF Actions
  <2>5. CASE k \in Actions
    <3>1. journal'[k] = [journal[k] EXCEPT !.state = s]
      BY <2>1, <2>5 DEF Actions
    <3>2. IsRow(journal[k])
      BY <2>5 DEF Shapes
    <3>3. /\ IsRow(journal'[k])
          /\ journal'[k].intent = journal[k].intent
          /\ journal'[k].policy = journal[k].policy
          /\ journal'[k].grant = journal[k].grant
      BY <3>1, <3>2 DEF IsRow
    <3>4. QED BY <1>2, <2>2, <2>3, <2>4, <3>3 DEF RowsKept, Shapes, Actions
  <2>6. CASE k \notin Actions
    BY <2>2, <2>3, <2>4, <2>6 DEF RowsKept, Shapes, Actions
  <2>7. QED BY <2>5, <2>6
<1>3. CASE Recover
  <2>1. journal' = [k \in Actions |->
           IF k \in Interrupted THEN [journal[k] EXCEPT !.state = RecoveredAs] ELSE journal[k]]
    BY <1>3 DEF Recover
  <2>2. DOMAIN journal' = Actions /\ IsSequence(journal')
    BY <2>1, Rewritten DEF Shapes, Actions
  <2>3. ASSUME NEW k \in Actions
        PROVE  /\ IsRow(journal'[k])
               /\ journal'[k].intent = journal[k].intent
               /\ journal'[k].policy = journal[k].policy
               /\ journal'[k].grant = journal[k].grant
               /\ journal[k].state = "denied" => journal'[k].state = "denied"
    <3>1. IsRow(journal[k])
      BY DEF Shapes
    <3>2. CASE k \in Interrupted
      <4>1. journal'[k] = [journal[k] EXCEPT !.state = RecoveredAs]
        BY <2>1, <3>2
      <4>2. journal[k].state = "running"
        BY <3>2 DEF Interrupted, InterruptedAny
      <4>3. QED BY <3>1, <4>1, <4>2 DEF IsRow
    <3>3. CASE k \notin Interrupted
      BY <2>1, <3>1, <3>3
    <3>4. QED BY <3>2, <3>3
  <2>4. QED BY <2>2, <2>3 DEF RowsKept
<1>4. QED BY <1>1, <1>2, <1>3

\* A recorded row is an added one.
LEMMA RecordedAdds ==
  ASSUME Shapes, NEW o, NEW q, NEW g, NEW s, Recorded(Row(o, q, g, s))
  PROVE  RowAdded(Row(o, q, g, s))
<1>1. IsRow(Row(o, q, g, s))
  BY DEF IsRow, Row
<1>2. journal' = Append(journal, Row(o, q, g, s)) /\ IsSequence(journal)
  BY DEF Recorded, Shapes
<1>3. QED BY <1>1, <1>2, Appended DEF RowAdded, Actions

-----------------------------------------------------------------------------
(* The invariant *)

\* Every step keeps the grants, moves calls on, and keeps the rows or adds one.
LEMMA Carried ==
  ASSUME AInv, GrantsKept, ThreadsKept,
         RowsKept \/ \E row : RowAdded(row) /\ Rightful(row)
  PROVE  AInv'
<1>1. Shapes'
  <2>1. (\A k \in Actions : IsRow(journal[k]))' /\ IsSequence(journal')
    BY DEF AInv, Shapes, RowsKept, RowAdded, Actions
  <2>2. QED BY <2>1 DEF Shapes, GrantsKept, ThreadsKept
<1>2. Chosen'
  <2>1. ASSUME NEW o \in Owner, At(o, "create")', thread'[o] = thread[o]
        PROVE  Given(thread[o].auth, First(o).intent, First(o).policy)'
    <3>1. Given(thread[o].auth, First(o).intent, First(o).policy)
      BY <2>1 DEF AInv, Chosen, At
    <3>2. QED BY <2>1, <3>1, GivenIsKept DEF First, Given, Covers, Grants
  <2>2. QED BY <2>1 DEF Chosen, ThreadsKept
\* the rows that were there
<1>3. ASSUME NEW k \in Begun', k \in Actions
      PROVE  /\ k \in Begun
             /\ journal'[k].intent = journal[k].intent
             /\ journal'[k].policy = journal[k].policy
             /\ journal'[k].grant = journal[k].grant
  BY <1>3 DEF Begun, RowsKept, RowAdded, Actions
<1>4. ASSUME NEW k \in Begun', k \in Actions
      PROVE  /\ Given(journal[k].grant, journal[k].intent, journal[k].policy)'
             /\ journal'[k].grant # 0 => grant'[journal'[k].grant].scope = grant[journal[k].grant].scope
             /\ journal'[k].grant # 0 /\ grant'[journal'[k].grant].scope = "call" =>
                  grant[journal[k].grant].state = "consumed" /\ grant'[journal'[k].grant].state = "consumed"
  <2>1. /\ Given(journal[k].grant, journal[k].intent, journal[k].policy)
        /\ journal[k].grant # 0 /\ grant[journal[k].grant].scope = "call" =>
             grant[journal[k].grant].state = "consumed"
    BY <1>3, <1>4 DEF AInv, Justified
  <2>2. PICK g, i, p : g = journal[k].grant /\ i = journal[k].intent /\ p = journal[k].policy
    OBVIOUS
  <2>3. Given(g, i, p)'
    BY <2>1, <2>2, GivenIsKept
  <2>4. g # 0 => g \in Grants
    BY <2>1, <2>2 DEF Given
  <2>5. QED BY <1>3, <1>4, <2>1, <2>2, <2>3, <2>4 DEF GrantsKept, Kept
\* the row that is added
<1>5. ASSUME NEW k \in Begun', k \notin Actions
      PROVE  /\ Given(journal[k].grant, journal[k].intent, journal[k].policy)'
             /\ journal'[k].grant # 0 /\ grant'[journal'[k].grant].scope = "call" =>
                  /\ grant[journal'[k].grant].state = "approved"
                  /\ grant'[journal'[k].grant].state = "consumed"
             /\ \A j \in Begun' : j \notin Actions => j = k
  <2>1. PICK row : RowAdded(row) /\ Rightful(row)
    BY <1>5 DEF RowsKept, Begun, Actions
  <2>2. journal'[k] = row /\ row.state # "denied" /\ \A j \in Begun' : j \notin Actions => j = k
    BY <1>5, <2>1 DEF RowAdded, Begun, Actions
  <2>3. PICK g, i, p : row.grant = g /\ row.intent = i /\ row.policy = p /\ Given(g, i, p)
    BY <2>1, <2>2 DEF Rightful
  <2>4. Given(g, i, p)'
    BY <2>3, GivenIsKept
  <2>5. g # 0 => g \in Grants
    BY <2>3 DEF Given
  <2>6. QED BY <2>1, <2>2, <2>3, <2>4, <2>5 DEF Rightful, GrantsKept, Kept
<1>6. Justified'
  <2>1. ASSUME NEW k \in Begun'
        PROVE  /\ Given(journal[k].grant, journal[k].intent, journal[k].policy)'
               /\ journal'[k].grant # 0 /\ grant'[journal'[k].grant].scope = "call" =>
                    grant'[journal'[k].grant].state = "consumed"
    <3>1. CASE k \in Actions BY <1>4, <3>1
    <3>2. CASE k \notin Actions BY <1>5, <3>2
    <3>3. QED BY <3>1, <3>2
  <2>2. QED BY <2>1 DEF Justified
<1>7. OneCallOnce'
  <2>1. ASSUME NEW j \in Begun', NEW k \in Begun', j # k, journal'[j].grant = journal'[k].grant,
               journal'[j].grant # 0, grant'[journal'[j].grant].scope = "call"
        PROVE  FALSE
    \* of two old rows one had no one-call grant; a new one finds it consumed
    <3>1. CASE j \in Actions /\ k \in Actions
      <4>1. j \in Begun /\ k \in Begun /\ journal[j].grant = journal[k].grant /\ journal[j].grant # 0
        BY <1>3, <2>1, <3>1
      <4>2. grant[journal[j].grant].scope = "call"
        BY <1>3, <1>4, <2>1, <3>1
      <4>3. QED BY <2>1, <4>1, <4>2 DEF AInv, OneCallOnce
    <3>2. CASE j \in Actions /\ k \notin Actions
      BY <1>3, <1>4, <1>5, <2>1, <3>2
    <3>3. CASE j \notin Actions /\ k \in Actions
      BY <1>3, <1>4, <1>5, <2>1, <3>3
    <3>4. CASE j \notin Actions /\ k \notin Actions
      BY <1>5, <2>1, <3>4
    <3>5. QED BY <3>1, <3>2, <3>3, <3>4
  <2>2. QED BY <2>1 DEF OneCallOnce
<1>8. QED BY <1>1, <1>2, <1>6, <1>7 DEF AInv

\* The two halves of begin_action.  What authorize finds is given.
LEMMA AuthorizeKeeps ==
  ASSUME AInv, NEW o \in Owner, Authorize(o)
  PROVE  AInv'
<1>1. PICK g, i, p : /\ i = First(o).intent /\ p = First(o).policy
                     /\ Becomes(o, [thread[o] EXCEPT !.pc = "create", !.auth = g])
                     /\ \/ p = "allow" /\ g = 0 /\ UNCHANGED grant
                        \/ p = "ask" /\ g \in Authorizing(i) /\ grant' = Expired
  BY DEF Authorize
<1>2. GrantsKept
  BY <1>1, GrantsAreKept DEF AInv, Shapes
<1>3. RowsKept
  BY SettledKeeps DEF AInv, Authorize, journalVars
<1>4. Given(g, i, p)'
  <2>1. Given(g, i, p)
    BY <1>1 DEF Given, Authorizing
  <2>2. QED BY <1>2, <2>1, GivenIsKept
<1>5. /\ thread' = [q \in Owner |-> thread'[q]]
      /\ thread'[o] = [thread[o] EXCEPT !.pc = "create", !.auth = g]
      /\ \A q \in Owner : q # o => thread'[q] = thread[q]
  BY <1>1 DEF Becomes, AInv, Shapes
<1>6. IsLocal(thread'[o]) /\ thread'[o].auth = g /\ thread'[o].queue = thread[o].queue
  BY <1>5 DEF IsLocal, AInv, Shapes
<1>7. First(o)'.intent = i /\ First(o)'.policy = p
  BY <1>1, <1>6 DEF First
<1>8. Given(thread[o].auth, First(o).intent, First(o).policy)'
  BY <1>4, <1>6, <1>7
<1>9. ThreadsKept
  BY <1>5, <1>6, <1>8 DEF ThreadsKept, AInv, Shapes
<1>10. QED BY <1>2, <1>3, <1>9, Carried

\* A one-call grant that _create consumes is approved.
LEMMA CreateKeeps ==
  ASSUME AInv, NEW o \in Owner, Create(o)
  PROVE  AInv'
<1>1. PICK g, i, p : g = thread[o].auth /\ i = First(o).intent /\ p = First(o).policy
  OBVIOUS
<1>2. Given(g, i, p)
  BY <1>1 DEF Create, AInv, Chosen
<1>3. g \in Grants \union {0} /\ grant' = Used(g) /\ MayUse(g)
  BY <1>1, <1>2 DEF Create, Given
<1>4. GrantsKept
  BY <1>3, GrantsAreKept DEF AInv, Shapes
<1>5. PICK row : row = Row(o, First(o), g, "running")
  OBVIOUS
<1>6. RowAdded(row)
  BY <1>1, <1>5, RecordedAdds DEF Create, AInv
<1>7. row.grant = g /\ row.intent = i /\ row.policy = p
  BY <1>1, <1>5 DEF Row
<1>8. ASSUME g # 0, grant[g].scope = "call"
      PROVE  grant[g].state = "approved" /\ grant'[g].state = "consumed"
  <2>1. grant' = [grant EXCEPT ![g].state = "consumed"] /\ g \in Grants
    BY <1>3, <1>8 DEF Used
  <2>2. grant[g] \in GrantRow
    BY <2>1, ElementOfSeq, LenProperties DEF AInv, Shapes, Grants
  <2>3. QED BY <1>3, <1>8, <2>1, <2>2 DEF GrantRow, Grants, MayUse
<1>9. Rightful(row)
  BY <1>2, <1>7, <1>8 DEF Rightful
<1>10. ThreadsKept
  <2>1. DEFINE l == [thread[o] EXCEPT !.queue = Tail(@), !.auth = 0,
                                      !.mine = Append(@, Len(journal) + 1)]
  <2>2. IsLocal(l)
    BY DEF IsLocal, AInv, Shapes
  <2>3. Becomes(o, Onward(l))
    BY DEF Create
  <2>4. QED BY <2>2, <2>3, Phases, Moved DEF AInv
<1>11. QED BY <1>4, <1>6, <1>9, <1>10, Carried

\* The rest of a call: nothing is authorized or begun.
LEMMA CallKeeps ==
  ASSUME AInv, NEW o \in Owner, CallStep(o)
  PROVE  AInv'
<1>1. IsLocal(thread[o]) /\ Shapes
  BY DEF AInv, Shapes
<1>2. CASE Authorize(o) \/ Create(o)
  BY <1>2, AuthorizeKeeps, CreateKeeps
<1>3. ASSUME \/ UNCHANGED grant
             \/ grant' = Expired,
             \/ UNCHANGED thread
             \/ \E l : IsLocal(l) /\ l.pc # "create" /\ Becomes(o, l),
             \/ UNCHANGED journal
             \/ \E k, s : journal[k].state = "running" /\ Settled(k, s)
             \/ \E q : Recorded(Row(o, q, 0, "denied"))
      PROVE  AInv'
  <2>1. GrantsKept
    BY <1>1, <1>3, GrantsAreKept DEF Shapes
  <2>2. ThreadsKept
    BY <1>1, <1>3, Moved DEF Shapes, ThreadsKept
  <2>3. RowsKept \/ \E row : RowAdded(row) /\ Rightful(row)
    <3>1. ASSUME NEW q, Recorded(Row(o, q, 0, "denied"))
          PROVE  \E row : RowAdded(row) /\ Rightful(row)
      BY <1>1, <3>1, RecordedAdds DEF Rightful, Row
    <3>2. QED BY <1>1, <1>3, <3>1, SettledKeeps
  <2>4. QED BY <2>1, <2>2, <2>3, Carried
<1>4. CASE ClaimScope(o) \/ ReleaseScope(o)
  BY <1>3, <1>4 DEF ClaimScope, ReleaseScope, grantVars, journalVars
<1>5. ASSUME NEW c \in Calls, Start(o, c) PROVE AInv'
  <2>1. IsLocal(Prepared(c)) /\ Prepared(c).pc # "create"
    <3>1. IsLocal([Idle EXCEPT !.kind = c.kind, !.open = c.open, !.paths = Paths(c),
                               !.todo = Paths(c), !.queue = Queued(c)])
      BY DEF IsLocal, Idle
    <3>2. QED BY <3>1, Phases DEF Prepared
  <2>2. CASE RefusedPaths(c) # {}
    BY <1>3, <1>5, <2>2 DEF Start, grantVars
  <2>3. CASE RefusedPaths(c) = {}
    <3>1. thread' = [thread EXCEPT ![o] = Prepared(c)]
      BY <1>5, <2>3 DEF Start
    <3>2. ThreadsKept
      BY <1>1, <2>1, <3>1 DEF Shapes, ThreadsKept, At
    <3>3. GrantsKept /\ RowsKept
      BY <1>1, <1>5, <2>3, GrantsAreKept, SettledKeeps DEF Shapes, Start, grantVars, journalVars
    <3>4. QED BY <3>2, <3>3, Carried
  <2>4. QED BY <2>2, <2>3
<1>6. CASE ClaimWorkspace(o)
  <2>1. PICK p :
           Becomes(o, Onward([thread[o] EXCEPT !.todo = @ \ {p},
                                 !.claimed = IF ws[p] = o THEN @ ELSE @ \union {p}]))
    BY <1>6 DEF ClaimWorkspace
  <2>2. IsLocal([thread[o] EXCEPT !.todo = @ \ {p},
                                  !.claimed = IF ws[p] = o THEN @ ELSE @ \union {p}])
    BY <1>1 DEF IsLocal
  <2>3. UNCHANGED <<grant, journal>>
    BY <1>6 DEF ClaimWorkspace, grantVars, journalVars
  <2>4. QED BY <1>3, <2>1, <2>2, <2>3, Phases
\* the ways back
<1>7. ASSUME NEW v, NEW r
      PROVE  /\ IsLocal([thread[o] EXCEPT !.verdict = v])
             /\ IsLocal([thread[o] EXCEPT !.verdict = v, !.raised = r])
  BY <1>1 DEF IsLocal
<1>8. CASE WorkspaceRefused(o)
  <2>1. \E v, r : \/ Becomes(o, Back([thread[o] EXCEPT !.verdict = v]))
                  \/ Becomes(o, Back([thread[o] EXCEPT !.verdict = v, !.raised = r]))
    BY <1>8 DEF WorkspaceRefused
  <2>2. UNCHANGED <<grant, journal>>
    BY <1>8 DEF WorkspaceRefused, grantVars, journalVars
  <2>3. QED BY <1>3, <1>7, <2>1, <2>2, Phases
<1>9. CASE Deny(o)
  <2>1. Becomes(o, Back([thread[o] EXCEPT !.verdict = "cancelled"]))
    BY <1>9 DEF Deny, Withdraw
  <2>2. Recorded(Row(o, First(o), 0, "denied")) /\ (UNCHANGED grant \/ grant' = Expired)
    BY <1>9 DEF Deny
  <2>3. QED BY <1>3, <1>7, <2>1, <2>2, Phases
<1>10. CASE CreateRefused(o)
  <2>1. Becomes(o, Back([thread[o] EXCEPT !.verdict = "cancelled"]))
    BY <1>10 DEF CreateRefused, Withdraw
  <2>2. UNCHANGED <<grant, journal>>
    BY <1>10 DEF CreateRefused, grantVars, journalVars
  <2>3. QED BY <1>3, <1>7, <2>1, <2>2, Phases
<1>11. IsLocal(Idle) /\ Idle.pc # "create"
  BY DEF IsLocal, Idle
<1>12. CASE NoDestination(o)
  <2>1. \/ UNCHANGED journal
        \/ \E k, s : journal[k].state = "running" /\ Settled(k, s)
    BY <1>12 DEF NoDestination, Finishable, journalVars
  <2>2. Becomes(o, Idle) /\ UNCHANGED grant
    BY <1>12 DEF NoDestination, grantVars
  <2>3. QED BY <1>3, <1>11, <2>1, <2>2
<1>13. CASE Touch(o)
  <2>1. IsLocal([thread[o] EXCEPT !.pc = "touched"]) /\ [thread[o] EXCEPT !.pc = "touched"].pc # "create"
    BY <1>1 DEF IsLocal
  <2>2. QED BY <1>3, <1>13, <2>1 DEF Touch, grantVars
<1>14. CASE EffectEnds(o)
  <2>1. PICK v : Becomes(o, Back([thread[o] EXCEPT !.verdict = v]))
    BY <1>14 DEF EffectEnds
  <2>2. UNCHANGED <<grant, journal>>
    BY <1>14 DEF EffectEnds, grantVars, journalVars
  <2>3. QED BY <1>3, <1>7, <2>1, <2>2, Phases
<1>15. CASE EffectRaises(o)
  <2>1. PICK r : Becomes(o, Back([thread[o] EXCEPT !.verdict = "failed", !.raised = r]))
    BY <1>15 DEF EffectRaises
  <2>2. UNCHANGED <<grant, journal>>
    BY <1>15 DEF EffectRaises, grantVars, journalVars
  <2>3. QED BY <1>3, <1>7, <2>1, <2>2, Phases
<1>16. ASSUME NEW m PROVE IsLocal([thread[o] EXCEPT !.mine = m])
  BY <1>1 DEF IsLocal
<1>17. CASE FinishAction(o)
  <2>1. \E k, s : journal[k].state = "running" /\ Settled(k, s)
    BY <1>17 DEF FinishAction, Finishable
  <2>2. PICK m : Becomes(o, Back([thread[o] EXCEPT !.mine = m]))
    BY <1>17 DEF FinishAction
  <2>3. UNCHANGED grant
    BY <1>17 DEF FinishAction, grantVars
  <2>4. QED BY <1>3, <1>16, <2>1, <2>2, <2>3, Phases
<1>18. CASE FinishRaises(o)
  <2>1. Becomes(o, Idle) \/ Becomes(o, Back([thread[o] EXCEPT !.mine = <<>>]))
    BY <1>18 DEF FinishRaises
  <2>2. UNCHANGED <<grant, journal>>
    BY <1>18 DEF FinishRaises, grantVars, journalVars
  <2>3. QED BY <1>3, <1>11, <1>16, <2>1, <2>2, Phases
<1>19. CASE ReleaseWorkspace(o)
  <2>1. PICK p : Becomes(o, Back([thread[o] EXCEPT !.claimed = @ \ {p}]))
    BY <1>19 DEF ReleaseWorkspace
  <2>2. IsLocal([thread[o] EXCEPT !.claimed = @ \ {p}])
    BY <1>1 DEF IsLocal
  <2>3. UNCHANGED <<grant, journal>>
    BY <1>19 DEF ReleaseWorkspace, grantVars, journalVars
  <2>4. QED BY <1>3, <2>1, <2>2, <2>3, Phases
<1>20. QED
  BY <1>2, <1>4, <1>5, <1>6, <1>8, <1>9, <1>10, <1>12, <1>13, <1>14, <1>15, <1>17, <1>18, <1>19
  DEF CallStep, Entering, Preparing, Leaving

\* Recovery, crashes and the broker leave the calls alone.
LEMMA NextKeeps ==
  ASSUME AInv, [Next]_vars
  PROVE  AInv'
<1>1. ASSUME UNCHANGED grant \/ GrantNext, ThreadsKept, UNCHANGED journal \/ Recover
      PROVE  AInv'
  <2>1. GrantsKept /\ RowsKept
    BY <1>1, GrantsAreKept, SettledKeeps DEF AInv, Shapes
  <2>2. QED BY <1>1, <2>1, Carried
<1>2. UNCHANGED thread => ThreadsKept
  BY DEF AInv, Shapes, ThreadsKept
<1>3. CASE UNCHANGED vars \/ Recover \/ Broker
  BY <1>1, <1>2, <1>3 DEF vars, Recover, Broker, grantVars, journalVars
<1>4. ASSUME NEW p \in Process, Crash(p) PROVE AInv'
  <2>1. IsLocal(Idle) /\ Idle.pc # "create"
    BY DEF IsLocal, Idle
  <2>2. thread' = [o \in Owner |-> IF ProcessOf[o] = p THEN Idle ELSE thread[o]]
    BY <1>4 DEF Crash
  <2>3. ThreadsKept
    BY <2>1, <2>2 DEF ThreadsKept, At, AInv, Shapes
  <2>4. QED BY <1>1, <1>4, <2>3 DEF Crash, grantVars, journalVars
<1>5. QED BY <1>3, <1>4, CallKeeps DEF Next

\* Nothing has been asked for or begun.
LEMMA InitHolds == Init => AInv
<1>1. SUFFICES ASSUME Init PROVE AInv
  OBVIOUS
<1>2. grant \in Seq(GrantRow) /\ journal \in Seq({}) /\ Actions = {}
  BY <1>1, EmptySeq DEF Init, GrantInit, Actions
<1>3. IsLocal(Idle) /\ Idle.pc = "idle"
  BY DEF IsLocal, Idle
<1>4. thread = [o \in Owner |-> thread[o]] /\ \A o \in Owner : thread[o] = Idle
  BY <1>1 DEF Init
<1>5. Shapes
  BY <1>2, <1>3, <1>4 DEF Shapes, IsSequence
<1>6. QED BY <1>2, <1>3, <1>4, <1>5 DEF AInv, Chosen, Justified, OneCallOnce, Begun, At

\* The invariant holds in every state.
THEOREM ActionsInvariant == Spec => []AInv
  BY InitHolds, NextKeeps, PTL DEF Spec

\* However many calls find a one-call approval at once, one of them starts an action.
THEOREM ApprovalStartsOneAction == Spec => []OneCallOnce
<1>1. AInv => OneCallOnce
  BY DEF AInv
<1>2. QED BY <1>1, ActionsInvariant, PTL

\* An action that the policy wants approved has an approval of its own.
THEOREM ActionsAreAuthorized == Spec => []Authorized
<1>1. ASSUME AInv PROVE Authorized
  <2>1. 0 \notin Grants
    BY <1>1, LenProperties DEF AInv, Shapes, Grants
  <2>2. QED BY <1>1, <2>1 DEF AInv, Justified, Given, Covers, Authorized
<1>2. QED BY <1>1, ActionsInvariant, PTL

-----------------------------------------------------------------------------
(* Workspaces, the journal, and what calls leave behind *)

Entered == {"claim", "begin", "create", "ready", "touched"}

\* A call that has not ended holds what it has claimed or borrowed, and does not
\* count what it has borrowed from a delegation as its own.
Holds(o) ==
    /\ thread[o].paths \subseteq Path
    /\ thread[o].todo \union thread[o].claimed \subseteq thread[o].paths
    /\ thread[o].pc \in {"ready", "touched"} => thread[o].todo = {}
    /\ thread[o].pc = "idle" => thread[o].claimed = {}
    /\ Acting(o) /\ thread[o].pc \in Entered =>
         \A p \in thread[o].paths \ thread[o].todo : ws[p] = o
    /\ Acting(o) /\ scope[o] # None => ws[scope[o]] = o /\ scope[o] \notin thread[o].claimed

\* Of two overlapping leases of two owners one is of a dead owner.
Apart ==
    \A p, q \in Path :
        <<p, q>> \in Overlaps /\ Active(proc, ws[p]) /\ Active(proc, ws[q]) => ws[p] = ws[q]

WTypes ==
    /\ ws \in [Path -> Holder]
    /\ scope \in [Owner -> {Root, None}]
    /\ proc \in [Process -> {"alive", "gone"}]

WInv == WTypes /\ Apart /\ \A o \in Owner : Holds(o)

-----------------------------------------------------------------------------
(* The leases *)

\* Somebody who acts cannot be passed over.
LEMMA ActingIsActive == ASSUME NEW o \in Owner, Acting(o) PROVE Active(proc, o)
  BY NoneIsNoOwner DEF Acting, Active, OwnerGone

Keeps(o) == \A p \in Path : ws[p] = o => ws'[p] = o

\* A claim takes nothing from an owner who acts, and sets nothing that overlaps
\* a lease of another one.
LEMMA ClaimIsFair ==
  ASSUME WTypes, Apart, NEW o \in Owner, NEW p \in Path, MayClaim(o, p), Claimed(o, p),
         UNCHANGED proc
  PROVE  /\ ws' \in [Path -> Holder]
         /\ ws'[p] = o
         /\ \A q \in Owner : Acting(q) => Keeps(q)
         /\ Apart'
<1>1. \A q \in Path : ws'[q] = IF q = p THEN o
                                ELSE IF InTheWay(p, q) /\ ws[q] # o THEN None ELSE ws[q]
  BY DEF Claimed
<1>2. ws' \in [Path -> Holder]
  BY DEF Claimed, WTypes, Holder
<1>3. ASSUME NEW q \in Owner, Acting(q), NEW r \in Path, ws[r] = q PROVE ws'[r] = q
  <2>1. Active(proc, q)
    BY <1>3, ActingIsActive
  <2>2. InTheWay(p, r) => q = o
    BY <1>3, <2>1 DEF MayClaim, Claimable
  <2>3. InTheWay(p, p)
    BY OverlapIsReflexive DEF InTheWay
  <2>4. QED BY <1>1, <1>3, <2>2, <2>3
<1>4. ASSUME NEW r \in Path, NEW s \in Path, <<r, s>> \in Overlaps,
             Active(proc, ws'[r]), Active(proc, ws'[s])
      PROVE  ws'[r] = ws'[s]
  <2>1. ws'[r] # None /\ ws'[s] # None
    BY <1>4 DEF Active
  <2>2. <<s, r>> \in Overlaps
    BY <1>4, OverlapIsSymmetric
  <2>3. CASE r = p
    BY <1>1, <1>4, <2>1, <2>3 DEF InTheWay
  <2>4. CASE s = p
    BY <1>1, <2>1, <2>2, <2>4 DEF InTheWay
  <2>5. CASE r # p /\ s # p
    <3>1. ws'[r] = ws[r] /\ ws'[s] = ws[s]
      BY <1>1, <2>1, <2>5
    <3>2. QED BY <1>4, <3>1 DEF Apart
  <2>6. QED BY <2>3, <2>4, <2>5
<1>5. Apart'
  BY <1>4 DEF Apart
<1>6. QED BY <1>1, <1>2, <1>3, <1>5 DEF Keeps

\* A release takes one lease of one's own.
LEMMA ReleaseIsFair ==
  ASSUME WTypes, Apart, NEW o \in Owner, NEW p \in Path, Released(o, p), UNCHANGED proc
  PROVE  /\ ws' \in [Path -> Holder]
         /\ \A q \in Path : q # p => ws'[q] = ws[q]
         /\ \A q \in Owner : q # o => Keeps(q)
         /\ Apart'
<1>1. ws' = [ws EXCEPT ![p] = IF ws[p] = o THEN None ELSE ws[p]]
  BY DEF Released
<1>2. ws' \in [Path -> Holder] /\ \A q \in Path : q # p => ws'[q] = ws[q]
  BY <1>1 DEF WTypes, Holder
<1>3. ws'[p] \in {ws[p], None} /\ (ws[p] # o => ws'[p] = ws[p])
  BY <1>1 DEF WTypes
<1>4. Apart'
  <2>1. ASSUME NEW r \in Path, NEW s \in Path, <<r, s>> \in Overlaps,
               Active(proc, ws'[r]), Active(proc, ws'[s])
        PROVE  ws'[r] = ws'[s]
    <3>1. ws'[r] # None /\ ws'[s] # None
      BY <2>1 DEF Active
    <3>2. ws'[r] = ws[r] /\ ws'[s] = ws[s]
      BY <1>2, <1>3, <3>1
    <3>3. QED BY <2>1, <3>2 DEF Apart
  <2>2. QED BY <2>1 DEF Apart
<1>5. QED BY <1>2, <1>3, <1>4 DEF Keeps

-----------------------------------------------------------------------------
(* The calls *)

\* Somebody whose call does not move keeps what he holds.
LEMMA HoldsStill ==
  ASSUME NEW o \in Owner, WTypes, Holds(o), thread'[o] = thread[o], scope'[o] = scope[o],
         Acting(o)' => Acting(o) /\ Keeps(o)
  PROVE  Holds(o)'
<1>1. Acting(o)' /\ scope[o] # None => ws'[scope[o]] = o
  BY DelegatedHaveRoot DEF Holds, WTypes, Keeps
<1>2. Acting(o)' /\ thread[o].pc \in Entered => \A p \in thread[o].paths \ thread[o].todo : ws'[p] = o
  BY DEF Holds, Keeps
<1>3. QED BY <1>1, <1>2 DEF Holds

\* Going on keeps the workspaces of a call; nothing to claim is left when it is ready.
LEMMA OnwardIs ==
  ASSUME NEW l, IsLocal(l)
  PROVE  /\ Onward(l).paths = l.paths /\ Onward(l).todo = l.todo /\ Onward(l).claimed = l.claimed
         /\ Onward(l).pc \in {"claim", "begin", "ready"}
         /\ Onward(l).pc = "ready" => l.todo = {}
<1>1. \A label : /\ [l EXCEPT !.pc = label].pc = label
                 /\ [l EXCEPT !.pc = label].paths = l.paths
                 /\ [l EXCEPT !.pc = label].todo = l.todo
                 /\ [l EXCEPT !.pc = label].claimed = l.claimed
  BY DEF IsLocal
<1>2. \/ Onward(l) = [l EXCEPT !.pc = "claim"]
      \/ Onward(l) = [l EXCEPT !.pc = "begin"]
      \/ Onward(l) = [l EXCEPT !.pc = "ready"] /\ ~Work(l, "claim")
  BY DEF Onward, FirstOf
<1>3. Work(l, "claim") <=> l.todo # {}
  BY DEF Work
<1>4. QED BY <1>1, <1>2, <1>3

\* The way back ends in no phase in which anything is held.
LEMMA BackIs ==
  ASSUME NEW l, IsLocal(l)
  PROVE  \/ Back(l) = Idle
         \/ /\ Back(l).paths = l.paths /\ Back(l).todo = l.todo /\ Back(l).claimed = l.claimed
            /\ Back(l).pc \in {"finish", "release"}
<1>1. \A label : /\ [l EXCEPT !.pc = label].pc = label
                 /\ [l EXCEPT !.pc = label].paths = l.paths
                 /\ [l EXCEPT !.pc = label].todo = l.todo
                 /\ [l EXCEPT !.pc = label].claimed = l.claimed
  BY DEF IsLocal
<1>2. Back(l) \in {Idle, [l EXCEPT !.pc = "finish"], [l EXCEPT !.pc = "release"]}
  BY DEF Back, FirstOf
<1>3. QED BY <1>1, <1>2

\* A call that goes on, its workspaces as they were.
LEMMA GoesOn ==
  ASSUME NEW o \in Owner, WTypes, Holds(o), Acting(o), thread[o].pc \in Entered,
         NEW l, IsLocal(l), l.paths = thread[o].paths, l.todo = thread[o].todo,
         l.claimed = thread[o].claimed, thread'[o] = Onward(l), UNCHANGED <<proc, ws, scope>>
  PROVE  Holds(o)'
<1>1. /\ thread'[o].paths = thread[o].paths /\ thread'[o].todo = thread[o].todo
      /\ thread'[o].claimed = thread[o].claimed
      /\ thread'[o].pc \in {"claim", "begin", "ready"}
      /\ thread'[o].pc = "ready" => thread[o].todo = {}
  BY OnwardIs
<1>2. QED BY <1>1 DEF Holds, Acting

\* A call on its way back, which may give up workspaces that it counts as its own.
LEMMA GoesBack ==
  ASSUME NEW o \in Owner, WTypes, Holds(o), Acting(o),
         NEW l, IsLocal(l), l.paths = thread[o].paths, l.todo = thread[o].todo,
         l.claimed \subseteq thread[o].claimed, thread'[o] = Back(l) \/ thread'[o] = Idle,
         \A p \in Path \ thread[o].claimed : ws'[p] = ws[p], UNCHANGED <<proc, scope>>
  PROVE  Holds(o)'
<1>1. scope'[o] # None => ws'[scope'[o]] = o /\ scope'[o] \notin l.claimed
  BY DelegatedHaveRoot DEF Holds, WTypes
<1>2. CASE thread'[o] = Idle
  BY <1>1, <1>2 DEF Holds, Idle, Entered
<1>3. CASE thread'[o] # Idle
  <2>1. /\ thread'[o].paths = thread[o].paths /\ thread'[o].todo = thread[o].todo
        /\ thread'[o].claimed = l.claimed
        /\ thread'[o].pc \in {"finish", "release"}
    BY <1>3, BackIs
  <2>2. QED BY <1>1, <2>1 DEF Holds, Entered
<1>4. QED BY <1>2, <1>3

\* The paths of a call are paths.
LEMMA PathsArePaths == ASSUME NEW c \in Calls PROVE Paths(c) \subseteq Path
<1>1. c.requests \in Seq([intent : Intent, path : Path \union {NoPath}])
  BY CallsAreCalls DEF Call
<1>2. ASSUME NEW k \in DOMAIN c.requests PROVE c.requests[k].path \in Path \union {NoPath}
  <2>1. k \in 1..Len(c.requests)
    BY <1>1, LenProperties
  <2>2. c.requests[k] \in [intent : Intent, path : Path \union {NoPath}]
    BY <1>1, <2>1, ElementOfSeq
  <2>3. QED BY <2>2
<1>3. ASSUME NEW r \in Range(Decided(c)) PROVE r.path \in Path \union {NoPath}
  <2>1. PICK k \in DOMAIN c.requests : r = Decided(c)[k]
    BY DEF Range, Decided
  <2>2. QED BY <1>2, <2>1 DEF Decided
<1>4. QED BY <1>3 DEF Paths

\* Other calls are not disturbed by a step of one.
LEMMA OthersHold ==
  ASSUME WTypes, NEW o \in Owner, UNCHANGED proc,
         \A q \in Owner : Holds(q),
         \A q \in Owner : q # o => thread'[q] = thread[q] /\ scope'[q] = scope[q],
         \A q \in Owner : q # o => (Acting(q) => Keeps(q))
  PROVE  \A q \in Owner : q # o => Holds(q)'
<1>1. SUFFICES ASSUME NEW q \in Owner, q # o PROVE Holds(q)'
  OBVIOUS
<1>2. Acting(q)' = Acting(q)
  BY DEF Acting
<1>3. thread'[q] = thread[q] /\ scope'[q] = scope[q] /\ Holds(q)
  BY <1>1
<1>4. Acting(q) => Keeps(q)
  BY <1>1
<1>5. QED BY <1>2, <1>3, <1>4, HoldsStill

\* A step of a call keeps the invariant.
LEMMA CallHolds ==
  ASSUME AInv, WInv, NEW o \in Owner, Acting(o), CallStep(o), UNCHANGED proc
  PROVE  WInv'
<1>1. /\ IsLocal(thread[o]) /\ Holds(o) /\ WTypes /\ Apart
      /\ thread = [q \in Owner |-> thread[q]] /\ scope = [q \in Owner |-> scope[q]]
  BY DEF AInv, Shapes, WInv, WTypes
<1> DEFINE Same == UNCHANGED <<ws, scope>>
           Others == \A q \in Owner : q # o => thread'[q] = thread[q]
<1>2. ASSUME NEW l, Becomes(o, l) PROVE thread'[o] = l /\ Others
  BY <1>1, <1>2 DEF Becomes
\* most steps leave the leases as they are
<1>3. ASSUME Same, Others, Holds(o)' PROVE WInv'
  <2>1. \A q \in Owner : Keeps(q)
    BY <1>3 DEF Keeps
  <2>2. \A q \in Owner : Holds(q)'
    BY <1>1, <1>3, <2>1, OthersHold DEF WInv
  <2>3. Apart' /\ WTypes'
    BY <1>1, <1>3 DEF Apart, WTypes
  <2>4. QED BY <2>2, <2>3 DEF WInv
<1>4. ASSUME NEW l, Becomes(o, Back(l)) \/ Becomes(o, Idle), IsLocal(l), l.paths = thread[o].paths,
             l.todo = thread[o].todo, l.claimed = thread[o].claimed, Same
      PROVE  WInv'
  <2>1. Others /\ (thread'[o] = Back(l) \/ thread'[o] = Idle)
    BY <1>2, <1>4
  <2>2. Holds(o)'
    BY <1>1, <1>4, <2>1, GoesBack
  <2>3. QED BY <1>3, <1>4, <2>1, <2>2
<1>5. ASSUME NEW l, Becomes(o, Onward(l)), thread[o].pc \in Entered, IsLocal(l),
             l.paths = thread[o].paths, l.todo = thread[o].todo,
             l.claimed = thread[o].claimed, Same
      PROVE  WInv'
  <2>1. Others /\ thread'[o] = Onward(l)
    BY <1>2, <1>5
  <2>2. Holds(o)'
    BY <1>1, <1>5, <2>1, GoesOn
  <2>3. QED BY <1>3, <1>5, <2>1, <2>2
<1>6. CASE UNCHANGED thread /\ Same
  <2>1. Holds(o)'
    BY <1>1, <1>6 DEF Holds, Acting
  <2>2. QED BY <1>3, <1>6, <2>1
<1>7. ASSUME NEW v, NEW r, NEW m,
             \/ Becomes(o, Idle)
             \/ Becomes(o, Back([thread[o] EXCEPT !.verdict = v]))
             \/ Becomes(o, Back([thread[o] EXCEPT !.verdict = v, !.raised = r]))
             \/ Becomes(o, Back([thread[o] EXCEPT !.mine = m])), Same
      PROVE  WInv'
  <2>1. \A l \in {[thread[o] EXCEPT !.verdict = v], [thread[o] EXCEPT !.verdict = v, !.raised = r],
                  [thread[o] EXCEPT !.mine = m], thread[o]} :
          IsLocal(l) /\ l.paths = thread[o].paths /\ l.todo = thread[o].todo
          /\ l.claimed = thread[o].claimed
    BY <1>1 DEF IsLocal
  <2>2. QED BY <1>4, <1>7, <2>1
<1>8. CASE WorkspaceRefused(o)
  BY <1>7, <1>8 DEF WorkspaceRefused
<1>9. CASE Deny(o) \/ CreateRefused(o)
  BY <1>7, <1>9 DEF Deny, CreateRefused, Withdraw
<1>10. CASE EffectEnds(o) \/ EffectRaises(o)
  BY <1>7, <1>10 DEF EffectEnds, EffectRaises
<1>11. CASE NoDestination(o) \/ FinishAction(o) \/ FinishRaises(o)
  BY <1>7, <1>11 DEF NoDestination, FinishAction, FinishRaises
<1>12. CASE Create(o)
  <2>1. DEFINE l == [thread[o] EXCEPT !.queue = Tail(@), !.auth = 0,
                                      !.mine = Append(@, Len(journal) + 1)]
  <2>2. IsLocal(l) /\ l.paths = thread[o].paths /\ l.todo = thread[o].todo
        /\ l.claimed = thread[o].claimed
    BY <1>1 DEF IsLocal
  <2>3. Becomes(o, Onward(l)) /\ Same /\ thread[o].pc \in Entered
    BY <1>12 DEF Create, At, Entered
  <2>4. QED BY <1>5, <2>2, <2>3
<1>13. ASSUME NEW label \in {"create", "touched"}, thread[o].pc \in Entered,
              thread[o].pc = "ready" \/ label = "create", Same, Others,
              thread'[o].pc = label, thread'[o].paths = thread[o].paths,
              thread'[o].todo = thread[o].todo, thread'[o].claimed = thread[o].claimed
       PROVE  WInv'
  <2>1. Holds(o)'
    BY <1>1, <1>13 DEF Holds, Acting, Entered
  <2>2. QED BY <1>3, <1>13, <2>1
<1>14. CASE Authorize(o)
  <2>1. Same /\ thread[o].pc = "begin"
    BY <1>14 DEF Authorize, At
  <2>2. PICK g : Becomes(o, [thread[o] EXCEPT !.pc = "create", !.auth = g])
    BY <1>14 DEF Authorize
  <2>3. thread'[o] = [thread[o] EXCEPT !.pc = "create", !.auth = g] /\ Others
    BY <1>2, <2>2
  <2>4. /\ thread'[o].pc = "create" /\ thread'[o].paths = thread[o].paths
        /\ thread'[o].todo = thread[o].todo /\ thread'[o].claimed = thread[o].claimed
    BY <1>1, <2>3 DEF IsLocal
  <2>5. QED BY <1>13, <2>1, <2>3, <2>4 DEF Entered
<1>15. CASE Touch(o)
  <2>1. Same /\ thread[o].pc = "ready" /\ Becomes(o, [thread[o] EXCEPT !.pc = "touched"])
    BY <1>15 DEF Touch, At
  <2>2. thread'[o] = [thread[o] EXCEPT !.pc = "touched"] /\ Others
    BY <1>2, <2>1
  <2>3. /\ thread'[o].pc = "touched" /\ thread'[o].paths = thread[o].paths
        /\ thread'[o].todo = thread[o].todo /\ thread'[o].claimed = thread[o].claimed
    BY <1>1, <2>2 DEF IsLocal
  <2>4. QED BY <1>13, <2>1, <2>2, <2>3 DEF Entered
\* the steps that change the leases
<1>16. ASSUME WTypes', Apart', Holds(o)', Others,
              \A q \in Owner : q # o => scope'[q] = scope[q],
              \A q \in Owner : q # o => (Acting(q) => Keeps(q))
       PROVE  WInv'
  <2>1. \A q \in Owner : Holds(q)
    BY DEF WInv
  <2>2. \A q \in Owner : q # o => Holds(q)'
    BY <1>1, <1>16, <2>1, OthersHold
  <2>3. QED BY <1>16, <2>2 DEF WInv
<1>17. CASE ClaimScope(o)
  <2>1. /\ thread[o].pc = "idle" /\ UNCHANGED thread
        /\ MayClaim(o, Root) /\ Claimed(o, Root)
        /\ scope' = [scope EXCEPT ![o] = Root]
    BY <1>17 DEF ClaimScope, At
  <2>2. scope'[o] = Root /\ \A q \in Owner : q # o => scope'[q] = scope[q]
    BY <1>1, <2>1
  <2>3. /\ ws' \in [Path -> Holder] /\ ws'[Root] = o /\ Apart'
        /\ \A q \in Owner : Acting(q) => Keeps(q)
    BY <1>1, <2>1, DelegatedHaveRoot, ClaimIsFair
  <2>4. WTypes'
    BY <1>1, <2>1, <2>3 DEF WTypes
  <2>5. Holds(o)'
    BY <1>1, <2>1, <2>2, <2>3 DEF Holds, Entered
  <2>6. QED BY <1>16, <2>1, <2>2, <2>3, <2>4, <2>5
<1>18. CASE ReleaseScope(o)
  <2>1. /\ thread[o].pc = "idle" /\ UNCHANGED thread /\ scope[o] # None
        /\ Released(o, scope[o])
        /\ scope' = [scope EXCEPT ![o] = None]
    BY <1>18 DEF ReleaseScope, At
  <2>2. scope[o] \in Path
    BY <1>1, <2>1, DelegatedHaveRoot DEF WTypes
  <2>3. scope'[o] = None /\ \A q \in Owner : q # o => scope'[q] = scope[q]
    BY <1>1, <2>1
  <2>4. ws' \in [Path -> Holder] /\ Apart' /\ \A q \in Owner : q # o => Keeps(q)
    BY <1>1, <2>1, <2>2, ReleaseIsFair
  <2>5. WTypes'
    BY <1>1, <2>1, <2>4 DEF WTypes
  <2>6. Holds(o)'
    BY <1>1, <2>1, <2>3 DEF Holds, Entered
  <2>7. QED BY <1>16, <2>1, <2>3, <2>4, <2>5, <2>6
<1>19. ASSUME NEW c \in Calls, Start(o, c) PROVE WInv'
  <2>1. Same /\ thread[o].pc = "idle"
    BY <1>19 DEF Start, At
  <2>2. CASE RefusedPaths(c) # {}
    BY <1>6, <1>19, <2>1, <2>2 DEF Start
  <2>3. CASE RefusedPaths(c) = {}
    <3>1. thread' = [thread EXCEPT ![o] = Prepared(c)]
      BY <1>19, <2>3 DEF Start
    <3>2. thread'[o] = Prepared(c) /\ Others
      BY <1>1, <3>1
    <3> DEFINE l == [Idle EXCEPT !.kind = c.kind, !.open = c.open, !.paths = Paths(c),
                                 !.todo = Paths(c), !.queue = Queued(c)]
    <3>3. IsLocal(l) /\ l.paths = Paths(c) /\ l.todo = Paths(c) /\ l.claimed = {}
      BY DEF Idle, IsLocal
    <3>4. Prepared(c) = Onward(l)
      BY DEF Prepared
    <3> HIDE DEF l
    <3>5. /\ thread'[o].paths = Paths(c) /\ thread'[o].todo = Paths(c)
          /\ thread'[o].claimed = {}
          /\ thread'[o].pc \in {"claim", "begin", "ready"}
          /\ thread'[o].pc = "ready" => thread'[o].todo = {}
      BY <3>2, <3>3, <3>4, OnwardIs
    <3>6. Acting(o)' /\ scope'[o] # None => ws'[scope'[o]] = o
      BY <1>1, <2>1 DEF Holds, Acting
    <3>7. Holds(o)'
      BY <3>5, <3>6, PathsArePaths DEF Holds, Entered
    <3>8. QED BY <1>3, <2>1, <3>2, <3>7
  <2>4. QED BY <2>2, <2>3
<1>20. CASE ClaimWorkspace(o)
  <2>1. thread[o].pc = "claim" /\ UNCHANGED scope
    BY <1>20 DEF ClaimWorkspace, At
  <2>2. PICK p \in thread[o].todo :
          /\ MayClaim(o, p) /\ Claimed(o, p)
          /\ Becomes(o, Onward([thread[o] EXCEPT !.todo = @ \ {p},
                                  !.claimed = IF ws[p] = o THEN @ ELSE @ \union {p}]))
    BY <1>20 DEF ClaimWorkspace
  <2> DEFINE l == [thread[o] EXCEPT !.todo = @ \ {p},
                                    !.claimed = IF ws[p] = o THEN @ ELSE @ \union {p}]
  <2>3. /\ IsLocal(l) /\ l.paths = thread[o].paths /\ l.todo = thread[o].todo \ {p}
        /\ l.claimed = IF ws[p] = o THEN thread[o].claimed ELSE thread[o].claimed \union {p}
    BY <1>1 DEF IsLocal
  <2>4. thread'[o] = Onward(l) /\ Others
    BY <1>2, <2>2
  <2> HIDE DEF l
  <2>5. p \in Path
    BY <1>1, <2>2 DEF Holds
  <2>6. /\ ws' \in [Path -> Holder] /\ ws'[p] = o /\ Apart'
        /\ \A q \in Owner : Acting(q) => Keeps(q)
    BY <1>1, <2>2, <2>5, ClaimIsFair
  <2>7. /\ thread'[o].paths = l.paths /\ thread'[o].todo = l.todo
        /\ thread'[o].claimed = l.claimed
        /\ thread'[o].pc \in {"claim", "begin", "ready"}
        /\ thread'[o].pc = "ready" => thread'[o].todo = {}
    BY <2>3, <2>4, OnwardIs
  <2>8. \A q \in thread'[o].paths \ thread'[o].todo : ws'[q] = o
    <3>1. \A q \in thread[o].paths \ thread[o].todo : ws[q] = o
      BY <1>1, <2>1 DEF Holds, Entered
    <3>2. Keeps(o)
      BY <2>6
    <3>3. \A q \in thread[o].paths \ thread[o].todo : ws'[q] = o
      BY <1>1, <3>1, <3>2 DEF Keeps, Holds
    <3>4. QED BY <2>3, <2>6, <2>7, <3>3
  <2>9. scope[o] # None => ws'[scope[o]] = o /\ scope[o] \notin thread'[o].claimed
    <3>1. scope[o] # None =>
            scope[o] \in Path /\ ws[scope[o]] = o /\ scope[o] \notin thread[o].claimed
      BY <1>1, DelegatedHaveRoot DEF Holds, WTypes
    <3>2. scope[o] # None => ws'[scope[o]] = o
      BY <2>6, <3>1 DEF Keeps
    <3>3. QED BY <2>3, <2>7, <3>1, <3>2
  <2>10. /\ thread'[o].paths \subseteq Path
         /\ thread'[o].todo \union thread'[o].claimed \subseteq thread'[o].paths
    BY <1>1, <2>2, <2>3, <2>7 DEF Holds
  <2>11. Holds(o)'
    BY <2>1, <2>7, <2>8, <2>9, <2>10 DEF Holds
  <2>12. WTypes'
    BY <1>1, <2>1, <2>6 DEF WTypes
  <2>13. QED BY <1>16, <2>1, <2>4, <2>6, <2>11, <2>12
<1>21. CASE ReleaseWorkspace(o)
  <2>1. PICK p \in thread[o].claimed :
          Released(o, p) /\ Becomes(o, Back([thread[o] EXCEPT !.claimed = @ \ {p}]))
    BY <1>21 DEF ReleaseWorkspace
  <2> DEFINE l == [thread[o] EXCEPT !.claimed = @ \ {p}]
  <2>2. /\ IsLocal(l) /\ l.paths = thread[o].paths /\ l.todo = thread[o].todo
        /\ l.claimed = thread[o].claimed \ {p}
    BY <1>1 DEF IsLocal
  <2>3. thread'[o] = Back(l) /\ Others
    BY <1>2, <2>1
  <2> HIDE DEF l
  <2>4. UNCHANGED scope
    BY <1>21 DEF ReleaseWorkspace
  <2>5. p \in Path
    BY <1>1, <2>1 DEF Holds
  <2>6. /\ ws' \in [Path -> Holder] /\ Apart'
        /\ \A q \in Path : q # p => ws'[q] = ws[q]
        /\ \A q \in Owner : q # o => Keeps(q)
    BY <1>1, <2>1, <2>5, ReleaseIsFair
  <2>7. \A q \in Path \ thread[o].claimed : ws'[q] = ws[q]
    BY <2>1, <2>6
  <2>8. Holds(o)'
    BY <1>1, <2>2, <2>3, <2>4, <2>7, GoesBack
  <2>9. WTypes'
    BY <1>1, <2>4, <2>6 DEF WTypes
  <2>10. QED BY <1>16, <2>3, <2>4, <2>6, <2>8, <2>9
<1>22. QED
  BY <1>8, <1>9, <1>10, <1>11, <1>12, <1>14, <1>15, <1>17, <1>18, <1>19, <1>20, <1>21
     DEF CallStep, Entering, Preparing, Leaving

-----------------------------------------------------------------------------
(* The system *)

\* No step of a call starts or ends a process.
LEMMA CallsLeaveProcesses == ASSUME NEW o \in Owner, CallStep(o) PROVE UNCHANGED proc
<1>1. Entering(o) => UNCHANGED proc
  BY DEF Entering, ClaimScope, ReleaseScope, Start, ClaimWorkspace, WorkspaceRefused
<1>2. Preparing(o) => UNCHANGED proc
  BY DEF Preparing, Authorize, Deny, Create, CreateRefused, NoDestination
<1>3. Leaving(o) => UNCHANGED proc
  BY DEF Leaving, Touch, EffectEnds, EffectRaises, FinishAction, FinishRaises, ReleaseWorkspace
<1>4. QED BY <1>1, <1>2, <1>3 DEF CallStep

\* A process that dies takes nothing from the others.
LEMMA CrashHolds == ASSUME WInv, NEW p \in Process, Crash(p) PROVE WInv'
<1>1. /\ UNCHANGED ws
      /\ proc' = [proc EXCEPT ![p] = "gone"]
      /\ thread' = [o \in Owner |-> IF ProcessOf[o] = p THEN Idle ELSE thread[o]]
      /\ scope' = [o \in Owner |-> IF ProcessOf[o] = p THEN None ELSE scope[o]]
  BY DEF Crash
<1>2. WTypes /\ WTypes' /\ Apart /\ \A o \in Owner : Holds(o)
  BY <1>1 DEF WInv, WTypes
<1>3. \A r \in Process : proc'[r] = "alive" => proc[r] = "alive"
  BY <1>1, <1>2 DEF WTypes
<1>4. ASSUME NEW h \in Holder, Active(proc', h) PROVE Active(proc, h)
  BY <1>1, <1>2, <1>3, <1>4, OwnersLiveInProcesses, NoneIsNoOwner
     DEF Active, OwnerGone, Holder, WTypes
<1>5. Apart'
  BY <1>1, <1>2, <1>4 DEF Apart, WTypes
<1>6. ASSUME NEW o \in Owner PROVE Holds(o)'
  <2>1. Acting(o)' => Acting(o)
    BY <1>3, OwnersLiveInProcesses DEF Acting
  <2>2. Keeps(o)
    BY <1>1 DEF Keeps
  <2>3. CASE ProcessOf[o] = p
    BY <1>1, <2>3 DEF Holds, Idle, Entered
  <2>4. CASE ProcessOf[o] # p
    BY <1>1, <1>2, <2>1, <2>2, <2>4, HoldsStill
  <2>5. QED BY <2>3, <2>4
<1>7. QED BY <1>2, <1>5, <1>6 DEF WInv

\* The rest leaves the leases of workspaces, and the calls, alone.
LEMMA RestHolds ==
  ASSUME WInv, Recover \/ Broker \/ UNCHANGED vars PROVE WInv'
<1>1. UNCHANGED <<ws, scope, thread, proc>>
  BY DEF Recover, Broker, vars
<1>2. QED BY <1>1 DEF WInv, WTypes, Apart, Holds, Acting

\* Every step keeps the invariant.
LEMMA StepHolds == ASSUME AInv, WInv, [Next]_vars PROVE WInv'
<1>1. ASSUME NEW o \in Owner, Acting(o), CallStep(o) PROVE WInv'
  BY <1>1, CallsLeaveProcesses, CallHolds
<1>2. QED BY <1>1, CrashHolds, RestHolds DEF Next

\* Nothing is held at first.
LEMMA NothingIsHeld == ASSUME Init PROVE WInv
<1>1. /\ ws = [p \in Path |-> None] /\ scope = [o \in Owner |-> None]
      /\ thread = [o \in Owner |-> Idle] /\ proc = [p \in Process |-> "alive"]
  BY DEF Init
<1>2. WTypes
  BY <1>1 DEF WTypes, Holder
<1>3. Apart
  BY <1>1 DEF Apart
<1>4. \A o \in Owner : Holds(o)
  BY <1>1 DEF Holds, Idle, Entered
<1>5. QED BY <1>2, <1>3, <1>4 DEF WInv

\* Who has an effect on a workspace holds it, and who acts is not passed over.
LEMMA HoldingExcludes == ASSUME WInv PROVE WorkspaceExclusive
<1>1. SUFFICES ASSUME NEW o \in Owner, NEW q \in Owner, o # q, Affecting(o), Acting(q),
                      NEW p \in thread[o].paths
               PROVE  /\ At(q, "touched") => \A r \in thread[q].paths : <<p, r>> \notin Overlaps
                      /\ scope[q] # None => <<p, scope[q]>> \notin Overlaps
  BY DEF WorkspaceExclusive
<1>2. Active(proc, o) /\ Active(proc, q)
  BY <1>1, ActingIsActive DEF Affecting
<1>3. p \in Path /\ ws[p] = o
  BY <1>1 DEF WInv, Holds, Affecting, At, Entered
<1>4. ASSUME NEW r \in Path, ws[r] = q PROVE <<p, r>> \notin Overlaps
  BY <1>1, <1>2, <1>3, <1>4 DEF WInv, Apart
<1>5. ASSUME At(q, "touched"), NEW r \in thread[q].paths PROVE r \in Path /\ ws[r] = q
  BY <1>1, <1>5 DEF WInv, Holds, At, Entered
<1>6. ASSUME scope[q] # None PROVE scope[q] \in Path /\ ws[scope[q]] = q
  BY <1>1, <1>6, DelegatedHaveRoot DEF WInv, WTypes, Holds
<1>7. QED BY <1>4, <1>5, <1>6

\* docs/DELEGATION.md:5: no two owners affect overlapping workspaces at once,
\* and none does while a delegated child holds one.
THEOREM WorkspacesAreExclusive == Spec => []WorkspaceExclusive
<1>1. Init => AInv /\ WInv
  BY InitHolds, NothingIsHeld
<1>2. AInv /\ WInv /\ [Next]_vars => (AInv /\ WInv)'
  BY NextKeeps, StepHolds
<1>3. AInv /\ WInv => WorkspaceExclusive
  BY HoldingExcludes
<1>4. QED BY <1>1, <1>2, <1>3, PTL DEF Spec

-----------------------------------------------------------------------------
(* The journal: rows *)

\* A row has its lease while it is running, and the state it is in is true.
RowTrue(k) ==
    /\ journal[k].by \in Owner
    /\ holder[k] = IF journal[k].state = "running" THEN journal[k].by ELSE None
    /\ journal[k].state \in {"cancelled", "denied"} => k \notin touched
    /\ journal[k].state = "succeeded" => k \in touched
    /\ journal[k].state = "unknown" => k \in touched \/ proc[ProcessOf[journal[k].by]] = "gone"

RowsTrue ==
    /\ IsSequence(holder) /\ Len(holder) = Len(journal)
    /\ touched \subseteq Actions
    /\ \A k \in Actions : RowTrue(k)

\* m are rows that o has begun and not finished, each of them once
Rows(o, m) ==
    /\ IsSequence(m)
    /\ \A i, j \in DOMAIN m : i # j => m[i] # m[j]
    /\ \A i \in DOMAIN m : /\ m[i] \in Actions
                           /\ journal[m[i]].state = "running" /\ journal[m[i]].by = o

Spared(l, T) == \A i \in DOMAIN l.mine : l.mine[i] \notin T
Hit(l, T) == \A i \in DOMAIN l.mine : l.mine[i] \in T

\* what the rows of a call may be finished with
Verdict(l, T) ==
    \/ l.verdict = "cancelled" /\ Spared(l, T)
    \/ l.verdict = "failed"
    \/ l.verdict \in {"succeeded", "unknown"} /\ Hit(l, T)

Undone == {"claim", "begin", "create", "ready"}
Phase(l, T) ==
    /\ l.pc = "idle" => l.mine = <<>>
    /\ l.pc \in Undone => Spared(l, T) /\ (l.mine # <<>> \/ l.queue # <<>>)
    /\ l.pc \in {"ready", "touched", "finish"} => l.mine # <<>>
    /\ l.pc = "touched" => Hit(l, T)
    /\ l.pc \in {"finish", "release"} /\ l.mine # <<>> => Verdict(l, T)

CallTrue(o) ==
    /\ ~Acting(o) => thread[o] = Idle
    /\ Rows(o, thread[o].mine)
    /\ Phase(thread[o], touched)

JInv == RowsTrue /\ \A o \in Owner : CallTrue(o)

\* The empty sequence is one.
LEMMA EmptyIsSequence == IsSequence(<<>>) /\ DOMAIN <<>> = {}
<1>1. <<>> \in Seq({})
  OBVIOUS
<1>2. QED BY <1>1 DEF IsSequence

\* Sequences with the same positions are of one length.
LEMMA SameLength ==
  ASSUME NEW s, NEW t, IsSequence(s), IsSequence(t), DOMAIN s = DOMAIN t
  PROVE  Len(s) = Len(t)
<1>1. PICK S : s \in Seq(S)
  BY DEF IsSequence
<1>2. PICK T : t \in Seq(T)
  BY DEF IsSequence
<1>3. Len(s) \in Nat /\ Len(t) \in Nat /\ 1..Len(s) = 1..Len(t)
  BY <1>1, <1>2, LenProperties
<1>4. ASSUME NEW a \in Nat, NEW b \in Nat, 1..a = 1..b PROVE a = b
  <2>1. (a # 0 => a \in 1..b) /\ (b # 0 => b \in 1..a)
    BY <1>4
  <2>2. QED BY <2>1
<1>5. QED BY <1>3, <1>4

\* The rows of the journal and their leases are numbered alike.
LEMMA Numbered ==
  ASSUME Shapes, RowsTrue
  PROVE  /\ Len(journal) \in Nat /\ Actions = 1..Len(journal)
         /\ DOMAIN holder = Actions
         /\ \A k \in Actions : IsRow(journal[k])
<1>1. IsSequence(journal) /\ IsSequence(holder) /\ Len(holder) = Len(journal)
  BY DEF Shapes, RowsTrue
<1>2. PICK S : journal \in Seq(S)
  BY <1>1 DEF IsSequence
<1>3. PICK T : holder \in Seq(T)
  BY <1>1 DEF IsSequence
<1>4. QED BY <1>1, <1>2, <1>3, LenProperties DEF Actions, Shapes

\* A row is recorded as denied, or begun by an owner whose lease it gets.
LEMMA RowRecorded ==
  ASSUME Shapes, RowsTrue, NEW o \in Owner, NEW q, NEW g, NEW s \in {"denied", "running"},
         Recorded(Row(o, q, g, s)), UNCHANGED proc
  PROVE  /\ RowsTrue'
         /\ Actions' = Actions \union {Len(journal) + 1} /\ Len(journal) + 1 \notin Actions
         /\ \A k \in Actions : journal'[k] = journal[k] /\ holder'[k] = holder[k]
         /\ journal'[Len(journal) + 1].by = o /\ journal'[Len(journal) + 1].state = s
         /\ touched' = touched
<1>0. PICK n : n = Len(journal) + 1
  OBVIOUS
<1> DEFINE row == Row(o, q, g, s)
           h == IF row.state = "running" THEN row.by ELSE None
<1>1. row.by = o /\ row.state = s
  BY DEF Row
<1>2. journal' = Append(journal, row) /\ holder' = Append(holder, h) /\ touched' = touched
  BY DEF Recorded
<1>3. /\ Len(journal) \in Nat /\ Actions = 1..Len(journal) /\ DOMAIN holder = Actions
      /\ IsSequence(journal) /\ IsSequence(holder) /\ Len(holder) = Len(journal)
      /\ touched \subseteq Actions /\ \A k \in Actions : RowTrue(k)
  BY Numbered DEF Shapes, RowsTrue
<1> HIDE DEF row, h
<1>4. /\ DOMAIN journal' = 1..n /\ journal'[n] = row
      /\ \A k \in 1..Len(journal) : journal'[k] = journal[k]
  BY <1>0, <1>2, <1>3, Appended
<1>5. /\ IsSequence(holder') /\ holder'[n] = h /\ DOMAIN holder' = 1..n
      /\ \A k \in 1..Len(journal) : holder'[k] = holder[k]
  BY <1>0, <1>2, <1>3, Appended
<1>6. Len(holder') = Len(journal')
  <2>1. PICK S : journal \in Seq(S)
    BY <1>3 DEF IsSequence
  <2>2. PICK T : holder \in Seq(T)
    BY <1>3 DEF IsSequence
  <2>3. journal \in Seq(S \union {row}) /\ holder \in Seq(T \union {h})
    BY <2>1, <2>2, SeqMonotonic
  <2>4. Len(journal') = Len(journal) + 1 /\ Len(holder') = Len(holder) + 1
    BY <1>2, <2>3, AppendProperties
  <2>5. QED BY <1>3, <2>4
<1>7. Actions' = Actions \union {n} /\ n \notin Actions
  BY <1>0, <1>3, <1>4 DEF Actions
<1>8. RowTrue(n)'
  <2>1. h = IF s = "running" THEN o ELSE None
    BY <1>1 DEF h
  <2>2. n \notin touched'
    BY <1>2, <1>3, <1>7
  <2>3. journal'[n].by = o /\ journal'[n].state = s /\ holder'[n] = IF s = "running" THEN o ELSE None
    BY <1>1, <1>4, <1>5, <2>1
  <2>4. s \notin {"cancelled", "succeeded", "unknown"} /\ (s = "denied" \/ s = "running")
    OBVIOUS
  <2>5. QED BY <2>2, <2>3, <2>4 DEF RowTrue
<1>9. ASSUME NEW k \in Actions PROVE RowTrue(k)'
  <2>1. journal'[k] = journal[k] /\ holder'[k] = holder[k] /\ RowTrue(k)
    BY <1>3, <1>4, <1>5
  <2>2. QED BY <1>2, <2>1 DEF RowTrue
<1>10. RowsTrue'
  <2>1. IsSequence(holder') /\ Len(holder') = Len(journal') /\ touched' \subseteq Actions'
    BY <1>2, <1>3, <1>5, <1>6, <1>7
  <2>2. \A k \in Actions' : RowTrue(k)'
    BY <1>7, <1>8, <1>9
  <2>3. QED BY <2>1, <2>2 DEF RowsTrue
<1>11. QED BY <1>0, <1>1, <1>2, <1>3, <1>4, <1>5, <1>7, <1>10

\* A running row is settled in a state that is true of it.
LEMMA RowSettled ==
  ASSUME Shapes, RowsTrue, NEW k \in Actions, NEW s, Settled(k, s), UNCHANGED proc,
         \/ s = "cancelled" /\ k \notin touched
         \/ s = "failed"
         \/ s \in {"succeeded", "unknown"} /\ k \in touched
  PROVE  /\ RowsTrue'
         /\ Actions' = Actions
         /\ \A j \in Actions : j # k => journal'[j] = journal[j] /\ holder'[j] = holder[j]
         /\ holder'[k] = None
         /\ touched' = touched
<1>1. /\ journal' = [journal EXCEPT ![k].state = s] /\ holder' = [holder EXCEPT ![k] = None]
      /\ touched' = touched
  BY DEF Settled
<1>2. /\ Len(journal) \in Nat /\ Actions = 1..Len(journal) /\ DOMAIN holder = Actions
      /\ IsSequence(journal) /\ IsSequence(holder) /\ Len(holder) = Len(journal)
      /\ touched \subseteq Actions /\ \A j \in Actions : RowTrue(j)
      /\ IsRow(journal[k])
  BY Numbered DEF Shapes, RowsTrue
<1>3. /\ DOMAIN journal' = DOMAIN journal /\ journal' = [j \in DOMAIN journal' |-> journal'[j]]
      /\ \A j \in Actions : j # k => journal'[j] = journal[j]
      /\ journal'[k] = [journal[k] EXCEPT !.state = s]
  BY <1>1 DEF Actions
<1>4. journal'[k].by = journal[k].by /\ journal'[k].state = s
  BY <1>2, <1>3 DEF IsRow
<1>5. /\ DOMAIN holder' = DOMAIN holder /\ holder' = [j \in DOMAIN holder' |-> holder'[j]]
      /\ \A j \in Actions : j # k => holder'[j] = holder[j]
      /\ holder'[k] = None
  BY <1>1, <1>2
<1>6. IsSequence(journal') /\ IsSequence(holder')
  BY <1>2, <1>3, <1>5, Rewritten
<1>7. Len(holder') = Len(journal')
  BY <1>2, <1>3, <1>5, <1>6, SameLength DEF Actions
<1>8. RowTrue(k)'
  <2>1. journal[k].by \in Owner
    BY <1>2 DEF RowTrue
  <2>2. QED BY <1>1, <1>4, <1>5, <2>1 DEF RowTrue
<1>9. ASSUME NEW j \in Actions, j # k PROVE RowTrue(j)'
  <2>1. journal'[j] = journal[j] /\ holder'[j] = holder[j] /\ RowTrue(j)
    BY <1>2, <1>3, <1>5, <1>9
  <2>2. QED BY <1>1, <2>1 DEF RowTrue
<1>10. Actions' = Actions
  BY <1>3 DEF Actions
<1>11. RowsTrue'
  BY <1>1, <1>2, <1>6, <1>7, <1>8, <1>9, <1>10 DEF RowsTrue
<1>12. QED BY <1>1, <1>3, <1>5, <1>10, <1>11

\* The actions of a call when it has begun another, and when it has finished the first.
LEMMA MineGrows ==
  ASSUME NEW m, IsSequence(m), NEW e
  PROVE  /\ IsSequence(Append(m, e)) /\ Append(m, e) # <<>>
         /\ \A i \in DOMAIN Append(m, e) :
              \/ i \in DOMAIN m /\ Append(m, e)[i] = m[i]
              \/ i = Len(m) + 1 /\ i \notin DOMAIN m /\ Append(m, e)[i] = e
         /\ \A i \in DOMAIN m : i \in DOMAIN Append(m, e) /\ Append(m, e)[i] = m[i]
         /\ Len(m) + 1 \in DOMAIN Append(m, e) /\ Append(m, e)[Len(m) + 1] = e
<1>1. /\ IsSequence(Append(m, e)) /\ Len(m) \in Nat /\ DOMAIN m = 1..Len(m)
      /\ DOMAIN Append(m, e) = 1..(Len(m) + 1)
      /\ \A i \in 1..Len(m) : Append(m, e)[i] = m[i]
      /\ Append(m, e)[Len(m) + 1] = e
  BY Appended
<1>2. Append(m, e) # <<>>
  <2>1. 1 \in DOMAIN Append(m, e)
    BY <1>1
  <2>2. QED BY <2>1
<1>3. QED BY <1>1, <1>2

\* What is left are the others, each as it was.
LEMMA MineShrinks ==
  ASSUME NEW m, IsSequence(m), m # <<>>
  PROVE  /\ IsSequence(Tail(m)) /\ 1 \in DOMAIN m /\ Head(m) = m[1]
         /\ \A i \in DOMAIN Tail(m) : i + 1 \in DOMAIN m /\ i + 1 # 1 /\ Tail(m)[i] = m[i + 1]
         /\ \A i, j \in DOMAIN Tail(m) : i # j => i + 1 # j + 1
         /\ \A i \in DOMAIN m : i # 1 => \E j \in DOMAIN Tail(m) : Tail(m)[j] = m[i]
<1>1. PICK S : m \in Seq(S)
  BY DEF IsSequence
<1>2. /\ Tail(m) \in Seq(S) /\ Len(Tail(m)) = Len(m) - 1 /\ Len(m) \in Nat \ {0}
      /\ \A i \in 1..Len(Tail(m)) : Tail(m)[i] = m[i + 1]
      /\ Head(m) = m[1]
  BY <1>1, HeadTailProperties, LenProperties, EmptySeq
<1>3. DOMAIN m = 1..Len(m) /\ DOMAIN Tail(m) = 1..(Len(m) - 1)
  BY <1>1, <1>2, LenProperties
<1>4. ASSUME NEW i \in DOMAIN m, i # 1 PROVE \E j \in DOMAIN Tail(m) : Tail(m)[j] = m[i]
  <2>1. i - 1 \in DOMAIN Tail(m) /\ Tail(m)[i - 1] = m[i]
    BY <1>2, <1>3, <1>4
  <2>2. QED BY <2>1
<1>5. QED BY <1>1, <1>2, <1>3, <1>4 DEF IsSequence

-----------------------------------------------------------------------------
(* The journal: calls *)

\* A call that goes on has something begun or to begin, and has touched nothing.
LEMMA OnwardFits ==
  ASSUME NEW l, IsLocal(l), NEW T, Spared(l, T), l.mine # <<>> \/ l.queue # <<>>
  PROVE  Onward(l).mine = l.mine /\ Phase(Onward(l), T)
<1>1. \A label : /\ [l EXCEPT !.pc = label].pc = label
                 /\ [l EXCEPT !.pc = label].mine = l.mine
                 /\ [l EXCEPT !.pc = label].queue = l.queue
  BY DEF IsLocal
<1>2. \/ Onward(l) = [l EXCEPT !.pc = "claim"]
      \/ Onward(l) = [l EXCEPT !.pc = "begin"]
      \/ Onward(l) = [l EXCEPT !.pc = "ready"] /\ ~Work(l, "begin")
  BY DEF Onward, FirstOf
<1>3. l.queue # <<>> => Work(l, "begin")
  BY DEF Work
<1>4. /\ Onward(l).mine = l.mine /\ Onward(l).queue = l.queue
      /\ Onward(l).pc \in {"claim", "begin", "ready"}
      /\ Onward(l).pc = "ready" => l.mine # <<>>
  BY <1>1, <1>2, <1>3
<1>5. Spared(Onward(l), T)
  BY <1>4 DEF Spared
<1>6. QED BY <1>4, <1>5 DEF Phase

\* A call on its way back finishes what it has begun with a verdict that is true.
LEMMA BackFits ==
  ASSUME NEW l, IsLocal(l), NEW T, l.mine # <<>> => Verdict(l, T)
  PROVE  /\ Back(l) = Idle \/ Back(l).mine = l.mine
         /\ Phase(Back(l), T)
<1>1. \A label : /\ [l EXCEPT !.pc = label].pc = label
                 /\ [l EXCEPT !.pc = label].mine = l.mine
                 /\ [l EXCEPT !.pc = label].verdict = l.verdict
  BY DEF IsLocal
<1>2. \/ Back(l) = Idle
      \/ Back(l) = [l EXCEPT !.pc = "finish"] /\ Work(l, "finish")
      \/ Back(l) = [l EXCEPT !.pc = "release"]
  BY DEF Back, FirstOf
<1>3. Work(l, "finish") => l.mine # <<>>
  BY DEF Work
<1>4. CASE Back(l) = Idle
  BY <1>4 DEF Idle, Phase, Undone
<1>5. CASE Back(l) # Idle
  <2>1. /\ Back(l).mine = l.mine /\ Back(l).verdict = l.verdict
        /\ Back(l).pc \in {"finish", "release"}
        /\ Back(l).pc = "finish" => l.mine # <<>>
    BY <1>1, <1>2, <1>3, <1>5
  <2>2. l.mine # <<>> => Verdict(Back(l), T)
    BY <2>1 DEF Verdict, Spared, Hit
  <2>3. QED BY <2>1, <2>2 DEF Phase, Undone
<1>6. QED BY <1>4, <1>5

\* A call that has returned fits in.
LEMMA IdleFits == ASSUME NEW T PROVE Idle.mine = <<>> /\ Phase(Idle, T)
BY DEF Idle, Phase, Undone

\* What a step of o does to the rest of the journal.
Spares(o) ==
    \A k \in Actions :
        journal[k].by # o =>
            k \in Actions' /\ journal'[k] = journal[k] /\ (k \in touched' <=> k \in touched)

\* The other calls are not disturbed by it.
LEMMA OthersFit ==
  ASSUME NEW o \in Owner, NEW q \in Owner, q # o, CallTrue(q), Spares(o),
         thread'[q] = thread[q], UNCHANGED proc
  PROVE  CallTrue(q)'
<1> DEFINE m == thread[q].mine
<1>1. thread'[q].mine = m /\ Rows(q, m)
  BY DEF CallTrue
<1>2. \A i \in DOMAIN m : /\ m[i] \in Actions' /\ journal'[m[i]] = journal[m[i]]
                          /\ (m[i] \in touched' <=> m[i] \in touched)
  BY <1>1 DEF Rows, Spares
<1>3. Rows(q, thread[q].mine)'
  BY <1>1, <1>2 DEF Rows
<1>4. Phase(thread[q], touched)'
  <2>1. Phase(thread[q], touched)
    BY DEF CallTrue
  <2>2. PICK l : l = thread[q]
    OBVIOUS
  <2>3. Spared(l, touched) <=> Spared(l, touched')
    BY <1>2, <2>2 DEF Spared
  <2>4. Hit(l, touched) <=> Hit(l, touched')
    BY <1>2, <2>2 DEF Hit
  <2>5. Phase(l, touched')
    BY <2>1, <2>2, <2>3, <2>4 DEF Phase, Verdict
  <2>6. QED BY <2>2, <2>5
<1>5. ~Acting(q)' => thread'[q] = Idle
  BY DEF CallTrue, Acting
<1>6. QED BY <1>3, <1>4, <1>5 DEF CallTrue

\* A step of o keeps the invariant when what it does to rows and to its call fits.
LEMMA CallFits ==
  ASSUME JInv, NEW o \in Owner, Acting(o), UNCHANGED proc, RowsTrue', Spares(o),
         NEW l, thread' = [thread EXCEPT ![o] = l], thread = [q \in Owner |-> thread[q]],
         Rows(o, l.mine)', Phase(l, touched')
  PROVE  JInv'
<1>1. thread'[o] = l /\ \A q \in Owner : q # o => thread'[q] = thread[q]
  OBVIOUS
<1>2. CallTrue(o)'
  <2>1. Rows(o, thread[o].mine)' /\ Phase(thread[o], touched)' /\ Acting(o)'
    BY <1>1 DEF Rows, Acting
  <2>2. QED BY <2>1 DEF CallTrue
<1>3. ASSUME NEW q \in Owner, q # o PROVE CallTrue(q)'
  <2>1. CallTrue(q) /\ thread'[q] = thread[q]
    BY <1>1, <1>3 DEF JInv
  <2>2. QED BY <1>3, <2>1, OthersFit
<1>4. QED BY <1>2, <1>3 DEF JInv

\* The same when the rows stay, or one is added, and the call keeps its actions or has returned.
LEMMA RowsStay ==
  ASSUME JInv, NEW o \in Owner, Acting(o), UNCHANGED <<proc, touched>>, RowsTrue',
         \A k \in Actions : k \in Actions' /\ journal'[k] = journal[k],
         NEW l, thread' = [thread EXCEPT ![o] = l], thread = [q \in Owner |-> thread[q]],
         l.mine = thread[o].mine \/ l.mine = <<>>, Phase(l, touched)
  PROVE  JInv'
<1>1. Spares(o)
  BY DEF Spares
<1>2. Rows(o, thread[o].mine)
  BY DEF JInv, CallTrue
<1>3. PICK m : m = thread[o].mine
  OBVIOUS
<1>4. Rows(o, m)'
  BY <1>2, <1>3 DEF Rows
<1>5. Rows(o, <<>>)'
  BY EmptyIsSequence DEF Rows
<1>6. Rows(o, l.mine)'
  BY <1>3, <1>4, <1>5
<1>7. Phase(l, touched')
  OBVIOUS
<1>8. QED BY <1>1, <1>6, <1>7, CallFits

\* The same when the first of the actions of a call is settled, and taken off.
LEMMA FirstIsSettled ==
  ASSUME JInv, Shapes, NEW o \in Owner, Acting(o), UNCHANGED proc, thread[o].mine # <<>>,
         NEW s, Settled(Head(thread[o].mine), s),
         \/ s = "cancelled" /\ Spared(thread[o], touched)
         \/ s = "failed"
         \/ s \in {"succeeded", "unknown"} /\ Hit(thread[o], touched),
         NEW l, thread' = [thread EXCEPT ![o] = l], thread = [q \in Owner |-> thread[q]],
         l.mine = Tail(thread[o].mine) \/ l.mine = <<>>, Phase(l, touched)
  PROVE  JInv'
<1>1. PICK m : m = thread[o].mine
  OBVIOUS
<1>2. PICK k : k = Head(m)
  OBVIOUS
<1>3. Rows(o, m)
  BY <1>1 DEF JInv, CallTrue
<1>4. /\ IsSequence(Tail(m)) /\ 1 \in DOMAIN m /\ k = m[1]
      /\ \A i \in DOMAIN Tail(m) : i + 1 \in DOMAIN m /\ i + 1 # 1 /\ Tail(m)[i] = m[i + 1]
      /\ \A i, j \in DOMAIN Tail(m) : i # j => i + 1 # j + 1
  BY <1>1, <1>2, <1>3, MineShrinks DEF Rows
<1>5. k \in Actions /\ journal[k].by = o
  BY <1>3, <1>4 DEF Rows
<1>6. \/ s = "cancelled" /\ k \notin touched
      \/ s = "failed"
      \/ s \in {"succeeded", "unknown"} /\ k \in touched
  BY <1>1, <1>4 DEF Spared, Hit
<1>7. /\ RowsTrue' /\ Actions' = Actions /\ touched' = touched
      /\ \A j \in Actions : j # k => journal'[j] = journal[j]
  BY <1>1, <1>2, <1>5, <1>6, RowSettled DEF JInv
<1>8. Spares(o)
  BY <1>5, <1>7 DEF Spares
<1>9. ASSUME NEW i \in DOMAIN Tail(m)
      PROVE  /\ Tail(m)[i] \in Actions /\ Tail(m)[i] # k
             /\ journal[Tail(m)[i]].state = "running" /\ journal[Tail(m)[i]].by = o
  <2>1. i + 1 \in DOMAIN m /\ i + 1 # 1 /\ Tail(m)[i] = m[i + 1]
    BY <1>4
  <2>2. QED BY <1>3, <1>4, <2>1 DEF Rows
<1>10. \A i, j \in DOMAIN Tail(m) : i # j => Tail(m)[i] # Tail(m)[j]
  BY <1>3, <1>4 DEF Rows
<1>11. PICK t : t = Tail(m)
  OBVIOUS
<1>12. Rows(o, t)'
  BY <1>4, <1>7, <1>9, <1>10, <1>11 DEF Rows
<1>13. Rows(o, <<>>)'
  BY EmptyIsSequence DEF Rows
<1>14. Rows(o, l.mine)'
  BY <1>1, <1>11, <1>12, <1>13
<1>15. Phase(l, touched')
  BY <1>7
<1>16. QED BY <1>7, <1>8, <1>14, <1>15, CallFits

\* What is true of a verdict stays true when the first action is finished with it.
LEMMA VerdictStays ==
  ASSUME NEW l, NEW n, NEW T, IsSequence(l.mine), l.mine # <<>>, Verdict(l, T),
         n.mine = Tail(l.mine), n.verdict = l.verdict
  PROVE  Verdict(n, T)
<1>1. \A i \in DOMAIN n.mine : i + 1 \in DOMAIN l.mine /\ n.mine[i] = l.mine[i + 1]
  BY MineShrinks
<1>2. QED BY <1>1 DEF Verdict, Spared, Hit

\* A call has an action to begin.
LEMMA SomethingQueued == ASSUME NEW c \in Calls PROVE Queued(c) # <<>>
<1> DEFINE asked == {k \in DOMAIN c.requests : Decided(c)[k].policy = "ask"}
<1>1. 1 \in DOMAIN Becoming(c, asked)
  BY CallsAct
<1>2. DOMAIN Queued(c) = DOMAIN Becoming(c, asked)
  BY DEF Queued
<1>3. QED BY <1>1, <1>2

\* A step of a call keeps the journal true.
LEMMA CallIsTrue ==
  ASSUME AInv, JInv, NEW o \in Owner, Acting(o), CallStep(o), UNCHANGED proc
  PROVE  JInv'
<1>1. /\ IsLocal(thread[o]) /\ Shapes /\ RowsTrue /\ CallTrue(o)
      /\ thread = [q \in Owner |-> thread[q]]
      /\ Rows(o, thread[o].mine) /\ Phase(thread[o], touched)
  BY DEF AInv, Shapes, JInv, CallTrue
<1> DEFINE AllStand == RowsTrue' /\ touched' = touched
                   /\ \A k \in Actions : k \in Actions' /\ journal'[k] = journal[k]
<1>2. ASSUME UNCHANGED journalVars PROVE AllStand
  BY <1>1, <1>2 DEF journalVars, RowsTrue, RowTrue, Actions
<1>3. ASSUME NEW q, Recorded(Row(o, q, 0, "denied")) PROVE AllStand
  <2>1. /\ RowsTrue' /\ touched' = touched /\ Actions' = Actions \union {Len(journal) + 1}
        /\ \A k \in Actions : journal'[k] = journal[k]
    BY <1>1, <1>3, RowRecorded
  <2>2. QED BY <2>1
<1> HIDE DEF AllStand
\* the rows stay, or a denial is added
<1>4. ASSUME AllStand, NEW l, Becomes(o, l), l.mine = thread[o].mine \/ l.mine = <<>>,
             Phase(l, touched)
      PROVE  JInv'
  BY <1>1, <1>4, RowsStay DEF Becomes, AllStand
<1>5. ASSUME AllStand, Becomes(o, Idle) PROVE JInv'
  BY <1>4, <1>5, IdleFits
<1>6. ASSUME AllStand, NEW l, Becomes(o, Onward(l)), IsLocal(l), l.mine = thread[o].mine,
             Spared(l, touched), l.mine # <<>> \/ l.queue # <<>>
      PROVE  JInv'
  BY <1>4, <1>6, OnwardFits
<1>7. ASSUME AllStand, NEW l, Becomes(o, Back(l)), IsLocal(l),
             l.mine = thread[o].mine \/ l.mine = <<>>, l.mine # <<>> => Verdict(l, touched)
      PROVE  JInv'
  <2>1. /\ Back(l) = Idle \/ Back(l).mine = l.mine
        /\ Phase(Back(l), touched) /\ Idle.mine = <<>>
    BY <1>7, BackFits, IdleFits
  <2>2. QED BY <1>4, <1>7, <2>1
<1>8. ASSUME AllStand, Becomes(o, Back([thread[o] EXCEPT !.verdict = "cancelled"])),
             Spared(thread[o], touched)
      PROVE  JInv'
  <2>1. PICK l : l = [thread[o] EXCEPT !.verdict = "cancelled"]
    OBVIOUS
  <2>2. IsLocal(l) /\ l.mine = thread[o].mine /\ l.verdict = "cancelled"
    BY <1>1, <2>1 DEF IsLocal
  <2>3. Verdict(l, touched)
    BY <1>8, <2>2 DEF Verdict, Spared
  <2>4. QED BY <1>7, <1>8, <2>1, <2>2, <2>3
<1>9. ASSUME AllStand, NEW r, \/ Becomes(o, Back([thread[o] EXCEPT !.verdict = "failed"]))
                          \/ Becomes(o, Back([thread[o] EXCEPT !.verdict = "failed", !.raised = r]))
      PROVE  JInv'
  <2>1. PICK l : /\ Becomes(o, Back(l))
                 /\ \/ l = [thread[o] EXCEPT !.verdict = "failed"]
                    \/ l = [thread[o] EXCEPT !.verdict = "failed", !.raised = r]
    BY <1>9
  <2>2. IsLocal(l) /\ l.mine = thread[o].mine /\ l.verdict = "failed"
    BY <1>1, <2>1 DEF IsLocal
  <2>3. Verdict(l, touched)
    BY <2>2 DEF Verdict
  <2>4. QED BY <1>7, <1>9, <2>1, <2>2, <2>3
<1>10. CASE ClaimScope(o) \/ ReleaseScope(o)
  <2>1. UNCHANGED journalVars /\ UNCHANGED thread
    BY <1>10 DEF ClaimScope, ReleaseScope
  <2>2. AllStand
    BY <1>2, <2>1
  <2>3. thread' = [thread EXCEPT ![o] = thread[o]]
    BY <1>1, <2>1
  <2>4. QED BY <1>1, <2>2, <2>3, RowsStay DEF AllStand
<1>11. ASSUME NEW c \in Calls, Start(o, c) PROVE JInv'
  <2>1. thread[o].mine = <<>>
    BY <1>1, <1>11 DEF Start, At, Phase
  <2>2. CASE RefusedPaths(c) # {}
    <3>1. Recorded(Row(o, Decided(c)[Min(RefusedPaths(c))], 0, "denied")) /\ UNCHANGED thread
      BY <1>11, <2>2 DEF Start
    <3>2. AllStand
      BY <1>3, <3>1
    <3>3. thread' = [thread EXCEPT ![o] = thread[o]]
      BY <1>1, <3>1
    <3>4. QED BY <1>1, <3>2, <3>3, RowsStay DEF AllStand
  <2>3. CASE RefusedPaths(c) = {}
    <3>1. thread' = [thread EXCEPT ![o] = Prepared(c)] /\ UNCHANGED journalVars
      BY <1>11, <2>3 DEF Start
    <3>2. AllStand
      BY <1>2, <3>1
    <3>3. PICK l : l = [Idle EXCEPT !.kind = c.kind, !.open = c.open, !.paths = Paths(c),
                                    !.todo = Paths(c), !.queue = Queued(c)]
      OBVIOUS
    <3>4. IsLocal(l) /\ l.mine = <<>> /\ l.queue = Queued(c) /\ Prepared(c) = Onward(l)
      BY <3>3 DEF Idle, IsLocal, Prepared
    <3>5. Spared(l, touched) /\ l.queue # <<>>
      BY <3>4, SomethingQueued DEF Spared
    <3>6. Onward(l).mine = <<>> /\ Phase(Onward(l), touched)
      BY <3>4, <3>5, OnwardFits
    <3>7. QED BY <1>1, <3>1, <3>2, <3>4, <3>6, RowsStay DEF AllStand
  <2>4. QED BY <2>2, <2>3
<1>12. CASE ClaimWorkspace(o)
  <2>1. PICK p : Becomes(o, Onward([thread[o] EXCEPT !.todo = @ \ {p},
                                  !.claimed = IF ws[p] = o THEN @ ELSE @ \union {p}]))
    BY <1>12 DEF ClaimWorkspace
  <2>2. UNCHANGED journalVars /\ thread[o].pc = "claim"
    BY <1>12 DEF ClaimWorkspace, At
  <2>3. PICK l : l = [thread[o] EXCEPT !.todo = @ \ {p},
                                  !.claimed = IF ws[p] = o THEN @ ELSE @ \union {p}]
    OBVIOUS
  <2>4. IsLocal(l) /\ l.mine = thread[o].mine /\ l.queue = thread[o].queue
    BY <1>1, <2>3 DEF IsLocal
  <2>5. Spared(l, touched) /\ (l.mine # <<>> \/ l.queue # <<>>)
    BY <1>1, <2>2, <2>4 DEF Phase, Undone, Spared
  <2>6. QED BY <1>2, <1>6, <2>1, <2>2, <2>3, <2>4, <2>5
<1>13. CASE WorkspaceRefused(o)
  <2>1. UNCHANGED journalVars /\ Spared(thread[o], touched)
    BY <1>1, <1>13 DEF WorkspaceRefused, At, Phase, Undone
  <2>2. QED BY <1>2, <1>8, <1>9, <1>13, <2>1 DEF WorkspaceRefused
<1>14. CASE Authorize(o)
  <2>1. UNCHANGED journalVars /\ thread[o].pc = "begin"
    BY <1>14 DEF Authorize, At
  <2>2. PICK g : Becomes(o, [thread[o] EXCEPT !.pc = "create", !.auth = g])
    BY <1>14 DEF Authorize
  <2>3. PICK l : l = [thread[o] EXCEPT !.pc = "create", !.auth = g]
    OBVIOUS
  <2>4. l.pc = "create" /\ l.mine = thread[o].mine /\ l.queue = thread[o].queue
    BY <1>1, <2>3 DEF IsLocal
  <2>5. Phase(l, touched)
    BY <1>1, <2>1, <2>4 DEF Phase, Undone, Spared
  <2>6. QED BY <1>2, <1>4, <2>1, <2>2, <2>3, <2>4, <2>5
<1>15. CASE Deny(o)
  <2>1. AllStand
    BY <1>3, <1>15 DEF Deny
  <2>2. Spared(thread[o], touched)
    BY <1>1, <1>15 DEF Deny, At, Phase, Undone
  <2>3. QED BY <1>8, <1>15, <2>1, <2>2 DEF Deny, Withdraw
<1>16. CASE CreateRefused(o)
  <2>1. UNCHANGED journalVars /\ Spared(thread[o], touched)
    BY <1>1, <1>16 DEF CreateRefused, At, Phase, Undone
  <2>2. QED BY <1>2, <1>8, <1>16, <2>1 DEF CreateRefused, Withdraw
<1>17. CASE EffectRaises(o)
  BY <1>2, <1>9, <1>17 DEF EffectRaises
<1>18. CASE EffectEnds(o)
  <2>1. PICK v \in Ends(thread[o]) : Becomes(o, Back([thread[o] EXCEPT !.verdict = v]))
    BY <1>18 DEF EffectEnds
  <2>2. UNCHANGED journalVars /\ Hit(thread[o], touched)
    BY <1>1, <1>18 DEF EffectEnds, At, Phase
  <2>3. v \in {"succeeded", "failed", "unknown"}
    BY <2>1 DEF Ends
  <2>4. PICK l : l = [thread[o] EXCEPT !.verdict = v]
    OBVIOUS
  <2>5. IsLocal(l) /\ l.mine = thread[o].mine /\ l.verdict = v
    BY <1>1, <2>4 DEF IsLocal
  <2>6. Verdict(l, touched)
    BY <2>2, <2>3, <2>5 DEF Verdict, Hit
  <2>7. QED BY <1>2, <1>7, <2>1, <2>2, <2>4, <2>5, <2>6
<1>19. CASE ReleaseWorkspace(o)
  <2>1. PICK p : Becomes(o, Back([thread[o] EXCEPT !.claimed = @ \ {p}]))
    BY <1>19 DEF ReleaseWorkspace
  <2>2. UNCHANGED journalVars /\ thread[o].pc = "release"
    BY <1>19 DEF ReleaseWorkspace, At
  <2>3. PICK l : l = [thread[o] EXCEPT !.claimed = @ \ {p}]
    OBVIOUS
  <2>4. IsLocal(l) /\ l.mine = thread[o].mine /\ l.verdict = thread[o].verdict
    BY <1>1, <2>3 DEF IsLocal
  <2>5. l.mine # <<>> => Verdict(l, touched)
    BY <1>1, <2>2, <2>4 DEF Phase, Verdict, Spared, Hit
  <2>6. QED BY <1>2, <1>7, <2>1, <2>2, <2>3, <2>4, <2>5
<1>20. CASE FinishRaises(o)
  <2>1. UNCHANGED journalVars
    BY <1>20 DEF FinishRaises
  <2>2. CASE Becomes(o, Idle)
    BY <1>2, <1>5, <2>1, <2>2
  <2>3. CASE Becomes(o, Back([thread[o] EXCEPT !.mine = <<>>]))
    <3>1. PICK l : l = [thread[o] EXCEPT !.mine = <<>>]
      OBVIOUS
    <3>2. IsLocal(l) /\ l.mine = <<>>
      BY <1>1, <3>1 DEF IsLocal
    <3>3. QED BY <1>2, <1>7, <2>1, <2>3, <3>1, <3>2
  <2>4. QED BY <1>20, <2>2, <2>3 DEF FinishRaises
\* the rows of the call change
<1>21. CASE Create(o)
  <2>1. /\ Recorded(Row(o, First(o), thread[o].auth, "running"))
        /\ thread[o].pc = "create"
    BY <1>21 DEF Create, At
  <2>2. PICK n : n = Len(journal) + 1
    OBVIOUS
  <2>3. /\ RowsTrue' /\ Actions' = Actions \union {n} /\ n \notin Actions
        /\ \A k \in Actions : journal'[k] = journal[k]
        /\ journal'[n].by = o /\ journal'[n].state = "running" /\ touched' = touched
    BY <1>1, <2>1, <2>2, RowRecorded
  <2>4. Spares(o)
    BY <2>3 DEF Spares
  <2>5. PICK l : l = [thread[o] EXCEPT !.queue = Tail(@), !.auth = 0, !.mine = Append(@, n)]
    OBVIOUS
  <2>6. IsLocal(l) /\ l.mine = Append(thread[o].mine, n)
    BY <1>1, <2>5 DEF IsLocal
  <2>7. PICK m : m = thread[o].mine
    OBVIOUS
  <2>8. /\ IsSequence(l.mine) /\ l.mine # <<>>
        /\ \A i \in DOMAIN l.mine :
             \/ i \in DOMAIN m /\ l.mine[i] = m[i]
             \/ i = Len(m) + 1 /\ i \notin DOMAIN m /\ l.mine[i] = n
    BY <1>1, <2>6, <2>7, MineGrows DEF Rows
  <2>9. Rows(o, m)
    BY <1>1, <2>7
  <2>10. ASSUME NEW i \in DOMAIN l.mine
         PROVE  /\ l.mine[i] \in Actions' /\ l.mine[i] \notin touched
                /\ journal'[l.mine[i]].state = "running" /\ journal'[l.mine[i]].by = o
    <3>1. CASE l.mine[i] = n
      BY <1>1, <2>3, <3>1 DEF RowsTrue
    <3>2. CASE i \in DOMAIN m /\ l.mine[i] = m[i]
      <4>1. m[i] \in Actions /\ journal[m[i]].state = "running" /\ journal[m[i]].by = o
        BY <2>9, <3>2 DEF Rows
      <4>2. m[i] \notin touched
        BY <1>1, <2>1, <2>7, <3>2 DEF Phase, Undone, Spared
      <4>3. QED BY <2>3, <3>2, <4>1, <4>2
    <3>3. QED BY <2>8, <3>1, <3>2
  <2>11. ASSUME NEW i \in DOMAIN l.mine, NEW j \in DOMAIN l.mine, i # j
         PROVE  l.mine[i] # l.mine[j]
    <3>1. \A h \in DOMAIN m : m[h] \in Actions
      BY <2>9 DEF Rows
    <3>2. QED BY <2>3, <2>8, <2>9, <2>11, <3>1 DEF Rows
  <2>12. Onward(l).mine = l.mine /\ Phase(Onward(l), touched)
    <3>1. Spared(l, touched)
      BY <2>10 DEF Spared
    <3>2. QED BY <2>6, <2>8, <3>1, OnwardFits
  <2>13. PICK t : t = Onward(l)
    OBVIOUS
  <2>14. Rows(o, t.mine)' /\ Phase(t, touched')
    BY <2>3, <2>8, <2>10, <2>11, <2>12, <2>13 DEF Rows
  <2>15. thread' = [thread EXCEPT ![o] = t]
    BY <1>21, <2>2, <2>5, <2>13 DEF Create, Becomes
  <2>16. QED BY <1>1, <2>3, <2>4, <2>14, <2>15, CallFits
<1>22. CASE Touch(o)
  <2>1. /\ touched' = touched \union Range(thread[o].mine) /\ UNCHANGED <<journal, holder>>
        /\ thread[o].pc = "ready"
    BY <1>22 DEF Touch, At
  <2>2. PICK m : m = thread[o].mine
    OBVIOUS
  <2>3. \A k : k \in Range(m) <=> \E i \in DOMAIN m : k = m[i]
    BY DEF Range
  <2>4. Rows(o, m) /\ m # <<>>
    BY <1>1, <2>1, <2>2 DEF Phase
  <2>5. \A k \in Range(m) : k \in Actions /\ journal[k].state = "running" /\ journal[k].by = o
    BY <2>3, <2>4 DEF Rows
  <2>6. RowsTrue'
    <3>1. ASSUME NEW k \in Actions PROVE RowTrue(k)'
      <4>1. RowTrue(k)
        BY <1>1 DEF RowsTrue
      <4>2. QED BY <2>1, <2>2, <2>5, <4>1 DEF RowTrue
    <3>2. Actions' = Actions
      BY <2>1 DEF Actions
    <3>3. touched' \subseteq Actions
      BY <1>1, <2>1, <2>2, <2>5 DEF RowsTrue
    <3>4. QED BY <1>1, <2>1, <3>1, <3>2, <3>3 DEF RowsTrue
  <2>7. Spares(o)
    BY <2>1, <2>2, <2>5 DEF Spares, Actions
  <2>8. PICK l : l = [thread[o] EXCEPT !.pc = "touched"]
    OBVIOUS
  <2>9. l.pc = "touched" /\ l.mine = m
    BY <1>1, <2>2, <2>8 DEF IsLocal
  <2>10. Hit(l, touched')
    BY <2>1, <2>2, <2>3, <2>9 DEF Hit
  <2>11. Rows(o, l.mine)' /\ Phase(l, touched')
    BY <2>1, <2>4, <2>9, <2>10 DEF Rows, Phase, Undone, Actions
  <2>12. QED BY <1>1, <1>22, <2>6, <2>7, <2>8, <2>11, CallFits DEF Touch, Becomes
<1>23. CASE NoDestination(o)
  <2>1. thread[o].mine # <<>> /\ Spared(thread[o], touched)
    BY <1>1, <1>23 DEF NoDestination, At, Phase, Undone
  <2>2. CASE UNCHANGED journalVars
    BY <1>2, <1>5, <1>23, <2>2 DEF NoDestination
  <2>3. CASE Settled(Head(thread[o].mine), "cancelled")
    BY <1>1, <1>23, <2>1, <2>3, IdleFits, FirstIsSettled DEF NoDestination, Becomes
  <2>4. QED BY <1>23, <2>2, <2>3 DEF NoDestination
<1>24. CASE FinishAction(o)
  <2>1. /\ thread[o].mine # <<>> /\ Verdict(thread[o], touched)
        /\ Settled(Head(thread[o].mine), thread[o].verdict)
    BY <1>1, <1>24 DEF FinishAction, At, Phase
  <2>2. PICK l : l = [thread[o] EXCEPT !.mine = Tail(thread[o].mine)]
    OBVIOUS
  <2>3. IsLocal(l) /\ l.mine = Tail(thread[o].mine) /\ l.verdict = thread[o].verdict
    BY <1>1, <2>2 DEF IsLocal
  <2>4. Verdict(l, touched)
    BY <1>1, <2>1, <2>3, VerdictStays DEF Rows
  <2>5. PICK t : t = Back(l)
    OBVIOUS
  <2>6. (t.mine = l.mine \/ t.mine = <<>>) /\ Phase(t, touched)
    BY <2>3, <2>4, <2>5, BackFits, IdleFits
  <2>7. PICK s : s = thread[o].verdict
    OBVIOUS
  <2>8. \/ s = "cancelled" /\ Spared(thread[o], touched)
        \/ s = "failed"
        \/ s \in {"succeeded", "unknown"} /\ Hit(thread[o], touched)
    BY <2>1, <2>7 DEF Verdict
  <2>9. thread' = [thread EXCEPT ![o] = t]
    BY <1>24, <2>2, <2>5 DEF FinishAction, Becomes
  <2>10. QED BY <1>1, <2>1, <2>3, <2>6, <2>7, <2>8, <2>9, FirstIsSettled
<1>25. QED
  BY <1>10, <1>11, <1>12, <1>13, <1>14, <1>15, <1>16, <1>17, <1>18, <1>19, <1>20, <1>21,
     <1>22, <1>23, <1>24
     DEF CallStep, Entering, Preparing, Leaving

\* A process that dies leaves its rows to be found running; nobody finishes them.
LEMMA CrashIsTrue == ASSUME WInv, AInv, JInv, NEW p \in Process, Crash(p) PROVE JInv'
<1>1. /\ UNCHANGED <<journal, holder, touched>>
      /\ proc' = [proc EXCEPT ![p] = "gone"] /\ proc = [r \in Process |-> proc[r]]
      /\ thread' = [o \in Owner |-> IF ProcessOf[o] = p THEN Idle ELSE thread[o]]
  BY DEF Crash, journalVars, WInv, WTypes
<1>2. \A r \in Process : proc'[r] = IF r = p THEN "gone" ELSE proc[r]
  BY <1>1
<1>3. RowsTrue'
  <2>1. ASSUME NEW k \in Actions PROVE RowTrue(k)'
    <3>1. RowTrue(k) /\ journal[k].by \in Owner
      BY DEF JInv, RowsTrue, RowTrue
    <3>2. proc[ProcessOf[journal[k].by]] = "gone" => proc'[ProcessOf[journal[k].by]] = "gone"
      BY <1>2, <3>1, OwnersLiveInProcesses
    <3>3. QED BY <1>1, <3>1, <3>2 DEF RowTrue
  <2>2. QED BY <1>1, <2>1 DEF JInv, RowsTrue, Actions
<1>4. ASSUME NEW o \in Owner PROVE CallTrue(o)'
  <2>1. CallTrue(o)
    BY DEF JInv
  <2>2. CASE ProcessOf[o] = p
    <3>1. thread'[o] = Idle /\ Phase(Idle, touched') /\ Idle.mine = <<>>
      BY <1>1, <2>2, IdleFits
    <3>2. QED BY <3>1, EmptyIsSequence DEF CallTrue, Rows
  <2>3. CASE ProcessOf[o] # p
    <3>1. thread'[o] = thread[o] /\ (Acting(o)' <=> Acting(o))
      BY <1>1, <1>2, <2>3, OwnersLiveInProcesses DEF Acting
    <3>2. QED BY <1>1, <2>1, <3>1 DEF CallTrue, Rows, Actions
  <2>4. QED BY <2>2, <2>3
<1>5. QED BY <1>3, <1>4 DEF JInv

\* A row that is recovered was begun by somebody who is dead, so that no call
\* still has it.
LEMMA RecoverIsTrue == ASSUME WInv, AInv, JInv, Recover PROVE JInv'
<1>1. /\ journal' = [k \in Actions |->
            IF k \in Interrupted THEN [journal[k] EXCEPT !.state = RecoveredAs] ELSE journal[k]]
      /\ holder' = [k \in Actions |-> IF k \in Interrupted THEN None ELSE holder[k]]
      /\ UNCHANGED <<proc, thread, touched>>
  BY DEF Recover
<1>2. /\ RowsTrue /\ DOMAIN holder = Actions /\ \A k \in Actions : IsRow(journal[k]) /\ RowTrue(k)
      /\ IsSequence(journal) /\ IsSequence(holder)
  BY Numbered DEF AInv, JInv, RowsTrue, Shapes
<1>3. Actions' = Actions /\ DOMAIN holder' = Actions /\ IsSequence(holder') /\ IsSequence(journal')
  BY <1>1, <1>2, Rewritten DEF Actions
<1>4. ASSUME NEW k \in Actions, k \notin Interrupted
      PROVE  journal'[k] = journal[k] /\ holder'[k] = holder[k]
  BY <1>1, <1>4
<1>5. ASSUME NEW k \in Actions, k \in Interrupted
      PROVE  /\ journal[k].state = "running" /\ journal[k].by \in Owner /\ ~Acting(journal[k].by)
             /\ proc[ProcessOf[journal[k].by]] = "gone"
             /\ journal'[k].by = journal[k].by /\ journal'[k].state = "unknown" /\ holder'[k] = None
  <2>1. journal[k].state = "running" /\ ~Active(proc, holder[k]) /\ RowTrue(k)
    BY <1>2, <1>5 DEF Interrupted, InterruptedAny
  <2>2. journal[k].by \in Owner /\ holder[k] = journal[k].by
    BY <2>1 DEF RowTrue
  <2>3. proc[ProcessOf[journal[k].by]] = "gone"
    BY <2>1, <2>2, NoneIsNoOwner DEF Active, OwnerGone
  <2>4. journal'[k] = [journal[k] EXCEPT !.state = "unknown"] /\ holder'[k] = None
    BY <1>1, <1>5 DEF RecoveredAs
  <2>5. journal'[k].by = journal[k].by /\ journal'[k].state = "unknown"
    BY <1>2, <2>4 DEF IsRow
  <2>6. QED BY <2>1, <2>2, <2>3, <2>4, <2>5 DEF Acting
<1>6. RowsTrue'
  <2>1. ASSUME NEW k \in Actions PROVE RowTrue(k)'
    <3>1. CASE k \in Interrupted
      BY <1>1, <1>5, <3>1 DEF RowTrue
    <3>2. CASE k \notin Interrupted
      BY <1>1, <1>2, <1>4, <3>2 DEF RowTrue
    <3>3. QED BY <3>1, <3>2
  <2>2. Len(holder') = Len(journal')
    BY <1>3, SameLength DEF Actions
  <2>3. QED BY <1>1, <1>2, <1>3, <2>1, <2>2 DEF RowsTrue
<1>7. ASSUME NEW o \in Owner PROVE CallTrue(o)'
  <2>1. CallTrue(o)
    BY DEF JInv
  <2>2. CASE ~Acting(o)
    <3>1. thread[o] = Idle /\ Idle.mine = <<>>
      BY <2>1, <2>2 DEF CallTrue, Idle
    <3>2. \A i \in DOMAIN thread[o].mine : FALSE
      BY <3>1
    <3>3. QED BY <1>1, <2>1, <3>2 DEF CallTrue, Rows, Acting
  <2>3. CASE Acting(o)
    <3>1. \A i \in DOMAIN thread[o].mine :
             LET k == thread[o].mine[i]
             IN k \in Actions /\ journal[k].by = o /\ k \notin Interrupted
      BY <1>5, <2>1, <2>3 DEF CallTrue, Rows
    <3>2. QED BY <1>1, <1>3, <1>4, <2>1, <3>1 DEF CallTrue, Rows, Acting
  <2>4. QED BY <2>2, <2>3
<1>8. QED BY <1>6, <1>7 DEF JInv

\* Every step keeps the journal true.
LEMMA StepIsTrue == ASSUME AInv, WInv, JInv, [Next]_vars PROVE JInv'
<1>1. ASSUME NEW o \in Owner, Acting(o), CallStep(o) PROVE JInv'
  BY <1>1, CallsLeaveProcesses, CallIsTrue
<1>2. CASE Broker \/ UNCHANGED vars
  <2>1. UNCHANGED <<journal, holder, touched, proc, thread>>
    BY <1>2 DEF Broker, vars, journalVars
  <2>2. QED BY <2>1 DEF JInv, RowsTrue, RowTrue, CallTrue, Rows, Actions, Acting
<1>3. QED BY <1>1, <1>2, CrashIsTrue, RecoverIsTrue DEF Next

\* The journal is empty at first.
LEMMA JournalIsEmpty == ASSUME Init PROVE JInv
<1>1. /\ journal = <<>> /\ holder = <<>> /\ touched = {}
      /\ \A o \in Owner : thread[o] = Idle
  BY DEF Init
<1>2. RowsTrue
  BY <1>1, EmptyIsSequence DEF RowsTrue, Actions
<1>3. ASSUME NEW o \in Owner PROVE CallTrue(o)
  <2>1. thread[o] = Idle /\ Idle.mine = <<>> /\ Phase(Idle, touched)
    BY <1>1, IdleFits
  <2>2. QED BY <2>1, EmptyIsSequence DEF CallTrue, Rows
<1>4. QED BY <1>2, <1>3 DEF JInv

\* What the invariant says of rows and calls is what the journal promises.
LEMMA JournalTells == ASSUME AInv, WInv, JInv PROVE JournalIsTrue
<1>1. RowsHaveLeases /\ TruthfulRecord
  BY DEF JInv, RowsTrue, RowTrue, RowsHaveLeases, TruthfulRecord
<1>2. ASSUME NEW o \in Owner, Affecting(o)
      PROVE  /\ thread[o].mine # <<>>
             /\ \A k \in Range(thread[o].mine) : journal[k].state = "running" /\ holder[k] = o
             /\ \A p \in thread[o].paths : ws[p] = o
  <2>1. Acting(o) /\ thread[o].pc = "touched" /\ CallTrue(o) /\ Holds(o)
    BY <1>2 DEF Affecting, At, JInv, WInv
  <2>2. thread[o].mine # <<>> /\ Rows(o, thread[o].mine)
    BY <2>1 DEF CallTrue, Phase
  <2>3. ASSUME NEW k \in Range(thread[o].mine) PROVE journal[k].state = "running" /\ holder[k] = o
    <3>1. PICK i \in DOMAIN thread[o].mine : k = thread[o].mine[i]
      BY <2>3 DEF Range
    <3>2. k \in Actions /\ journal[k].state = "running" /\ journal[k].by = o
      BY <2>2, <3>1 DEF Rows
    <3>3. QED BY <3>2 DEF JInv, RowsTrue, RowTrue
  <2>4. thread[o].todo = {} /\ \A p \in thread[o].paths : ws[p] = o
    BY <2>1 DEF Holds, Entered
  <2>5. QED BY <2>2, <2>3, <2>4
<1>3. QED BY <1>1, <1>2 DEF JournalIsTrue, EffectIsJournaled

\* docs/POLICY.md:11: the journal tells what happens while it happens, the
\* completion records contain the real terminal state, and a row has its lease for
\* just the time in which it is running (action_journal.py, tool_core.py:57-101,
\* execution_backends.py:540-669).
THEOREM JournalTellsTheTruth == Spec => []JournalIsTrue
<1>1. Init => AInv /\ WInv /\ JInv
  BY InitHolds, NothingIsHeld, JournalIsEmpty
<1>2. AInv /\ WInv /\ JInv /\ [Next]_vars => (AInv /\ WInv /\ JInv)'
  BY NextKeeps, StepHolds, StepIsTrue
<1>3. AInv /\ WInv /\ JInv => JournalIsTrue
  BY JournalTells
<1>4. QED BY <1>1, <1>2, <1>3, PTL DEF Spec

-----------------------------------------------------------------------------
(* What calls leave behind, when all of them name where they go *)

NoneOpen == \A c \in Calls : ~c.open

\* A call finds out about nothing late.
Directed(l) == ~l.open /\ (l.pc = "begin" => l.queue # <<>>)

\* The leases of o are those of the actions and the workspaces that its call has
\* still to give back, and the one around its calls.
Accounted(o, l, s) ==
    /\ \A k \in Actions : holder[k] = o => \E i \in DOMAIN l.mine : l.mine[i] = k
    /\ \A p \in Path : ws[p] = o => p \in l.claimed \/ (p = s /\ p = Root)

Tidy(o) ==
    /\ Directed(thread[o])
    /\ Acting(o) /\ o \notin left => Accounted(o, thread[o], scope[o])

LInv == \A o \in Owner : Tidy(o)

\* No lease comes to q.
NothingNew(q) ==
    /\ \A k \in Actions' : holder'[k] = q => k \in Actions /\ holder[k] = q
    /\ \A p \in Path : ws'[p] = q => ws[p] = q

\* A call that goes on keeps what it has to give back.
LEMMA OnwardKeeps ==
  ASSUME NEW l, IsLocal(l), ~l.open
  PROVE  Directed(Onward(l)) /\ Onward(l).mine = l.mine /\ Onward(l).claimed = l.claimed
<1>1. \A label : /\ [l EXCEPT !.pc = label].pc = label
                 /\ [l EXCEPT !.pc = label].mine = l.mine
                 /\ [l EXCEPT !.pc = label].claimed = l.claimed
                 /\ [l EXCEPT !.pc = label].open = l.open
                 /\ [l EXCEPT !.pc = label].queue = l.queue
  BY DEF IsLocal
<1>2. \/ Onward(l) = [l EXCEPT !.pc = "claim"]
      \/ Onward(l) = [l EXCEPT !.pc = "begin"] /\ Work(l, "begin")
      \/ Onward(l) = [l EXCEPT !.pc = "ready"]
  BY DEF Onward, FirstOf
<1>3. Work(l, "begin") => l.queue # <<>>
  BY DEF Work
<1>4. QED BY ZenonT(60), <1>1, <1>2, <1>3 DEF Directed

\* So does one on its way back, until there is nothing to give back.
LEMMA BackKeeps ==
  ASSUME NEW l, IsLocal(l), ~l.open
  PROVE  /\ Directed(Back(l))
         /\ Back(l).mine = l.mine /\ Back(l).claimed = l.claimed
<1>1. \A label : /\ [l EXCEPT !.pc = label].pc = label
                 /\ [l EXCEPT !.pc = label].mine = l.mine
                 /\ [l EXCEPT !.pc = label].claimed = l.claimed
                 /\ [l EXCEPT !.pc = label].open = l.open
  BY DEF IsLocal
<1>2. \/ Back(l) = Idle /\ ~Work(l, "finish") /\ ~Work(l, "release")
      \/ Back(l) = [l EXCEPT !.pc = "finish"]
      \/ Back(l) = [l EXCEPT !.pc = "release"]
  BY DEF Back, FirstOf
<1>3. (~Work(l, "finish") => l.mine = <<>>) /\ (~Work(l, "release") => l.claimed = {})
  BY DEF Work
<1>4. Idle.mine = <<>> /\ Idle.claimed = {} /\ Directed(Idle)
  BY DEF Idle, Directed
<1>5. CASE Back(l) = Idle /\ ~Work(l, "finish") /\ ~Work(l, "release")
  BY <1>3, <1>4, <1>5
<1>6. CASE Back(l) = [l EXCEPT !.pc = "finish"] \/ Back(l) = [l EXCEPT !.pc = "release"]
  BY <1>1, <1>6 DEF Directed
<1>7. QED BY <1>2, <1>5, <1>6

\* A step of o leaves nothing with anybody when it leaves nothing with o.
LEMMA StaysTidy ==
  ASSUME LInv, NEW o \in Owner, UNCHANGED proc, left \subseteq left',
         \A q \in Owner : q # o => NothingNew(q) /\ scope'[q] = scope[q],
         NEW l, thread' = [thread EXCEPT ![o] = l], thread = [q \in Owner |-> thread[q]],
         Directed(l), NEW s, s = scope'[o], Acting(o) /\ o \notin left' => Accounted(o, l, s)'
  PROVE  LInv'
<1>1. thread'[o] = l /\ \A q \in Owner : q # o => thread'[q] = thread[q]
  OBVIOUS
<1>2. Tidy(o)'
  BY <1>1 DEF Tidy, Acting, Accounted
<1>3. ASSUME NEW q \in Owner, q # o PROVE Tidy(q)'
  <2>1. Tidy(q) /\ thread'[q] = thread[q] /\ scope'[q] = scope[q] /\ NothingNew(q)
    BY <1>1, <1>3 DEF LInv
  <2>2. QED BY <2>1 DEF Tidy, Acting, Accounted, NothingNew
<1>4. QED BY <1>2, <1>3 DEF LInv

\* The same when no lease comes, and the call keeps what it has to give back.
LEMMA GivesNothing ==
  ASSUME LInv, NEW o \in Owner, UNCHANGED <<proc, scope, left>>, \A q \in Owner : NothingNew(q),
         NEW l, thread' = [thread EXCEPT ![o] = l], thread = [q \in Owner |-> thread[q]],
         Directed(l), l.mine = thread[o].mine, l.claimed = thread[o].claimed
  PROVE  LInv'
<1>1. PICK s : s = scope[o]
  OBVIOUS
<1>2. Acting(o) /\ o \notin left => Accounted(o, thread[o], s) /\ NothingNew(o)
  BY <1>1 DEF LInv, Tidy
<1>3. Acting(o) /\ o \notin left => Accounted(o, l, s)'
  BY <1>2 DEF Accounted, NothingNew
<1>4. QED BY <1>1, <1>3, StaysTidy

\* No lease comes to anybody with a denial, or when the leases stay.
LEMMA NoLeaseComes ==
  ASSUME Shapes, RowsTrue, UNCHANGED <<proc, ws>>,
         \/ UNCHANGED journalVars
         \/ \E o \in Owner : \E r : Recorded(Row(o, r, 0, "denied"))
  PROVE  \A q \in Owner : NothingNew(q)
<1>1. CASE UNCHANGED journalVars
  BY <1>1 DEF journalVars, NothingNew, Actions
<1>2. ASSUME NEW o \in Owner, NEW r, Recorded(Row(o, r, 0, "denied"))
      PROVE  \A q \in Owner : NothingNew(q)
  <2>1. PICK n : n = Len(journal) + 1
    OBVIOUS
  <2>2. /\ RowsTrue' /\ Actions' = Actions \union {n} /\ n \notin Actions
        /\ \A k \in Actions : holder'[k] = holder[k]
        /\ journal'[n].state = "denied"
    BY <1>2, <2>1, RowRecorded
  <2>3. holder'[n] = None
    BY <2>2 DEF RowsTrue, RowTrue
  <2>4. QED BY <2>2, <2>3, NoneIsNoOwner DEF NothingNew
<1>3. QED BY <1>1, <1>2

\* A step of a call keeps account of what the call has to give back.
LEMMA CallStaysTidy ==
  ASSUME NoneOpen, AInv, WInv, JInv, LInv, NEW o \in Owner, Acting(o), CallStep(o), UNCHANGED proc
  PROVE  LInv'
<1>1. /\ IsLocal(thread[o]) /\ Shapes /\ RowsTrue /\ Rows(o, thread[o].mine)
      /\ Holds(o) /\ WTypes /\ Phase(thread[o], touched)
      /\ thread = [q \in Owner |-> thread[q]] /\ scope = [q \in Owner |-> scope[q]]
      /\ Directed(thread[o]) /\ DOMAIN holder = Actions
  BY Numbered DEF AInv, Shapes, JInv, CallTrue, WInv, WTypes, LInv, Tidy
<1>2. PICK m : m = thread[o].mine
  OBVIOUS
<1>3. PICK s : s = scope[o]
  OBVIOUS
<1>4. o \notin left => Accounted(o, thread[o], s)
  BY <1>3 DEF LInv, Tidy
<1> DEFINE Same == /\ UNCHANGED <<ws, scope, left>>
                   /\ \/ UNCHANGED journalVars
                      \/ \E r : Recorded(Row(o, r, 0, "denied"))
<1>5. ASSUME Same PROVE UNCHANGED <<scope, left>> /\ \A q \in Owner : NothingNew(q)
  BY <1>1, <1>5, NoLeaseComes
<1> HIDE DEF Same
\* most steps leave the leases as they are
<1>6. ASSUME Same, NEW l, Becomes(o, l), Directed(l), l.mine = thread[o].mine,
             l.claimed = thread[o].claimed
      PROVE  LInv'
  BY <1>1, <1>5, <1>6, GivesNothing DEF Becomes
<1>7. ASSUME Same, NEW l, Becomes(o, Back(l)) \/ Becomes(o, Onward(l)), IsLocal(l), ~l.open,
             l.mine = thread[o].mine, l.claimed = thread[o].claimed
      PROVE  LInv'
  BY <1>6, <1>7, BackKeeps, OnwardKeeps
<1>8. ASSUME Same, NEW v, NEW r,
             \/ Becomes(o, Back([thread[o] EXCEPT !.verdict = v]))
             \/ Becomes(o, Back([thread[o] EXCEPT !.verdict = v, !.raised = r]))
      PROVE  LInv'
  <2>1. \A l \in {[thread[o] EXCEPT !.verdict = v], [thread[o] EXCEPT !.verdict = v, !.raised = r]} :
          IsLocal(l) /\ ~l.open /\ l.mine = thread[o].mine /\ l.claimed = thread[o].claimed
    BY <1>1 DEF IsLocal, Directed
  <2>2. QED BY <1>7, <1>8, <2>1
<1>9. ASSUME Same, UNCHANGED thread PROVE LInv'
  <2>1. thread' = [thread EXCEPT ![o] = thread[o]]
    BY <1>1, <1>9
  <2>2. QED BY <1>1, <1>5, <1>9, <2>1, GivesNothing
<1>10. CASE WorkspaceRefused(o)
  <2>1. Same
    BY <1>10 DEF WorkspaceRefused, Same
  <2>2. QED BY <1>8, <1>10, <2>1 DEF WorkspaceRefused
<1>11. CASE Deny(o)
  <2>1. Same /\ Becomes(o, Back([thread[o] EXCEPT !.verdict = "cancelled"]))
    BY <1>11 DEF Deny, Withdraw, Same
  <2>2. QED BY <1>8, <2>1
<1>12. CASE CreateRefused(o)
  <2>1. Same /\ Becomes(o, Back([thread[o] EXCEPT !.verdict = "cancelled"]))
    BY <1>12 DEF CreateRefused, Withdraw, Same
  <2>2. QED BY <1>8, <2>1
<1>13. CASE EffectEnds(o)
  <2>1. Same
    BY <1>13 DEF EffectEnds, Same
  <2>2. QED BY <1>8, <1>13, <2>1 DEF EffectEnds
<1>14. CASE EffectRaises(o)
  <2>1. Same
    BY <1>14 DEF EffectRaises, Same
  <2>2. QED BY <1>8, <1>14, <2>1 DEF EffectRaises
<1>15. CASE Authorize(o)
  <2>1. Same /\ thread[o].queue # <<>>
    BY <1>15 DEF Authorize, Same
  <2>2. PICK g : Becomes(o, [thread[o] EXCEPT !.pc = "create", !.auth = g])
    BY <1>15 DEF Authorize
  <2>3. PICK l : l = [thread[o] EXCEPT !.pc = "create", !.auth = g]
    OBVIOUS
  <2>4. Directed(l) /\ l.mine = thread[o].mine /\ l.claimed = thread[o].claimed
    BY <1>1, <2>3 DEF IsLocal, Directed
  <2>5. QED BY <1>6, <2>1, <2>2, <2>3, <2>4
<1>16. CASE Touch(o)
  <2>1. UNCHANGED <<ws, scope, left, journal, holder>>
    BY <1>16 DEF Touch
  <2>2. \A q \in Owner : NothingNew(q)
    BY <2>1 DEF NothingNew, Actions
  <2>3. PICK l : l = [thread[o] EXCEPT !.pc = "touched"]
    OBVIOUS
  <2>4. Directed(l) /\ l.mine = thread[o].mine /\ l.claimed = thread[o].claimed
    BY <1>1, <2>3 DEF IsLocal, Directed
  <2>5. thread' = [thread EXCEPT ![o] = l]
    BY <1>16, <2>3 DEF Touch, Becomes
  <2>6. QED BY <1>1, <2>1, <2>2, <2>4, <2>5, GivesNothing
<1>17. ASSUME NEW c \in Calls, Start(o, c) PROVE LInv'
  <2>1. thread[o].mine = <<>> /\ thread[o].claimed = {}
    BY <1>1, <1>17 DEF Start, At, Phase, Holds
  <2>2. CASE RefusedPaths(c) # {}
    <3>1. Same /\ UNCHANGED thread
      BY <1>17, <2>2 DEF Start, Same
    <3>2. QED BY <1>9, <3>1
  <2>3. CASE RefusedPaths(c) = {}
    <3>1. thread' = [thread EXCEPT ![o] = Prepared(c)] /\ Same
      BY <1>17, <2>3 DEF Start, Same
    <3>2. PICK l : l = [Idle EXCEPT !.kind = c.kind, !.open = c.open, !.paths = Paths(c),
                                    !.todo = Paths(c), !.queue = Queued(c)]
      OBVIOUS
    <3>3. /\ IsLocal(l) /\ l.mine = <<>> /\ l.claimed = {} /\ l.open = c.open
          /\ Prepared(c) = Onward(l)
      BY <3>2 DEF Idle, IsLocal, Prepared
    <3>4. ~l.open
      BY <3>3 DEF NoneOpen
    <3>5. Directed(Onward(l)) /\ Onward(l).mine = <<>> /\ Onward(l).claimed = {}
      BY <3>3, <3>4, OnwardKeeps
    <3>6. QED BY <1>1, <1>5, <2>1, <3>1, <3>3, <3>5, GivesNothing
  <2>4. QED BY <2>2, <2>3
<1>18. CASE NoDestination(o)
  BY <1>1, <1>18 DEF NoDestination, At, Directed
\* the steps that change the leases of workspaces
<1>19. ASSUME NEW p \in Path, Claimed(o, p), UNCHANGED journalVars
       PROVE  /\ \A q \in Owner : q # o => NothingNew(q)
              /\ \A q \in Path : ws'[q] = o => q = p \/ ws[q] = o
              /\ \A k \in Actions' : k \in Actions /\ holder'[k] = holder[k]
  <2>1. \A q \in Path : ws'[q] = IF q = p THEN o
                                 ELSE IF InTheWay(p, q) /\ ws[q] # o THEN None ELSE ws[q]
    BY <1>19 DEF Claimed
  <2>2. \A q \in Path : \A x \in Owner : ws'[q] = x => (q = p /\ x = o) \/ ws[q] = x
    BY <2>1, NoneIsNoOwner
  <2>3. \A k \in Actions' : k \in Actions /\ holder'[k] = holder[k]
    BY <1>19 DEF journalVars, Actions
  <2>4. QED BY <2>2, <2>3 DEF NothingNew
<1>20. ASSUME NEW p \in Path, Released(o, p), UNCHANGED journalVars
       PROVE  /\ \A q \in Owner : q # o => NothingNew(q)
              /\ \A q \in Path : ws'[q] = o => q # p /\ ws[q] = o
              /\ \A k \in Actions' : k \in Actions /\ holder'[k] = holder[k]
  <2>1. \A q \in Path : ws'[q] = IF q = p THEN (IF ws[q] = o THEN None ELSE ws[q]) ELSE ws[q]
    BY <1>1, <1>20 DEF Released, WTypes
  <2>2. \A q \in Path : \A x \in Owner : ws'[q] = x => ws[q] = x /\ (x = o => q # p)
    BY <2>1, NoneIsNoOwner
  <2>3. \A k \in Actions' : k \in Actions /\ holder'[k] = holder[k]
    BY <1>20 DEF journalVars, Actions
  <2>4. QED BY <2>2, <2>3 DEF NothingNew
<1>21. CASE ClaimScope(o)
  <2>1. /\ Claimed(o, Root) /\ UNCHANGED journalVars /\ UNCHANGED <<thread, left>>
        /\ scope' = [scope EXCEPT ![o] = Root] /\ s = None
    BY <1>3, <1>21 DEF ClaimScope, ghostVars
  <2>2. scope'[o] = Root /\ \A q \in Owner : q # o => scope'[q] = scope[q]
    BY <1>1, <2>1
  <2>3. /\ \A q \in Owner : q # o => NothingNew(q)
        /\ \A q \in Path : ws'[q] = o => q = Root \/ ws[q] = o
        /\ \A k \in Actions' : k \in Actions /\ holder'[k] = holder[k]
    BY <1>19, <2>1, DelegatedHaveRoot
  <2>4. PICK l : l = thread[o]
    OBVIOUS
  <2>5. thread' = [thread EXCEPT ![o] = l]
    BY <1>1, <2>1, <2>4
  <2>6. o \notin left' => Accounted(o, l, Root)'
    BY <1>4, <2>1, <2>3, <2>4 DEF Accounted
  <2>7. QED BY <1>1, <2>1, <2>2, <2>3, <2>4, <2>5, <2>6, StaysTidy
<1>22. CASE ReleaseScope(o)
  <2>1. /\ Released(o, scope[o]) /\ UNCHANGED journalVars /\ UNCHANGED <<thread, left>>
        /\ scope' = [scope EXCEPT ![o] = None] /\ s # None
    BY <1>3, <1>22 DEF ReleaseScope, ghostVars
  <2>2. s = Root /\ s \in Path
    BY <1>1, <1>3, <2>1, DelegatedHaveRoot DEF WTypes
  <2>3. scope'[o] = None /\ \A q \in Owner : q # o => scope'[q] = scope[q]
    BY <1>1, <2>1
  <2>4. /\ \A q \in Owner : q # o => NothingNew(q)
        /\ \A q \in Path : ws'[q] = o => q # Root /\ ws[q] = o
        /\ \A k \in Actions' : k \in Actions /\ holder'[k] = holder[k]
    BY <1>3, <1>20, <2>1, <2>2
  <2>5. PICK l : l = thread[o]
    OBVIOUS
  <2>6. thread' = [thread EXCEPT ![o] = l]
    BY <1>1, <2>1, <2>5
  <2>7. o \notin left' => Accounted(o, l, None)'
    BY <1>4, <2>1, <2>4, <2>5 DEF Accounted
  <2>8. QED BY <1>1, <2>1, <2>3, <2>4, <2>5, <2>6, <2>7, StaysTidy
<1>23. CASE ClaimWorkspace(o)
  <2>1. UNCHANGED journalVars /\ UNCHANGED <<scope, left>>
    BY <1>23 DEF ClaimWorkspace
  <2>2. PICK p \in thread[o].todo :
          /\ Claimed(o, p)
          /\ Becomes(o, Onward([thread[o] EXCEPT !.todo = @ \ {p},
                                  !.claimed = IF ws[p] = o THEN @ ELSE @ \union {p}]))
    BY <1>23 DEF ClaimWorkspace
  <2>3. p \in Path
    BY <1>1, <2>2 DEF Holds
  <2>4. /\ \A q \in Owner : q # o => NothingNew(q)
        /\ \A q \in Path : ws'[q] = o => q = p \/ ws[q] = o
        /\ \A k \in Actions' : k \in Actions /\ holder'[k] = holder[k]
    BY <1>19, <2>1, <2>2, <2>3
  <2>5. PICK l : l = [thread[o] EXCEPT !.todo = @ \ {p},
                                       !.claimed = IF ws[p] = o THEN @ ELSE @ \union {p}]
    OBVIOUS
  <2>6. /\ IsLocal(l) /\ ~l.open /\ l.mine = thread[o].mine
        /\ l.claimed = IF ws[p] = o THEN thread[o].claimed ELSE thread[o].claimed \union {p}
    BY <1>1, <2>5 DEF IsLocal, Directed
  <2>7. PICK t : t = Onward(l)
    OBVIOUS
  <2>8. Directed(t) /\ t.mine = thread[o].mine /\ t.claimed = l.claimed
    BY <2>6, <2>7, OnwardKeeps
  <2>9. thread' = [thread EXCEPT ![o] = t]
    BY <2>2, <2>5, <2>7 DEF Becomes
  <2>10. ASSUME o \notin left' PROVE Accounted(o, t, s)'
    <3>1. \A k \in Actions' : holder'[k] = o => \E i \in DOMAIN t.mine : t.mine[i] = k
      BY <1>4, <2>1, <2>4, <2>8, <2>10 DEF Accounted
    <3>2. \A q \in Path : ws'[q] = o => q \in t.claimed \/ (q = s /\ q = Root)
      BY <1>4, <2>1, <2>3, <2>4, <2>6, <2>8, <2>10 DEF Accounted
    <3>3. QED BY <3>1, <3>2 DEF Accounted
  <2>11. QED BY <1>1, <1>3, <2>1, <2>4, <2>8, <2>9, <2>10, StaysTidy
<1>24. CASE ReleaseWorkspace(o)
  <2>1. UNCHANGED journalVars /\ UNCHANGED <<scope, left>>
    BY <1>24 DEF ReleaseWorkspace
  <2>2. PICK p \in thread[o].claimed :
          Released(o, p) /\ Becomes(o, Back([thread[o] EXCEPT !.claimed = @ \ {p}]))
    BY <1>24 DEF ReleaseWorkspace
  <2>3. p \in Path
    BY <1>1, <2>2 DEF Holds
  <2>4. /\ \A q \in Owner : q # o => NothingNew(q)
        /\ \A q \in Path : ws'[q] = o => q # p /\ ws[q] = o
        /\ \A k \in Actions' : k \in Actions /\ holder'[k] = holder[k]
    BY <1>20, <2>1, <2>2, <2>3
  <2>5. PICK l : l = [thread[o] EXCEPT !.claimed = @ \ {p}]
    OBVIOUS
  <2>6. IsLocal(l) /\ ~l.open /\ l.mine = thread[o].mine /\ l.claimed = thread[o].claimed \ {p}
    BY <1>1, <2>5 DEF IsLocal, Directed
  <2>7. PICK t : t = Back(l)
    OBVIOUS
  <2>8. Directed(t) /\ t.mine = thread[o].mine /\ t.claimed = l.claimed
    BY <2>6, <2>7, BackKeeps
  <2>9. thread' = [thread EXCEPT ![o] = t]
    BY <2>2, <2>5, <2>7 DEF Becomes
  <2>10. ASSUME o \notin left' PROVE Accounted(o, t, s)'
    <3>1. \A k \in Actions' : holder'[k] = o => \E i \in DOMAIN t.mine : t.mine[i] = k
      BY <1>4, <2>1, <2>4, <2>8, <2>10 DEF Accounted
    <3>2. \A q \in Path : ws'[q] = o => q \in t.claimed \/ (q = s /\ q = Root)
      BY <1>4, <2>1, <2>4, <2>6, <2>8, <2>10 DEF Accounted
    <3>3. QED BY <3>1, <3>2 DEF Accounted
  <2>11. QED BY <1>1, <1>3, <2>1, <2>4, <2>8, <2>9, <2>10, StaysTidy
\* the steps that change the leases of rows
<1>25. CASE Create(o)
  <2>1. /\ Recorded(Row(o, First(o), thread[o].auth, "running"))
        /\ UNCHANGED <<ws, scope, left>>
    BY <1>25 DEF Create
  <2>2. PICK n : n = Len(journal) + 1
    OBVIOUS
  <2>3. /\ RowsTrue' /\ Actions' = Actions \union {n} /\ n \notin Actions
        /\ \A k \in Actions : holder'[k] = holder[k]
        /\ journal'[n].by = o /\ journal'[n].state = "running"
    BY <1>1, <2>1, <2>2, RowRecorded
  <2>4. holder'[n] = o
    BY <2>3 DEF RowsTrue, RowTrue
  <2>5. \A q \in Owner : q # o => NothingNew(q)
    BY <2>1, <2>3, <2>4 DEF NothingNew
  <2>6. PICK l : l = [thread[o] EXCEPT !.queue = Tail(@), !.auth = 0, !.mine = Append(@, n)]
    OBVIOUS
  <2>7. IsLocal(l) /\ ~l.open /\ l.mine = Append(m, n) /\ l.claimed = thread[o].claimed
    BY <1>1, <1>2, <2>6 DEF IsLocal, Directed
  <2>8. PICK t : t = Onward(l)
    OBVIOUS
  <2>9. Directed(t) /\ t.mine = Append(m, n) /\ t.claimed = thread[o].claimed
    BY <2>7, <2>8, OnwardKeeps
  <2>10. thread' = [thread EXCEPT ![o] = t]
    BY <1>25, <2>2, <2>6, <2>8 DEF Create, Becomes
  <2>11. /\ \A i \in DOMAIN m : i \in DOMAIN t.mine /\ t.mine[i] = m[i]
         /\ Len(m) + 1 \in DOMAIN t.mine /\ t.mine[Len(m) + 1] = n
    BY <1>1, <1>2, <2>9, MineGrows DEF Rows
  <2>12. ASSUME o \notin left' PROVE Accounted(o, t, s)'
    <3>1. ASSUME NEW k \in Actions', holder'[k] = o PROVE \E i \in DOMAIN t.mine : t.mine[i] = k
      <4>1. CASE k = n
        BY <2>11, <4>1
      <4>2. CASE k # n
        <5>1. \E i \in DOMAIN m : m[i] = k
          BY <1>2, <1>4, <2>1, <2>3, <2>12, <3>1, <4>2 DEF Accounted
        <5>2. QED BY <2>11, <5>1
      <4>3. QED BY <4>1, <4>2
    <3>2. \A q \in Path : ws'[q] = o => q \in t.claimed \/ (q = s /\ q = Root)
      BY <1>4, <2>1, <2>9, <2>12 DEF Accounted
    <3>3. QED BY <3>1, <3>2 DEF Accounted
  <2>13. QED BY <1>1, <1>3, <2>1, <2>5, <2>9, <2>10, <2>12, StaysTidy
<1>26. CASE FinishAction(o)
  <2>1. /\ Settled(Head(thread[o].mine), thread[o].verdict) /\ m # <<>>
        /\ UNCHANGED <<ws, scope, left>>
    BY <1>1, <1>2, <1>26 DEF FinishAction, At, Phase
  <2>2. PICK k : k = Head(m)
    OBVIOUS
  <2>3. /\ 1 \in DOMAIN m /\ k = m[1]
        /\ \A i \in DOMAIN m : i # 1 => \E j \in DOMAIN Tail(m) : Tail(m)[j] = m[i]
    BY <1>1, <1>2, <2>1, <2>2, MineShrinks DEF Rows
  <2>4. k \in Actions
    BY <1>1, <1>2, <2>3 DEF Rows
  <2>5. /\ journal' = [journal EXCEPT ![k].state = thread[o].verdict]
        /\ holder' = [holder EXCEPT ![k] = None]
    BY <1>2, <2>1, <2>2 DEF Settled
  <2>6. Actions' = Actions /\ \A j \in Actions : holder'[j] = IF j = k THEN None ELSE holder[j]
    BY <1>1, <2>5 DEF Actions
  <2>7. \A q \in Owner : NothingNew(q)
    BY <2>1, <2>6, NoneIsNoOwner DEF NothingNew
  <2>8. PICK l : l = [thread[o] EXCEPT !.mine = Tail(thread[o].mine)]
    OBVIOUS
  <2>9. IsLocal(l) /\ ~l.open /\ l.mine = Tail(m) /\ l.claimed = thread[o].claimed
    BY <1>1, <1>2, <2>8 DEF IsLocal, Directed
  <2>10. PICK t : t = Back(l)
    OBVIOUS
  <2>11. Directed(t) /\ t.mine = Tail(m) /\ t.claimed = thread[o].claimed
    BY <2>9, <2>10, BackKeeps
  <2>12. thread' = [thread EXCEPT ![o] = t]
    BY <1>26, <2>8, <2>10 DEF FinishAction, Becomes
  <2>13. ASSUME o \notin left' PROVE Accounted(o, t, s)'
    <3>1. ASSUME NEW j \in Actions', holder'[j] = o PROVE \E i \in DOMAIN t.mine : t.mine[i] = j
      <4>1. j # k /\ j \in Actions /\ holder[j] = o
        BY <2>6, <3>1, NoneIsNoOwner
      <4>2. PICK i \in DOMAIN m : m[i] = j
        BY <1>2, <1>4, <2>1, <2>13, <4>1 DEF Accounted
      <4>3. QED BY <2>3, <2>11, <4>1, <4>2
    <3>2. \A q \in Path : ws'[q] = o => q \in t.claimed \/ (q = s /\ q = Root)
      BY <1>4, <2>1, <2>11, <2>13 DEF Accounted
    <3>3. QED BY <3>1, <3>2 DEF Accounted
  <2>14. QED BY <1>1, <1>3, <2>1, <2>7, <2>11, <2>12, <2>13, StaysTidy
<1>27. CASE FinishRaises(o)
  <2>1. UNCHANGED <<ws, scope>> /\ UNCHANGED journalVars /\ left' = left \union {o}
    BY <1>27 DEF FinishRaises, Raises
  <2>2. \A q \in Owner : NothingNew(q)
    BY <1>1, <2>1, NoLeaseComes
  <2>3. PICK l : l = [thread[o] EXCEPT !.mine = <<>>]
    OBVIOUS
  <2>4. IsLocal(l) /\ ~l.open
    BY <1>1, <2>3 DEF IsLocal, Directed
  <2>5. PICK t : (t = Idle \/ t = Back(l)) /\ Becomes(o, t)
    BY <1>27, <2>3 DEF FinishRaises
  <2>6. Directed(t)
    BY <2>4, <2>5, BackKeeps DEF Idle, Directed
  <2>7. thread' = [thread EXCEPT ![o] = t]
    BY <2>5 DEF Becomes
  <2>8. QED BY <1>1, <1>3, <2>1, <2>2, <2>6, <2>7, StaysTidy
<1>28. QED
  BY <1>10, <1>11, <1>12, <1>13, <1>14, <1>15, <1>16, <1>17, <1>18, <1>21, <1>22, <1>23,
     <1>24, <1>25, <1>26, <1>27
     DEF CallStep, Entering, Preparing, Leaving

\* A process that dies, a recovery and the broker bring nobody a lease.
LEMMA RestStaysTidy ==
  ASSUME AInv, WInv, JInv, LInv,
         (\E p \in Process : Crash(p)) \/ Recover \/ Broker \/ UNCHANGED vars
  PROVE  LInv'
<1>1. DOMAIN holder = Actions /\ WTypes /\ Shapes
  BY Numbered DEF AInv, JInv, WInv
<1>2. ASSUME NEW o \in Owner, NothingNew(o), thread'[o] = thread[o], scope'[o] = scope[o],
             left' = left, Acting(o)' => Acting(o)
      PROVE  Tidy(o)'
  BY <1>2 DEF LInv, Tidy, Accounted, NothingNew
<1>3. ASSUME NEW p \in Process, Crash(p), NEW o \in Owner PROVE Tidy(o)'
  <2>1. /\ UNCHANGED <<journal, holder, ws, left>>
        /\ proc' = [proc EXCEPT ![p] = "gone"]
        /\ thread'[o] = IF ProcessOf[o] = p THEN Idle ELSE thread[o]
        /\ scope'[o] = IF ProcessOf[o] = p THEN None ELSE scope[o]
    BY <1>3 DEF Crash, journalVars, ghostVars
  <2>2. CASE ProcessOf[o] = p
    <3>1. ~Acting(o)' /\ thread'[o] = Idle
      BY <1>1, <2>1, <2>2 DEF Acting, WTypes
    <3>2. QED BY <3>1 DEF Tidy, Directed, Idle
  <2>3. CASE ProcessOf[o] # p
    <3>1. NothingNew(o)
      BY <2>1 DEF NothingNew, Actions
    <3>2. Acting(o)' => Acting(o)
      BY <1>1, <2>1, <2>3 DEF Acting, WTypes
    <3>3. QED BY <1>2, <2>1, <2>3, <3>1, <3>2
  <2>4. QED BY <2>2, <2>3
<1>4. ASSUME Recover, NEW o \in Owner PROVE Tidy(o)'
  <2>1. /\ UNCHANGED <<ws, thread, scope, proc, left>>
        /\ journal' = [k \in Actions |->
             IF k \in Interrupted THEN [journal[k] EXCEPT !.state = RecoveredAs] ELSE journal[k]]
        /\ holder' = [k \in Actions |-> IF k \in Interrupted THEN None ELSE holder[k]]
    BY <1>4 DEF Recover, ghostVars
  <2>2. Actions' = Actions
    BY <2>1 DEF Actions
  <2>3. NothingNew(o)
    BY <2>1, <2>2, NoneIsNoOwner DEF NothingNew
  <2>4. QED BY <1>2, <2>1, <2>3 DEF Acting
<1>5. ASSUME Broker \/ UNCHANGED vars, NEW o \in Owner PROVE Tidy(o)'
  <2>1. UNCHANGED <<journal, holder, ws, thread, scope, proc, left>>
    BY <1>5 DEF Broker, vars, journalVars, ghostVars
  <2>2. NothingNew(o)
    BY <2>1 DEF NothingNew, Actions
  <2>3. QED BY <1>2, <2>1, <2>2 DEF Acting
<1>6. QED BY <1>3, <1>4, <1>5 DEF LInv

\* Every step keeps account.
LEMMA StepStaysTidy == ASSUME NoneOpen, AInv, WInv, JInv, LInv, [Next]_vars PROVE LInv'
<1>1. ASSUME NEW o \in Owner, Acting(o), CallStep(o) PROVE LInv'
  BY <1>1, CallsLeaveProcesses, CallStaysTidy
<1>2. QED BY <1>1, RestStaysTidy DEF Next

\* Nobody has anything at first.
LEMMA TidyAtFirst == ASSUME Init PROVE LInv
<1>1. /\ journal = <<>> /\ ws = [p \in Path |-> None] /\ thread = [o \in Owner |-> Idle]
  BY DEF Init
<1>2. Actions = {}
  BY <1>1 DEF Actions
<1>3. \A o \in Owner : \A p \in Path : ws[p] # o
  BY <1>1, NoneIsNoOwner
<1>4. QED BY <1>1, <1>2, <1>3 DEF LInv, Tidy, Directed, Accounted, Idle

\* A call that has returned has nothing to give back.
LEMMA NothingToGiveBack == ASSUME WInv, JInv, LInv PROVE NothingLeftBehind
<1>1. SUFFICES ASSUME NEW o \in Owner, Acting(o), At(o, "idle"), o \notin left
               PROVE  /\ \A k \in Actions : holder[k] # o
                      /\ \A p \in Path : ws[p] = o => scope[o] = p
  BY DEF NothingLeftBehind
<1>2. thread[o].mine = <<>> /\ thread[o].claimed = {}
  BY <1>1 DEF JInv, CallTrue, Phase, WInv, Holds, At
<1>3. Accounted(o, thread[o], scope[o])
  BY <1>1 DEF LInv, Tidy
<1>4. QED BY <1>2, <1>3 DEF Accounted

\* A call that has returned leaves nothing behind, no running action and no
\* workspace, unless a finish_action raised (tool_core.py:93-101,
\* execution_backends.py:656-669), when every call that asks for the network names
\* where it goes.  Without that the executor forgets what it has begun.
THEOREM NothingStaysBehind == NoneOpen /\ Spec => []NothingLeftBehind
<1>1. Init => AInv /\ WInv /\ JInv /\ LInv
  BY InitHolds, NothingIsHeld, JournalIsEmpty, TidyAtFirst
<1>2. /\ NoneOpen /\ AInv /\ WInv /\ JInv /\ LInv
      /\ [Next]_vars
      => (AInv /\ WInv /\ JInv /\ LInv)'
  BY NextKeeps, StepHolds, StepIsTrue, StepStaysTidy
<1>3. NoneOpen => NoneOpen'
  BY DEF NoneOpen
<1>4. WInv /\ JInv /\ LInv => NothingLeftBehind
  BY NothingToGiveBack
<1>5. QED BY <1>1, <1>2, <1>3, <1>4, PTL DEF Spec
=============================================================================
