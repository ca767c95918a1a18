-------------------------- MODULE DelegationProofs --------------------------
(***************************************************************************)
(* Delegation and memory, for every set of children, owners, processes,    *)
(* entries and texts.  A child has one executor and its contract ends      *)
(* with it, and what has ended stays as it ended: a lease is only taken    *)
(* from an owner whose process is gone, so whatever the others do, an      *)
(* owner that may still write finds under its lease what it left there     *)
(* (RowsKeep).  Memory keeps its word: where its files and its index       *)
(* differ somebody is between the two or it is on record (DriftIsOwned),   *)
(* and who decides about a candidate finds it as he claimed it.            *)
(***************************************************************************)
EXTENDS Delegation, Memory, TLAPS

EndNames == TaskEnds \union {"timed_out"}
Contracts == {"absent", "created"} \union Open \union Terminal
Tasks == {"absent", "pending", "running"} \union TaskEnds
Labels == Running \union {"unused", "stale", "raised", "submit", "queued", "leave", "over",
                          "looked", "signal", "reclaim", "settle", "done"}

CallTyped(o) ==
    /\ call[o] = [pc |-> call[o].pc, on |-> call[o].on, run |-> call[o].run,
                  event |-> call[o].event, timedOut |-> call[o].timedOut,
                  conflict |-> call[o].conflict, end |-> call[o].end]
    /\ call[o].pc \in Labels
    /\ call[o].pc # "unused" => On(o) \in Child
    /\ call[o].run \in Holder
    /\ {call[o].event, call[o].timedOut, call[o].conflict} \subseteq BOOLEAN
    /\ call[o].pc = "finish" => call[o].end \in EndNames

RowTypes ==
    /\ proc \in [Process -> {"alive", "gone"}]
    /\ contract \in [Child -> Contracts]
    /\ record \in [Child -> {"absent", "requested"} \union TaskEnds]
    /\ child \in [Child -> Tasks]
    /\ lease \in [Child -> Holder] /\ exec \in [Child -> Holder] /\ room \in Holder
    /\ invoked \in [Child -> Nat] /\ ended \subseteq Child

DelegationTypes ==
    /\ RowTypes
    /\ DOMAIN call = Owner /\ \A o \in Owner : CallTyped(o)

-----------------------------------------------------------------------------
\* an owner whose leases nobody takes
Live(o) == ~OwnerGone(proc, o)

\* the places where a call relies on the lease of its delegation,
Busy == Running \union {"stale", "submit", "queued"}
\* on that of the child task,
Placed == {"room", "ready", "adopt", "work", "decide"}
\* and where it still has the latter
Holding == Placed \union {"finish", "fail", "leave"}
\* where _RUNS has it, or has had it
Entered == Running \union {"queued", "leave", "over"}

\* what a call relies on is so
RunInv(o) ==
    Live(o) =>
        /\ call[o].pc \in Busy => lease[On(o)] = o
        /\ call[o].pc \in Placed => exec[On(o)] = o
        /\ call[o].pc \in {"ready", "adopt", "work"} /\ On(o) \in Exclusive => room = o
        /\ call[o].pc \in {"adopt", "work", "decide"}
              => contract[On(o)] \in {"running", "cancellation_requested"}
        /\ call[o].pc \in {"submit", "queued", "claim", "room", "ready", "adopt"}
              => invoked[On(o)] = 0
        /\ call[o].pc = "work" => invoked[On(o)] = 1

\* the rows of a delegation agree on how far it has come
RowInv(d) ==
    /\ contract[d] = "absent" => record[d] = "absent" /\ child[d] = "absent"
    /\ contract[d] \in {"absent", "created"} => lease[d] = None
    /\ contract[d] \in {"absent", "created", "scheduled"} => invoked[d] = 0
    /\ record[d] \in TaskEnds => d \in ended \/ contract[d] \in Terminal
    /\ child[d] \in TaskEnds => \/ d \in ended \/ contract[d] \in Terminal
                                \/ d \in Looped /\ invoked[d] > 0

\* who has the child task has the delegation as well, or has ended it
HolderInv(d) ==
    exec[d] \in Owner /\ Live(exec[d]) =>
        /\ On(exec[d]) = d /\ call[exec[d]].pc \in Holding
        /\ lease[d] = exec[d] \/ contract[d] \in Terminal

\* what a cancellation knows of the run that it found in _RUNS
CancelInv(c) ==
    LET r == call[c].run
    IN /\ At(c, "reclaim") => contract[On(c)] \notin {"absent", "created"}
       /\ At(c, "signal") => r # None
       /\ r # None =>
            /\ call[c].pc \in {"looked", "signal", "settle", "done"}
            /\ ProcessOf[r] = ProcessOf[c] /\ On(r) = On(c)
            /\ call[r].pc \in Entered
            /\ At(c, "settle") =>
                 /\ At(r, "over")
                 /\ Live(r) => \/ contract[On(c)] \in Terminal
                               \/ lease[On(c)] = r /\ invoked[On(c)] = 0

Settled(d) ==
    \/ contract[d] \in Terminal
    \/ d \in ended
    \/ d \in Looped /\ child[d] \in {"completed", "cancelled"}

\* somebody is about to settle what o has left
SettledFor(o) == \E c \in Owner : At(c, "settle") /\ call[c].run = o

SettleInv(o) ==
    OwnerAlive(proc, o) /\ ~MayLapse =>
        /\ At(o, "leave") => Settled(On(o))
        /\ At(o, "over") => Settled(On(o)) \/ SettledFor(o)

DelegationInv ==
    /\ DelegationTypes
    /\ \A o \in Owner : RunInv(o) /\ CancelInv(o) /\ SettleInv(o)
    /\ \A d \in Child : RowInv(d) /\ HolderInv(d)

-----------------------------------------------------------------------------
\* What a step of o, or of nobody (None), keeps for everybody else

EndsStep(d) ==
    /\ child[d] \in {"completed", "cancelled"} => child'[d] = child[d]
    /\ record[d] \in TaskEnds => record'[d] = record[d]
    /\ contract[d] \in Terminal =>
         \/ contract'[d] = contract[d]
         \/ contract[d] = "completed" /\ contract'[d] \in {"accepted", "rejected"}

OnlyItself(o) == \A q \in Owner : q # o => call'[q] = call[q]

\* the delegation of a live owner
LeaseKeeps(o, d, q) ==
    /\ lease'[d] = q \/ contract'[d] \in Terminal
    /\ q # o /\ call[q].pc \in Busy =>
         /\ lease'[d] = q
         /\ contract[d] \in {"running", "cancellation_requested"}
              => contract'[d] \in {"running", "cancellation_requested"}
    /\ q # o /\ (call[q].pc \in Busy \/ call[q].pc = "over") => invoked'[d] = invoked[d]

\* the rows of a delegation
RowKeeps(o, d) ==
    /\ EndsStep(d)
    /\ contract[d] \notin {"absent", "created"} => contract'[d] \notin {"absent", "created"}
    /\ \A q \in Owner : lease[d] = q /\ Live(q) => LeaseKeeps(o, d, q)
    /\ \A q \in Owner : q # o /\ exec[d] = q /\ Live(q) => exec'[d] = q
    /\ exec'[d] \in {exec[d], None} \/ HolderInv(d)'

RowsKeep(o) ==
    /\ ended \subseteq ended'
    /\ \A q \in Owner : /\ Live(q)' => Live(q)
                        /\ OwnerAlive(proc, q)' => OwnerAlive(proc, q)
    /\ \A d \in Child : RowKeeps(o, d)
    /\ \A q \in Owner : q # o /\ room = q /\ Live(q) => room' = q

\* a call goes on, and ends
PathOk(o) ==
    /\ call[o].pc \in Entered => call'[o].pc \in Entered /\ call'[o].on = call[o].on
    /\ call[o].pc # "over"
    /\ call[o].pc \in Holding => call'[o].pc \in Holding \/ exec'[On(o)] # o
    /\ At(o, "settle") /\ call[o].run # None /\ OwnerAlive(proc, call[o].run) /\ ~MayLapse
         => \A d \in Child : d = On(o) => Settled(d)'

-----------------------------------------------------------------------------
LEMMA PlaceNames ==
    /\ Placed \subseteq Holding /\ Placed \subseteq Busy /\ Holding \subseteq Entered
    /\ Running \subseteq Busy /\ Running \subseteq Entered /\ Busy \subseteq Labels
    /\ Entered \subseteq Labels /\ "over" \notin Busy /\ "leave" \notin Busy
    /\ "settle" \notin Entered
  BY DEF Placed, Holding, Entered, Busy, Running, Labels

\* A caller is of a live process: nobody takes what it has.
LEMMA ActingIsLive ==
    ASSUME NEW o \in Owner, Acting(o) PROVE Live(o)
  BY DEF Acting, Live, OwnerGone

\* A lease of a live owner is its own.
LEMMA OnlyOwnLeases ==
    ASSUME NEW o \in Owner, NEW q \in Owner, Live(q), Claimable(proc, q, o) PROVE o = q
  BY NoneIsNoOwner DEF Claimable, Active, Live

\* What is settled stays settled.
LEMMA SettledStays ==
    ASSUME NEW o \in Holder, RowsKeep(o), NEW d \in Child, Settled(d) PROVE Settled(d)'
  BY DEF RowsKeep, RowKeeps, Settled, EndsStep, Terminal

LEMMA TerminalStays ==
    ASSUME NEW o \in Holder, RowsKeep(o), NEW d \in Child, contract[d] \in Terminal
    PROVE  contract'[d] \in Terminal
  BY DEF RowsKeep, RowKeeps, EndsStep, Terminal

\* What an owner relies on stays, whatever the others do.
LEMMA RunsKeep ==
    ASSUME DelegationInv, NEW o \in Holder, OnlyItself(o), RowsKeep(o),
           NEW q \in Owner, q # o
    PROVE  RunInv(q)'
<1> SUFFICES ASSUME Live(q)' PROVE RunInv(q)'
  BY DEF RunInv
<1>1. Live(q) /\ call'[q] = call[q] /\ RunInv(q) /\ CallTyped(q)
  BY DEF RowsKeep, OnlyItself, DelegationInv, DelegationTypes
<1>2. CASE call[q].pc \in Busy
  <2>1. On(q) \in Child /\ lease[On(q)] = q
    BY <1>1, <1>2 DEF CallTyped, RunInv, Busy, Running, On
  <2> DEFINE d == call[q].on
  <2>2. d \in Child /\ lease[d] = q
    BY <2>1 DEF On
  <2>3. /\ lease'[d] = q
        /\ contract[d] \in {"running", "cancellation_requested"}
             => contract'[d] \in {"running", "cancellation_requested"}
        /\ invoked'[d] = invoked[d]
        /\ exec[d] = q => exec'[d] = q
        /\ room = q => room' = q
    BY <1>1, <1>2, <2>2 DEF RowsKeep, RowKeeps, LeaseKeeps
  <2>4. On(q) = d /\ On(q)' = d
    BY <1>1 DEF On
  <2> HIDE DEF d
  <2> QED BY <1>1, <1>2, <2>3, <2>4 DEF RunInv
<1>3. CASE call[q].pc \notin Busy
  BY <1>1, <1>3 DEF RunInv, Busy, Running, Placed
<1> QED BY <1>2, <1>3

\* What a cancellation knows of its run stays.
LEMMA CancelsKeep ==
    ASSUME DelegationInv, NEW o \in Holder, OnlyItself(o), RowsKeep(o),
           o \in Owner => PathOk(o), NEW q \in Owner, q # o
    PROVE  CancelInv(q)'
<1>0. PICK r, d : r = call[q].run /\ d = call[q].on
  OBVIOUS
<1>1. call'[q] = call[q] /\ CancelInv(q) /\ CallTyped(q) /\ r \in Holder
  BY <1>0 DEF OnlyItself, DelegationInv, DelegationTypes, CallTyped
<1>2. At(q, "reclaim")' => contract'[d] \notin {"absent", "created"}
  BY <1>0, <1>1 DEF At, On, CancelInv, CallTyped, RowsKeep, RowKeeps
<1>3. ASSUME r # None
      PROVE  /\ call[q].pc \in {"looked", "signal", "settle", "done"}
             /\ ProcessOf[r] = ProcessOf[q] /\ call'[r].on = d /\ call'[r].pc \in Entered
             /\ call[q].pc = "settle" =>
                  /\ call'[r].pc = "over"
                  /\ Live(r)' => \/ contract'[d] \in Terminal
                                 \/ lease'[d] = r /\ invoked'[d] = 0
  <2>1. /\ r \in Owner /\ d \in Child
        /\ call[q].pc \in {"looked", "signal", "settle", "done"}
        /\ ProcessOf[r] = ProcessOf[q] /\ call[r].on = d /\ call[r].pc \in Entered
        /\ call[q].pc = "settle" =>
             /\ call[r].pc = "over"
             /\ Live(r) => \/ contract[d] \in Terminal
                           \/ lease[d] = r /\ invoked[d] = 0
    BY <1>0, <1>1, <1>3 DEF CancelInv, CallTyped, Holder, On, At
  <2>2. /\ call'[r].on = d /\ call'[r].pc \in Entered
        /\ call[r].pc = "over" => r # o /\ call'[r].pc = "over"
    <3>1. CASE r = o BY <2>1, <3>1 DEF PathOk
    <3>2. CASE r # o BY <2>1, <3>2 DEF OnlyItself
    <3> QED BY <3>1, <3>2
  <2>3. ASSUME call[q].pc = "settle", Live(r)'
        PROVE  contract'[d] \in Terminal \/ (lease'[d] = r /\ invoked'[d] = 0)
    <3>1. Live(r) /\ call[r].pc = "over"
      BY <2>1, <2>3 DEF RowsKeep
    <3>2. CASE contract[d] \in Terminal
      BY <2>1, <3>2, TerminalStays
    <3>3. CASE lease[d] = r /\ invoked[d] = 0 /\ r # o
      <4>1. r \in Owner /\ d \in Child /\ call[r].pc \in Busy \union {"over"}
        BY <2>1, <3>1
      <4>0. LeaseKeeps(o, d, r)
        BY <3>1, <3>3, <4>1 DEF RowsKeep, RowKeeps
      <4>2. lease'[d] = r \/ contract'[d] \in Terminal
        BY <4>0 DEF LeaseKeeps
      <4>3. invoked'[d] = invoked[d]
        BY <3>1, <3>3, <4>0 DEF LeaseKeeps
      <4> QED BY <3>3, <4>2, <4>3
    <3> QED BY <2>1, <2>2, <2>3, <3>1, <3>2, <3>3
  <2> QED BY <2>1, <2>2, <2>3
<1> QED BY <1>0, <1>1, <1>2, <1>3 DEF CancelInv, At, On

\* A run that is over stays settled, or somebody is still about to settle it.
LEMMA SettlesKeep ==
    ASSUME DelegationInv, NEW o \in Holder, OnlyItself(o), RowsKeep(o),
           o \in Owner => PathOk(o), NEW q \in Owner, q # o
    PROVE  SettleInv(q)'
<1> SUFFICES ASSUME OwnerAlive(proc, q)', ~MayLapse PROVE SettleInv(q)'
  BY DEF SettleInv
<1>0. PICK d : d = call[q].on
  OBVIOUS
<1>1. call'[q] = call[q] /\ SettleInv(q) /\ CallTyped(q) /\ OwnerAlive(proc, q)
  BY DEF OnlyItself, RowsKeep, DelegationInv, DelegationTypes
<1>2. CASE call[q].pc \in {"leave", "over"} /\ Settled(d)
  <2>1. d \in Child
    BY <1>0, <1>1, <1>2 DEF CallTyped, On
  <2>2. Settled(d)'
    BY <1>2, <2>1, SettledStays
  <2> QED BY <1>0, <1>1, <2>2 DEF SettleInv, On
<1>3. CASE call[q].pc = "over" /\ ~Settled(d)
  <2>1. PICK c \in Owner : call[c].pc = "settle" /\ call[c].run = q
    BY <1>0, <1>1, <1>3 DEF SettleInv, SettledFor, At, On
  <2>2. CASE c # o
    BY <1>1, <1>3, <2>1, <2>2 DEF OnlyItself, SettleInv, SettledFor, At
  <2>3. CASE c = o
    <3>1. On(o) = d
      BY <1>0, <2>1, <2>3, NoneIsNoOwner DEF DelegationInv, CancelInv, On
    <3>2. d \in Child
      BY <1>0, <1>1, <1>3 DEF CallTyped, On
    <3>3. Settled(d)'
      BY <1>1, <2>1, <2>3, <3>1, <3>2, NoneIsNoOwner DEF PathOk, At
    <3>4. QED BY <1>0, <1>1, <1>3, <3>3 DEF SettleInv, On, At
  <2> QED BY <2>2, <2>3
<1>4. CASE call[q].pc \notin {"leave", "over"}
  BY <1>1, <1>4 DEF SettleInv, At
<1> QED BY <1>0, <1>1, <1>2, <1>3, <1>4 DEF SettleInv, At, On

\* Together: what the others keep, and what its mover has to show of itself.
LEMMA MovesKeep ==
    ASSUME DelegationInv, NEW o \in Holder, DelegationTypes', OnlyItself(o), RowsKeep(o),
           o \in Owner => /\ PathOk(o) /\ RunInv(o)' /\ CancelInv(o)' /\ SettleInv(o)',
           \A d \in Child : RowInv(d)'
    PROVE  DelegationInv'
<1>1. ASSUME NEW q \in Owner PROVE RunInv(q)' /\ CancelInv(q)' /\ SettleInv(q)'
  <2>1. CASE q = o BY <2>1
  <2>2. CASE q # o BY <2>2, RunsKeep, CancelsKeep, SettlesKeep
  <2> QED BY <2>1, <2>2
<1>2. ASSUME NEW d \in Child PROVE HolderInv(d)'
  <2>1. CASE exec'[d] = None
    BY <2>1, NoneIsNoOwner DEF HolderInv
  <2>2. CASE exec'[d] = exec[d] /\ exec[d] \in Owner /\ Live(exec[d])'
    <3>0. PICK h \in Owner : h = exec[d]
      BY <2>2
    <3>1. Live(h)'
      BY <2>2, <3>0
    <3>2. Live(h) /\ RowKeeps(o, d)
      BY <3>1 DEF RowsKeep
    <3>3. /\ call[h].on = d /\ call[h].pc \in Holding
          /\ lease[d] = h \/ contract[d] \in Terminal
      BY <3>0, <3>2 DEF DelegationInv, HolderInv, On
    <3>4. call'[h].on = d /\ call'[h].pc \in Holding
      <4>1. CASE h = o
        BY <2>2, <3>0, <3>3, <4>1, PlaceNames DEF PathOk, On
      <4>2. CASE h # o
        BY <3>3, <4>2 DEF OnlyItself
      <4> QED BY <4>1, <4>2
    <3>5. lease'[d] = h \/ contract'[d] \in Terminal
      <4>1. CASE lease[d] = h
        BY <3>2, <4>1 DEF RowKeeps, LeaseKeeps
      <4>2. CASE contract[d] \in Terminal
        BY <4>2, TerminalStays
      <4> QED BY <3>3, <4>1, <4>2
    <3> QED BY <2>2, <3>0, <3>4, <3>5 DEF HolderInv, On
  <2> QED BY <2>1, <2>2 DEF RowsKeep, RowKeeps, HolderInv
<1> QED BY <1>1, <1>2 DEF DelegationInv

\* A process goes on: nobody comes back to life.
LEMMA SameProcesses ==
    ASSUME UNCHANGED proc, NEW q \in Owner
    PROVE  /\ Live(q)' => Live(q)
           /\ OwnerAlive(proc, q)' => OwnerAlive(proc, q)
  BY DEF Live, OwnerGone, OwnerAlive

-----------------------------------------------------------------------------
\* Steps that write no row

LEMMA CallMoves ==
    ASSUME DelegationInv, NEW o \in Owner, UNCHANGED <<proc, contract, record, child, lease, exec, room, invoked, ended>>,
           DOMAIN call' = Owner, OnlyItself(o), CallTyped(o)', PathOk(o),
           RunInv(o)', CancelInv(o)', SettleInv(o)'
    PROVE  DelegationInv' /\ \A d \in Child : EndsStep(d)
<1>1. DelegationTypes'
  <2>1. \A q \in Owner : CallTyped(q)'
    BY DEF DelegationInv, DelegationTypes, CallTyped, OnlyItself, On
  <2> QED BY <2>1 DEF DelegationInv, DelegationTypes, RowTypes
<1>2. \A d \in Child : EndsStep(d)
  BY DEF EndsStep
<1>3. RowsKeep(o)
  <2>1. ASSUME NEW d \in Child PROVE RowKeeps(o, d)
    BY <1>2 DEF RowKeeps, LeaseKeeps
  <2> QED BY <2>1, SameProcesses DEF RowsKeep
<1>4. ASSUME NEW d \in Child PROVE RowInv(d)'
  BY DEF DelegationInv, RowInv
<1> QED BY <1>1, <1>2, <1>3, <1>4, MovesKeep DEF Holder

-----------------------------------------------------------------------------
\* How the calls change

\* A record of a call is its fields.
LEMMA CallFields ==
    ASSUME NEW c, NEW l, NEW d, NEW r, NEW e, NEW t, NEW k, NEW n,
           c = [pc |-> l, on |-> d, run |-> r, event |-> e, timedOut |-> t, conflict |-> k, end |-> n]
    PROVE  /\ c = [pc |-> c.pc, on |-> c.on, run |-> c.run, event |-> c.event,
                   timedOut |-> c.timedOut, conflict |-> c.conflict, end |-> c.end]
           /\ c.pc = l /\ c.on = d /\ c.run = r /\ c.event = e /\ c.timedOut = t
           /\ c.conflict = k /\ c.end = n
<1>1. c.pc = l /\ c.on = d /\ c.run = r /\ c.event = e /\ c.timedOut = t
      /\ c.conflict = k /\ c.end = n
  OBVIOUS
<1> QED BY <1>1

\* the call of o, but for its place and its flags, is as it was
SameCall(o) ==
    /\ DOMAIN call' = Owner /\ OnlyItself(o)
    /\ call'[o] = [pc |-> call'[o].pc, on |-> call'[o].on, run |-> call'[o].run,
                   event |-> call'[o].event, timedOut |-> call'[o].timedOut,
                   conflict |-> call'[o].conflict, end |-> call'[o].end]
    /\ call'[o].on = call[o].on /\ call'[o].run = call[o].run
    /\ {call'[o].event, call'[o].timedOut, call'[o].conflict} \subseteq BOOLEAN

LEMMA GoesRow ==
    ASSUME DelegationTypes, NEW o \in Owner, NEW l, Goes(o, l)
    PROVE  SameCall(o) /\ call'[o].pc = l /\ call'[o].end = call[o].end
<1>1. CallTyped(o) /\ DOMAIN call = Owner
  BY DEF DelegationTypes
<1>2. /\ call' = [call EXCEPT ![o] = [call[o] EXCEPT !.pc = l]]
      /\ call'[o] = [pc |-> l, on |-> call[o].on, run |-> call[o].run, event |-> call[o].event,
                     timedOut |-> call[o].timedOut, conflict |-> call[o].conflict, end |-> call[o].end]
  BY <1>1 DEF Goes, CallTyped
<1>3. DOMAIN call' = Owner /\ OnlyItself(o)
  BY <1>1, <1>2 DEF OnlyItself
<1> QED BY <1>1, <1>2, <1>3, CallFields DEF SameCall, CallTyped

LEMMA EndsRow ==
    ASSUME DelegationTypes, NEW o \in Owner, NEW n, Ends(o, n)
    PROVE  SameCall(o) /\ call'[o].pc = "finish" /\ call'[o].end = n
<1>1. CallTyped(o) /\ DOMAIN call = Owner
  BY DEF DelegationTypes
<1>2. /\ call' = [call EXCEPT ![o] = [call[o] EXCEPT !.pc = "finish", !.end = n]]
      /\ call'[o] = [pc |-> "finish", on |-> call[o].on, run |-> call[o].run, event |-> call[o].event,
                     timedOut |-> call[o].timedOut, conflict |-> call[o].conflict, end |-> n]
  BY <1>1 DEF Ends, CallTyped
<1>3. DOMAIN call' = Owner /\ OnlyItself(o)
  BY <1>1, <1>2 DEF OnlyItself
<1> QED BY <1>1, <1>2, <1>3, CallFields DEF SameCall, CallTyped

LEMMA FlagsRow ==
    ASSUME DelegationTypes, NEW o \in Owner, NEW e \in BOOLEAN, NEW t \in BOOLEAN, NEW k \in BOOLEAN, NEW l,
           call' = [call EXCEPT ![o] = [call[o] EXCEPT !.pc = l, !.event = e, !.timedOut = t, !.conflict = k]]
    PROVE  SameCall(o) /\ call'[o].pc = l /\ call'[o].end = call[o].end
<1>1. CallTyped(o) /\ DOMAIN call = Owner
  BY DEF DelegationTypes
<1>2. call'[o] = [pc |-> l, on |-> call[o].on, run |-> call[o].run, event |-> e,
                  timedOut |-> t, conflict |-> k, end |-> call[o].end]
  BY <1>1 DEF CallTyped
<1>3. DOMAIN call' = Owner /\ OnlyItself(o)
  BY <1>1 DEF OnlyItself
<1> QED BY <1>1, <1>2, <1>3, CallFields DEF SameCall, CallTyped

\* Such a call keeps its type.
LEMMA SameTyped ==
    ASSUME DelegationTypes, NEW o \in Owner, SameCall(o), call[o].pc # "unused",
           call'[o].pc \in Labels, call'[o].pc = "finish" => call'[o].end \in EndNames
    PROVE  CallTyped(o)'
  BY DEF DelegationTypes, CallTyped, SameCall, On

-----------------------------------------------------------------------------
\* A run that goes on to another place

LEMMA RunnerOwn ==
    ASSUME DelegationInv, NEW o \in Owner, call[o].pc \in Busy, SameCall(o),
           call'[o].pc \in Busy \union {"raised"}
    PROVE  CancelInv(o)' /\ SettleInv(o)'
<1>1. call[o].run = None
  BY DEF DelegationInv, CancelInv, Busy, Running
<1> QED BY <1>1 DEF SameCall, CancelInv, SettleInv, At, Busy, Running

LEMMA RunnerMoves ==
    ASSUME DelegationInv, NEW o \in Owner,
           UNCHANGED <<proc, contract, record, child, lease, exec, room, invoked, ended>>,
           SameCall(o), call[o].pc \in Busy, call'[o].pc \in Busy \union {"raised"},
           call[o].pc \in Entered => call'[o].pc \in Running,
           call[o].pc \in Holding => call'[o].pc \in Holding,
           call'[o].pc = "finish" => call'[o].end \in EndNames,
           RunInv(o)'
    PROVE  DelegationInv' /\ \A d \in Child : EndsStep(d)
<1>1. CancelInv(o)' /\ SettleInv(o)'
  BY RunnerOwn
<1>2. CallTyped(o)'
  BY PlaceNames, SameTyped DEF DelegationInv, Busy, Running, Labels
<1>3. PathOk(o)
  BY PlaceNames DEF PathOk, SameCall, Busy, Running, At
<1> QED BY <1>1, <1>2, <1>3, CallMoves DEF SameCall

\* What it relies on is what it relied on.
LEMMA SameReliance ==
    ASSUME DelegationInv, NEW o \in Owner, Acting(o),
           UNCHANGED <<proc, contract, lease, exec, room, invoked>>, SameCall(o),
           call[o].pc \in Busy,
           \/ call'[o].pc \in {call[o].pc, "finish", "fail", "raised"}
           \/ (call[o].pc = "submit" /\ call'[o].pc = "queued")
           \/ (call[o].pc = "queued" /\ call'[o].pc = "claim")
           \/ (call[o].pc = "work" /\ call'[o].pc = "decide")
    PROVE  RunInv(o)'
<1>1. Live(o) /\ RunInv(o)
  BY ActingIsLive DEF DelegationInv
<1> QED BY <1>1 DEF RunInv, SameCall, Busy, Running, Placed, On

LEMMA SubmitKeeps ==
    ASSUME DelegationInv, NEW o \in Owner, Acting(o), Submit(o)
    PROVE  DelegationInv' /\ \A d \in Child : EndsStep(d)
<1>1. SameCall(o) /\ call[o].pc = "submit" /\ call'[o].pc = "queued"
  BY GoesRow DEF DelegationInv, Submit, At
<1>2. UNCHANGED <<proc, contract, record, child, lease, exec, room, invoked, ended>>
  BY DEF Submit, rows, places, history
<1>3. call[o].pc \in Busy /\ call'[o].pc \in Busy /\ call[o].pc \notin Entered
      /\ call[o].pc \notin Holding
  BY <1>1 DEF Busy, Running, Entered, Holding, Placed
<1>4. RunInv(o)'
  BY <1>1, <1>2, <1>3, SameReliance
<1> QED BY <1>1, <1>2, <1>3, <1>4, RunnerMoves

\* Expire, Monitor: the flags alone
LEMMA FlagsKeep ==
    ASSUME DelegationInv, NEW o \in Owner, Acting(o), Expire(o) \/ Monitor(o)
    PROVE  DelegationInv' /\ \A d \in Child : EndsStep(d)
<1>1. /\ call[o].pc \in Running
      /\ UNCHANGED <<proc, contract, record, child, lease, exec, room, invoked, ended>>
      /\ DelegationTypes /\ CallTyped(o)
  BY DEF Expire, Monitor, rows, places, history, DelegationInv, DelegationTypes
<1>2. PICK e \in BOOLEAN, t \in BOOLEAN :
        call' = [call EXCEPT ![o] = [call[o] EXCEPT !.event = e, !.timedOut = t]]
  <2>1. CASE Expire(o)
    <3>1. call' = [call EXCEPT ![o] = [call[o] EXCEPT !.event = TRUE, !.timedOut = TRUE]]
      BY <1>1, <2>1 DEF Expire, CallTyped, DelegationTypes
    <3> QED BY <3>1
  <2>2. CASE Monitor(o)
    <3>1. call' = [call EXCEPT ![o] = [call[o] EXCEPT !.event = TRUE, !.timedOut = call[o].timedOut]]
      BY <1>1, <2>2 DEF Monitor, CallTyped, DelegationTypes
    <3> QED BY <1>1, <3>1 DEF CallTyped
  <2> QED BY <2>1, <2>2
<1>3. call' = [call EXCEPT ![o] = [call[o] EXCEPT !.pc = call[o].pc, !.event = e, !.timedOut = t,
                                                  !.conflict = call[o].conflict]]
  BY <1>1, <1>2 DEF CallTyped
<1>4. call[o].conflict \in BOOLEAN
  BY <1>1 DEF CallTyped
<1>5. SameCall(o) /\ call'[o].pc = call[o].pc /\ call'[o].end = call[o].end
  BY <1>1, <1>3, <1>4, FlagsRow
<1>6. call'[o].pc = "finish" => call'[o].end \in EndNames
  BY <1>1, <1>5 DEF CallTyped
<1>7. call[o].pc \in Busy
  BY <1>1, PlaceNames
<1>8. RunInv(o)'
  BY <1>1, <1>5, <1>7, SameReliance
<1> QED BY <1>1, <1>5, <1>6, <1>7, <1>8, RunnerMoves

\* Steps of a run that only move it on
LEMMA PlainSteps ==
    ASSUME DelegationInv, NEW o \in Owner, Acting(o),
           UNCHANGED <<proc, contract, record, child, lease, exec, room, invoked, ended>>,
           SameCall(o),
           \/ (call[o].pc = "queued" /\ call'[o].pc \in {"claim", "finish"})
           \/ (call[o].pc = "work" /\ call'[o].pc \in {"decide", "fail"})
           \/ (call[o].pc \in {"claim", "room", "ready", "adopt", "decide", "finish"}
               /\ call'[o].pc \in {"finish", "fail"}),
           call'[o].pc = "finish" => call'[o].end \in EndNames
    PROVE  DelegationInv' /\ \A d \in Child : EndsStep(d)
<1>1. /\ call[o].pc \in Busy /\ call'[o].pc \in Busy /\ call'[o].pc \in Running
      /\ call[o].pc \in Holding => call'[o].pc \in Holding
  BY DEF Busy, Running, Holding, Placed
<1>2. RunInv(o)'
  BY <1>1, SameReliance
<1> QED BY <1>1, <1>2, RunnerMoves

LEMMA BeginKeeps ==
    ASSUME DelegationInv, NEW o \in Owner, Acting(o), Begin(o)
    PROVE  DelegationInv' /\ \A d \in Child : EndsStep(d)
<1>1. /\ call[o].pc = "queued" /\ DelegationTypes
      /\ UNCHANGED <<proc, contract, record, child, lease, exec, room, invoked, ended>>
  BY DEF Begin, At, rows, places, history, DelegationInv
<1>2. CASE Ends(o, "cancelled")
  BY <1>1, <1>2, EndsRow, PlainSteps DEF EndNames, TaskEnds
<1>3. CASE Goes(o, "claim")
  <2>1. SameCall(o) /\ call'[o].pc = "claim"
    BY <1>1, <1>3, GoesRow
  <2> QED BY <1>1, <2>1, PlainSteps
<1> QED BY <1>2, <1>3 DEF Begin

LEMMA RoomTimeoutKeeps ==
    ASSUME DelegationInv, NEW o \in Owner, Acting(o), RoomTimeout(o)
    PROVE  DelegationInv' /\ \A d \in Child : EndsStep(d)
<1>1. /\ call[o].pc = "room" /\ DelegationTypes /\ Goes(o, "fail")
      /\ UNCHANGED <<proc, contract, record, child, lease, exec, room, invoked, ended>>
  BY DEF RoomTimeout, At, rows, places, history, DelegationInv
<1>2. SameCall(o) /\ call'[o].pc = "fail"
  BY <1>1, GoesRow
<1> QED BY <1>1, <1>2, PlainSteps

LEMMA WorkEndsKeeps ==
    ASSUME DelegationInv, NEW o \in Owner, Acting(o), WorkEnds(o)
    PROVE  DelegationInv' /\ \A d \in Child : EndsStep(d)
<1>1. /\ call[o].pc = "work" /\ DelegationTypes /\ (Goes(o, "fail") \/ Goes(o, "decide"))
      /\ UNCHANGED <<proc, contract, record, child, lease, exec, room, invoked, ended>>
  BY DEF WorkEnds, At, rows, places, history, DelegationInv
<1>2. SameCall(o) /\ call'[o].pc \in {"fail", "decide"}
  BY <1>1, GoesRow
<1> QED BY <1>1, <1>2, PlainSteps

LEMMA DecideKeeps ==
    ASSUME DelegationInv, NEW o \in Owner, Acting(o), Decide(o)
    PROVE  DelegationInv' /\ \A d \in Child : EndsStep(d)
<1>1. /\ call[o].pc = "decide" /\ DelegationTypes
      /\ UNCHANGED <<proc, contract, record, child, lease, exec, room, invoked, ended>>
  BY DEF Decide, At, rows, places, history, DelegationInv
<1>2. CASE \E n \in EndNames : Ends(o, n)
  <2>1. SameCall(o) /\ call'[o].pc = "finish" /\ call'[o].end \in EndNames
    BY <1>1, <1>2, EndsRow
  <2> QED BY <1>1, <2>1, PlainSteps
<1>3. CASE Goes(o, "fail")
  <2>1. SameCall(o) /\ call'[o].pc = "fail"
    BY <1>1, <1>3, GoesRow
  <2> QED BY <1>1, <2>1, PlainSteps
<1> QED BY <1>2, <1>3 DEF Decide, EndNames, TaskEnds

-----------------------------------------------------------------------------
\* Steps of a run that write rows

LEMMA RunnerWrites ==
    ASSUME DelegationInv, NEW o \in Owner, call[o].pc \in Busy,
           SameCall(o), call'[o].pc \in Busy \union {"raised"},
           call'[o].pc = "finish" => call'[o].end \in EndNames,
           call[o].pc \in Entered => call'[o].pc \in Running,
           call[o].pc \in Holding => call'[o].pc \in Holding,
           RowTypes', RowsKeep(o), RunInv(o)', \A d \in Child : RowInv(d)'
    PROVE  DelegationInv' /\ \A d \in Child : EndsStep(d)
<1>1. CancelInv(o)' /\ SettleInv(o)'
  BY RunnerOwn
<1>2. CallTyped(o)'
  BY PlaceNames, SameTyped DEF DelegationInv, Busy, Running, Labels
<1>3. PathOk(o)
  BY PlaceNames DEF PathOk, SameCall, Busy, Running, At
<1>4. \A q \in Owner : CallTyped(q)'
  BY <1>2 DEF DelegationInv, DelegationTypes, CallTyped, SameCall, OnlyItself, On
<1>5. DelegationTypes'
  BY <1>4 DEF DelegationTypes, SameCall
<1>6. \A d \in Child : EndsStep(d)
  BY DEF RowsKeep, RowKeeps
<1> QED BY <1>1, <1>3, <1>5, <1>6, MovesKeep DEF SameCall, Holder

\* a step that leaves the contracts, the counts and the leases of delegations alone
LEMMA SameRows ==
    ASSUME DelegationInv, NEW o \in Holder, UNCHANGED <<proc, contract, record, lease, invoked, ended>>,
           NEW d \in Child, child'[d] = child[d],
           \A q \in Owner : q # o /\ exec[d] = q /\ Live(q) => exec'[d] = q,
           exec'[d] \in {exec[d], None} \/ HolderInv(d)'
    PROVE  RowKeeps(o, d) /\ RowInv(d)'
<1>1. RowKeeps(o, d)
  BY DEF RowKeeps, LeaseKeeps, EndsStep
<1>2. RowInv(d)'
  BY DEF DelegationInv, RowInv
<1> QED BY <1>1, <1>2

LEMMA ClaimTaskKeeps ==
    ASSUME DelegationInv, NEW o \in Owner, Acting(o), ClaimTask(o)
    PROVE  DelegationInv' /\ \A d \in Child : EndsStep(d)
<1>1. /\ call[o].pc = "claim" /\ DelegationTypes
      /\ UNCHANGED <<proc, contract, record, child, lease, room, invoked, ended>>
  BY DEF ClaimTask, At, rows, history, DelegationInv
<1>2. PICK d \in Child : d = On(o)
  BY <1>1 DEF DelegationTypes, CallTyped
<1>3. lease[d] = o /\ invoked[d] = 0 /\ Live(o)
  BY <1>1, <1>2, ActingIsLive DEF DelegationInv, RunInv, Busy, Running
<1>4. ASSUME Claimable(proc, exec[d], o), exec' = [exec EXCEPT ![d] = o],
             Goes(o, IF On(o) \in Exclusive THEN "room" ELSE "ready")
      PROVE  DelegationInv' /\ \A x \in Child : EndsStep(x)
  <2>1. SameCall(o) /\ call'[o].pc = IF d \in Exclusive THEN "room" ELSE "ready"
    BY <1>1, <1>2, <1>4, GoesRow
  <2>2. RowTypes'
    BY <1>1, <1>4 DEF DelegationTypes, RowTypes, Holder
  <2>3. exec'[d] = o /\ call'[o].on = d /\ call'[o].pc \in Placed
    BY <1>1, <1>2, <1>4, <2>1 DEF SameCall, DelegationTypes, RowTypes, On, Placed
  <2>4. RunInv(o)'
    BY <1>1, <1>2, <1>3, <2>1, <2>3 DEF RunInv, On, Placed
  <2>5. HolderInv(d)'
    BY <1>1, <1>3, <2>3 DEF HolderInv, On, Holding
  <2>6. ASSUME NEW x \in Child PROVE RowKeeps(o, x) /\ RowInv(x)'
    <3>1. CASE x = d
      <4>1. \A q \in Owner : q # o /\ exec[d] = q /\ Live(q) => exec'[d] = q
        BY <1>4, OnlyOwnLeases
      <4> QED BY <1>1, <2>5, <3>1, <4>1, SameRows DEF Holder
    <3>2. CASE x # d
      <4>1. exec'[x] = exec[x]
        BY <1>1, <1>4, <3>2 DEF DelegationTypes, RowTypes
      <4> QED BY <1>1, <4>1, SameRows DEF Holder
    <3> QED BY <3>1, <3>2
  <2>7. RowsKeep(o)
    BY <1>1, <2>6, SameProcesses DEF RowsKeep
  <2>8. call[o].pc \in Busy /\ call'[o].pc \in Running /\ call'[o].pc \in Busy
        /\ call[o].pc \notin Holding /\ call'[o].pc # "finish"
    BY <1>1, <2>1 DEF Busy, Running, Holding, Placed
  <2> QED BY <2>1, <2>2, <2>4, <2>6, <2>7, <2>8, RunnerWrites
<1>5. ASSUME exec' = exec, call' = [call EXCEPT ![o].pc = "fail", ![o].conflict = TRUE]
      PROVE  DelegationInv' /\ \A x \in Child : EndsStep(x)
  <2>1. call' = [call EXCEPT ![o] = [call[o] EXCEPT !.pc = "fail", !.event = call[o].event,
                                                    !.timedOut = call[o].timedOut, !.conflict = TRUE]]
        /\ call[o].event \in BOOLEAN /\ call[o].timedOut \in BOOLEAN
    BY <1>1, <1>5 DEF DelegationTypes, CallTyped
  <2>2. SameCall(o) /\ call'[o].pc = "fail"
    BY <1>1, <2>1, FlagsRow
  <2> QED BY <1>1, <1>5, <2>2, PlainSteps
<1> QED BY <1>2, <1>4, <1>5 DEF ClaimTask

LEMMA ClaimRoomKeeps ==
    ASSUME DelegationInv, NEW o \in Owner, Acting(o), ClaimRoom(o)
    PROVE  DelegationInv' /\ \A d \in Child : EndsStep(d)
<1>1. /\ call[o].pc = "room" /\ DelegationTypes /\ Claimable(proc, room, o) /\ room' = o
      /\ UNCHANGED <<proc, contract, record, child, lease, exec, invoked, ended>>
      /\ Goes(o, "ready")
  BY DEF ClaimRoom, At, rows, history, DelegationInv
<1>2. SameCall(o) /\ call'[o].pc = "ready"
  BY <1>1, GoesRow
<1>3. /\ call[o].pc \in Busy /\ call'[o].pc \in Busy /\ call'[o].pc \in Running
      /\ call'[o].pc \in Holding /\ call'[o].pc # "finish"
  BY <1>1, <1>2 DEF Busy, Running, Holding, Placed
<1>4. RowTypes'
  BY <1>1 DEF DelegationTypes, RowTypes, Holder
<1>5. RunInv(o)'
  BY <1>1, <1>2, ActingIsLive DEF DelegationInv, RunInv, SameCall, Busy, Running, Placed, On
<1>6. \A q \in Owner : q # o /\ room = q /\ Live(q) => room' = q
  BY <1>1, OnlyOwnLeases
<1>7. \A d \in Child : RowKeeps(o, d) /\ RowInv(d)'
  BY <1>1, SameRows DEF Holder
<1>8. RowsKeep(o)
  BY <1>1, <1>6, <1>7, SameProcesses DEF RowsKeep
<1> QED BY <1>2, <1>3, <1>4, <1>5, <1>7, <1>8, RunnerWrites

LEMMA ReadyKeeps ==
    ASSUME DelegationInv, NEW o \in Owner, Acting(o), Ready(o)
    PROVE  DelegationInv' /\ \A d \in Child : EndsStep(d)
<1>1. /\ call[o].pc = "ready" /\ DelegationTypes
      /\ UNCHANGED <<proc, record, child, lease, exec, room, invoked, ended>>
  BY DEF Ready, At, places, history, DelegationInv
<1>2. CASE Ends(o, "cancelled") /\ UNCHANGED contract
  BY <1>1, <1>2, EndsRow, PlainSteps DEF EndNames, TaskEnds
<1>3. CASE Goes(o, "fail") /\ UNCHANGED contract
  <2>1. SameCall(o) /\ call'[o].pc = "fail"
    BY <1>1, <1>3, GoesRow
  <2> QED BY <1>1, <1>3, <2>1, PlainSteps
<1>4. ASSUME contract[On(o)] = "scheduled", lease[On(o)] = o, Goes(o, "adopt"),
             contract' = [contract EXCEPT ![On(o)] = "running"]
      PROVE  DelegationInv' /\ \A x \in Child : EndsStep(x)
  <2>1. PICK d \in Child : d = On(o)
    BY <1>1 DEF DelegationTypes, CallTyped
  <2>2. SameCall(o) /\ call'[o].pc = "adopt"
    BY <1>1, <1>4, GoesRow
  <2>3. /\ call[o].pc \in Busy /\ call'[o].pc \in Busy /\ call'[o].pc \in Running
        /\ call'[o].pc \in Holding /\ call'[o].pc # "finish"
    BY <1>1, <2>2 DEF Busy, Running, Holding, Placed
  <2>4. contract'[d] = "running" /\ \A x \in Child : x # d => contract'[x] = contract[x]
    BY <1>1, <1>4, <2>1 DEF DelegationTypes, RowTypes
  <2>5. RowTypes'
    BY <1>1, <1>4 DEF DelegationTypes, RowTypes, Contracts, Open
  <2>6. RunInv(o)'
    BY <1>1, <2>1, <2>2, <2>4, ActingIsLive
    DEF DelegationInv, RunInv, SameCall, Busy, Running, Placed, On
  <2>7. \A x \in Child : RowKeeps(o, x)
    BY <1>1, <1>4, <2>1, <2>4, NoneIsNoOwner DEF RowKeeps, LeaseKeeps, EndsStep, Terminal
  <2>8. \A x \in Child : RowInv(x)'
    BY <1>1, <1>4, <2>1, <2>4 DEF DelegationInv, RowInv, Terminal
  <2>9. RowsKeep(o)
    BY <1>1, <2>7, SameProcesses DEF RowsKeep
  <2> QED BY <2>2, <2>3, <2>5, <2>6, <2>8, <2>9, RunnerWrites
<1> QED BY <1>2, <1>3, <1>4 DEF Ready

LEMMA AdoptKeeps ==
    ASSUME DelegationInv, NEW o \in Owner, Acting(o), Adopt(o)
    PROVE  DelegationInv' /\ \A d \in Child : EndsStep(d)
<1>1. /\ call[o].pc = "adopt" /\ DelegationTypes
      /\ UNCHANGED <<proc, contract, record, lease, exec, room, ended>>
  BY DEF Adopt, At, places, DelegationInv
<1>2. CASE Goes(o, "fail") /\ UNCHANGED <<child, invoked>>
  <2>1. SameCall(o) /\ call'[o].pc = "fail"
    BY <1>1, <1>2, GoesRow
  <2> QED BY <1>1, <1>2, <2>1, PlainSteps
<1>3. ASSUME TaskWritable(On(o), o), Goes(o, "work"),
             child' = [child EXCEPT ![On(o)] = "running"],
             invoked' = [invoked EXCEPT ![On(o)] = @ + 1]
      PROVE  DelegationInv' /\ \A x \in Child : EndsStep(x)
  <2>1. PICK d \in Child : d = On(o)
    BY <1>1 DEF DelegationTypes, CallTyped
  <2>2. SameCall(o) /\ call'[o].pc = "work"
    BY <1>1, <1>3, GoesRow
  <2>3. /\ call[o].pc \in Busy /\ call'[o].pc \in Busy /\ call'[o].pc \in Running
        /\ call'[o].pc \in Holding /\ call'[o].pc # "finish"
    BY <1>1, <2>2 DEF Busy, Running, Holding, Placed
  <2>4. /\ child'[d] = "running" /\ invoked'[d] = invoked[d] + 1 /\ child[d] \notin TaskEnds
        /\ \A x \in Child : x # d => child'[x] = child[x] /\ invoked'[x] = invoked[x]
    BY <1>1, <1>3, <2>1 DEF DelegationTypes, RowTypes, TaskWritable
  <2>5. RowTypes'
    <3>1. invoked[d] \in Nat /\ invoked' = [invoked EXCEPT ![d] = invoked[d] + 1]
      BY <1>1, <1>3, <2>1 DEF DelegationTypes, RowTypes
    <3>2. invoked' \in [Child -> Nat]
      BY <1>1, <3>1 DEF DelegationTypes, RowTypes
    <3> QED BY <1>1, <1>3, <3>2 DEF DelegationTypes, RowTypes, Tasks
  <2>6. /\ lease[d] = o /\ invoked[d] = 0 /\ RunInv(o) /\ Live(o)
        /\ contract[d] \in {"running", "cancellation_requested"}
    BY <1>1, <2>1, ActingIsLive DEF DelegationInv, RunInv, Busy, Running
  <2>7. RunInv(o)'
    BY <1>1, <2>1, <2>2, <2>4, <2>6 DEF RunInv, SameCall, Busy, Running, Placed, On
  <2>8. \A x \in Child : RowKeeps(o, x)
    BY <1>1, <2>4, <2>6 DEF RowKeeps, LeaseKeeps, EndsStep, TaskEnds
  <2>9. \A x \in Child : RowInv(x)'
    <3>1. RowInv(d)'
      BY <1>1, <2>4, <2>6 DEF DelegationInv, RowInv, TaskEnds
    <3>2. \A x \in Child : x # d => RowInv(x)'
      BY <1>1, <2>4 DEF DelegationInv, RowInv
    <3> QED BY <3>1, <3>2
  <2>10. RowsKeep(o)
    BY <1>1, <2>8, SameProcesses DEF RowsKeep
  <2> QED BY <2>2, <2>3, <2>5, <2>7, <2>9, <2>10, RunnerWrites
<1> QED BY <1>2, <1>3 DEF Adopt

LEMMA LoopEndsKeeps ==
    ASSUME DelegationInv, NEW o \in Owner, Acting(o), LoopEnds(o)
    PROVE  DelegationInv' /\ \A d \in Child : EndsStep(d)
<1>1. /\ call[o].pc = "work" /\ DelegationTypes /\ TaskWritable(On(o), o) /\ On(o) \in Looped
      /\ UNCHANGED <<proc, contract, record, lease, exec, room, call, invoked, ended>>
  BY DEF LoopEnds, At, places, history, DelegationInv
<1>2. PICK d \in Child : d = On(o)
  BY <1>1 DEF DelegationTypes, CallTyped
<1>3. PICK end \in TaskEnds : child' = [child EXCEPT ![d] = end]
  BY <1>2 DEF LoopEnds
<1>4. /\ child'[d] \in TaskEnds /\ child[d] \notin TaskEnds
      /\ \A x \in Child : x # d => child'[x] = child[x]
  BY <1>1, <1>2, <1>3 DEF DelegationTypes, RowTypes, TaskWritable
<1>5. invoked[d] = 1 /\ RunInv(o) /\ contract[d] \in {"running", "cancellation_requested"}
  BY <1>1, <1>2, ActingIsLive DEF DelegationInv, RunInv
<1>6. RowTypes'
  BY <1>1, <1>3 DEF DelegationTypes, RowTypes, Tasks
<1>7. SameCall(o)
  BY <1>1 DEF DelegationTypes, CallTyped, SameCall, OnlyItself
<1>8. RunInv(o)'
  BY <1>1, <1>5, <1>7 DEF RunInv, On, Live
<1>9. \A x \in Child : RowKeeps(o, x)
  BY <1>1, <1>4 DEF RowKeeps, LeaseKeeps, EndsStep, TaskEnds
<1>10. \A x \in Child : RowInv(x)'
  <2>1. RowInv(d)'
    BY <1>1, <1>2, <1>4, <1>5 DEF DelegationInv, RowInv
  <2>2. \A x \in Child : x # d => RowInv(x)'
    BY <1>1, <1>4 DEF DelegationInv, RowInv
  <2> QED BY <2>1, <2>2
<1>11. RowsKeep(o)
  BY <1>1, <1>9, SameProcesses DEF RowsKeep
<1>12. call[o].pc \in Busy /\ call[o].pc \in Running /\ call[o].pc \in Holding
  BY <1>1 DEF Busy, Running, Holding, Placed
<1> QED BY <1>1, <1>6, <1>7, <1>8, <1>10, <1>11, <1>12, RunnerWrites

-----------------------------------------------------------------------------
\* The three rows end

LEMMA FinishRows ==
    ASSUME DelegationInv, NEW o \in Owner, NEW as \in Owner, NEW d \in Child, NEW end \in EndNames,
           NEW withTask \in BOOLEAN, MayFinish(as, d, end, withTask), Finished(d, end, withTask),
           UNCHANGED <<proc, exec, room, invoked, ended>>, as = o \/ call[as].pc = "over"
    PROVE  RowTypes' /\ RowsKeep(o) /\ contract'[d] \in Terminal /\ \A x \in Child : RowInv(x)'
<1>0. RowTypes /\ DelegationTypes
  BY DEF DelegationInv, DelegationTypes
<1>1. end \in Terminal /\ TaskEnd(end) \in TaskEnds
  BY DEF EndNames, TaskEnds, Terminal, TaskEnd
<1>2. /\ contract'[d] = end /\ record'[d] = TaskEnd(end) /\ lease'[d] = None
      /\ child'[d] = IF withTask THEN TaskEnd(end) ELSE child[d]
      /\ \A x \in Child : x # d => /\ contract'[x] = contract[x] /\ record'[x] = record[x]
                                   /\ lease'[x] = lease[x] /\ child'[x] = child[x]
  BY <1>0 DEF Finished, RowTypes
<1>3. RowTypes'
  <2>1. /\ contract' \in [Child -> Contracts]
        /\ record' \in [Child -> {"absent", "requested"} \union TaskEnds]
    BY <1>0, <1>1 DEF Finished, RowTypes, Contracts
  <2>2. lease' \in [Child -> Holder]
    BY <1>0 DEF Finished, RowTypes, Holder
  <2>3. child' \in [Child -> Tasks]
    <3>1. (IF withTask THEN TaskEnd(end) ELSE child[d]) \in Tasks
      BY <1>0, <1>1 DEF RowTypes, Tasks
    <3>2. child' = [child EXCEPT ![d] = IF withTask THEN TaskEnd(end) ELSE child[d]]
      BY DEF Finished
    <3> QED BY <1>0, <3>1, <3>2 DEF RowTypes
  <2> QED BY <1>0, <2>1, <2>2, <2>3 DEF RowTypes
<1>4. lease[d] = as /\ contract[d] \in Open /\ record[d] \notin TaskEnds
      /\ (withTask => child[d] = TaskEnd(end) \/ child[d] \notin TaskEnds)
  BY DEF MayFinish, TaskWritable
<1>5. EndsStep(d)
  BY <1>2, <1>4 DEF EndsStep, Open, Terminal, TaskEnds
<1>6. ASSUME NEW x \in Child PROVE RowKeeps(o, x) /\ RowInv(x)'
  <2>1. CASE x = d
    <3>1. contract'[d] \notin {"absent", "created", "scheduled"} /\ contract'[d] \in Terminal
      BY <1>1, <1>2 DEF Terminal
    <3>2. ASSUME NEW q \in Owner, lease[d] = q PROVE LeaseKeeps(o, d, q)
      <4>1. q = o \/ call[q].pc \notin Busy
        BY <1>4, <3>2, PlaceNames
      <4> QED BY <3>1, <4>1 DEF LeaseKeeps
    <3>3. RowKeeps(o, d)
      BY <1>5, <3>1, <3>2 DEF RowKeeps
    <3>4. RowInv(d)'
      BY <3>1 DEF RowInv
    <3> QED BY <2>1, <3>3, <3>4
  <2>2. CASE x # d
    <3>1. /\ contract'[x] = contract[x] /\ record'[x] = record[x] /\ child'[x] = child[x]
          /\ lease'[x] = lease[x] /\ exec'[x] = exec[x] /\ invoked'[x] = invoked[x]
      BY <1>2, <2>2
    <3>2. RowKeeps(o, x)
      BY <3>1 DEF RowKeeps, LeaseKeeps, EndsStep
    <3>3. RowInv(x)'
      BY <3>1 DEF DelegationInv, RowInv
    <3> QED BY <3>2, <3>3
  <2> QED BY <2>1, <2>2
<1>7. RowsKeep(o)
  BY <1>6, SameProcesses DEF RowsKeep
<1> QED BY <1>1, <1>2, <1>3, <1>6, <1>7

\* the run is at its end, or its start has raised
LEMMA RunnerLeaves ==
    ASSUME DelegationInv, NEW o \in Owner, call[o].pc \in Busy, SameCall(o),
           call'[o].pc \in {"leave", "raised"}, call[o].pc \in Entered => call'[o].pc = "leave",
           RowTypes', RowsKeep(o), \A d \in Child : RowInv(d)',
           call'[o].pc = "leave" => SettleInv(o)'
    PROVE  DelegationInv' /\ \A d \in Child : EndsStep(d)
<1>1. call[o].run = None
  BY DEF DelegationInv, CancelInv, Busy, Running
<1>2. RunInv(o)' /\ CancelInv(o)'
  BY <1>1 DEF RunInv, CancelInv, SameCall, Busy, Running, Placed, At
<1>3. SettleInv(o)'
  BY DEF SettleInv, At
<1>4. CallTyped(o)'
  BY PlaceNames, SameTyped DEF DelegationInv, Busy, Running, Labels
<1>5. \A q \in Owner : CallTyped(q)'
  BY <1>4 DEF DelegationInv, DelegationTypes, CallTyped, SameCall, OnlyItself, On
<1>6. DelegationTypes'
  BY <1>5 DEF DelegationTypes, SameCall
<1>7. PathOk(o)
  BY DEF PathOk, SameCall, Busy, Running, Holding, Placed, Entered, At
<1>8. \A d \in Child : EndsStep(d)
  BY DEF RowsKeep, RowKeeps
<1> QED BY <1>2, <1>3, <1>6, <1>7, <1>8, MovesKeep DEF SameCall, Holder

\* Nothing is written: everything is kept.
LEMMA StillRows ==
    ASSUME DelegationInv, NEW o \in Holder,
           UNCHANGED <<proc, contract, record, child, lease, exec, room, invoked, ended>>
    PROVE  RowTypes' /\ RowsKeep(o) /\ \A x \in Child : RowInv(x)'
<1>1. RowTypes'
  BY DEF DelegationInv, DelegationTypes, RowTypes
<1>2. \A x \in Child : RowKeeps(o, x) /\ RowInv(x)'
  BY SameRows
<1> QED BY <1>1, <1>2, SameProcesses DEF RowsKeep

\* EndStale, SubmitRaises: the start raises, recorded or not
LEMMA StartRaises ==
    ASSUME DelegationInv, NEW o \in Owner, Acting(o), EndStale(o) \/ SubmitRaises(o)
    PROVE  DelegationInv' /\ \A d \in Child : EndsStep(d)
<1>1. /\ call[o].pc \in {"stale", "submit"} /\ DelegationTypes /\ Goes(o, "raised")
      /\ UNCHANGED <<proc, exec, room, invoked, ended>>
      /\ \/ MayFinish(o, On(o), "failed", TRUE) /\ Finished(On(o), "failed", TRUE)
         \/ UNCHANGED <<contract, record, child, lease>>
  BY DEF EndStale, SubmitRaises, At, rows, places, history, DelegationInv
<1>2. SameCall(o) /\ call'[o].pc = "raised"
  BY <1>1, GoesRow
<1>3. call[o].pc \in Busy /\ call[o].pc \notin Entered
  BY <1>1 DEF Busy, Entered, Running
<1>4. RowTypes' /\ RowsKeep(o) /\ \A x \in Child : RowInv(x)'
  <2>1. CASE MayFinish(o, On(o), "failed", TRUE) /\ Finished(On(o), "failed", TRUE)
    <3>1. On(o) \in Child /\ "failed" \in EndNames
      BY <1>1 DEF DelegationTypes, CallTyped, EndNames, TaskEnds
    <3> QED BY <1>1, <2>1, <3>1, FinishRows
  <2>2. CASE UNCHANGED <<contract, record, child, lease>>
    BY <1>1, <2>2, StillRows DEF Holder
  <2> QED BY <1>1, <2>1, <2>2
<1> QED BY <1>2, <1>3, <1>4, RunnerLeaves

LEMMA FinishRunKeeps ==
    ASSUME DelegationInv, NEW o \in Owner, Acting(o), FinishRun(o)
    PROVE  DelegationInv' /\ \A d \in Child : EndsStep(d)
<1>1. /\ call[o].pc = "finish" /\ DelegationTypes
      /\ UNCHANGED <<proc, exec, room, invoked, ended>>
  BY DEF FinishRun, At, places, history, DelegationInv
<1>2. PICK d \in Child : d = On(o)
  BY <1>1 DEF DelegationTypes, CallTyped
<1>3. ASSUME Goes(o, "fail"), UNCHANGED rows
      PROVE  DelegationInv' /\ \A x \in Child : EndsStep(x)
  <2>1. SameCall(o) /\ call'[o].pc = "fail"
    BY <1>1, <1>3, GoesRow
  <2> QED BY <1>1, <1>3, <2>1, PlainSteps DEF rows
<1>4. ASSUME MayFinish(o, d, call[o].end, TRUE), Finished(d, call[o].end, TRUE), Goes(o, "leave")
      PROVE  DelegationInv' /\ \A x \in Child : EndsStep(x)
  <2>1. SameCall(o) /\ call'[o].pc = "leave"
    BY <1>1, <1>4, GoesRow
  <2>2. call[o].end \in EndNames /\ call[o].pc \in Busy
    BY <1>1 DEF DelegationTypes, CallTyped, Busy, Running
  <2>3. RowTypes' /\ RowsKeep(o) /\ contract'[d] \in Terminal /\ \A x \in Child : RowInv(x)'
    BY <1>1, <1>4, <2>2, FinishRows
  <2>4. SettleInv(o)'
    BY <1>2, <2>1, <2>3 DEF SettleInv, Settled, SameCall, At, On
  <2> QED BY <2>1, <2>2, <2>3, <2>4, RunnerLeaves
<1> QED BY <1>2, <1>3, <1>4 DEF FinishRun

\* A run whose end is refused: what it found was ended before.
LEMMA RefusedIsSettled ==
    ASSUME DelegationInv, NEW o \in Owner, OwnerAlive(proc, o), NEW d \in Child, lease[d] = o,
           NEW end \in EndNames, NEW withTask \in BOOLEAN, ~MayFinish(o, d, end, withTask),
           invoked[d] = 0 \/ TaskEnd(end) = "failed"
    PROVE  Settled(d)
<1>1. contract[d] \in Open \/ contract[d] \in Terminal
  BY NoneIsNoOwner DEF DelegationInv, DelegationTypes, RowTypes, Contracts, RowInv
<1>2. RowInv(d) /\ HolderInv(d) /\ child[d] \in Tasks /\ exec[d] \in Holder /\ invoked[d] \in Nat
  BY DEF DelegationInv, DelegationTypes, RowTypes
<1>3. CASE record[d] \in TaskEnds
  BY <1>2, <1>3 DEF RowInv, Settled
<1>4. CASE withTask /\ child[d] # TaskEnd(end) /\ child[d] \in TaskEnds
  BY <1>2, <1>4 DEF RowInv, Settled, TaskEnds
<1>5. CASE Active(proc, exec[d]) /\ ~HeldBy(proc, exec[d], o)
  <2>1. exec[d] \in Owner /\ Live(exec[d]) /\ exec[d] # o
    BY <1>2, <1>5 DEF Active, HeldBy, Holder, Live
  <2> QED BY <1>2, <2>1 DEF HolderInv, Settled
<1> QED BY <1>1, <1>3, <1>4, <1>5 DEF MayFinish, TaskWritable, Settled

LEMMA FailKeeps ==
    ASSUME DelegationInv, NEW o \in Owner, Acting(o), Fail(o)
    PROVE  DelegationInv' /\ \A d \in Child : EndsStep(d)
<1>1. /\ call[o].pc = "fail" /\ DelegationTypes /\ Goes(o, "leave")
      /\ UNCHANGED <<proc, exec, room, invoked, ended>>
  BY DEF Fail, At, places, history, DelegationInv
<1>2. PICK d \in Child : d = On(o)
  BY <1>1 DEF DelegationTypes, CallTyped
<1>3. PICK end \in {"timed_out", "failed"}, withTask \in BOOLEAN :
        \/ MayFinish(o, d, end, withTask) /\ Finished(d, end, withTask)
        \/ FinishRefused(o, d, end, withTask) /\ UNCHANGED <<contract, record, child, lease>>
  <2>1. (IF call[o].timedOut THEN "timed_out" ELSE "failed") \in {"timed_out", "failed"}
        /\ (~call[o].conflict) \in BOOLEAN
    OBVIOUS
  <2> QED BY <1>2, <2>1 DEF Fail, rows
<1>4. SameCall(o) /\ call'[o].pc = "leave" /\ call[o].pc \in Busy
  BY <1>1, GoesRow DEF Busy, Running
<1>5. end \in EndNames /\ TaskEnd(end) = "failed"
  BY DEF EndNames, TaskEnds, TaskEnd
<1>6. CASE MayFinish(o, d, end, withTask) /\ Finished(d, end, withTask)
  <2>1. RowTypes' /\ RowsKeep(o) /\ contract'[d] \in Terminal /\ \A x \in Child : RowInv(x)'
    BY <1>1, <1>5, <1>6, FinishRows
  <2>2. SettleInv(o)'
    BY <1>2, <1>4, <2>1 DEF SettleInv, Settled, SameCall, At, On
  <2> QED BY <1>4, <2>1, <2>2, RunnerLeaves
<1>7. CASE FinishRefused(o, d, end, withTask) /\ UNCHANGED <<contract, record, child, lease>>
  <2>1. RowTypes' /\ RowsKeep(o) /\ \A x \in Child : RowInv(x)'
    BY <1>1, <1>7, StillRows DEF Holder
  <2>2. SettleInv(o)'
    <3>1. SUFFICES ASSUME OwnerAlive(proc, o)', ~MayLapse PROVE SettleInv(o)'
      BY DEF SettleInv
    <3>2. OwnerAlive(proc, o) /\ lease[d] = o
      BY <1>1, <1>2, <1>4, <3>1, SameProcesses, ActingIsLive DEF DelegationInv, RunInv
    <3>3. Settled(d)
      BY <1>5, <1>7, <3>1, <3>2, RefusedIsSettled DEF FinishRefused
    <3>4. Settled(d)'
      BY <2>1, <3>3, SettledStays DEF Holder
    <3> QED BY <1>2, <1>4, <3>4 DEF SettleInv, SameCall, At, On
  <2> QED BY <1>4, <2>1, <2>2, RunnerLeaves
<1> QED BY <1>3, <1>6, <1>7

LEMMA LeaveKeeps ==
    ASSUME DelegationInv, NEW o \in Owner, Acting(o), Leave(o)
    PROVE  DelegationInv' /\ \A d \in Child : EndsStep(d)
<1>1. /\ call[o].pc = "leave" /\ DelegationTypes /\ RowTypes
      /\ UNCHANGED <<proc, contract, record, child, lease, invoked, ended>>
  BY DEF Leave, At, rows, history, DelegationInv, DelegationTypes
<1>2. PICK d \in Child : d = On(o)
  BY <1>1 DEF DelegationTypes, CallTyped
<1>3. /\ exec' = [exec EXCEPT ![d] = IF exec[d] = o THEN None ELSE exec[d]]
      /\ room' = IF room = o THEN None ELSE room
      /\ call' = [call EXCEPT ![o] = [Unused EXCEPT !.pc = "over", !.on = d]]
  BY <1>1, <1>2 DEF Leave, RowTypes
<1>4. /\ call'[o] = [pc |-> "over", on |-> d, run |-> None, event |-> FALSE, timedOut |-> FALSE,
                     conflict |-> FALSE, end |-> "none"]
      /\ DOMAIN call' = Owner /\ OnlyItself(o)
  BY <1>1, <1>3 DEF DelegationTypes, Unused, OnlyItself
<1>5. call'[o].pc = "over" /\ call'[o].on = d /\ call'[o].run = None /\ CallTyped(o)'
  BY <1>4, CallFields DEF CallTyped, Labels, Holder, On
<1>6. DelegationTypes'
  <2>1. \A q \in Owner : CallTyped(q)'
    BY <1>1, <1>4, <1>5 DEF DelegationTypes, CallTyped, OnlyItself, On
  <2>2. exec' \in [Child -> Holder]
    BY <1>1, <1>3 DEF RowTypes, Holder
  <2> QED BY <1>1, <1>3, <1>4, <2>1, <2>2 DEF DelegationTypes, RowTypes, Holder
<1>7. RunInv(o)' /\ CancelInv(o)'
  BY <1>5 DEF RunInv, CancelInv, At, Busy, Running, Placed
<1>8. \A x \in Child : RowKeeps(o, x) /\ RowInv(x)'
  <2>1. ASSUME NEW x \in Child
        PROVE  /\ exec'[x] \in {exec[x], None}
               /\ \A q \in Owner : q # o /\ exec[x] = q /\ Live(q) => exec'[x] = q
    BY <1>1, <1>3 DEF RowTypes
  <2> QED BY <1>1, <2>1, SameRows DEF Holder
<1>9. RowsKeep(o)
  BY <1>1, <1>3, <1>8, SameProcesses DEF RowsKeep
<1>10. SettleInv(o)'
  <2>1. SUFFICES ASSUME OwnerAlive(proc, o)', ~MayLapse PROVE SettleInv(o)'
    BY DEF SettleInv
  <2>2. Settled(d)
    BY <1>1, <1>2, <2>1, SameProcesses DEF DelegationInv, SettleInv, At
  <2>3. Settled(d)'
    BY <1>9, <2>2, SettledStays DEF Holder
  <2> QED BY <1>5, <2>3 DEF SettleInv, At, On
<1>11. PathOk(o)
  <2>1. exec'[d] # o
    BY <1>1, <1>3, NoneIsNoOwner DEF RowTypes
  <2> QED BY <1>1, <1>2, <1>5, <2>1 DEF PathOk, At, On, Entered
<1>12. \A x \in Child : EndsStep(x)
  BY <1>8 DEF RowKeeps
<1> QED BY <1>4, <1>6, <1>7, <1>8, <1>9, <1>10, <1>11, <1>12, MovesKeep DEF Holder

-----------------------------------------------------------------------------
\* start

LEMMA StartKeeps ==
    ASSUME DelegationInv, NEW o \in Owner, Acting(o), NEW d \in Child, Start(o, d)
    PROVE  DelegationInv' /\ \A x \in Child : EndsStep(x)
<1>1. /\ call[o].pc = "unused" /\ DelegationTypes /\ RowTypes /\ Live(o)
      /\ contract[d] \in {"created", "scheduled", "running"} /\ Claimable(proc, lease[d], o)
      /\ lease' = [lease EXCEPT ![d] = o]
      /\ UNCHANGED <<proc, record, child, exec, room, invoked, ended>>
  BY ActingIsLive DEF Start, At, places, history, DelegationInv, DelegationTypes
<1>2. PICK l \in {"stale", "submit"} : l = StartsAt(d) /\ (l = "stale" <=> contract[d] = "running")
  BY DEF StartsAt
<1>3. contract' = [contract EXCEPT ![d] = IF l = "submit" THEN "scheduled" ELSE contract[d]]
      /\ call' = [call EXCEPT ![o] = [call[o] EXCEPT !.pc = l, !.on = d]]
  BY <1>1, <1>2 DEF Start, RowTypes, DelegationTypes
<1>4. /\ lease'[d] = o /\ contract'[d] = IF l = "submit" THEN "scheduled" ELSE contract[d]
      /\ \A x \in Child : x # d => lease'[x] = lease[x] /\ contract'[x] = contract[x]
  BY <1>1, <1>3 DEF RowTypes
<1>5. CallTyped(o)
  BY <1>1 DEF DelegationTypes
<1>6. /\ call'[o] = [pc |-> l, on |-> d, run |-> call[o].run, event |-> call[o].event,
                     timedOut |-> call[o].timedOut, conflict |-> call[o].conflict, end |-> call[o].end]
      /\ DOMAIN call' = Owner /\ OnlyItself(o)
  BY <1>1, <1>3, <1>5 DEF DelegationTypes, CallTyped, OnlyItself
<1>7. call[o].run = None
  BY <1>1 DEF DelegationInv, CancelInv
<1>8. call'[o].pc = l /\ call'[o].on = d /\ call'[o].run = None /\ CallTyped(o)'
  BY <1>5, <1>6, <1>7, CallFields DEF CallTyped, Labels, Holder, On
<1>9. DelegationTypes'
  <2>1. \A q \in Owner : CallTyped(q)'
    BY <1>1, <1>6, <1>8 DEF DelegationTypes, CallTyped, OnlyItself, On
  <2>2. contract' \in [Child -> Contracts] /\ lease' \in [Child -> Holder]
    BY <1>1, <1>3 DEF RowTypes, Contracts, Open, Holder
  <2> QED BY <1>1, <1>6, <2>1, <2>2 DEF DelegationTypes, RowTypes
<1>10. RunInv(o)'
  <2>1. l = "submit" => invoked[d] = 0
    BY <1>1, <1>2 DEF DelegationInv, RowInv
  <2> QED BY <1>1, <1>4, <1>8, <2>1 DEF RunInv, Busy, Running, Placed, On
<1>11. CancelInv(o)' /\ SettleInv(o)'
  BY <1>8 DEF CancelInv, SettleInv, At
<1>12. PathOk(o)
  BY <1>1 DEF PathOk, Entered, Holding, Placed, Running, At
<1>13. \A q \in Owner : lease[d] = q /\ Live(q) => q = o
  BY <1>1, OnlyOwnLeases
<1>14. ASSUME NEW x \in Child PROVE RowKeeps(o, x) /\ RowInv(x)'
  <2>1. CASE x = d
    <3>1. EndsStep(d) /\ contract'[d] \notin {"absent", "created"}
      BY <1>1, <1>2, <1>4 DEF EndsStep, Terminal
    <3>2. \A q \in Owner : lease[d] = q /\ Live(q) => LeaseKeeps(o, d, q)
      BY <1>4, <1>13 DEF LeaseKeeps
    <3>3. RowKeeps(o, d)
      BY <1>1, <3>1, <3>2 DEF RowKeeps
    <3>4. RowInv(d)'
      BY <1>1, <1>2, <1>4 DEF DelegationInv, RowInv, Terminal
    <3> QED BY <2>1, <3>3, <3>4
  <2>2. CASE x # d
    <3>1. RowKeeps(o, x)
      BY <1>1, <1>4, <2>2 DEF RowKeeps, LeaseKeeps, EndsStep
    <3>2. RowInv(x)'
      BY <1>1, <1>4, <2>2 DEF DelegationInv, RowInv
    <3> QED BY <3>1, <3>2
  <2> QED BY <2>1, <2>2
<1>15. RowsKeep(o)
  BY <1>1, <1>14, SameProcesses DEF RowsKeep
<1>16. \A x \in Child : EndsStep(x)
  BY <1>14 DEF RowKeeps
<1> QED BY <1>6, <1>9, <1>10, <1>11, <1>12, <1>14, <1>15, <1>16, MovesKeep DEF Holder

-----------------------------------------------------------------------------
\* cancel

\* a call that cancels relies on nothing that a run does
LEMMA CancellerOwn ==
    ASSUME NEW o \in Owner, call'[o].pc \in {"looked", "signal", "reclaim", "settle", "done"}
    PROVE  RunInv(o)' /\ SettleInv(o)'
  BY DEF RunInv, SettleInv, Busy, Running, Placed, At

LEMMA CancelLooksKeeps ==
    ASSUME DelegationInv, NEW o \in Owner, NEW d \in Child, CancelLooks(o, d)
    PROVE  DelegationInv' /\ \A x \in Child : EndsStep(x)
<1>1. /\ call[o].pc = "unused" /\ DelegationTypes /\ CallTyped(o)
      /\ UNCHANGED <<proc, contract, record, child, lease, exec, room, invoked, ended>>
  BY DEF CancelLooks, At, rows, places, history, DelegationInv, DelegationTypes
<1>2. PICK run \in IF RunsOf(o, d) = {} THEN {None} ELSE RunsOf(o, d) :
        call' = [call EXCEPT ![o] = [call[o] EXCEPT !.pc = "looked", !.on = d, !.run = run]]
  BY <1>1 DEF CancelLooks, DelegationTypes
<1>3. run # None => /\ run \in Owner /\ ProcessOf[run] = ProcessOf[o] /\ call[run].on = d
                    /\ call[run].pc \in Entered /\ run # o
  BY <1>1 DEF RunsOf, On, Entered, Running
<1>4. /\ call'[o] = [pc |-> "looked", on |-> d, run |-> run, event |-> call[o].event,
                     timedOut |-> call[o].timedOut, conflict |-> call[o].conflict, end |-> call[o].end]
      /\ DOMAIN call' = Owner /\ OnlyItself(o)
  BY <1>1, <1>2 DEF DelegationTypes, CallTyped, OnlyItself
<1>5. call'[o].pc = "looked" /\ call'[o].on = d /\ call'[o].run = run /\ CallTyped(o)'
  BY <1>1, <1>3, <1>4, CallFields DEF CallTyped, Labels, Holder, On
<1>6. CancelInv(o)'
  BY <1>3, <1>4, <1>5 DEF CancelInv, OnlyItself, At, On
<1>7. PathOk(o)
  BY <1>1 DEF PathOk, Entered, Holding, Placed, Running, At
<1> QED BY <1>1, <1>4, <1>5, <1>6, <1>7, CancellerOwn, CallMoves

LEMMA CancelMarksKeeps ==
    ASSUME DelegationInv, NEW o \in Owner, CancelMarks(o)
    PROVE  DelegationInv' /\ \A x \in Child : EndsStep(x)
<1>1. /\ call[o].pc = "looked" /\ DelegationTypes /\ RowTypes /\ CallTyped(o) /\ CancelInv(o)
      /\ UNCHANGED <<proc, record, child, lease, exec, room, invoked, ended>>
  BY DEF CancelMarks, At, places, history, DelegationInv, DelegationTypes
<1>2. PICK d \in Child : d = On(o)
  BY <1>1 DEF CallTyped
<1>3. PICK l \in {"signal", "done", "reclaim"} :
        /\ Goes(o, l)
        /\ l = "reclaim" => /\ call[o].run = None
                            /\ contract[d] \in {"created", "scheduled", "running", "cancellation_requested"}
        /\ l = "signal" => call[o].run # None
  <2> DEFINE marks == contract[On(o)] \in {"created", "scheduled", "running"}
             was == contract[On(o)] = "cancellation_requested"
             l == IF call[o].run # None THEN (IF marks THEN "signal" ELSE "done")
                  ELSE IF marks \/ was THEN "reclaim" ELSE "done"
  <2>1. Goes(o, l)
    BY DEF CancelMarks
  <2>2. l \in {"signal", "done", "reclaim"} /\ (l = "signal" => call[o].run # None)
        /\ (l = "reclaim" => call[o].run = None
              /\ contract[d] \in {"created", "scheduled", "running", "cancellation_requested"})
    BY <1>2
  <2> QED BY <2>1, <2>2
<1>4. /\ contract'[d] = IF contract[d] \in {"created", "scheduled", "running"}
                        THEN "cancellation_requested" ELSE contract[d]
      /\ \A x \in Child : x # d => contract'[x] = contract[x]
      /\ contract' \in [Child -> Contracts]
  BY <1>1, <1>2 DEF CancelMarks, RowTypes, Contracts, Open
<1>5. SameCall(o) /\ call'[o].pc = l
  BY <1>1, <1>3, GoesRow
<1>6. CallTyped(o)'
  BY <1>1, <1>5, SameTyped DEF Labels
<1>7. DelegationTypes'
  <2>1. \A q \in Owner : CallTyped(q)'
    BY <1>1, <1>5, <1>6 DEF DelegationTypes, SameCall, CallTyped, OnlyItself, On
  <2> QED BY <1>1, <1>4, <1>5, <2>1 DEF DelegationTypes, RowTypes, SameCall
<1>8. CancelInv(o)'
  <2>1. PICK r : r = call[o].run
    OBVIOUS
  <2>2. r # None => r # o /\ call'[r] = call[r]
    BY <1>1, <1>5, <2>1 DEF CancelInv, SameCall, OnlyItself, CallTyped, Holder, Entered, Running
  <2>3. l = "reclaim" => contract'[d] \notin {"absent", "created"}
    BY <1>3, <1>4
  <2> QED BY <1>1, <1>2, <1>3, <1>5, <2>1, <2>2, <2>3 DEF CancelInv, SameCall, At, On
<1>9. PathOk(o)
  BY <1>1 DEF PathOk, Entered, Holding, Placed, Running, At
<1>10. \A x \in Child : RowKeeps(o, x)
  BY <1>1, <1>4 DEF RowKeeps, LeaseKeeps, EndsStep, Terminal
<1>11. \A x \in Child : RowInv(x)'
  BY <1>1, <1>4 DEF DelegationInv, RowInv, Terminal
<1>12. RowsKeep(o) /\ \A x \in Child : EndsStep(x)
  BY <1>1, <1>10, SameProcesses DEF RowsKeep, RowKeeps
<1> QED BY <1>3, <1>5, <1>7, <1>8, <1>9, <1>11, <1>12, CancellerOwn, MovesKeep DEF SameCall, Holder

LEMMA CancelReclaimsKeeps ==
    ASSUME DelegationInv, NEW o \in Owner, Acting(o), CancelReclaims(o)
    PROVE  DelegationInv' /\ \A x \in Child : EndsStep(x)
<1>1. /\ call[o].pc = "reclaim" /\ DelegationTypes /\ RowTypes /\ CallTyped(o) /\ CancelInv(o)
      /\ UNCHANGED <<proc, contract, record, child, exec, room, invoked, ended>>
  BY DEF CancelReclaims, At, places, history, DelegationInv, DelegationTypes
<1>2. PICK d \in Child : d = On(o)
  BY <1>1 DEF CallTyped
<1>3. call[o].run = None /\ contract[d] \notin {"absent", "created"}
  BY <1>1, <1>2 DEF CancelInv, At
<1>4. PICK l \in {"settle", "done"} :
        /\ Goes(o, l)
        /\ \/ Claimable(proc, lease[d], o) /\ lease' = [lease EXCEPT ![d] = o]
           \/ lease' = lease
  BY <1>2 DEF CancelReclaims
<1>5. SameCall(o) /\ call'[o].pc = l
  BY <1>1, <1>4, GoesRow
<1>6. CallTyped(o)'
  BY <1>1, <1>5, SameTyped DEF Labels
<1>7. DelegationTypes'
  <2>1. \A q \in Owner : CallTyped(q)'
    BY <1>1, <1>5, <1>6 DEF DelegationTypes, SameCall, CallTyped, OnlyItself, On
  <2>2. lease' \in [Child -> Holder]
    BY <1>1, <1>4 DEF RowTypes, Holder
  <2> QED BY <1>1, <1>5, <2>1, <2>2 DEF DelegationTypes, RowTypes, SameCall
<1>8. CancelInv(o)'
  BY <1>3, <1>5 DEF CancelInv, SameCall, At
<1>9. PathOk(o)
  BY <1>1 DEF PathOk, Entered, Holding, Placed, Running, At
<1>10. ASSUME NEW x \in Child, NEW q \in Owner, lease[x] = q, Live(q) PROVE LeaseKeeps(o, x, q)
  <2>1. lease'[x] = q
    BY <1>1, <1>4, <1>10, OnlyOwnLeases DEF RowTypes
  <2> QED BY <1>1, <2>1 DEF LeaseKeeps
<1>11. \A x \in Child : RowKeeps(o, x)
  BY <1>1, <1>10 DEF RowKeeps, EndsStep
<1>12. \A x \in Child : RowInv(x)'
  BY <1>1, <1>3, <1>4 DEF DelegationInv, RowInv, RowTypes
<1>13. RowsKeep(o) /\ \A x \in Child : EndsStep(x)
  BY <1>1, <1>11, SameProcesses DEF RowsKeep, RowKeeps
<1> QED BY <1>4, <1>5, <1>7, <1>8, <1>9, <1>12, <1>13, CancellerOwn, MovesKeep DEF SameCall, Holder

LEMMA CancelSettlesKeeps ==
    ASSUME DelegationInv, NEW o \in Owner, CancelSettles(o)
    PROVE  DelegationInv' /\ \A x \in Child : EndsStep(x)
<1>1. /\ call[o].pc = "settle" /\ DelegationTypes /\ RowTypes /\ CallTyped(o) /\ CancelInv(o)
      /\ UNCHANGED <<proc, exec, room, invoked, ended>> /\ Goes(o, "done")
  BY DEF CancelSettles, At, places, history, DelegationInv, DelegationTypes
<1>2. PICK d \in Child : d = On(o)
  BY <1>1 DEF CallTyped
<1>3. PICK r \in Holder : r = call[o].run
  BY <1>1 DEF CallTyped
<1>4. r # None => /\ r \in Owner /\ call[r].pc = "over" /\ r # o
                  /\ Live(r) => contract[d] \in Terminal \/ (lease[d] = r /\ invoked[d] = 0)
  BY <1>1, <1>2, <1>3 DEF CancelInv, Holder, At, On
<1>5. PICK as \in Owner : as = IF r = None THEN o ELSE r
  BY <1>4
<1>6. \/ MayFinish(as, d, "cancelled", TRUE) /\ Finished(d, "cancelled", TRUE)
      \/ FinishRefused(as, d, "cancelled", TRUE) /\ UNCHANGED <<contract, record, child, lease>>
  BY <1>2, <1>3, <1>5 DEF CancelSettles, rows
<1>7. SameCall(o) /\ call'[o].pc = "done"
  BY <1>1, GoesRow
<1>8. "cancelled" \in EndNames /\ TaskEnd("cancelled") = "cancelled"
  BY DEF EndNames, TaskEnds, TaskEnd
<1>9. /\ RowTypes' /\ RowsKeep(o) /\ \A x \in Child : RowInv(x)'
      /\ OwnerAlive(proc, r) /\ r # None /\ ~MayLapse => Settled(d)'
  <2>1. CASE MayFinish(as, d, "cancelled", TRUE) /\ Finished(d, "cancelled", TRUE)
    <3>1. RowTypes' /\ RowsKeep(o) /\ contract'[d] \in Terminal /\ \A x \in Child : RowInv(x)'
      BY <1>1, <1>4, <1>5, <1>8, <2>1, FinishRows
    <3> QED BY <3>1 DEF Settled
  <2>2. CASE FinishRefused(as, d, "cancelled", TRUE) /\ UNCHANGED <<contract, record, child, lease>>
    <3>1. RowTypes' /\ RowsKeep(o) /\ \A x \in Child : RowInv(x)'
      BY <1>1, <2>2, StillRows DEF Holder
    <3>2. ASSUME OwnerAlive(proc, r), r # None, ~MayLapse PROVE Settled(d)
      <4>1. CASE contract[d] \in Terminal
        BY <4>1 DEF Settled
      <4>2. CASE lease[d] = r /\ invoked[d] = 0
        BY <1>4, <1>5, <1>8, <2>2, <3>2, <4>2, RefusedIsSettled DEF FinishRefused
      <4>3. Live(r)
        BY <3>2 DEF OwnerAlive, Live, OwnerGone
      <4> QED BY <1>4, <3>2, <4>1, <4>2, <4>3
    <3> QED BY <3>1, <3>2, SettledStays DEF Holder
  <2> QED BY <1>6, <2>1, <2>2
<1>10. CallTyped(o)'
  BY <1>1, <1>7, SameTyped DEF Labels
<1>11. DelegationTypes'
  <2>1. \A q \in Owner : CallTyped(q)'
    BY <1>1, <1>7, <1>10 DEF DelegationTypes, SameCall, CallTyped, OnlyItself, On
  <2> QED BY <1>7, <1>9, <2>1 DEF DelegationTypes, SameCall
<1>12. CancelInv(o)'
  <2>1. r # None => call'[r] = call[r]
    BY <1>4, <1>7 DEF SameCall, OnlyItself
  <2> QED BY <1>1, <1>3, <1>7, <2>1 DEF CancelInv, SameCall, At, On
<1>13. PathOk(o)
  BY <1>1, <1>2, <1>3, <1>9 DEF PathOk, Entered, Holding, Placed, Running, At
<1>14. \A x \in Child : EndsStep(x)
  BY <1>9 DEF RowsKeep, RowKeeps
<1> QED BY <1>7, <1>9, <1>11, <1>12, <1>13, <1>14, CancellerOwn, MovesKeep DEF SameCall, Holder

\* Two calls move at once: the run is signalled, or leaves _RUNS before it began.
LEMMA CancelSignalsKeeps ==
    ASSUME DelegationInv, NEW o \in Owner, CancelSignals(o)
    PROVE  DelegationInv' /\ \A x \in Child : EndsStep(x)
<1>1. /\ call[o].pc = "signal" /\ DelegationTypes /\ CallTyped(o) /\ CancelInv(o)
      /\ UNCHANGED <<proc, contract, record, child, lease, exec, room, invoked, ended>>
  BY DEF CancelSignals, At, rows, places, history, DelegationInv, DelegationTypes
<1>2. PICK r, d : r = call[o].run /\ d = call[o].on
  OBVIOUS
<1>3. /\ r \in Owner /\ call[r].on = d /\ ProcessOf[r] = ProcessOf[o] /\ call[r].pc \in Entered
      /\ d \in Child /\ r # o /\ CallTyped(r)
  BY <1>1, <1>2 DEF CancelInv, CallTyped, DelegationTypes, Holder, At, On, Entered, Running
<1>4. PICK lr, lo : /\ lr = IF call[r].pc = "queued" THEN "over" ELSE call[r].pc
                    /\ lo = IF call[r].pc = "queued" THEN "settle" ELSE "done"
                    /\ call' = [call EXCEPT ![r].event = TRUE, ![r].pc = lr, ![o].pc = lo]
  BY <1>1, <1>2, <1>3 DEF CancelSignals, At, DelegationTypes, CallTyped
<1>5. /\ call'[r] = [pc |-> lr, on |-> d, run |-> call[r].run, event |-> TRUE,
                     timedOut |-> call[r].timedOut, conflict |-> call[r].conflict, end |-> call[r].end]
      /\ call'[o] = [pc |-> lo, on |-> d, run |-> r, event |-> call[o].event,
                     timedOut |-> call[o].timedOut, conflict |-> call[o].conflict, end |-> call[o].end]
      /\ DOMAIN call' = Owner /\ \A q \in Owner : q \notin {o, r} => call'[q] = call[q]
  BY <1>1, <1>2, <1>3, <1>4 DEF DelegationTypes, CallTyped
<1>6. /\ call'[r].pc = lr /\ call'[r].on = d /\ call'[r].run = call[r].run /\ CallTyped(r)'
      /\ call'[o].pc = lo /\ call'[o].on = d /\ call'[o].run = r /\ CallTyped(o)'
  BY ZenonT(60), <1>1, <1>2, <1>3, <1>4, <1>5, CallFields DEF CallTyped, Labels, Holder, On
<1>7. /\ lr \in Entered /\ lr \in {call[r].pc, "over"} /\ (lr = "over" => call[r].pc \in {"queued", "over"})
      /\ lo \in {"settle", "done"} /\ (lo = "settle" <=> call[r].pc = "queued")
      /\ (lo = "settle" => lr = "over") /\ call[r].run = None
  BY <1>3, <1>4 DEF Entered, Running, DelegationInv, CancelInv
<1>8. DelegationTypes'
  <2>1. \A q \in Owner : CallTyped(q)'
    BY ZenonT(60), <1>1, <1>5, <1>6 DEF DelegationTypes, CallTyped, On
  <2> QED BY <1>1, <1>5, <2>1 DEF DelegationTypes, RowTypes
<1>9. ASSUME NEW q \in Owner PROVE RunInv(q)'
  <2>1. CASE q = o
    BY <1>6, <1>7, <2>1, CancellerOwn
  <2>2. CASE q = r
    BY <1>1, <1>3, <1>6, <1>7, <2>2
    DEF DelegationInv, RunInv, Live, On, Busy, Running, Placed
  <2>3. CASE q \notin {o, r}
    BY <1>1, <1>5, <2>3 DEF DelegationInv, RunInv, Live, On
  <2> QED BY <2>1, <2>2, <2>3
<1>10. ASSUME NEW q \in Owner PROVE CancelInv(q)'
  <2>1. CASE q = o
    <3>1. call[r].pc = "queued" /\ Live(r) => lease[d] = r /\ invoked[d] = 0
      BY <1>3 DEF DelegationInv, RunInv, Busy, On
    <3> QED BY <1>1, <1>3, <1>6, <1>7, <2>1, <3>1 DEF CancelInv, Live, At, On
  <2>2. CASE q = r
    BY <1>3, <1>6, <1>7, <2>2 DEF CancelInv, At, Entered, Running
  <2>3. CASE q \notin {o, r}
    <3>1. PICK s : s = call[q].run
      OBVIOUS
    <3>2. call'[q] = call[q] /\ CancelInv(q) /\ s \in Holder
      BY <1>1, <1>5, <2>3, <3>1 DEF DelegationInv, DelegationTypes, CallTyped
    <3>3. s # None => s # o
      BY <1>1, <3>1, <3>2 DEF CancelInv, Entered, Running
    <3>4. s # None => /\ call'[s].on = call[s].on /\ call'[s].pc \in Entered
                      /\ (call[s].pc = "over" => call'[s].pc = "over")
      BY SMTT(60), <1>3, <1>4, <1>5, <1>6, <1>7, <3>1, <3>2, <3>3 DEF CancelInv, Holder
    <3> QED BY <1>1, <3>1, <3>2, <3>4 DEF CancelInv, Live, At, On
  <2> QED BY <2>1, <2>2, <2>3
<1>11. ASSUME NEW q \in Owner PROVE SettleInv(q)'
  <2>1. CASE q = o
    BY <1>6, <1>7, <2>1, CancellerOwn
  <2>2. CASE call[q].pc \in {"leave", "over"} /\ q # o
    <3>1. call'[q].pc = call[q].pc /\ call'[q].on = call[q].on
      BY <1>3, <1>4, <1>5, <1>6, <2>2
    <3>2. SettledFor(q) => SettledFor(q)'
      <4>1. ASSUME NEW c \in Owner, call[c].pc = "settle", call[c].run = q
            PROVE  call'[c].pc = "settle" /\ call'[c].run = q
        BY <1>1, <1>3, <1>5, <4>1, PlaceNames
      <4> QED BY <4>1 DEF SettledFor, At
    <3>3. SettleInv(q)
      BY DEF DelegationInv
    <3> QED BY <1>1, <2>2, <3>1, <3>2, <3>3 DEF SettleInv, Settled, OwnerAlive, At, On
  <2>3. CASE q = r /\ call[q].pc = "queued"
    BY <1>6, <1>7, <2>3 DEF SettleInv, SettledFor, At
  <2>4. CASE q # o /\ call[q].pc \notin {"leave", "over", "queued"}
    <3>1. call'[q].pc = call[q].pc
      BY <1>3, <1>4, <1>5, <1>6, <2>4
    <3> QED BY <2>4, <3>1 DEF SettleInv, At
  <2>5. CASE q \notin {o, r} /\ call[q].pc = "queued"
    BY <1>5, <2>5 DEF SettleInv, At
  <2> QED BY <2>1, <2>2, <2>3, <2>4, <2>5
<1>12. ASSUME NEW x \in Child PROVE HolderInv(x)' /\ RowInv(x)'
  <2>1. RowInv(x)'
    BY <1>1 DEF DelegationInv, RowInv
  <2>2. ASSUME exec[x] \in Owner, Live(exec[x])'
        PROVE  /\ call'[exec[x]].on = x /\ call'[exec[x]].pc \in Holding
               /\ lease[x] = exec[x] \/ contract[x] \in Terminal
    <3>1. PICK h \in Owner : h = exec[x]
      BY <2>2
    <3>2. /\ call[h].on = x /\ call[h].pc \in Holding
          /\ lease[x] = h \/ contract[x] \in Terminal
      BY <1>1, <2>2, <3>1 DEF DelegationInv, HolderInv, Live, On
    <3>3. h # o /\ call[h].pc # "queued"
      BY <1>1, <3>2 DEF Holding, Placed
    <3>4. call'[h].on = x /\ call'[h].pc \in Holding
      BY <1>3, <1>4, <1>5, <1>6, <3>2, <3>3
    <3> QED BY <3>1, <3>2, <3>4
  <2> QED BY <1>1, <2>1, <2>2 DEF HolderInv, On
<1>13. \A x \in Child : EndsStep(x)
  BY <1>1 DEF EndsStep
<1> QED BY <1>8, <1>9, <1>10, <1>11, <1>12, <1>13 DEF DelegationInv

-----------------------------------------------------------------------------
\* What is done to a child from outside, and the end of a process

LEMMA OutsideMoves ==
    ASSUME DelegationInv, UNCHANGED <<proc, call, lease, exec, room, invoked>>, RowTypes',
           ended \subseteq ended',
           \A d \in Child :
             /\ EndsStep(d) /\ RowInv(d)'
             /\ contract[d] \notin {"absent", "created"} => contract'[d] \notin {"absent", "created"}
             /\ contract[d] \in {"running", "cancellation_requested"} => contract'[d] = contract[d]
    PROVE  DelegationInv' /\ \A d \in Child : EndsStep(d)
<1>1. DelegationTypes'
  BY DEF DelegationInv, DelegationTypes, CallTyped, On
<1>2. \A d \in Child : RowKeeps(None, d)
  BY DEF RowKeeps, LeaseKeeps
<1>3. RowsKeep(None) /\ OnlyItself(None) /\ None \in Holder
  BY <1>2, SameProcesses DEF RowsKeep, OnlyItself, Holder
<1> QED BY <1>1, <1>3, NoneIsNoOwner, MovesKeep

LEMMA CreateKeeps ==
    ASSUME DelegationInv, NEW d \in Child, Create(d)
    PROVE  DelegationInv' /\ \A x \in Child : EndsStep(x)
<1>1. /\ contract[d] = "absent" /\ RowTypes /\ RowInv(d)
      /\ contract' = [contract EXCEPT ![d] = "created"]
      /\ record' = [record EXCEPT ![d] = "requested"]
      /\ child' = [child EXCEPT ![d] = "pending"]
      /\ UNCHANGED <<proc, call, lease, exec, room, invoked, ended>>
  BY DEF Create, places, history, DelegationInv, DelegationTypes
<1>2. RowTypes'
  BY <1>1 DEF RowTypes, Contracts, Tasks
<1>3. /\ contract'[d] = "created" /\ record'[d] = "requested" /\ child'[d] = "pending"
      /\ \A x \in Child : x # d => /\ contract'[x] = contract[x] /\ record'[x] = record[x]
                                   /\ child'[x] = child[x]
  BY <1>1 DEF RowTypes
<1>4. ASSUME NEW x \in Child
      PROVE  /\ EndsStep(x) /\ RowInv(x)'
             /\ contract[x] \notin {"absent", "created"} => contract'[x] = contract[x]
  <2>1. CASE x = d
    BY <1>1, <1>3, <2>1 DEF EndsStep, RowInv, TaskEnds, Terminal
  <2>2. CASE x # d
    BY <1>1, <1>3, <2>2 DEF EndsStep, RowInv, DelegationInv
  <2> QED BY <2>1, <2>2
<1> QED BY <1>1, <1>2, <1>4, OutsideMoves

LEMMA CompleteByHandKeeps ==
    ASSUME DelegationInv, NEW d \in Child, CompleteByHand(d)
    PROVE  DelegationInv' /\ \A x \in Child : EndsStep(x)
<1>1. /\ record[d] = "requested" /\ RowTypes /\ RowInv(d) /\ ended' = ended \union {d}
      /\ UNCHANGED <<proc, call, contract, lease, exec, room, invoked>>
  BY DEF CompleteByHand, places, history, DelegationInv, DelegationTypes
<1>2. PICK end \in TaskEnds :
        /\ child[d] = end \/ child[d] \notin TaskEnds
        /\ record' = [record EXCEPT ![d] = end] /\ child' = [child EXCEPT ![d] = end]
  BY DEF CompleteByHand
<1>3. RowTypes'
  BY <1>1, <1>2 DEF RowTypes, Tasks
<1>4. /\ record'[d] = end /\ child'[d] = end
      /\ \A x \in Child : x # d => record'[x] = record[x] /\ child'[x] = child[x]
  BY <1>1, <1>2 DEF RowTypes
<1>5. ASSUME NEW x \in Child PROVE EndsStep(x) /\ RowInv(x)'
  <2>1. CASE x = d
    BY <1>1, <1>2, <1>4, <2>1 DEF EndsStep, RowInv, TaskEnds
  <2>2. CASE x # d
    BY <1>1, <1>4, <2>2 DEF EndsStep, RowInv, DelegationInv
  <2> QED BY <2>1, <2>2
<1> QED BY <1>1, <1>3, <1>5, OutsideMoves

LEMMA UserWritesTaskKeeps ==
    ASSUME DelegationInv, NEW d \in Child, UserWritesTask(d)
    PROVE  DelegationInv' /\ \A x \in Child : EndsStep(x)
<1>1. /\ child[d] # "absent" /\ RowTypes /\ RowInv(d) /\ d \in Child
      /\ UNCHANGED <<proc, call, contract, record, lease, exec, room, invoked>>
  BY DEF UserWritesTask, places, DelegationInv, DelegationTypes
<1>2. PICK t \in TaskEnds \union {"pending"} :
        /\ child' = [child EXCEPT ![d] = t]
        /\ t \in TaskEnds => child[d] \notin TaskEnds /\ ended' = ended \union {d}
        /\ t = "pending" => child[d] = "failed" /\ ended' = ended
  BY DEF UserWritesTask, TaskEnds
<1>3. child'[d] = t /\ \A x \in Child : x # d => child'[x] = child[x]
  BY <1>1, <1>2 DEF RowTypes
<1>4. RowTypes' /\ ended \subseteq ended'
  BY <1>1, <1>2 DEF RowTypes, Tasks, TaskEnds
<1>5. ASSUME NEW x \in Child PROVE EndsStep(x) /\ RowInv(x)'
  <2>1. CASE x = d
    BY <1>1, <1>2, <1>3, <1>4, <2>1 DEF EndsStep, RowInv, TaskEnds
  <2>2. CASE x # d
    BY <1>1, <1>3, <1>4, <2>2 DEF EndsStep, RowInv, DelegationInv
  <2> QED BY <2>1, <2>2
<1> QED BY <1>1, <1>4, <1>5, OutsideMoves

LEMMA AcceptKeeps ==
    ASSUME DelegationInv, NEW d \in Child, Accept(d)
    PROVE  DelegationInv' /\ \A x \in Child : EndsStep(x)
<1>1. /\ contract[d] = "completed" /\ RowTypes /\ RowInv(d)
      /\ UNCHANGED <<proc, call, record, child, lease, exec, room, invoked, ended>>
  BY DEF Accept, places, history, DelegationInv, DelegationTypes
<1>2. PICK v \in {"accepted", "rejected"} : contract' = [contract EXCEPT ![d] = v]
  BY DEF Accept
<1>3. contract'[d] = v /\ \A x \in Child : x # d => contract'[x] = contract[x]
  BY <1>1, <1>2 DEF RowTypes
<1>4. RowTypes'
  BY <1>1, <1>2 DEF RowTypes, Contracts, Terminal
<1>5. ASSUME NEW x \in Child PROVE EndsStep(x) /\ RowInv(x)'
  <2>1. CASE x = d
    BY <1>1, <1>3, <2>1 DEF EndsStep, RowInv, Terminal
  <2>2. CASE x # d
    BY <1>1, <1>3, <2>2 DEF EndsStep, RowInv, DelegationInv
  <2> QED BY <2>1, <2>2
<1> QED BY <1>1, <1>3, <1>4, <1>5, OutsideMoves

LEMMA CrashKeeps ==
    ASSUME DelegationInv, NEW p \in Process, Crash(p)
    PROVE  DelegationInv' /\ \A x \in Child : EndsStep(x)
<1>1. /\ proc' = [proc EXCEPT ![p] = "gone"] /\ RowTypes
      /\ UNCHANGED <<contract, record, child, lease, exec, room, call, invoked, ended>>
  BY DEF Crash, rows, places, history, DelegationInv, DelegationTypes
<1>2. DelegationTypes'
  BY <1>1 DEF DelegationInv, DelegationTypes, RowTypes, CallTyped, On
<1>3. \A q \in Owner : /\ Live(q)' => Live(q)
                       /\ OwnerAlive(proc, q)' => OwnerAlive(proc, q)
  BY <1>1, OwnersLiveInProcesses DEF RowTypes, Live, OwnerGone, OwnerAlive
<1>4. \A x \in Child : RowKeeps(None, x) /\ EndsStep(x)
  BY <1>1 DEF RowKeeps, LeaseKeeps, EndsStep
<1>5. RowsKeep(None) /\ OnlyItself(None) /\ None \in Holder
  BY <1>1, <1>3, <1>4 DEF RowsKeep, OnlyItself, Holder
<1>6. \A x \in Child : RowInv(x)'
  BY <1>1 DEF DelegationInv, RowInv
<1> QED BY <1>2, <1>4, <1>5, <1>6, NoneIsNoOwner, MovesKeep

-----------------------------------------------------------------------------
\* Every step keeps the invariant, and leaves what has ended as it ended.

LEMMA DelegationInit == Init => DelegationInv
<1> SUFFICES ASSUME Init PROVE DelegationInv
  OBVIOUS
<1>1. \A o \in Owner : call[o] = Unused /\ call[o].pc = "unused" /\ call[o].run = None
  BY DEF Init, Unused
<1>2. \A o \in Owner : CallTyped(o)
  <2>1. ASSUME NEW o \in Owner PROVE CallTyped(o)
    <3>1. PICK d : call[o] = [pc |-> "unused", on |-> d, run |-> None, event |-> FALSE,
                              timedOut |-> FALSE, conflict |-> FALSE, end |-> "none"]
      BY <1>1 DEF Unused
    <3> QED BY <3>1, CallFields DEF CallTyped, Labels, Holder
  <2> QED BY <2>1
<1>3. DelegationTypes
  BY <1>2 DEF Init, DelegationTypes, RowTypes, Contracts, Tasks, Holder
<1>4. \A o \in Owner : RunInv(o) /\ CancelInv(o) /\ SettleInv(o)
  BY <1>1 DEF RunInv, CancelInv, SettleInv, At, Busy, Running, Placed
<1>5. \A d \in Child : RowInv(d) /\ HolderInv(d)
  BY NoneIsNoOwner DEF Init, RowInv, HolderInv, TaskEnds
<1> QED BY <1>3, <1>4, <1>5 DEF DelegationInv

LEMMA DelegationSteps ==
    ASSUME DelegationInv, [Next]_vars
    PROVE  DelegationInv' /\ \A d \in Child : EndsStep(d)
<1>1. CASE UNCHANGED vars
  <2>1. UNCHANGED <<proc, contract, record, child, lease, exec, room, call, invoked, ended>>
    BY <1>1 DEF vars, rows, places, history
  <2>2. \A d \in Child : EndsStep(d) /\ RowInv(d)'
    BY <2>1 DEF EndsStep, DelegationInv, RowInv
  <2>3. RowTypes'
    BY <2>1 DEF DelegationInv, DelegationTypes, RowTypes
  <2> QED BY <2>1, <2>2, <2>3, OutsideMoves
<1>2. ASSUME NEW d \in Child, Create(d) \/ CompleteByHand(d) \/ UserWritesTask(d) \/ Accept(d)
      PROVE  DelegationInv' /\ \A x \in Child : EndsStep(x)
  BY <1>2, CreateKeeps, CompleteByHandKeeps, UserWritesTaskKeeps, AcceptKeeps
<1>3. ASSUME NEW o \in Owner, Acting(o), Calls(o)
      PROVE  DelegationInv' /\ \A x \in Child : EndsStep(x)
  <2>1. CASE \E d \in Child : Start(o, d) \/ CancelLooks(o, d)
    BY <1>3, <2>1, StartKeeps, CancelLooksKeeps
  <2>2. CASE EndStale(o) \/ Submit(o) \/ SubmitRaises(o)
    BY <1>3, <2>2, StartRaises, SubmitKeeps
  <2>3. CASE Run(o)
    BY <1>3, <2>3, BeginKeeps, ClaimTaskKeeps, ClaimRoomKeeps, RoomTimeoutKeeps, ReadyKeeps,
       AdoptKeeps, LoopEndsKeeps, WorkEndsKeeps, DecideKeeps, FinishRunKeeps, FailKeeps,
       LeaveKeeps, FlagsKeep DEF Run
  <2>4. CASE Cancel(o)
    BY <1>3, <2>4, CancelMarksKeeps, CancelReclaimsKeeps, CancelSignalsKeeps, CancelSettlesKeeps
    DEF Cancel
  <2> QED BY <1>3, <2>1, <2>2, <2>3, <2>4 DEF Calls
<1>4. ASSUME NEW p \in Process, Crash(p)
      PROVE  DelegationInv' /\ \A x \in Child : EndsStep(x)
  BY <1>4, CrashKeeps
<1> QED BY <1>1, <1>2, <1>3, <1>4 DEF Next

LEMMA DelegationInvariant == Spec => []DelegationInv
<1>1. DelegationInv /\ [Next]_vars => DelegationInv'
  BY DelegationSteps
<1> QED BY <1>1, DelegationInit, PTL DEF Spec

\* While an executor is at work it is the only one of its child, under all of the
\* leases of the run, and the first; and a run that is over has ended its
\* contract, or found it ended (delegation.py:409, docs/DELEGATION.md:5).
THEOREM ChildRunIsSound == Spec => []ChildIsSound
<1>1. DelegationInv => ChildIsSound
  <2> SUFFICES ASSUME DelegationInv PROVE ChildIsSound
    OBVIOUS
  <2>1. OneExecution
    BY ActingIsLive DEF OneExecution, DelegationInv, RunInv, Busy, Running, Placed, At
  <2>2. RunsSettle
    BY DEF RunsSettle, DelegationInv, SettleInv, Settled, SettledFor, At
  <2> QED BY <2>1, <2>2 DEF ChildIsSound
<1> QED BY <1>1, DelegationInvariant, PTL

\* What has ended stays as it ended, whichever of the run, its cancellation, the
\* recovery of a lost run and the user comes second.
THEOREM ChildEndsStay == Spec => EndsStay
<1>1. DelegationInv /\ [Next]_vars =>
        [\A d \in Child :
           /\ child[d] \in {"completed", "cancelled"} => child'[d] = child[d]
           /\ record[d] \in TaskEnds => record'[d] = record[d]
           /\ contract[d] \in Terminal =>
                \/ contract'[d] = contract[d]
                \/ contract[d] = "completed" /\ contract'[d] \in {"accepted", "rejected"}]_vars
  BY DelegationSteps DEF EndsStep
<1> QED BY <1>1, DelegationInvariant, PTL DEF Spec, EndsStay

-----------------------------------------------------------------------------
(* Long-term memory.  The reviewer of a candidate is nobody but the one    *)
(* that holds its lease, so what a review has found stays until it is      *)
(* done; and whoever sets files and index apart is on its way to set them  *)
(* right, or the drift is recorded.                                        *)

CandidateStates == {"none", "staged", "reviewing", "promoted", "rejected"}

MindTyped(m) ==
    mind[m] = [at |-> mind[m].at, entry |-> mind[m].entry, promote |-> mind[m].promote,
               forParent |-> mind[m].forParent, upkeep |-> mind[m].upkeep,
               late |-> mind[m].late, set |-> mind[m].set]

MemoryTypes ==
    /\ candidate \in [Candidate -> CandidateStates]
    /\ proposal \in [Candidate -> {"none", "staged", "accepted", "rejected"}]
    /\ reviewer \in [Candidate -> Mind \union {NoMind}]
    /\ parent \in [Candidate -> Mind \union {NoMind}]
    /\ drifting \in BOOLEAN
    /\ DOMAIN mind = Mind /\ \A m \in Mind : MindTyped(m)

\* places of a review, and of a promotion
Reviewing == {"claim", "remember", "write", "index", "decide", "give-back", "look", "settle"}
Promoting == {"remember", "write", "index", "give-back"}

\* c is remembered, or is what has been remembered
Remembered(c) == \E e \in written : TextOf[e] = TextOf[c]

\* what a call has found and done so far
MindOK(m) ==
    LET at == mind[m].at
        e == mind[m].entry
    IN /\ at \in Reviewing => ~mind[m].upkeep
       /\ at \in {"claim", "decide", "give-back", "look", "settle"} => e \in Candidate
       /\ at \in Promoting \union {"decide"} /\ e \in Candidate =>
            candidate[e] = "reviewing" /\ reviewer[e] = m
       /\ at \in Promoting /\ e \in Candidate => mind[m].promote
       /\ at \in {"archive", "unlink", "index"} => e \in written
       /\ at = "unlink" => e \in archived
       /\ at = "decide" /\ mind[m].promote => Remembered(e)
       /\ at = "settle" => candidate[e] = IF mind[m].promote THEN "promoted" ELSE "rejected"

\* m is about to decide on the candidate whose document it has written
Decides(m, c) ==
    /\ mind[m].at \in {"index", "decide", "give-back"}
    /\ mind[m].entry = c /\ mind[m].promote
    /\ reviewer[c] = m /\ candidate[c] = "reviewing"

CandidateInv(c) ==
    /\ candidate[c] = "promoted" => Remembered(c)
    /\ c \in written \ torn => candidate[c] = "promoted" \/ \E m \in Mind : Decides(m, c)
    /\ proposal[c] = "accepted" => candidate[c] = "promoted"
    /\ proposal[c] = "rejected" => candidate[c] = "rejected"

\* where the files and the index differ, somebody is between the two
CorpusInv ==
    /\ documents \subseteq written /\ written \subseteq documents \union archived
    /\ ~drifting => \A e \in (documents \ indexed) \union (indexed \ documents) :
                       \E m \in Mind : mind[m].at \in {"index", "drop"} /\ mind[m].entry = e

MemoryInv ==
    /\ MemoryTypes /\ CorpusInv
    /\ \A m \in Mind : MindOK(m)
    /\ \A c \in Candidate : CandidateInv(c)

-----------------------------------------------------------------------------
\* What a step of m, or of nobody (NoMind), keeps for the others

\* a candidate that another one reviews, and one that is decided
ReviewsKeep(m) ==
    \A c \in Candidate :
        /\ candidate[c] \in {"promoted", "rejected"} => candidate'[c] = candidate[c]
        /\ \A q \in Mind : q # m /\ candidate[c] = "reviewing" /\ reviewer[c] = q =>
             candidate'[c] = "reviewing" /\ reviewer'[c] = q

Grows == written \subseteq written' /\ archived \subseteq archived' /\ torn \subseteq torn'

OtherMinds(m) == DOMAIN mind' = Mind /\ \A q \in Mind : q # m => mind'[q] = mind[q]

LEMMA OthersOK ==
    ASSUME NEW m \in Mind \union {NoMind}, OtherMinds(m), ReviewsKeep(m), Grows,
           NEW q \in Mind, q # m, MindOK(q)
    PROVE  MindOK(q)'
<1>0. PICK at, e : at = mind[q].at /\ e = mind[q].entry
  OBVIOUS
<1>1. mind'[q] = mind[q]
  BY DEF OtherMinds
<1>2. at \in Promoting \union {"decide"} /\ e \in Candidate =>
        candidate'[e] = "reviewing" /\ reviewer'[e] = q
  BY <1>0 DEF MindOK, ReviewsKeep
<1>3. at = "settle" => candidate'[e] = IF mind[q].promote THEN "promoted" ELSE "rejected"
  BY <1>0 DEF MindOK, ReviewsKeep
<1>4. at = "decide" /\ mind[q].promote => Remembered(e)'
  BY <1>0 DEF MindOK, Remembered, Grows
<1>5. /\ at \in {"archive", "unlink", "index"} => e \in written'
      /\ at = "unlink" => e \in archived'
  BY <1>0 DEF MindOK, Grows
<1>6. /\ at \in Reviewing => ~mind[q].upkeep
      /\ at \in {"claim", "decide", "give-back", "look", "settle"} => e \in Candidate
      /\ at \in Promoting /\ e \in Candidate => mind[q].promote
  BY <1>0 DEF MindOK
<1> HIDE DEF Remembered
<1>7. PICK s : s = mind[q]
  OBVIOUS
<1>8. Remembered(e)' <=> \E x \in written' : TextOf[x] = TextOf[e]
  BY DEF Remembered
<1> QED BY <1>0, <1>1, <1>2, <1>3, <1>4, <1>5, <1>6, <1>8 DEF MindOK, Remembered

\* Together: what a mover has to show of itself.
LEMMA MindsMove ==
    ASSUME MemoryInv, NEW m \in Mind \union {NoMind}, MemoryTypes', CorpusInv',
           OtherMinds(m), ReviewsKeep(m), Grows, m \in Mind => MindOK(m)',
           NEW P \in SUBSET Candidate, \A c \in P : Remembered(c)',
           \A c \in Candidate :
             /\ candidate'[c] = "promoted" => candidate[c] = "promoted" \/ c \in P
             /\ m \in Mind /\ Decides(m, c) =>
                  c \in torn' \/ candidate'[c] = "promoted" \/ Decides(m, c)'
             /\ c \in written' \ written =>
                  c \in torn' \/ candidate'[c] = "promoted" \/ (m \in Mind /\ Decides(m, c)')
             /\ proposal'[c] \in {proposal[c], "none", "staged"}
                  \/ (proposal'[c] = "accepted" /\ candidate[c] = "promoted")
                  \/ (proposal'[c] = "rejected" /\ candidate[c] = "rejected")
    PROVE  MemoryInv'
<1>1. ASSUME NEW q \in Mind PROVE MindOK(q)'
  <2>1. CASE q = m BY <2>1
  <2>2. CASE q # m BY <2>2, OthersOK DEF MemoryInv
  <2> QED BY <2>1, <2>2
<1>2. ASSUME NEW c \in Candidate PROVE CandidateInv(c)'
  <2>1. CandidateInv(c)
    BY DEF MemoryInv
  <2>2. candidate'[c] = "promoted" => Remembered(c)'
    BY <2>1 DEF CandidateInv, Remembered, Grows
  <2>3. ASSUME NEW q \in Mind, Decides(q, c), q # m PROVE Decides(q, c)'
    BY <2>3 DEF Decides, OtherMinds, ReviewsKeep
  <2>4. c \in written' \ torn' => candidate'[c] = "promoted" \/ \E q \in Mind : Decides(q, c)'
    <3>1. SUFFICES ASSUME c \in written', c \notin torn', candidate'[c] # "promoted"
                   PROVE  \E q \in Mind : Decides(q, c)'
      OBVIOUS
    <3>2. CASE c \notin written
      BY <3>1, <3>2
    <3>3. CASE c \in written
      <4>1. candidate[c] # "promoted" /\ c \notin torn
        BY <3>1 DEF ReviewsKeep, Grows
      <4>2. PICK q \in Mind : Decides(q, c)
        BY <2>1, <3>3, <4>1 DEF CandidateInv
      <4>3. CASE q = m
        BY <3>1, <4>2, <4>3
      <4>4. CASE q # m
        BY <2>3, <4>2, <4>4
      <4> QED BY <4>3, <4>4
    <3> QED BY <3>2, <3>3
  <2>5. /\ proposal'[c] = "accepted" => candidate'[c] = "promoted"
        /\ proposal'[c] = "rejected" => candidate'[c] = "rejected"
    BY <2>1 DEF CandidateInv, ReviewsKeep
  <2> QED BY <2>2, <2>4, <2>5 DEF CandidateInv
<1> QED BY <1>1, <1>2 DEF MemoryInv

-----------------------------------------------------------------------------
\* Steps that move a call and write nothing

\* a call is its fields
LEMMA MindFields ==
    ASSUME NEW c, NEW a, NEW e, NEW p, NEW f, NEW u, NEW l, NEW s,
           c = [at |-> a, entry |-> e, promote |-> p, forParent |-> f, upkeep |-> u,
                late |-> l, set |-> s]
    PROVE  /\ c = [at |-> c.at, entry |-> c.entry, promote |-> c.promote, forParent |-> c.forParent,
                   upkeep |-> c.upkeep, late |-> c.late, set |-> c.set]
           /\ c.at = a /\ c.entry = e /\ c.promote = p /\ c.forParent = f /\ c.upkeep = u
           /\ c.late = l /\ c.set = s
<1>1. c.at = a /\ c.entry = e /\ c.promote = p /\ c.forParent = f /\ c.upkeep = u
      /\ c.late = l /\ c.set = s
  OBVIOUS
<1> QED BY <1>1

LEMMA MindRests ==
    ASSUME MemoryTypes, NEW m \in Mind, mind' = [mind EXCEPT ![m] = MindAtRest]
    PROVE  OtherMinds(m) /\ MindTyped(m)' /\ mind'[m].at = "rest"
<1>1. mind'[m] = [at |-> "rest", entry |-> NoMind, promote |-> FALSE, forParent |-> FALSE,
                  upkeep |-> FALSE, late |-> FALSE, set |-> {}]
  BY DEF MemoryTypes, MindAtRest
<1>2. OtherMinds(m)
  BY DEF MemoryTypes, OtherMinds
<1> QED BY <1>1, <1>2, MindFields DEF MindTyped

LEMMA MindGoes ==
    ASSUME MemoryTypes, NEW m \in Mind, NEW place, MindTo(m, place), place # "over"
    PROVE  /\ OtherMinds(m) /\ MindTyped(m)' /\ mind'[m].at = place
           /\ mind'[m].entry = mind[m].entry /\ mind'[m].promote = mind[m].promote
           /\ mind'[m].upkeep = mind[m].upkeep /\ mind'[m].late = mind[m].late
           /\ mind'[m].set = mind[m].set /\ mind'[m].forParent = mind[m].forParent
<1>1. MindTyped(m) /\ DOMAIN mind = Mind
  BY DEF MemoryTypes
<1>2. mind' = [mind EXCEPT ![m] = [mind[m] EXCEPT !.at = place]]
  BY <1>1 DEF MindTo
<1>3. mind'[m] = [at |-> place, entry |-> mind[m].entry, promote |-> mind[m].promote,
                  forParent |-> mind[m].forParent, upkeep |-> mind[m].upkeep,
                  late |-> mind[m].late, set |-> mind[m].set]
  BY <1>1, <1>2 DEF MindTyped
<1>4. OtherMinds(m)
  BY <1>1, <1>2 DEF OtherMinds
<1> QED BY <1>3, <1>4, MindFields DEF MindTyped

LEMMA MindOver ==
    ASSUME MemoryTypes, NEW m \in Mind, MindTo(m, "over")
    PROVE  OtherMinds(m) /\ MindTyped(m)' /\ mind'[m].at = "rest"
<1>1. mind' = [mind EXCEPT ![m] = MindAtRest]
  BY DEF MindTo
<1> QED BY <1>1, MindRests

\* who is at rest, or has been refused, relies on nothing
LEMMA RestIsOK ==
    ASSUME NEW m \in Mind,
           mind'[m].at \in {"rest", "refused", "rebuild", "replace", "repair", "audit", "audited",
                            "drop", "upkeep-done", "upkeep-fails"}
    PROVE  MindOK(m)'
  BY DEF MindOK, Reviewing, Promoting

\* the places of the mover before, when it has nothing to lose
Idle(m) == mind[m].at \notin {"index", "drop", "decide", "give-back"}

LEMMA TypesMove ==
    ASSUME MemoryTypes, NEW m \in Mind \union {NoMind}, OtherMinds(m), m \in Mind => MindTyped(m)'
    PROVE  DOMAIN mind' = Mind /\ \A q \in Mind : MindTyped(q)'
  BY DEF MemoryTypes, OtherMinds, MindTyped

LEMMA MindMoves ==
    ASSUME MemoryInv, NEW m \in Mind, UNCHANGED <<corpus, reviews>>,
           OtherMinds(m), MindTyped(m)', MindOK(m)',
           Idle(m) \/ (/\ mind'[m].at = mind[m].at /\ mind'[m].entry = mind[m].entry
                       /\ mind'[m].promote = mind[m].promote)
    PROVE  MemoryInv'
<1>1. UNCHANGED <<documents, indexed, archived, written, drifting>>
      /\ UNCHANGED <<candidate, proposal, reviewer, parent, torn>>
  BY DEF corpus, reviews
<1>2. MemoryTypes'
  BY <1>1, TypesMove DEF MemoryInv, MemoryTypes
<1>3. CorpusInv'
  <2>1. ASSUME NEW e, NEW q \in Mind, mind[q].at \in {"index", "drop"}, mind[q].entry = e
        PROVE  mind'[q].at \in {"index", "drop"} /\ mind'[q].entry = e
    BY <2>1 DEF Idle, OtherMinds
  <2> QED BY <1>1, <2>1 DEF MemoryInv, CorpusInv
<1>4. ReviewsKeep(m) /\ Grows
  BY <1>1 DEF ReviewsKeep, Grows
<1>5. ASSUME NEW c \in Candidate, Decides(m, c) PROVE Decides(m, c)'
  BY <1>1, <1>5 DEF Decides, Idle
<1> DEFINE P == {}
<1>6. P \in SUBSET Candidate /\ \A c \in P : Remembered(c)'
  OBVIOUS
<1> HIDE DEF P
<1> QED BY <1>1, <1>2, <1>3, <1>4, <1>5, <1>6, MindsMove

LEMMA MindBegins ==
    ASSUME MemoryTypes, NEW m \in Mind, NEW place, NEW e, MindStarts(m, place, e)
    PROVE  /\ OtherMinds(m) /\ MindTyped(m)' /\ mind[m].at = "rest" /\ Idle(m)
           /\ mind'[m].at = place /\ mind'[m].entry = e /\ ~mind'[m].promote /\ ~mind'[m].upkeep
<1>1. mind'[m] = [at |-> place, entry |-> e, promote |-> FALSE, forParent |-> FALSE,
                  upkeep |-> FALSE, late |-> FALSE, set |-> {}]
  BY DEF MemoryTypes, MindStarts, MindAtRest
<1>2. OtherMinds(m)
  BY DEF MemoryTypes, MindStarts, OtherMinds
<1>3. mind[m].at = "rest" /\ Idle(m)
  BY DEF MindStarts, MindIs, Idle
<1> QED BY <1>1, <1>2, <1>3, MindFields DEF MindTyped

\* Remember, Forget, RebuildIndex: a call begins
LEMMA BeginningsKeep ==
    ASSUME MemoryInv, NEW m \in Mind,
           (\E e \in UserEntry : Remember(m, e)) \/ (\E e \in Entry : Forget(m, e)) \/ RebuildIndex(m)
    PROVE  MemoryInv'
<1>1. UNCHANGED <<corpus, reviews>> /\ MemoryTypes
  BY DEF Remember, Forget, RebuildIndex, MemoryInv
<1>2. CASE \E e \in UserEntry : Remember(m, e)
  <2>1. PICK e \in UserEntry : MindStarts(m, "remember", e)
    BY <1>2 DEF Remember
  <2>2. MindOK(m)'
    BY <1>1, <2>1, MindBegins, EntriesAreApart DEF MindOK, Reviewing, Promoting
  <2> QED BY <1>1, <2>1, <2>2, MindBegins, MindMoves
<1>3. CASE \E e \in Entry : Forget(m, e)
  <2>1. PICK e \in Entry : Inspectable(e) /\ MindStarts(m, "archive", e)
    BY <1>3 DEF Forget
  <2>2. e \in written'
    BY <1>1, <2>1 DEF MemoryInv, CorpusInv, Inspectable, corpus
  <2>3. MindOK(m)'
    BY <1>1, <2>1, <2>2, MindBegins DEF MindOK, Reviewing, Promoting
  <2> QED BY <1>1, <2>1, <2>3, MindBegins, MindMoves
<1>4. CASE MindStarts(m, "rebuild", NoMind)
  <2>1. MindOK(m)'
    BY <1>1, <1>4, MindBegins, RestIsOK
  <2> QED BY <1>1, <1>4, <2>1, MindBegins, MindMoves
<1>5. CASE MindIs(m, "repair") /\ MindTo(m, "rebuild")
  <2>1. MindOK(m)' /\ Idle(m)
    BY <1>1, <1>5, MindGoes, RestIsOK DEF MindIs, Idle
  <2> QED BY <1>1, <1>5, <2>1, MindGoes, MindMoves
<1> QED BY <1>2, <1>3, <1>4, <1>5 DEF RebuildIndex

\* a call ends, or goes on to where nothing is relied on
LEMMA MindLetsGo ==
    ASSUME MemoryInv, NEW m \in Mind, UNCHANGED <<corpus, reviews>>, Idle(m),
           NEW place \in {"over", "refused", "rebuild", "replace", "repair", "audit", "audited",
                          "drop", "upkeep-done", "upkeep-fails"},
           MindTo(m, place)
    PROVE  MemoryInv'
<1>1. CASE place = "over"
  BY <1>1, MindOver, RestIsOK, MindMoves DEF MemoryInv
<1>2. CASE place # "over"
  BY <1>2, MindGoes, RestIsOK, MindMoves DEF MemoryInv
<1> QED BY <1>1, <1>2

LEMMA FindDuplicateKeeps ==
    ASSUME MemoryInv, NEW m \in Mind, FindDuplicate(m)
    PROVE  MemoryInv'
<1>1. /\ UNCHANGED <<corpus, reviews>> /\ MemoryTypes /\ mind[m].at = "remember" /\ MindOK(m)
      /\ Idle(m)
  BY DEF FindDuplicate, MemoryInv, MindIs, Idle
<1>2. PICK e : e = mind[m].entry
  OBVIOUS
<1>3. /\ ~mind[m].upkeep
      /\ e \in Candidate => candidate[e] = "reviewing" /\ reviewer[e] = m /\ mind[m].promote
  BY <1>1, <1>2 DEF MindOK, Reviewing, Promoting
<1>4. UNCHANGED <<documents, indexed, archived, written, drifting, candidate, reviewer>>
  BY <1>1 DEF corpus, reviews
<1>5. CASE MindTo(m, "write")
  <2>1. MindOK(m)'
    BY <1>1, <1>2, <1>3, <1>4, <1>5, MindGoes DEF MindOK, Reviewing, Promoting
  <2> QED BY <1>1, <1>5, <2>1, MindGoes, MindMoves
<1>6. CASE e \in Candidate /\ MindTo(m, "decide") /\ Remembered(e)
  <2>1. MindOK(m)'
    BY <1>1, <1>2, <1>3, <1>4, <1>6, MindGoes DEF MindOK, Reviewing, Promoting, Remembered
  <2> QED BY <1>1, <1>6, <2>1, MindGoes, MindMoves
<1>7. CASE e \in Candidate /\ MindTo(m, "give-back")
  <2>1. MindOK(m)'
    BY <1>1, <1>2, <1>3, <1>4, <1>7, MindGoes DEF MindOK, Reviewing, Promoting
  <2> QED BY <1>1, <1>7, <2>1, MindGoes, MindMoves
<1>8. CASE MindTo(m, "over")
  BY <1>1, <1>8, MindLetsGo
<1>9. {d \in indexed : TextOf[d] = TextOf[e]} \intersect documents # {} => Remembered(e)
  BY DEF MemoryInv, CorpusInv, Remembered
<1> QED BY <1>2, <1>3, <1>5, <1>6, <1>7, <1>8, <1>9 DEF FindDuplicate, After, AfterRaise

LEMMA ReviewKeeps ==
    ASSUME MemoryInv, NEW m \in Mind, NEW c \in Candidate, NEW promote \in BOOLEAN,
           Review(m, c, promote)
    PROVE  MemoryInv'
<1>1. /\ UNCHANGED <<corpus, reviews>> /\ MemoryTypes /\ mind[m].at = "rest"
      /\ mind' = [mind EXCEPT ![m] = [MindAtRest EXCEPT !.at = "claim", !.entry = c, !.promote = promote]]
  BY DEF Review, MemoryInv, MindIs
<1>2. mind'[m] = [at |-> "claim", entry |-> c, promote |-> promote, forParent |-> FALSE,
                  upkeep |-> FALSE, late |-> FALSE, set |-> {}]
  BY <1>1 DEF MemoryTypes, MindAtRest
<1>3. mind'[m].at = "claim" /\ mind'[m].entry = c /\ ~mind'[m].upkeep /\ MindTyped(m)'
  BY <1>2, MindFields DEF MindTyped
<1>4. OtherMinds(m) /\ MindOK(m)' /\ Idle(m)
  BY <1>1, <1>3 DEF MemoryTypes, OtherMinds, MindOK, Promoting, Reviewing, Idle
<1> QED BY <1>1, <1>3, <1>4, MindMoves

LEMMA LookAtCandidateKeeps ==
    ASSUME MemoryInv, NEW m \in Mind, LookAtCandidate(m)
    PROVE  MemoryInv'
<1>1. /\ UNCHANGED <<corpus, reviews>> /\ MemoryTypes /\ mind[m].at = "look" /\ MindOK(m)
      /\ Idle(m) /\ MindTyped(m) /\ DOMAIN mind = Mind
  BY DEF LookAtCandidate, MemoryInv, MindIs, Idle, MemoryTypes
<1>2. PICK c : c = mind[m].entry
  OBVIOUS
<1>3. c \in Candidate /\ ~mind[m].upkeep /\ UNCHANGED candidate
  BY <1>1, <1>2 DEF MindOK, Reviewing, reviews
<1>4. CASE MindTo(m, "claim")
  <2>1. MindOK(m)'
    BY <1>2, <1>3, <1>1, <1>4, MindGoes DEF MindOK, Reviewing, Promoting
  <2> QED BY <1>1, <1>4, <2>1, MindGoes, MindMoves
<1>5. CASE MindTo(m, "refused")
  BY <1>1, <1>5, MindLetsGo
<1>6. ASSUME NEW p \in BOOLEAN, candidate[c] = IF p THEN "promoted" ELSE "rejected",
             mind' = [mind EXCEPT ![m].at = "settle", ![m].promote = p]
      PROVE  MemoryInv'
  <2>1. mind'[m] = [at |-> "settle", entry |-> c, promote |-> p, forParent |-> mind[m].forParent,
                    upkeep |-> mind[m].upkeep, late |-> mind[m].late, set |-> mind[m].set]
    BY <1>1, <1>2, <1>6 DEF MindTyped
  <2>2. /\ mind'[m].at = "settle" /\ mind'[m].entry = c /\ mind'[m].promote = p
        /\ mind'[m].upkeep = mind[m].upkeep /\ MindTyped(m)'
    BY <2>1, MindFields DEF MindTyped
  <2>3. OtherMinds(m)
    BY <1>1, <1>6 DEF OtherMinds
  <2>4. MindOK(m)'
    BY <1>3, <1>6, <2>2 DEF MindOK, Reviewing, Promoting
  <2> QED BY <1>1, <2>2, <2>3, <2>4, MindMoves
<1> QED BY <1>2, <1>4, <1>5, <1>6 DEF LookAtCandidate

\* ReadDocuments, Audit, ForgetExpired, LeasesExpire: the rest of the mind changes
LEMMA MindNotesKeep ==
    ASSUME MemoryInv, NEW m \in Mind,
           ReadDocuments(m) \/ Audit(m) \/ ForgetExpired(m) \/ LeasesExpire(m)
    PROVE  MemoryInv'
<1>1. UNCHANGED <<corpus, reviews>> /\ MemoryTypes /\ MindTyped(m) /\ DOMAIN mind = Mind /\ MindOK(m)
  BY DEF ReadDocuments, Audit, ForgetExpired, LeasesExpire, MemoryInv, MemoryTypes
<1>2. ASSUME NEW at, NEW e, NEW l, NEW s,
             mind' = [mind EXCEPT ![m] = [mind[m] EXCEPT !.at = at, !.entry = e, !.late = l, !.set = s]]
      PROVE  /\ OtherMinds(m) /\ MindTyped(m)' /\ mind'[m].at = at /\ mind'[m].entry = e
             /\ mind'[m].promote = mind[m].promote /\ mind'[m].upkeep = mind[m].upkeep
  <2>1. mind'[m] = [at |-> at, entry |-> e, promote |-> mind[m].promote,
                    forParent |-> mind[m].forParent, upkeep |-> mind[m].upkeep, late |-> l, set |-> s]
    BY <1>1, <1>2 DEF MindTyped
  <2>2. OtherMinds(m)
    BY <1>1, <1>2 DEF OtherMinds
  <2> QED BY <2>1, <2>2, MindFields DEF MindTyped
<1>3. CASE ReadDocuments(m)
  <2>1. mind' = [mind EXCEPT ![m] = [mind[m] EXCEPT !.at = "replace", !.entry = mind[m].entry,
                                                    !.late = mind[m].late, !.set = documents]]
    BY <1>1, <1>3 DEF ReadDocuments, MindTyped
  <2>2. Idle(m)
    BY <1>3 DEF ReadDocuments, MindIs, Idle
  <2> QED BY <1>1, <1>2, <2>1, <2>2, RestIsOK, MindMoves
<1>4. CASE Audit(m)
  <2>1. PICK s : mind' = [mind EXCEPT ![m] = [mind[m] EXCEPT !.at = "audited", !.entry = mind[m].entry,
                                                    !.late = mind[m].late, !.set = s]]
    BY <1>1, <1>4 DEF Audit, MindTyped
  <2>2. Idle(m)
    BY <1>4 DEF Audit, MindIs, Idle
  <2> QED BY <1>1, <1>2, <2>1, <2>2, RestIsOK, MindMoves
<1>5. CASE ForgetExpired(m)
  <2>1. Idle(m)
    BY <1>5 DEF ForgetExpired, MindIs, Idle
  <2>2. CASE MindTo(m, "repair")
    BY <1>1, <2>1, <2>2, MindLetsGo
  <2>3. ASSUME NEW e \in mind[m].set, NEW s, NEW at, at = IF Inspectable(e) THEN "archive" ELSE "upkeep-fails",
               mind' = [mind EXCEPT ![m].at = at, ![m].entry = e, ![m].set = s]
        PROVE  MemoryInv'
    <3>1. mind' = [mind EXCEPT ![m] = [mind[m] EXCEPT !.at = at, !.entry = e,
                                                      !.late = mind[m].late, !.set = s]]
      BY <1>1, <2>3 DEF MindTyped
    <3>2. at = "archive" => e \in written'
      BY <1>1, <2>3 DEF Inspectable, MemoryInv, CorpusInv, corpus
    <3>3. mind'[m].at = at /\ mind'[m].entry = e
      BY <1>1, <3>1 DEF MindTyped
    <3>4. MindOK(m)'
      BY <2>3, <3>2, <3>3 DEF MindOK, Reviewing, Promoting
    <3> QED BY <1>1, <1>2, <2>1, <3>1, <3>4, MindMoves
  <2> QED BY <1>5, <2>2, <2>3 DEF ForgetExpired
<1>6. CASE LeasesExpire(m)
  <2>1. PICK a, e, p, f, u, r :
            /\ a = mind[m].at /\ e = mind[m].entry /\ p = mind[m].promote /\ f = mind[m].forParent
            /\ u = mind[m].upkeep /\ r = mind[m].set
    OBVIOUS
  <2>2. /\ mind[m].at = a /\ mind[m].entry = e /\ mind[m].promote = p /\ mind[m].upkeep = u
    BY <2>1
  <2>3. PICK t : mind' = [mind EXCEPT ![m] = [mind[m] EXCEPT !.late = t]]
    BY <1>6 DEF LeasesExpire
  <2>4. mind'[m] = [at |-> a, entry |-> e, promote |-> p, forParent |-> f, upkeep |-> u,
                    late |-> t, set |-> r]
    BY <1>1, <2>1, <2>3 DEF MindTyped
  <2>5. /\ mind'[m].at = a /\ mind'[m].entry = e /\ mind'[m].promote = p /\ mind'[m].upkeep = u
        /\ MindTyped(m)'
    BY <2>4, MindFields DEF MindTyped
  <2>6. OtherMinds(m)
    BY <1>1, <2>3 DEF OtherMinds
  <2>7. MindOK(m)'
    BY <1>1, <2>2, <2>5 DEF MindOK, Remembered, corpus, reviews
  <2> QED BY <1>1, <2>2, <2>5, <2>6, <2>7, MindMoves
<1> QED BY <1>3, <1>4, <1>5, <1>6

\* FinishUpkeep, Maintain: the run of the upkeep is not in the invariant
LEMMA UpkeepKeeps ==
    ASSUME MemoryInv, NEW m \in Mind, FinishUpkeep(m) \/ Maintain(m)
    PROVE  MemoryInv'
<1>1. UNCHANGED <<corpus, reviews>> /\ MemoryTypes
  BY DEF FinishUpkeep, Maintain, MemoryInv
<1>2. CASE FinishUpkeep(m)
  <2>1. Idle(m) /\ MindTo(m, "over")
    BY <1>2 DEF FinishUpkeep, Idle
  <2> QED BY <1>1, <2>1, MindLetsGo
<1>3. CASE Maintain(m)
  <2>1. Idle(m) /\ mind' = [mind EXCEPT ![m] = [MindAtRest EXCEPT !.at = "audit", !.upkeep = TRUE]]
    BY <1>3 DEF Maintain, MindIs, Idle
  <2>2. mind'[m] = [at |-> "audit", entry |-> NoMind, promote |-> FALSE, forParent |-> FALSE,
                    upkeep |-> TRUE, late |-> FALSE, set |-> {}]
    BY <1>1, <2>1 DEF MemoryTypes, MindAtRest
  <2>3. OtherMinds(m)
    BY <1>1, <2>1 DEF MemoryTypes, OtherMinds
  <2>4. MindTyped(m)' /\ mind'[m].at = "audit"
    BY <2>2, MindFields DEF MindTyped
  <2> QED BY <1>1, <2>1, <2>3, <2>4, RestIsOK, MindMoves
<1> QED BY <1>2, <1>3

-----------------------------------------------------------------------------
\* Steps that write the corpus

LEMMA MindWent ==
    ASSUME MemoryTypes, NEW m \in Mind, NEW place, MindTo(m, place)
    PROVE  OtherMinds(m) /\ MindTyped(m)'
<1>1. CASE place = "over" BY <1>1, MindOver
<1>2. CASE place # "over" BY <1>2, MindGoes
<1> QED BY <1>1, <1>2

LEMMA CorpusMoves ==
    ASSUME MemoryInv, NEW m \in Mind, UNCHANGED reviews, OtherMinds(m), MindTyped(m)', MindOK(m)',
           drifting' \in BOOLEAN, CorpusInv', written \subseteq written', archived \subseteq archived',
           \A c \in Candidate : Decides(m, c) \/ c \in written' \ written => Decides(m, c)'
    PROVE  MemoryInv'
<1>1. UNCHANGED <<candidate, proposal, reviewer, parent, torn>>
  BY DEF reviews
<1>2. MemoryTypes'
  BY <1>1, TypesMove DEF MemoryInv, MemoryTypes
<1>3. ReviewsKeep(m) /\ Grows
  BY <1>1 DEF ReviewsKeep, Grows
<1> DEFINE P == {}
<1>4. P \in SUBSET Candidate /\ \A c \in P : Remembered(c)'
  OBVIOUS
<1> HIDE DEF P
<1> QED BY <1>1, <1>2, <1>3, <1>4, MindsMove

\* where the files and the index differ before and after, and who is between them
Differ(e) == e \in (documents \ indexed) \union (indexed \ documents)
Between(q, e) == mind[q].at \in {"index", "drop"} /\ mind[q].entry = e

\* an entry that comes to differ is the mover's, and one it leaves differs no more
LEMMA DriftIsOwned ==
    ASSUME CorpusInv, NEW m \in Mind, OtherMinds(m),
           ~drifting' => /\ ~drifting
                         /\ \A e : Differ(e)' /\ ~Differ(e) => Between(m, e)'
                         /\ \A e : Differ(e)' /\ Between(m, e) => Between(m, e)',
           NEW x, ~drifting', Differ(x)'
    PROVE  \E q \in Mind : Between(q, x)'
<1>1. CASE ~Differ(x)
  BY <1>1
<1>2. CASE Differ(x)
  <2>1. PICK q \in Mind : Between(q, x)
    BY <1>2 DEF CorpusInv, Differ, Between
  <2>2. CASE q = m
    BY <2>1, <2>2
  <2>3. CASE q # m
    BY <2>1, <2>3 DEF OtherMinds, Between
  <2> QED BY <2>2, <2>3
<1> QED BY <1>1, <1>2

LEMMA CorpusIsDiffer ==
    ASSUME documents' \subseteq written', written' \subseteq documents' \union archived',
           ~drifting' => \A x : Differ(x)' => \E q \in Mind : Between(q, x)'
    PROVE  CorpusInv'
  BY DEF CorpusInv, Differ, Between

LEMMA WriteDocumentKeeps ==
    ASSUME MemoryInv, NEW m \in Mind, WriteDocument(m)
    PROVE  MemoryInv'
<1>1. PICK e : e = mind[m].entry
  OBVIOUS
<1>2. /\ mind[m].at = "write" /\ MemoryTypes /\ MindOK(m) /\ CorpusInv /\ MindTo(m, "index")
      /\ documents' = documents \union {e} /\ written' = written \union {e}
      /\ UNCHANGED <<indexed, archived, drifting>> /\ UNCHANGED reviews /\ drifting \in BOOLEAN
  BY <1>1 DEF WriteDocument, MemoryInv, MindIs, MemoryTypes
<1>3. UNCHANGED <<candidate, reviewer>>
  BY <1>2 DEF reviews
<1>4. /\ OtherMinds(m) /\ MindTyped(m)' /\ mind'[m].at = "index" /\ mind'[m].entry = e
      /\ mind'[m].promote = mind[m].promote /\ mind'[m].upkeep = mind[m].upkeep
  BY <1>1, <1>2, MindGoes
<1>5. /\ ~mind[m].upkeep
      /\ e \in Candidate => candidate[e] = "reviewing" /\ reviewer[e] = m /\ mind[m].promote
  BY <1>1, <1>2 DEF MindOK, Reviewing, Promoting
<1>6. MindOK(m)'
  BY <1>2, <1>3, <1>4, <1>5 DEF MindOK, Reviewing, Promoting
<1>7. CorpusInv'
  <2>1. \A x : Differ(x)' /\ ~Differ(x) => Between(m, x)'
    BY <1>2, <1>4 DEF Differ, Between
  <2>2. \A x : ~Between(m, x)
    BY <1>2 DEF Between
  <2>3. \A x : ~drifting' /\ Differ(x)' => \E q \in Mind : Between(q, x)'
    BY <1>2, <1>4, <2>1, <2>2, DriftIsOwned
  <2>4. documents' \subseteq written' /\ written' \subseteq documents' \union archived'
    BY <1>2 DEF CorpusInv
  <2> QED BY <2>3, <2>4, CorpusIsDiffer
<1>8. \A c \in Candidate : Decides(m, c) \/ c \in written' \ written => Decides(m, c)'
  <2>1. \A c : ~Decides(m, c)
    BY <1>2 DEF Decides
  <2>2. e \in Candidate => Decides(m, e)'
    BY <1>3, <1>4, <1>5 DEF Decides
  <2> QED BY <1>2, <2>1, <2>2
<1> QED BY <1>2, <1>4, <1>6, <1>7, <1>8, CorpusMoves

LEMMA IndexDocumentKeeps ==
    ASSUME MemoryInv, NEW m \in Mind, IndexDocument(m)
    PROVE  MemoryInv'
<1>1. PICK e : e = mind[m].entry
  OBVIOUS
<1>2. /\ mind[m].at = "index" /\ MemoryTypes /\ MindOK(m) /\ CorpusInv /\ MindTo(m, After(m))
      /\ indexed' = indexed \union {e} /\ drifting' = (drifting \/ e \notin documents)
      /\ UNCHANGED <<documents, archived, written>> /\ UNCHANGED reviews /\ drifting \in BOOLEAN
  BY <1>1 DEF IndexDocument, MemoryInv, MindIs, MemoryTypes
<1>3. UNCHANGED <<candidate, reviewer>>
  BY <1>2 DEF reviews
<1>4. OtherMinds(m) /\ MindTyped(m)'
  BY <1>2, MindWent
<1>5. /\ ~mind[m].upkeep /\ e \in written
      /\ e \in Candidate => candidate[e] = "reviewing" /\ reviewer[e] = m /\ mind[m].promote
  BY <1>1, <1>2 DEF MindOK, Reviewing, Promoting
<1>6. CorpusInv'
  <2>1. ~drifting' => \A x : Differ(x)' => Differ(x)
    BY <1>2 DEF Differ
  <2>2. ~drifting' => \A x : Differ(x)' => ~Between(m, x)
    BY <1>1, <1>2 DEF Differ, Between
  <2>3. \A x : ~drifting' /\ Differ(x)' => \E q \in Mind : Between(q, x)'
    BY <1>2, <1>4, <2>1, <2>2, DriftIsOwned
  <2>4. documents' \subseteq written' /\ written' \subseteq documents' \union archived'
    BY <1>2 DEF CorpusInv
  <2> QED BY <2>3, <2>4, CorpusIsDiffer
<1>7. drifting' \in BOOLEAN /\ written \subseteq written' /\ archived \subseteq archived'
      /\ written' \ written = {}
  BY <1>2
<1>8. CASE e \in Candidate
  <2>1. MindTo(m, "decide")
    BY <1>1, <1>2, <1>5, <1>8 DEF After
  <2>2. /\ mind'[m].at = "decide" /\ mind'[m].entry = e
        /\ mind'[m].promote = mind[m].promote /\ mind'[m].upkeep = mind[m].upkeep
    BY <1>1, <1>2, <2>1, MindGoes
  <2>3. Remembered(e)'
    BY <1>2, <1>5 DEF Remembered
  <2>4. MindOK(m)'
    BY <1>3, <1>5, <1>8, <2>2, <2>3 DEF MindOK, Reviewing, Promoting
  <2>5. \A c \in Candidate : Decides(m, c) => Decides(m, c)'
    BY <1>1, <1>3, <2>2 DEF Decides
  <2> QED BY <1>2, <1>4, <1>6, <1>7, <2>4, <2>5, CorpusMoves
<1>9. CASE e \notin Candidate
  <2>1. MindTo(m, "over")
    BY <1>1, <1>2, <1>5, <1>9 DEF After
  <2>2. MindOK(m)'
    BY <1>2, <2>1, MindOver, RestIsOK
  <2>3. \A c \in Candidate : ~Decides(m, c)
    BY <1>1, <1>9 DEF Decides
  <2> QED BY <1>2, <1>4, <1>6, <1>7, <2>2, <2>3, CorpusMoves
<1> QED BY <1>8, <1>9

LEMMA ArchiveKeeps ==
    ASSUME MemoryInv, NEW m \in Mind, Archive(m)
    PROVE  MemoryInv'
<1>1. PICK e : e = mind[m].entry
  OBVIOUS
<1>2. /\ mind[m].at = "archive" /\ MemoryTypes /\ MindOK(m) /\ CorpusInv /\ MindTo(m, "unlink")
      /\ archived' = archived \union ({e} \intersect documents)
      /\ UNCHANGED <<documents, indexed, written, drifting>> /\ UNCHANGED reviews /\ drifting \in BOOLEAN
  BY <1>1 DEF Archive, MemoryInv, MindIs, MemoryTypes
<1>3. OtherMinds(m) /\ MindTyped(m)' /\ mind'[m].at = "unlink" /\ mind'[m].entry = e
  BY <1>1, <1>2, MindGoes
<1>4. e \in written' /\ e \in archived'
  BY <1>1, <1>2 DEF MindOK, CorpusInv
<1>5. MindOK(m)'
  BY <1>3, <1>4 DEF MindOK, Reviewing, Promoting
<1>6. CorpusInv'
  <2>1. \A x : (Differ(x)' => Differ(x)) /\ ~Between(m, x)
    BY <1>2 DEF Differ, Between
  <2>2. \A x : ~drifting' /\ Differ(x)' => \E q \in Mind : Between(q, x)'
    BY <1>2, <1>3, <2>1, DriftIsOwned
  <2>3. documents' \subseteq written' /\ written' \subseteq documents' \union archived'
    BY <1>2 DEF CorpusInv
  <2> QED BY <2>2, <2>3, CorpusIsDiffer
<1>7. \A c \in Candidate : ~Decides(m, c) /\ c \notin written' \ written
  BY <1>2 DEF Decides
<1>8. drifting' \in BOOLEAN /\ written \subseteq written' /\ archived \subseteq archived'
  BY <1>2
<1> QED BY <1>2, <1>3, <1>5, <1>6, <1>7, <1>8, CorpusMoves

LEMMA UnlinkKeeps ==
    ASSUME MemoryInv, NEW m \in Mind, Unlink(m)
    PROVE  MemoryInv'
<1>1. PICK e : e = mind[m].entry
  OBVIOUS
<1>2. /\ mind[m].at = "unlink" /\ MemoryTypes /\ MindOK(m) /\ CorpusInv
      /\ documents' = documents \ {e}
      /\ MindTo(m, IF e \in documents THEN "drop" ELSE IF mind[m].upkeep THEN "upkeep-fails" ELSE "over")
      /\ UNCHANGED <<indexed, archived, written, drifting>> /\ UNCHANGED reviews /\ drifting \in BOOLEAN
  BY <1>1 DEF Unlink, MemoryInv, MindIs, MemoryTypes
<1>3. OtherMinds(m) /\ MindTyped(m)'
  BY <1>2, MindWent
<1>4. e \in archived
  BY <1>1, <1>2 DEF MindOK
<1>5. documents' \subseteq written' /\ written' \subseteq documents' \union archived'
  BY <1>2, <1>4 DEF CorpusInv
<1>6. \A x : ~Between(m, x)
  BY <1>2 DEF Between
<1>7. CorpusInv' /\ MindOK(m)'
  <2>1. CASE e \in documents
    <3>1. mind'[m].at = "drop" /\ mind'[m].entry = e
      BY <1>1, <1>2, <2>1, MindGoes
    <3>2. \A x : Differ(x)' /\ ~Differ(x) => Between(m, x)'
      BY <1>2, <3>1 DEF Differ, Between
    <3>3. \A x : ~drifting' /\ Differ(x)' => \E q \in Mind : Between(q, x)'
      BY <1>2, <1>3, <1>6, <3>2, DriftIsOwned
    <3> QED BY <1>5, <3>1, <3>3, CorpusIsDiffer, RestIsOK
  <2>2. CASE e \notin documents
    <3>1. \A x : Differ(x)' => Differ(x)
      BY <1>2, <2>2 DEF Differ
    <3>2. \A x : ~drifting' /\ Differ(x)' => \E q \in Mind : Between(q, x)'
      BY <1>2, <1>3, <1>6, <3>1, DriftIsOwned
    <3>3. CASE MindTo(m, "upkeep-fails")
      BY <1>2, <1>5, <3>2, <3>3, MindGoes, RestIsOK, CorpusIsDiffer
    <3>4. CASE MindTo(m, "over")
      BY <1>2, <1>5, <3>2, <3>4, MindOver, RestIsOK, CorpusIsDiffer
    <3> QED BY <1>2, <2>2, <3>3, <3>4
  <2> QED BY <2>1, <2>2
<1>8. \A c \in Candidate : ~Decides(m, c) /\ c \notin written' \ written
  BY <1>2 DEF Decides
<1>9. drifting' \in BOOLEAN /\ written \subseteq written' /\ archived \subseteq archived'
  BY <1>2
<1> QED BY <1>2, <1>3, <1>7, <1>8, <1>9, CorpusMoves

LEMMA DropFromIndexKeeps ==
    ASSUME MemoryInv, NEW m \in Mind, DropFromIndex(m)
    PROVE  MemoryInv'
<1>1. PICK e : e = mind[m].entry
  OBVIOUS
<1>2. /\ mind[m].at = "drop" /\ MemoryTypes /\ CorpusInv
      /\ indexed' = indexed \ {e} /\ drifting' = (drifting \/ e \in documents)
      /\ MindTo(m, IF mind[m].upkeep THEN "audited" ELSE "over")
      /\ UNCHANGED <<documents, archived, written>> /\ UNCHANGED reviews /\ drifting \in BOOLEAN
  BY <1>1 DEF DropFromIndex, MemoryInv, MindIs, MemoryTypes
<1>3. OtherMinds(m) /\ MindTyped(m)'
  BY <1>2, MindWent
<1>4. CorpusInv'
  <2>1. ~drifting' => \A x : Differ(x)' => Differ(x)
    BY <1>2 DEF Differ
  <2>2. ~drifting' => \A x : Differ(x)' => ~Between(m, x)
    BY <1>1, <1>2 DEF Differ, Between
  <2>3. \A x : ~drifting' /\ Differ(x)' => \E q \in Mind : Between(q, x)'
    BY <1>2, <1>3, <2>1, <2>2, DriftIsOwned
  <2>4. documents' \subseteq written' /\ written' \subseteq documents' \union archived'
    BY <1>2 DEF CorpusInv
  <2> QED BY <2>3, <2>4, CorpusIsDiffer
<1>5. MindOK(m)'
  <2>1. CASE MindTo(m, "audited")
    BY <1>2, <2>1, MindGoes, RestIsOK
  <2>2. CASE MindTo(m, "over")
    BY <1>2, <2>2, MindOver, RestIsOK
  <2> QED BY <1>2, <2>1, <2>2
<1>6. \A c \in Candidate : ~Decides(m, c) /\ c \notin written' \ written
  BY <1>2 DEF Decides
<1>7. drifting' \in BOOLEAN /\ written \subseteq written' /\ archived \subseteq archived'
  BY <1>2
<1> QED BY <1>2, <1>3, <1>4, <1>5, <1>6, <1>7, CorpusMoves

LEMMA ReplaceIndexKeeps ==
    ASSUME MemoryInv, NEW m \in Mind, ReplaceIndex(m)
    PROVE  MemoryInv'
<1> DEFINE unsettled == {mind[n].entry : n \in {n \in Mind : mind[n].at \in {"index", "drop"}}}
           read == mind[m].set
<1>1. /\ mind[m].at = "replace" /\ MemoryTypes /\ CorpusInv
      /\ indexed' = read
      /\ drifting' = ~(((read \ documents) \union (documents \ read)) \subseteq unsettled)
      /\ MindTo(m, IF mind[m].upkeep THEN "upkeep-done" ELSE "over")
      /\ UNCHANGED <<documents, archived, written>> /\ UNCHANGED reviews
  BY DEF ReplaceIndex, MemoryInv, MindIs, MemoryTypes
<1>2. OtherMinds(m) /\ MindTyped(m)'
  BY <1>1, MindWent
<1>3. CorpusInv'
  <2>1. ASSUME NEW x, ~drifting', Differ(x)' PROVE \E q \in Mind : Between(q, x)'
    <3>1. x \in unsettled
      BY <1>1, <2>1 DEF Differ
    <3>2. PICK q \in Mind : mind[q].at \in {"index", "drop"} /\ mind[q].entry = x
      BY <3>1
    <3>3. q # m
      BY <1>1, <3>2
    <3> QED BY <1>2, <3>2, <3>3 DEF OtherMinds, Between
  <2>2. documents' \subseteq written' /\ written' \subseteq documents' \union archived'
    BY <1>1 DEF CorpusInv
  <2> QED BY <2>1, <2>2, CorpusIsDiffer
<1>4. MindOK(m)'
  <2>1. CASE MindTo(m, "upkeep-done")
    BY <1>1, <2>1, MindGoes, RestIsOK
  <2>2. CASE MindTo(m, "over")
    BY <1>1, <2>2, MindOver, RestIsOK
  <2> QED BY <1>1, <2>1, <2>2
<1>5. \A c \in Candidate : ~Decides(m, c) /\ c \notin written' \ written
  BY <1>1 DEF Decides
<1>6. drifting' \in BOOLEAN /\ written \subseteq written' /\ archived \subseteq archived'
  BY <1>1
<1> QED BY <1>1, <1>2, <1>3, <1>4, <1>5, <1>6, CorpusMoves

-----------------------------------------------------------------------------
\* Steps that write the reviews

\* which the mover decided, staged or gave back, and what it may have promoted
LEMMA ReviewsMove ==
    ASSUME MemoryInv, NEW m \in Mind \union {NoMind}, UNCHANGED corpus, MemoryTypes',
           OtherMinds(m), m \in Mind => MindOK(m)' /\ mind[m].at \notin {"index", "drop"},
           ReviewsKeep(m), torn \subseteq torn',
           NEW P \in SUBSET Candidate, \A c \in P : Remembered(c),
           \A c \in Candidate :
             /\ candidate'[c] = "promoted" => candidate[c] = "promoted" \/ c \in P
             /\ m \in Mind /\ Decides(m, c) =>
                  c \in torn' \/ candidate'[c] = "promoted" \/ Decides(m, c)'
             /\ proposal'[c] \in {proposal[c], "none", "staged"}
                  \/ (proposal'[c] = "accepted" /\ candidate[c] = "promoted")
                  \/ (proposal'[c] = "rejected" /\ candidate[c] = "rejected")
    PROVE  MemoryInv'
<1>1. UNCHANGED <<documents, indexed, archived, written, drifting>>
  BY DEF corpus
<1>2. CorpusInv'
  <2>1. ASSUME NEW x, ~drifting, Differ(x)
        PROVE  \E q \in Mind : Between(q, x)'
    <3>1. PICK q \in Mind : Between(q, x)
      BY <2>1 DEF MemoryInv, CorpusInv, Differ, Between
    <3>2. q # m
      BY <3>1 DEF Between
    <3> QED BY <3>1, <3>2 DEF OtherMinds, Between
  <2>2. \A x : Differ(x)' => Differ(x)
    BY <1>1 DEF Differ
  <2>3. documents' \subseteq written' /\ written' \subseteq documents' \union archived'
    BY <1>1 DEF MemoryInv, CorpusInv
  <2> QED BY <1>1, <2>1, <2>2, <2>3, CorpusIsDiffer
<1>3. Grows
  BY <1>1 DEF Grows
<1>4. \A c \in P : Remembered(c)'
  BY <1>1 DEF Remembered
<1>5. \A c \in Candidate : c \notin written' \ written
  BY <1>1
<1> QED BY <1>2, <1>3, <1>4, <1>5, MindsMove

\* the same of a step that promotes nothing and leaves the proposals, by one who is not deciding
LEMMA ReviewsStep ==
    ASSUME MemoryInv, NEW m \in Mind \union {NoMind}, UNCHANGED corpus, MemoryTypes',
           OtherMinds(m),
           m \in Mind => MindOK(m)' /\ mind[m].at \notin {"index", "drop", "decide", "give-back"},
           ReviewsKeep(m), torn' = torn,
           \A c \in Candidate :
             /\ candidate'[c] \in {candidate[c], "staged", "reviewing"}
             /\ proposal'[c] \in {proposal[c], "staged"}
    PROVE  MemoryInv'
<1> DEFINE P == {}
<1>1. P \in SUBSET Candidate /\ \A c \in P : Remembered(c)
  OBVIOUS
<1>2. \A c \in Candidate : m \in Mind => ~Decides(m, c)
  BY DEF Decides
<1>3. \A c \in Candidate : candidate'[c] = "promoted" => candidate[c] = "promoted"
  OBVIOUS
<1>4. \A c \in Candidate : proposal'[c] \in {proposal[c], "none", "staged"}
  OBVIOUS
<1> HIDE DEF P
<1> QED BY <1>1, <1>2, <1>3, <1>4, ReviewsMove

LEMMA StageCandidateKeeps ==
    ASSUME MemoryInv, NEW c \in Candidate, StageCandidate(c)
    PROVE  MemoryInv'
<1>1. /\ UNCHANGED corpus /\ MemoryTypes /\ UNCHANGED mind /\ candidate[c] = "none"
      /\ UNCHANGED <<proposal, reviewer, parent, torn>> /\ UNCHANGED drifting
      /\ candidate' = [candidate EXCEPT ![c] = "staged"]
  BY DEF StageCandidate, MemoryInv, corpus
<1>2. OtherMinds(NoMind)
  BY <1>1, NoMindIsNobody DEF OtherMinds, MemoryTypes
<1>3. MemoryTypes'
  BY <1>1 DEF MemoryTypes, MindTyped, CandidateStates
<1>4. ReviewsKeep(NoMind)
  BY <1>1 DEF ReviewsKeep, MemoryTypes
<1>5. \A x \in Candidate : candidate'[x] \in {candidate[x], "staged", "reviewing"}
                           /\ proposal'[x] \in {proposal[x], "staged"}
  BY <1>1 DEF MemoryTypes
<1> QED BY <1>1, <1>2, <1>3, <1>4, <1>5, NoMindIsNobody, ReviewsStep

LEMMA LinkProposalKeeps ==
    ASSUME MemoryInv, NEW c \in Candidate, LinkProposal(c)
    PROVE  MemoryInv'
<1>1. /\ UNCHANGED corpus /\ MemoryTypes /\ UNCHANGED mind
      /\ UNCHANGED <<candidate, reviewer, parent, torn>> /\ UNCHANGED drifting
      /\ proposal' = [proposal EXCEPT ![c] = "staged"]
  BY DEF LinkProposal, MemoryInv, corpus
<1>2. OtherMinds(NoMind)
  BY <1>1, NoMindIsNobody DEF OtherMinds, MemoryTypes
<1>3. MemoryTypes'
  BY <1>1 DEF MemoryTypes, MindTyped
<1>4. ReviewsKeep(NoMind)
  BY <1>1 DEF ReviewsKeep
<1>5. \A x \in Candidate : candidate'[x] \in {candidate[x], "staged", "reviewing"}
                           /\ proposal'[x] \in {proposal[x], "staged"}
  BY <1>1 DEF MemoryTypes
<1> QED BY <1>1, <1>2, <1>3, <1>4, <1>5, NoMindIsNobody, ReviewsStep

LEMMA RecoverUpkeepKeeps ==
    ASSUME MemoryInv, UNCHANGED <<corpus, reviews, mind>>
    PROVE  MemoryInv'
<1>1. /\ UNCHANGED corpus /\ MemoryTypes /\ UNCHANGED mind
      /\ UNCHANGED <<candidate, reviewer, proposal, parent, torn>> /\ UNCHANGED drifting
  BY DEF MemoryInv, corpus, reviews
<1>2. OtherMinds(NoMind)
  BY <1>1, NoMindIsNobody DEF OtherMinds, MemoryTypes
<1>3. MemoryTypes'
  BY <1>1 DEF MemoryTypes, MindTyped
<1>4. ReviewsKeep(NoMind)
  BY <1>1 DEF ReviewsKeep
<1> QED BY <1>1, <1>2, <1>3, <1>4, NoMindIsNobody, ReviewsStep

LEMMA ReflectKeeps ==
    ASSUME MemoryInv, NEW m \in Mind, NEW c \in Candidate, Reflect(m, c)
    PROVE  MemoryInv'
<1>1. /\ UNCHANGED corpus /\ MemoryTypes /\ mind[m].at = "rest" /\ candidate[c] = "none"
      /\ UNCHANGED <<proposal, reviewer, parent, torn>> /\ UNCHANGED drifting
      /\ candidate' = [candidate EXCEPT ![c] = "staged"]
      /\ mind' = [mind EXCEPT ![m] = [MindAtRest EXCEPT !.at = "upkeep-done", !.upkeep = TRUE]]
  BY DEF Reflect, MemoryInv, corpus, MindIs
<1>2. mind'[m] = [at |-> "upkeep-done", entry |-> NoMind, promote |-> FALSE, forParent |-> FALSE,
                  upkeep |-> TRUE, late |-> FALSE, set |-> {}]
  BY <1>1 DEF MemoryTypes, MindAtRest
<1>3. OtherMinds(m)
  BY <1>1 DEF MemoryTypes, OtherMinds
<1>4. MindTyped(m)' /\ mind'[m].at = "upkeep-done"
  BY <1>2, MindFields DEF MindTyped
<1>5. MindOK(m)'
  BY <1>4, RestIsOK
<1>6. MemoryTypes'
  <2>1. DOMAIN mind' = Mind /\ \A q \in Mind : MindTyped(q)'
    BY <1>1, <1>3, <1>4, TypesMove
  <2> QED BY <1>1, <2>1 DEF MemoryTypes, CandidateStates
<1>7. ReviewsKeep(m)
  BY <1>1 DEF ReviewsKeep, MemoryTypes
<1>8. \A x \in Candidate : candidate'[x] \in {candidate[x], "staged", "reviewing"}
                           /\ proposal'[x] \in {proposal[x], "staged"}
  BY <1>1 DEF MemoryTypes
<1> QED BY <1>1, <1>3, <1>5, <1>6, <1>7, <1>8, ReviewsStep

LEMMA ReviewProposalKeeps ==
    ASSUME MemoryInv, NEW m \in Mind, NEW c \in Candidate, NEW promote \in BOOLEAN,
           ReviewProposal(m, c, promote)
    PROVE  MemoryInv'
<1>1. /\ UNCHANGED corpus /\ MemoryTypes /\ mind[m].at = "rest"
      /\ UNCHANGED <<candidate, proposal, reviewer, torn>> /\ UNCHANGED drifting
      /\ parent' = [parent EXCEPT ![c] = m]
      /\ mind' = [mind EXCEPT ![m] = [MindAtRest EXCEPT !.at = "look", !.entry = c, !.promote = promote, !.forParent = TRUE]]
  BY DEF ReviewProposal, MemoryInv, corpus, MindIs
<1>2. mind'[m] = [at |-> "look", entry |-> c, promote |-> promote, forParent |-> TRUE,
                  upkeep |-> FALSE, late |-> FALSE, set |-> {}]
  BY <1>1 DEF MemoryTypes, MindAtRest
<1>3. OtherMinds(m)
  BY <1>1 DEF MemoryTypes, OtherMinds
<1>4. MindTyped(m)' /\ mind'[m].at = "look" /\ mind'[m].entry = c /\ ~mind'[m].upkeep
  BY <1>2, MindFields DEF MindTyped
<1>5. MindOK(m)'
  BY <1>4 DEF MindOK, Reviewing, Promoting
<1>6. MemoryTypes'
  <2>1. DOMAIN mind' = Mind /\ \A q \in Mind : MindTyped(q)'
    BY <1>1, <1>3, <1>4, TypesMove
  <2> QED BY <1>1, <2>1 DEF MemoryTypes
<1>7. ReviewsKeep(m)
  BY <1>1 DEF ReviewsKeep
<1>8. \A x \in Candidate : candidate'[x] \in {candidate[x], "staged", "reviewing"}
                           /\ proposal'[x] \in {proposal[x], "staged"}
  BY <1>1
<1> QED BY <1>1, <1>3, <1>5, <1>6, <1>7, <1>8, ReviewsStep

LEMMA ClaimReviewKeeps ==
    ASSUME MemoryInv, NEW m \in Mind, ClaimReview(m)
    PROVE  MemoryInv'
<1>1. PICK c, p : c = mind[m].entry /\ p = mind[m].promote
  OBVIOUS
<1>2. /\ UNCHANGED corpus /\ MemoryTypes /\ mind[m].at = "claim" /\ MindOK(m)
      /\ UNCHANGED <<proposal, parent, torn>> /\ UNCHANGED drifting
  BY DEF ClaimReview, MemoryInv, corpus, MindIs
<1>3. c \in Candidate /\ ~mind[m].upkeep
  BY <1>1, <1>2 DEF MindOK, Reviewing
<1>4. CASE UNCHANGED <<candidate, reviewer>> /\ MindTo(m, "refused")
  <2>1. UNCHANGED reviews /\ Idle(m)
    BY <1>2, <1>4 DEF reviews, Idle
  <2> QED BY <1>2, <1>4, <2>1, MindLetsGo
<1>5. ASSUME Undecided(c), reviewer[c] = NoMind,
             candidate' = [candidate EXCEPT ![c] = "reviewing"], reviewer' = [reviewer EXCEPT ![c] = m],
             MindTo(m, IF mind[m].promote THEN "remember" ELSE "decide")
      PROVE  MemoryInv'
  <2>1. /\ OtherMinds(m) /\ MindTyped(m)' /\ mind'[m].entry = c /\ mind'[m].promote = p
        /\ mind'[m].upkeep = mind[m].upkeep
        /\ mind'[m].at = IF p THEN "remember" ELSE "decide"
    BY <1>1, <1>2, <1>5, MindGoes
  <2>2. MemoryTypes'
    <3>1. DOMAIN mind' = Mind /\ \A q \in Mind : MindTyped(q)'
      BY <1>2, <2>1, TypesMove
    <3> QED BY <1>2, <1>3, <1>5, <3>1 DEF MemoryTypes, CandidateStates
  <2>3. candidate'[c] = "reviewing" /\ reviewer'[c] = m
    BY <1>2, <1>3, <1>5 DEF MemoryTypes
  <2>4. MindOK(m)'
    BY <1>3, <2>1, <2>3 DEF MindOK, Reviewing, Promoting
  <2>5. ReviewsKeep(m)
    BY <1>2, <1>5, NoMindIsNobody DEF ReviewsKeep, Undecided, MemoryTypes
  <2>6. \A x \in Candidate : candidate'[x] \in {candidate[x], "staged", "reviewing"}
                             /\ proposal'[x] \in {proposal[x], "staged"}
    BY <1>2, <1>5 DEF MemoryTypes
  <2> QED BY <1>2, <2>1, <2>2, <2>4, <2>5, <2>6, ReviewsStep
<1> QED BY <1>1, <1>4, <1>5 DEF ClaimReview

LEMMA DecideCandidateKeeps ==
    ASSUME MemoryInv, NEW m \in Mind, DecideCandidate(m)
    PROVE  MemoryInv'
<1>1. PICK c, p : c = mind[m].entry /\ p = mind[m].promote
  OBVIOUS
<1>2. /\ UNCHANGED corpus /\ MemoryTypes /\ mind[m].at = "decide" /\ MindOK(m)
      /\ UNCHANGED <<proposal, parent, torn>> /\ UNCHANGED drifting
  BY DEF DecideCandidate, MemoryInv, corpus, MindIs
<1>3. /\ c \in Candidate /\ ~mind[m].upkeep /\ candidate[c] = "reviewing" /\ reviewer[c] = m
      /\ p => Remembered(c)
  BY <1>1, <1>2 DEF MindOK, Reviewing
<1>4. \A x \in Candidate : Decides(m, x) => x = c /\ p
  BY <1>1 DEF Decides
<1>5. ASSUME candidate' = [candidate EXCEPT ![c] = IF mind[m].promote THEN "promoted" ELSE "rejected"],
             reviewer' = [reviewer EXCEPT ![c] = NoMind],
             MindTo(m, IF mind[m].forParent THEN "settle" ELSE "over")
      PROVE  MemoryInv'
  <2>1. OtherMinds(m) /\ MindTyped(m)'
    BY <1>2, <1>5, MindWent
  <2>2. MemoryTypes'
    <3>1. DOMAIN mind' = Mind /\ \A q \in Mind : MindTyped(q)'
      BY <1>2, <2>1, TypesMove
    <3> QED BY <1>2, <1>3, <1>5, <3>1 DEF MemoryTypes, CandidateStates
  <2>3. candidate'[c] = IF p THEN "promoted" ELSE "rejected"
    BY <1>1, <1>2, <1>3, <1>5 DEF MemoryTypes
  <2>4. MindOK(m)'
    <3>1. CASE MindTo(m, "settle")
      <4>1. mind'[m].at = "settle" /\ mind'[m].entry = c /\ mind'[m].promote = p /\ ~mind'[m].upkeep
        BY <1>1, <1>2, <1>3, <3>1, MindGoes
      <4> QED BY <1>3, <2>3, <4>1 DEF MindOK, Reviewing, Promoting
    <3>2. CASE MindTo(m, "over")
      BY <1>2, <3>2, MindOver, RestIsOK
    <3> QED BY <1>5, <3>1, <3>2
  <2>5. ReviewsKeep(m)
    BY <1>2, <1>3, <1>5 DEF ReviewsKeep, MemoryTypes
  <2> DEFINE P == {x \in Candidate : x = c /\ p}
  <2>6. P \in SUBSET Candidate /\ \A x \in P : Remembered(x)
    BY <1>3
  <2>7. \A x \in Candidate : candidate'[x] = "promoted" => candidate[x] = "promoted" \/ x \in P
    BY <1>2, <1>5, <2>3 DEF MemoryTypes
  <2>8. \A x \in Candidate : Decides(m, x) => candidate'[x] = "promoted"
    BY <1>4, <2>3
  <2>9. m \in Mind => MindOK(m)' /\ mind[m].at \notin {"index", "drop"}
    BY <1>2, <2>4
  <2> HIDE DEF P
  <2> QED BY <1>2, <2>1, <2>2, <2>5, <2>6, <2>7, <2>8, <2>9, ReviewsMove
<1>6. ASSUME UNCHANGED <<candidate, reviewer>>,
             MindTo(m, IF mind[m].promote THEN "give-back" ELSE "refused")
      PROVE  MemoryInv'
  <2>1. /\ OtherMinds(m) /\ MindTyped(m)' /\ mind'[m].entry = c /\ mind'[m].promote = p
        /\ mind'[m].upkeep = mind[m].upkeep
        /\ mind'[m].at = IF p THEN "give-back" ELSE "refused"
    BY <1>1, <1>2, <1>6, MindGoes
  <2>2. MemoryTypes'
    <3>1. DOMAIN mind' = Mind /\ \A q \in Mind : MindTyped(q)'
      BY <1>2, <2>1, TypesMove
    <3> QED BY <1>2, <1>6, <3>1 DEF MemoryTypes
  <2>3. MindOK(m)'
    BY <1>3, <1>6, <2>1 DEF MindOK, Reviewing, Promoting
  <2>4. ReviewsKeep(m)
    BY <1>6 DEF ReviewsKeep
  <2>5. \A x \in Candidate : Decides(m, x) => Decides(m, x)'
    BY <1>3, <1>4, <1>6, <2>1 DEF Decides
  <2> DEFINE P == {}
  <2>6. P \in SUBSET Candidate /\ \A x \in P : Remembered(x)
    OBVIOUS
  <2>7. m \in Mind => MindOK(m)' /\ mind[m].at \notin {"index", "drop"}
    BY <1>2, <2>3
  <2> HIDE DEF P
  <2> QED BY <1>2, <1>6, <2>1, <2>2, <2>4, <2>5, <2>6, <2>7, ReviewsMove
<1> QED BY <1>1, <1>5, <1>6 DEF DecideCandidate

LEMMA GiveReviewBackKeeps ==
    ASSUME MemoryInv, NEW m \in Mind, GiveReviewBack(m)
    PROVE  MemoryInv'
<1>1. PICK c : c = mind[m].entry
  OBVIOUS
<1>2. /\ UNCHANGED corpus /\ MemoryTypes /\ mind[m].at = "give-back" /\ MindOK(m)
      /\ UNCHANGED <<proposal, parent>> /\ UNCHANGED drifting /\ torn' = torn \union {c}
      /\ MindTo(m, "refused")
  BY <1>1 DEF GiveReviewBack, MemoryInv, corpus, MindIs
<1>3. c \in Candidate /\ candidate[c] = "reviewing" /\ reviewer[c] = m
  BY <1>1, <1>2 DEF MindOK, Promoting
<1>4. candidate' = [candidate EXCEPT ![c] = "staged"] /\ reviewer' = [reviewer EXCEPT ![c] = NoMind]
  BY <1>1, <1>3 DEF GiveReviewBack
<1>5. OtherMinds(m) /\ MindTyped(m)' /\ mind'[m].at = "refused"
  BY <1>2, MindGoes
<1>6. MindOK(m)' /\ mind[m].at \notin {"index", "drop"}
  BY <1>2, <1>5, RestIsOK
<1>7. MemoryTypes'
  <2>1. DOMAIN mind' = Mind /\ \A q \in Mind : MindTyped(q)'
    BY <1>2, <1>5, TypesMove
  <2> QED BY <1>2, <1>3, <1>4, <2>1 DEF MemoryTypes, CandidateStates
<1>8. ReviewsKeep(m)
  BY <1>2, <1>3, <1>4 DEF ReviewsKeep, MemoryTypes
<1>9. \A x \in Candidate : Decides(m, x) => x \in torn'
  BY <1>1, <1>2 DEF Decides
<1>10. \A x \in Candidate : candidate'[x] = "promoted" => candidate[x] = "promoted"
  BY <1>2, <1>4 DEF MemoryTypes
<1> DEFINE P == {}
<1>11. P \in SUBSET Candidate /\ \A x \in P : Remembered(x)
  OBVIOUS
<1>12. torn \subseteq torn'
  BY <1>2
<1> HIDE DEF P
<1> QED BY <1>2, <1>5, <1>6, <1>7, <1>8, <1>9, <1>10, <1>11, <1>12, ReviewsMove

LEMMA SettleKeeps ==
    ASSUME MemoryInv, NEW m \in Mind, Settle(m)
    PROVE  MemoryInv'
<1>1. PICK c, p : c = mind[m].entry /\ p = mind[m].promote
  OBVIOUS
<1>2. /\ UNCHANGED corpus /\ MemoryTypes /\ mind[m].at = "settle" /\ MindOK(m)
      /\ UNCHANGED <<candidate, reviewer, torn>> /\ UNCHANGED drifting
  BY DEF Settle, MemoryInv, corpus, MindIs
<1>3. c \in Candidate /\ candidate[c] = IF p THEN "promoted" ELSE "rejected"
  BY <1>1, <1>2 DEF MindOK
<1>4. CASE MindTo(m, "refused") /\ UNCHANGED <<proposal, parent>>
  <2>1. UNCHANGED reviews /\ Idle(m)
    BY <1>2, <1>4 DEF reviews, Idle
  <2> QED BY <1>2, <1>4, <2>1, MindLetsGo
<1>5. ASSUME proposal' = [proposal EXCEPT ![c] = IF mind[m].promote THEN "accepted" ELSE "rejected"],
             parent' = [parent EXCEPT ![c] = NoMind], MindTo(m, "over")
      PROVE  MemoryInv'
  <2>1. OtherMinds(m) /\ MindTyped(m)' /\ MindOK(m)'
    BY <1>2, <1>5, MindOver, RestIsOK
  <2>2. MemoryTypes'
    <3>1. DOMAIN mind' = Mind /\ \A q \in Mind : MindTyped(q)'
      BY <1>2, <2>1, TypesMove
    <3> QED BY <1>2, <1>3, <1>5, <3>1 DEF MemoryTypes
  <2>3. ReviewsKeep(m)
    BY <1>2 DEF ReviewsKeep
  <2>4. \A x \in Candidate : \/ proposal'[x] \in {proposal[x], "none", "staged"}
                             \/ proposal'[x] = "accepted" /\ candidate[x] = "promoted"
                             \/ proposal'[x] = "rejected" /\ candidate[x] = "rejected"
    BY <1>1, <1>2, <1>3, <1>5 DEF MemoryTypes
  <2>5. \A x \in Candidate : ~Decides(m, x)
    BY <1>2 DEF Decides
  <2> DEFINE P == {}
  <2>6. P \in SUBSET Candidate /\ \A x \in P : Remembered(x)
    OBVIOUS
  <2>7. m \in Mind => MindOK(m)' /\ mind[m].at \notin {"index", "drop"}
    BY <1>2, <2>1
  <2> HIDE DEF P
  <2> QED BY <1>2, <2>1, <2>2, <2>3, <2>4, <2>5, <2>6, <2>7, ReviewsMove
<1> QED BY <1>1, <1>4, <1>5 DEF Settle

LEMMA RefusedKeeps ==
    ASSUME MemoryInv, NEW m \in Mind, Refused(m)
    PROVE  MemoryInv'
<1>1. /\ UNCHANGED corpus /\ MemoryTypes /\ mind[m].at = "refused"
      /\ UNCHANGED <<candidate, reviewer, proposal, torn>> /\ UNCHANGED drifting
      /\ parent' = [c \in Candidate |-> IF parent[c] = m THEN NoMind ELSE parent[c]]
      /\ MindTo(m, "over")
  BY DEF Refused, MemoryInv, corpus, MindIs
<1>2. OtherMinds(m) /\ MindTyped(m)' /\ MindOK(m)'
  BY <1>1, MindOver, RestIsOK
<1>3. MemoryTypes'
  <2>1. DOMAIN mind' = Mind /\ \A q \in Mind : MindTyped(q)'
    BY <1>1, <1>2, TypesMove
  <2> QED BY <1>1, <2>1 DEF MemoryTypes
<1>4. ReviewsKeep(m)
  BY <1>1 DEF ReviewsKeep
<1>5. \A x \in Candidate : candidate'[x] \in {candidate[x], "staged", "reviewing"}
                           /\ proposal'[x] \in {proposal[x], "staged"}
  BY <1>1
<1> QED BY <1>1, <1>2, <1>3, <1>4, <1>5, ReviewsStep

\* a process that ends: what it was about is recorded
LEMMA MindGoneKeeps ==
    ASSUME MemoryInv, NEW m \in Mind, MindGone(m)
    PROVE  MemoryInv'
<1>1. /\ MemoryTypes /\ CorpusInv
      /\ UNCHANGED <<documents, indexed, archived, written, candidate, proposal>>
      /\ mind' = [mind EXCEPT ![m] = MindAtRest]
      /\ reviewer' = [c \in Candidate |-> IF reviewer[c] = m THEN NoMind ELSE reviewer[c]]
      /\ parent' = [c \in Candidate |-> IF parent[c] = m THEN NoMind ELSE parent[c]]
      /\ torn' = torn \union {c \in Candidate : c = mind[m].entry /\ reviewer[c] = m}
      /\ drifting' = (drifting \/ mind[m].at \in {"index", "drop"})
  BY DEF MindGone, MemoryInv
<1>2. OtherMinds(m) /\ MindTyped(m)' /\ MindOK(m)'
  BY <1>1, MindRests, RestIsOK
<1>3. MemoryTypes'
  <2>1. DOMAIN mind' = Mind /\ \A q \in Mind : MindTyped(q)'
    BY <1>1, <1>2, TypesMove
  <2>2. drifting' \in BOOLEAN
    BY <1>1
  <2> QED BY <1>1, <2>1, <2>2 DEF MemoryTypes
<1>4. CorpusInv'
  <2>1. \A x : Differ(x)' => Differ(x)
    BY <1>1 DEF Differ
  <2>2. ~drifting' => ~drifting /\ \A x : ~Between(m, x)
    BY <1>1 DEF Between
  <2>3. \A x : ~drifting' /\ Differ(x)' => \E q \in Mind : Between(q, x)'
    BY <1>1, <1>2, <2>1, <2>2, DriftIsOwned
  <2>4. documents' \subseteq written' /\ written' \subseteq documents' \union archived'
    BY <1>1 DEF CorpusInv
  <2> QED BY <2>3, <2>4, CorpusIsDiffer
<1>5. ReviewsKeep(m) /\ Grows
  BY <1>1 DEF ReviewsKeep, Grows
<1>6. \A c \in Candidate : Decides(m, c) => c \in torn'
  BY <1>1 DEF Decides
<1> DEFINE P == {}
<1>7. P \in SUBSET Candidate /\ \A c \in P : Remembered(c)'
  OBVIOUS
<1>8. \A c \in Candidate : c \notin written' \ written /\ candidate'[c] = candidate[c]
                           /\ proposal'[c] = proposal[c]
  BY <1>1
<1> HIDE DEF P
<1> QED BY <1>2, <1>3, <1>4, <1>5, <1>6, <1>7, <1>8, MindsMove

-----------------------------------------------------------------------------
LEMMA MemoryStarts == MemoryInit => MemoryInv
<1> SUFFICES ASSUME MemoryInit PROVE MemoryInv
  OBVIOUS
<1>1. ASSUME NEW m \in Mind
      PROVE  MindTyped(m) /\ mind[m].at = "rest"
  <2>1. mind[m] = [at |-> "rest", entry |-> NoMind, promote |-> FALSE, forParent |-> FALSE,
                   upkeep |-> FALSE, late |-> FALSE, set |-> {}]
    BY DEF MemoryInit, MindAtRest
  <2> QED BY <2>1, MindFields DEF MindTyped
<1>2. MemoryTypes
  <2>1. proposal = [c \in Candidate |-> "none"] /\ parent = [c \in Candidate |-> NoMind]
        /\ candidate = [c \in Candidate |-> "none"] /\ reviewer = [c \in Candidate |-> NoMind]
        /\ drifting = FALSE /\ DOMAIN mind = Mind
    BY DEF MemoryInit
  <2> QED BY <1>1, <2>1 DEF MemoryTypes, CandidateStates
<1>3. CorpusInv
  BY DEF MemoryInit, CorpusInv
<1>4. \A m \in Mind : MindOK(m)
  BY <1>1 DEF MindOK, Reviewing, Promoting
<1>5. \A c \in Candidate : CandidateInv(c)
  BY DEF MemoryInit, CandidateInv
<1> QED BY <1>2, <1>3, <1>4, <1>5 DEF MemoryInv

LEMMA MemorySteps == MemoryInv /\ [MemoryNext]_memoryVars => MemoryInv'
<1> SUFFICES ASSUME MemoryInv, [MemoryNext]_memoryVars PROVE MemoryInv'
  OBVIOUS
<1>1. CASE RecoverUpkeep
  BY <1>1, RecoverUpkeepKeeps DEF RecoverUpkeep
<1>2. CASE \E c \in Candidate : StageCandidate(c) \/ LinkProposal(c)
  BY <1>2, StageCandidateKeeps, LinkProposalKeeps
<1>3. ASSUME NEW m \in Mind,
             \/ \E e \in UserEntry : Remember(m, e)
             \/ \E e \in Entry : Forget(m, e)
             \/ RebuildIndex(m)
      PROVE  MemoryInv'
  BY <1>3, BeginningsKeep
<1>4. ASSUME NEW m \in Mind, \E c \in Candidate : Reflect(m, c)
      PROVE  MemoryInv'
  BY <1>4, ReflectKeeps
<1>5. ASSUME NEW m \in Mind,
             \E c \in Candidate, promote \in BOOLEAN : Review(m, c, promote) \/ ReviewProposal(m, c, promote)
      PROVE  MemoryInv'
  BY <1>5, ReviewKeeps, ReviewProposalKeeps
<1>6. ASSUME NEW m \in Mind,
             FindDuplicate(m) \/ WriteDocument(m) \/ IndexDocument(m) \/ Archive(m) \/ Unlink(m)
               \/ DropFromIndex(m) \/ ReplaceIndex(m)
      PROVE  MemoryInv'
  BY <1>6, FindDuplicateKeeps, WriteDocumentKeeps, IndexDocumentKeeps, ArchiveKeeps, UnlinkKeeps,
     DropFromIndexKeeps, ReplaceIndexKeeps
<1>7. ASSUME NEW m \in Mind,
             ClaimReview(m) \/ DecideCandidate(m) \/ GiveReviewBack(m) \/ LookAtCandidate(m)
               \/ Settle(m) \/ Refused(m)
      PROVE  MemoryInv'
  BY <1>7, ClaimReviewKeeps, DecideCandidateKeeps, GiveReviewBackKeeps, LookAtCandidateKeeps,
     SettleKeeps, RefusedKeeps
<1>8. ASSUME NEW m \in Mind,
             ReadDocuments(m) \/ Maintain(m) \/ Audit(m) \/ ForgetExpired(m) \/ FinishUpkeep(m)
               \/ MindGone(m) \/ LeasesExpire(m)
      PROVE  MemoryInv'
  BY <1>8, MindNotesKeep, UpkeepKeeps, MindGoneKeeps
<1>9. CASE UNCHANGED memoryVars
  BY <1>9, RecoverUpkeepKeeps DEF memoryVars
<1> QED BY <1>1, <1>2, <1>3, <1>4, <1>5, <1>6, <1>7, <1>8, <1>9 DEF MemoryNext

LEMMA MemoryInvariant == MemorySpec => []MemoryInv
  BY MemoryStarts, MemorySteps, PTL DEF MemorySpec

\* memory.py, memory_maintenance.py and review_child_memory: nothing that was
\* remembered is lost, a candidate and the proposal it came from are decided
\* alike and only once, and the index follows the files, for any number of
\* processes, candidates and entries and any number of deaths and expiries
THEOREM MemoryIsKept == MemorySpec => []MemoryKeepsItsWord
<1>1. ASSUME MemoryInv PROVE MemoryKeepsItsWord
  <2>1. written \subseteq documents \union archived
    BY <1>1 DEF MemoryInv, CorpusInv
  <2>2. ASSUME NEW c \in Candidate
        PROVE  /\ candidate[c] = "promoted" => \E e \in written : TextOf[e] = TextOf[c]
               /\ candidate[c] = "rejected" /\ c \in written => c \in torn
               /\ proposal[c] = "accepted" => candidate[c] = "promoted"
               /\ proposal[c] = "rejected" => candidate[c] = "rejected"
    BY <1>1 DEF MemoryInv, CandidateInv, Decides, Remembered
  <2>3. drifting \/ indexed = documents \/ \E m \in Mind : mind[m].at \in {"index", "drop"}
    BY <1>1 DEF MemoryInv, CorpusInv
  <2> QED BY <2>1, <2>2, <2>3 DEF MemoryKeepsItsWord
<1> QED BY <1>1, MemoryInvariant, PTL
=============================================================================
