--------------------------- MODULE SchedulerProofs ---------------------------
(***************************************************************************)
(* What the durable scheduler promises for every set of schedules, passes  *)
(* and processes, every limit and every interval, whatever users edit and  *)
(* whichever processes die.                                                *)
(***************************************************************************)
EXTENDS Scheduler, FiniteSetTheorems, WellFoundedInduction, TLAPS

RunStates == {"claimed", "running", "skipped", "succeeded", "failed"}
Visiting == {"observe", "saw true", "saw false", "advance", "claim"}
Busy == {"enter", "run", "finish succeeded", "finish failed"}
Labels == Visiting \union Busy \union
          {"off", "over", "recover", "list", "visit", "fetch", "start", "sleep", "wait"}

\* Each run has its three columns, and what a pass remembers is a run or a
\* schedule.
SchedulerTyped ==
    /\ proc \in [Process -> {"alive", "gone"}]
    /\ pc \in [Owner -> Labels]
    /\ run \in [DOMAIN run -> RunStates] /\ IsFiniteSet(DOMAIN run)
    /\ lease \in [DOMAIN run -> Holder]
    /\ ran \in [DOMAIN run -> {0, 1}]
    /\ exec \in [Schedule -> Holder]
    /\ \A r \in DOMAIN run : r[1] \in Schedule
    /\ batch \in [Owner -> SUBSET DOMAIN run]
    /\ doing \in [Owner -> DOMAIN run \union {<<>>}]
    /\ todo \in [Owner -> SUBSET Schedule]
    /\ item = [o \in Owner |-> item[o]]
    /\ \A o \in Owner : pc[o] \in Visiting => item[o] \in Schedule

\* A thread that is not over is in a live process, a run that only is claimed
\* was never executed, and what a thread executes is its own.
OwnsRun(o) ==
    /\ pc[o] # "over" => Acting(o)
    /\ pc[o] \in Busy => /\ doing[o] \in DOMAIN run
                         /\ lease[doing[o]] = o /\ run[doing[o]] = "running"
    /\ pc[o] = "enter" => ran[doing[o]] = 0
    /\ pc[o] = "run" => exec[doing[o][1]] = o

NotYetRun == \A r \in DOMAIN run : run[r] = "claimed" => ran[r] = 0

SInv == SchedulerTyped /\ (\A o \in Owner : OwnsRun(o)) /\ NotYetRun /\ Ceilings

-----------------------------------------------------------------------------
\* The initial state satisfies the invariant.
LEMMA SchedulerInit ==
  ASSUME Init
  PROVE  SInv
<1>1. DOMAIN run = {} /\ DOMAIN lease = {} /\ DOMAIN ran = {}
  BY DEF Init, Idle
<1>2. run \in [DOMAIN run -> RunStates] /\ lease \in [DOMAIN run -> Holder] /\ ran \in [DOMAIN run -> {0, 1}]
  BY DEF Init, Idle
<1>3. IsFiniteSet(DOMAIN run)
  BY <1>1, FS_EmptySet
<1>4. SchedulerTyped
  BY <1>1, <1>2, <1>3 DEF Init, Idle, SchedulerTyped, Labels, Holder, Visiting
<1>5. Ceilings
  <2>1. Unfinished = {}
    BY <1>1 DEF Unfinished
  <2>2. QED BY <2>1, FS_EmptySet, LimitsAreNat DEF Ceilings
<1>6. (\A o \in Owner : OwnsRun(o)) /\ NotYetRun
  BY <1>1, OwnersLiveInProcesses DEF Init, Idle, OwnsRun, NotYetRun, Acting, Busy
<1>7. QED BY <1>4, <1>5, <1>6 DEF SInv

-----------------------------------------------------------------------------
(* One executor for a run, and the ceilings *)

\* Live owners are not deprived of a lease.
LEMMA NotTaken ==
  ASSUME SInv, NEW o \in Owner, NEW x \in Owner, x # o, Acting(x), NEW h, h = x
  PROVE  ~Claimable(proc, h, o)
BY NoneIsNoOwner DEF Claimable, Active, OwnerGone, Acting

\* The passes that are over are over, the others as they were.
LEMMA OverKeeps ==
  ASSUME NEW S \in SUBSET Owner, Over(S), SchedulerTyped
  PROVE  /\ \A o \in Owner : /\ o \in S => pc'[o] = "over" /\ doing'[o] = <<>> /\ batch'[o] = {}
                             /\ o \notin S => /\ pc'[o] = pc[o] /\ doing'[o] = doing[o]
                                              /\ batch'[o] = batch[o] /\ item'[o] = item[o]
                                              /\ todo'[o] = todo[o]
         /\ pc' \in [Owner -> Labels]
         /\ item' = [o \in Owner |-> item'[o]]
         /\ todo' \in [Owner -> SUBSET Schedule]
         /\ batch' \in [Owner -> SUBSET DOMAIN run]
         /\ doing' \in [Owner -> DOMAIN run \union {<<>>}]
BY DEF Over, Forget, Cleared, SchedulerTyped, Labels

\* Runs and threads are left alone.
StaysPut == UNCHANGED <<proc, run, lease, exec, ran, pc, batch, doing, todo, item>>

\* So they are by users, by time and by what a watch looks at.
LEMMA UsersStay ==
  ASSUME Users \/ Tick \/ Turn \/ UNCHANGED vars
  PROVE  StaysPut
BY ZenonT(60) DEF Users, CreateSchedule, EditSchedule, EditExpression, EditNext, EditPolicy, SetEnabled,
   Changed, RemoveSchedule, Notify, Tick, Turn, vars, clockVars, runRows, passVars, workVars,
   StaysPut

\* No step but a claim adds a run or makes one unfinished.
LEMMA RunSteps ==
  ASSUME SInv, [Next]_vars
  PROVE  \/ \E o \in Owner : Claim(o)
         \/ /\ DOMAIN run' = DOMAIN run /\ Unfinished' \subseteq Unfinished
            /\ run' \in [DOMAIN run -> RunStates] /\ lease' \in [DOMAIN run -> Holder]
<1> USE DEF runRows, SInv, SchedulerTyped
<1>1. ASSUME UNCHANGED <<run, lease>>
      PROVE  /\ DOMAIN run' = DOMAIN run /\ Unfinished' \subseteq Unfinished
             /\ run' \in [DOMAIN run -> RunStates] /\ lease' \in [DOMAIN run -> Holder]
  BY <1>1 DEF Unfinished
<1>2. ASSUME NEW o \in Owner, Recover(o)
      PROVE  /\ DOMAIN run' = DOMAIN run /\ Unfinished' \subseteq Unfinished
             /\ run' \in [DOMAIN run -> RunStates] /\ lease' \in [DOMAIN run -> Holder]
  BY <1>2 DEF Recover, Unfinished, RunStates, Holder
<1>3. ASSUME NEW o \in Owner, StartRun(o) \/ SkipRun(o) \/ Finish(o) \/ FinishRaises(o)
      PROVE  /\ DOMAIN run' = DOMAIN run /\ Unfinished' \subseteq Unfinished
             /\ run' \in [DOMAIN run -> RunStates] /\ lease' \in [DOMAIN run -> Holder]
  BY ZenonT(60), <1>3 DEF StartRun, SkipRun, Finish, FinishRaises, Unfinished, RunStates, Holder
<1>4. ASSUME NEW o \in Owner, Start(o) \/ Thread(o)
      PROVE  \/ Recover(o) \/ StartRun(o) \/ SkipRun(o) \/ Finish(o) \/ FinishRaises(o) \/ Claim(o)
             \/ UNCHANGED <<run, lease>>
  BY <1>4 DEF Start, Thread, Claiming, Executing, List, Visit, VisitsEnd, Observe, Record, SetNext,
     PassOver, Refuse, Fetch, EnterScope, ScopeRefused, ExecutorEnds, PassRaises, PassEnds, Sleep, Wake
<1>5. ASSUME NEW p \in Process, Crash(p)
      PROVE  UNCHANGED <<run, lease>>
  BY <1>5 DEF Crash
<1>6. QED
  BY <1>1, <1>2, <1>3, <1>4, <1>5, UsersStay DEF Next, StaysPut

\* What a claim adds.
LEMMA ClaimAdds ==
  ASSUME SInv, NEW o \in Owner, Claim(o)
  PROVE  LET r == Candidate(o) IN
         /\ r \notin DOMAIN run /\ item[o] \in Schedule /\ Acting(o)
         /\ DOMAIN run' = DOMAIN run \union {r}
         /\ DOMAIN lease' = DOMAIN run' /\ DOMAIN ran' = DOMAIN run'
         /\ run'[r] \in {"claimed", "skipped"} /\ lease'[r] \in {None, o} /\ ran'[r] = 0
         /\ \A q \in DOMAIN run : run'[q] = run[q] /\ lease'[q] = lease[q] /\ ran'[q] = ran[q]
         /\ ~AtCeiling
         /\ UNCHANGED <<proc, exec, batch, doing, todo, item>>
         /\ \E l \in {"visit", "claim"} : pc' = [pc EXCEPT ![o] = l]
         /\ pc[o] = "claim"
<1>1. pc[o] = "claim" /\ item[o] \in Schedule /\ Acting(o)
  BY DEF Claim, SInv, SchedulerTyped, OwnsRun, Visiting
<1>2. DOMAIN lease = DOMAIN run /\ DOMAIN ran = DOMAIN run
  BY DEF SInv, SchedulerTyped
<1>3. QED
  BY <1>1, <1>2 DEF Claim, With, Continue, Goto, clockVars, workVars

\* The ceilings hold: a claim is refused at them and nothing else adds to them.
LEMMA CeilingStep ==
  ASSUME SInv, [Next]_vars
  PROVE  Ceilings' /\ IsFiniteSet(DOMAIN run')
<1>1. IsFiniteSet(DOMAIN run) /\ IsFiniteSet(Unfinished) /\ Cardinality(Unfinished) \in Nat
  <2>1. IsFiniteSet(DOMAIN run) /\ Unfinished \subseteq DOMAIN run
    BY DEF SInv, SchedulerTyped, Unfinished
  <2>2. IsFiniteSet(Unfinished)
    BY <2>1, FS_Subset
  <2>3. QED BY <2>1, <2>2, FS_CardinalityType
<1>2. MaxConcurrency \in Nat /\ KeyLimit \in Nat
  BY LimitsAreNat
<1>3. ASSUME NEW o \in Owner, Claim(o)
      PROVE  Ceilings' /\ IsFiniteSet(DOMAIN run')
  <2> DEFINE r == Candidate(o)
  <2>1. /\ DOMAIN run' = DOMAIN run \union {r} /\ r \notin DOMAIN run
        /\ \A q \in DOMAIN run : run'[q] = run[q]
        /\ ~AtCeiling
    BY <1>3, ClaimAdds
  <2> HIDE DEF r
  <2>2. IsFiniteSet(DOMAIN run')
    BY <1>1, <2>1, FS_AddElement
  <2>3. Unfinished' \subseteq Unfinished \union {r}
    BY <2>1 DEF Unfinished
  <2>4. r \notin Unfinished
    BY <2>1 DEF Unfinished
  <2>5. IsFiniteSet(Unfinished \union {r})
        /\ Cardinality(Unfinished \union {r}) = Cardinality(Unfinished) + 1
    BY <1>1, <2>4, FS_AddElement
  <2>6. Cardinality(Unfinished') <= Cardinality(Unfinished) + 1 /\ Cardinality(Unfinished') \in Nat
    BY <2>3, <2>5, FS_Subset, FS_CardinalityType
  <2>7. Cardinality(Unfinished) < MaxConcurrency /\ Cardinality(Unfinished) < KeyLimit
    BY <1>1, <1>2, <2>1 DEF AtCeiling
  <2>8. QED BY <1>1, <1>2, <2>2, <2>6, <2>7 DEF Ceilings
<1>4. ASSUME DOMAIN run' = DOMAIN run, Unfinished' \subseteq Unfinished
      PROVE  Ceilings' /\ IsFiniteSet(DOMAIN run')
  <2>1. Cardinality(Unfinished') <= Cardinality(Unfinished) /\ Cardinality(Unfinished') \in Nat
    BY <1>1, <1>4, FS_Subset, FS_CardinalityType
  <2>2. QED BY <1>1, <1>2, <1>4, <2>1 DEF Ceilings, SInv
<1>5. QED BY <1>3, <1>4, RunSteps

\* Where a thread goes: only Visit takes up a schedule.
LEMMA LabelSteps ==
  ASSUME SInv, NEW o \in Owner, Start(o) \/ Thread(o), ~FinishRaises(o), ~PassRaises(o)
  PROVE  \E l \in Labels : /\ pc' = [pc EXCEPT ![o] = l]
                           /\ l \in Visiting => pc[o] \in Visiting \/ Visit(o)
                           /\ l \in Busy => pc[o] \in Busy \/ StartRun(o)
<1> USE DEF Labels, Visiting, Busy, Goto
<1>1. pc[o] \in Labels /\ pc' = pc => pc' = [pc EXCEPT ![o] = pc[o]]
  BY DEF SInv, SchedulerTyped
<1>2. CASE Start(o) \/ Recover(o) \/ List(o) \/ VisitsEnd(o) \/ Sleep(o) \/ Wake(o) \/ PassEnds(o)
           \/ Fetch(o) \/ EnterScope(o) \/ ScopeRefused(o) \/ Finish(o)
  BY <1>2 DEF Start, Recover, List, VisitsEnd, Sleep, Wake, PassEnds, Fetch, EnterScope,
     ScopeRefused, Finish, Finishing
<1>3. CASE Visit(o)
  BY ZenonT(60), <1>3 DEF Visit
<1>4. CASE Observe(o) \/ Record(o) \/ SetNext(o)
  BY ZenonT(60), <1>4 DEF Observe, Record, SetNext
<1>5. CASE PassOver(o) \/ Refuse(o) \/ Claim(o)
  BY ZenonT(60), <1>5 DEF PassOver, Refuse, Claim, Continue
<1>6. CASE StartRun(o)
  BY <1>6 DEF StartRun, Picked
<1>7. CASE SkipRun(o)
  <2>1. pc' = pc /\ pc[o] = "start"
    BY <1>7 DEF SkipRun, Picked
  <2>2. QED BY <1>1, <2>1
<1>8. CASE ExecutorEnds(o)
  BY <1>8 DEF ExecutorEnds
<1>9. QED
  BY <1>2, <1>3, <1>4, <1>5, <1>6, <1>7, <1>8 DEF Thread, Claiming, Executing

\* The threads and their runs stay typed.
LEMMA TypedStep ==
  ASSUME SInv, [Next]_vars
  PROVE  SchedulerTyped'
<1>1. IsFiniteSet(DOMAIN run')
  BY CeilingStep
<1> DEFINE Rest == /\ proc' \in [Process -> {"alive", "gone"}]
                   /\ pc' \in [Owner -> Labels]
                   /\ ran' \in [DOMAIN run' -> {0, 1}]
                   /\ exec' \in [Schedule -> Holder]
                   /\ batch' \in [Owner -> SUBSET DOMAIN run']
                   /\ doing' \in [Owner -> DOMAIN run' \union {<<>>}]
                   /\ todo' \in [Owner -> SUBSET Schedule]
                   /\ item' = [o \in Owner |-> item'[o]]
                   /\ \A o \in Owner : pc'[o] \in Visiting => item'[o] \in Schedule
<1>2. CASE StaysPut
  BY <1>1, <1>2 DEF StaysPut, SInv, SchedulerTyped
<1>3. ASSUME NEW o \in Owner, Claim(o)
      PROVE  SchedulerTyped'
  <2> DEFINE r == Candidate(o)
  <2>1. /\ r \notin DOMAIN run /\ DOMAIN run' = DOMAIN run \union {r} /\ r[1] \in Schedule
        /\ run'[r] \in {"claimed", "skipped"} /\ lease'[r] \in {None, o} /\ ran'[r] = 0
        /\ \A q \in DOMAIN run : run'[q] = run[q] /\ lease'[q] = lease[q] /\ ran'[q] = ran[q]
    BY <1>3, ClaimAdds DEF Candidate
  <2>2. /\ run' = [q \in DOMAIN run' |-> run'[q]] /\ lease' = [q \in DOMAIN run' |-> lease'[q]]
        /\ ran' = [q \in DOMAIN run' |-> ran'[q]]
    BY <1>3 DEF Claim, With, SInv, SchedulerTyped
  <2>3. /\ UNCHANGED <<proc, exec, batch, doing, todo, item>>
        /\ pc' \in [Owner -> Labels]
        /\ \A x \in Owner : pc'[x] \in Visiting => item[x] \in Schedule
    <3>1. PICK l \in {"visit", "claim"} : pc' = [pc EXCEPT ![o] = l]
      BY <1>3, ClaimAdds
    <3>2. item[o] \in Schedule /\ UNCHANGED <<proc, exec, batch, doing, todo, item>>
      BY <1>3, ClaimAdds
    <3>3. QED BY <3>1, <3>2 DEF SInv, SchedulerTyped, Labels, Visiting
  <2> HIDE DEF r
  <2>4. /\ run' \in [DOMAIN run' -> RunStates] /\ lease' \in [DOMAIN run' -> Holder]
        /\ ran' \in [DOMAIN run' -> {0, 1}]
    BY <2>1, <2>2 DEF SInv, SchedulerTyped, RunStates, Holder
  <2>5. /\ batch' \in [Owner -> SUBSET DOMAIN run']
        /\ doing' \in [Owner -> DOMAIN run' \union {<<>>}]
    BY <2>1, <2>3 DEF SInv, SchedulerTyped
  <2>6. \A q \in DOMAIN run' : q[1] \in Schedule
    BY <2>1 DEF SInv, SchedulerTyped
  <2>7. QED
    BY <1>1, <2>3, <2>4, <2>5, <2>6 DEF SInv, SchedulerTyped
<1>4. ASSUME \A o \in Owner : ~Claim(o), Rest
      PROVE  SchedulerTyped'
  <2>1. /\ DOMAIN run' = DOMAIN run
        /\ run' \in [DOMAIN run -> RunStates] /\ lease' \in [DOMAIN run -> Holder]
    BY <1>4, RunSteps
  <2>2. QED BY <1>1, <1>4, <2>1 DEF SInv, SchedulerTyped
<1>5. ASSUME NEW p \in Process, Crash(p), \A o \in Owner : ~Claim(o)
      PROVE  Rest
  <2>1. DOMAIN run' = DOMAIN run /\ UNCHANGED <<exec, ran>>
    BY <1>5 DEF Crash, runRows
  <2>2. Over({o \in Owner : ProcessOf[o] = p})
    BY <1>5 DEF Crash
  <2>3. proc' \in [Process -> {"alive", "gone"}]
    BY <1>5 DEF Crash, SInv, SchedulerTyped
  <2>4. QED
    BY <2>1, <2>2, <2>3, OverKeeps DEF SInv, SchedulerTyped, Visiting
<1>6. ASSUME NEW o \in Owner, Start(o) \/ Thread(o), \A x \in Owner : ~Claim(x)
      PROVE  Rest
  <2>1. DOMAIN run' = DOMAIN run
    BY <1>6, RunSteps DEF Next
  <2> USE <2>1 DEF SInv, SchedulerTyped, clockVars, runRows, passVars, workVars, Goto
  <2>2. CASE FinishRaises(o) \/ PassRaises(o)
    <3>1. Over({o}) /\ UNCHANGED <<proc, ran, exec>>
      BY <2>2 DEF FinishRaises, PassRaises
    <3>2. QED BY <3>1, OverKeeps DEF Visiting
  <2>3. CASE ~FinishRaises(o) /\ ~PassRaises(o)
    <3>1. PICK l \in Labels : /\ pc' = [pc EXCEPT ![o] = l]
                              /\ l \in Visiting => pc[o] \in Visiting \/ Visit(o)
      BY <1>6, <2>3, LabelSteps
    <3>2. proc' = proc
      BY <1>6, <2>3 DEF Start, Thread, Claiming, Executing, Recover, List, Visit, VisitsEnd, Observe,
         Record, SetNext, PassOver, Refuse, Continue, Fetch, StartRun, SkipRun, Picked, EnterScope,
         ScopeRefused, ExecutorEnds, Finish, PassEnds, Sleep, Wake
    <3>3. /\ todo' \in [Owner -> SUBSET Schedule]
          /\ item' = [x \in Owner |-> item'[x]]
          /\ \A x \in Owner : pc'[x] \in Visiting => item'[x] \in Schedule
      <4> DEFINE Goal == /\ todo' \in [Owner -> SUBSET Schedule]
                         /\ item' = [x \in Owner |-> item'[x]]
                         /\ \A x \in Owner : pc'[x] \in Visiting => item'[x] \in Schedule
      <4>1. CASE Visit(o)
        <5>1. PICK s \in Schedule : /\ item' = [item EXCEPT ![o] = s]
                                    /\ todo' = [todo EXCEPT ![o] = @ \ {s}]
          BY <4>1 DEF Visit
        <5>2. todo' \in [Owner -> SUBSET Schedule]
          BY <5>1
        <5>3. item' = [x \in Owner |-> item'[x]]
          <6>1. item = [x \in Owner |-> item[x]]
            OBVIOUS
          <6>2. QED BY ONLY <5>1, <6>1
        <5>4. ASSUME NEW x \in Owner, pc'[x] \in Visiting
              PROVE  item'[x] \in Schedule
          BY <3>1, <5>1, <5>4
        <5>5. QED BY <5>2, <5>3, <5>4
      <4>2. CASE VisitsEnd(o)
        BY <4>2 DEF VisitsEnd, Forget, Cleared, Visiting
      <4>3. CASE List(o)
        BY <4>3 DEF List, Visiting
      <4>4. CASE UNCHANGED <<todo, item>> /\ ~Visit(o)
        BY <3>1, <4>4
      <4>5. ASSUME Start(o) \/ Thread(o), ~Visit(o), ~VisitsEnd(o), ~List(o)
            PROVE  UNCHANGED <<todo, item>>
        BY ONLY <2>3, <4>5 DEF passVars, Start, Thread, Claiming, Executing, Recover, Observe,
           Record, SetNext, PassOver, Refuse, Claim, Continue, Fetch, StartRun, SkipRun, Picked,
           EnterScope, ScopeRefused, ExecutorEnds, Finish, PassEnds, Sleep, Wake
      <4>6. Goal
        <5>1. Visit(o) \/ VisitsEnd(o) \/ List(o) => Goal
          BY ONLY <4>1, <4>2, <4>3
        <5>2. ~Visit(o) /\ ~VisitsEnd(o) /\ ~List(o) => Goal
          BY ONLY <1>6, <4>4, <4>5
        <5>3. QED BY ONLY <5>1, <5>2
      <4>7. QED BY <4>6
    <3>4. /\ batch' \in [Owner -> SUBSET DOMAIN run]
          /\ doing' \in [Owner -> DOMAIN run \union {<<>>}]
      <4>1. CASE Fetch(o)
        BY <4>1 DEF Fetch, Claimed
      <4>2. CASE StartRun(o)
        BY <4>2 DEF StartRun, Picked
      <4>3. CASE SkipRun(o)
        BY <4>3 DEF SkipRun, Picked
      <4>4. CASE Finish(o)
        BY <4>4 DEF Finish
      <4>5. ASSUME ~Fetch(o), ~StartRun(o), ~SkipRun(o), ~Finish(o)
            PROVE  UNCHANGED <<batch, doing>>
        BY ONLY <1>6, <2>3, <4>5 DEF workVars, Start, Thread, Claiming, Executing, Recover, List,
           Visit, VisitsEnd, Observe, Record, SetNext, PassOver, Refuse, Continue, EnterScope,
           ScopeRefused, ExecutorEnds, PassEnds, Sleep, Wake
      <4>6. QED BY <4>1, <4>2, <4>3, <4>4, <4>5
    <3>5. /\ ran' \in [DOMAIN run -> {0, 1}]
          /\ exec' \in [Schedule -> Holder]
      <4>1. CASE EnterScope(o)
        <5>1. doing[o] \in DOMAIN run /\ ran[doing[o]] = 0
          BY <4>1 DEF EnterScope, OwnsRun, Busy
        <5>2. /\ exec' = [exec EXCEPT ![TaskOf(o)] = o]
              /\ ran' = [ran EXCEPT ![doing[o]] = @ + 1]
          BY <4>1 DEF EnterScope
        <5>3. exec' \in [Schedule -> Holder]
          BY <5>2 DEF Holder
        <5>4. ran' = [ran EXCEPT ![doing[o]] = 1]
          BY <5>1, <5>2
        <5>5. QED BY <5>3, <5>4
      <4>2. CASE ExecutorEnds(o)
        BY <4>2 DEF ExecutorEnds, Holder
      <4>3. ASSUME ~EnterScope(o), ~ExecutorEnds(o)
            PROVE  UNCHANGED <<ran, exec>>
        BY ONLY <1>6, <2>3, <4>3 DEF runRows, Start, Thread, Claiming, Executing, Recover, List,
           Visit, VisitsEnd, Observe, Record, SetNext, PassOver, Refuse, Continue, Fetch, StartRun,
           SkipRun, Picked, ScopeRefused, Finish, PassEnds, Sleep, Wake
      <4>4. QED BY <4>1, <4>2, <4>3
    <3>6. pc' \in [Owner -> Labels]
      BY <3>1
    <3>7. QED BY <3>2, <3>3, <3>4, <3>5, <3>6
  <2>4. QED BY <2>2, <2>3
<1>7. QED
  BY <1>2, <1>3, <1>4, <1>5, <1>6, UsersStay DEF Next

\* The run that a live thread executes is out of the reach of every other thread.
LEMMA OthersRunKept ==
  ASSUME SInv, NEW x \in Owner, Start(x) \/ Thread(x), ~Claim(x),
         NEW o \in Owner, x # o, Acting(o)
  PROVE  /\ \A r \in DOMAIN run : lease[r] = o => lease'[r] = o /\ run'[r] = run[r]
         /\ \A s \in Schedule : exec[s] = o => exec'[s] = o
         /\ \A r \in DOMAIN run : lease[r] = o => ran'[r] = ran[r]
<1> USE DEF runRows
<1>1. \A h : h = o => ~Claimable(proc, h, x)
  BY NotTaken
<1>2. DOMAIN lease = DOMAIN run /\ DOMAIN ran = DOMAIN run /\ DOMAIN exec = Schedule
  BY DEF SInv, SchedulerTyped
<1>3. CASE Recover(x)
  BY <1>1, <1>2, <1>3 DEF Recover, Interrupted
<1>4. CASE StartRun(x) \/ SkipRun(x)
  BY <1>1, <1>2, <1>4 DEF StartRun, SkipRun, Picked
<1>5. CASE Finish(x) \/ FinishRaises(x)
  BY <1>1, <1>2, <1>5 DEF Finish, FinishRaises
<1>6. CASE EnterScope(x)
  <2>1. doing[x] \in DOMAIN run /\ lease[doing[x]] = x
    BY <1>6 DEF EnterScope, SInv, OwnsRun, Busy
  <2>2. /\ Claimable(proc, exec[TaskOf(x)], x)
        /\ exec' = [exec EXCEPT ![TaskOf(x)] = x]
        /\ ran' = [ran EXCEPT ![doing[x]] = @ + 1]
        /\ UNCHANGED <<run, lease>>
    BY <1>6 DEF EnterScope
  <2>3. QED BY <1>1, <1>2, <2>1, <2>2
<1>7. CASE ExecutorEnds(x)
  BY <1>2, <1>7 DEF ExecutorEnds
<1>8. ASSUME ~Recover(x), ~StartRun(x), ~SkipRun(x), ~Finish(x), ~FinishRaises(x), ~EnterScope(x),
             ~ExecutorEnds(x)
      PROVE  UNCHANGED <<run, lease, exec, ran>>
  BY <1>8 DEF Start, Thread, Claiming, Executing, List, Visit, VisitsEnd, Observe, Record,
     SetNext, PassOver, Refuse, Continue, Fetch, ScopeRefused, PassRaises, PassEnds, Sleep, Wake
<1>9. QED BY <1>3, <1>4, <1>5, <1>6, <1>7, <1>8

\* A thread leaves the others where they are.
LEMMA OthersStay ==
  ASSUME SInv, NEW x \in Owner, Start(x) \/ Thread(x), NEW o \in Owner, x # o
  PROVE  pc'[o] = pc[o] /\ doing'[o] = doing[o]
<1>1. CASE FinishRaises(x) \/ PassRaises(x)
  <2>1. Over({x})
    BY <1>1 DEF FinishRaises, PassRaises
  <2>2. QED BY <2>1, OverKeeps DEF SInv
<1>2. CASE ~FinishRaises(x) /\ ~PassRaises(x)
  <2>1. pc'[o] = pc[o]
    BY <1>2, LabelSteps DEF SInv, SchedulerTyped
  <2>2. CASE StartRun(x) \/ Finish(x)
    BY <2>1, <2>2 DEF StartRun, Finish, SInv, SchedulerTyped
  <2>3. ASSUME ~StartRun(x), ~Finish(x)
        PROVE  UNCHANGED doing
    BY ONLY <1>2, <2>3, Start(x) \/ Thread(x) DEF workVars, Start, Thread, Claiming, Executing,
       Recover, List, Visit, VisitsEnd, Observe, Record, SetNext, PassOver, Refuse, Claim, Continue,
       Fetch, SkipRun, Picked, EnterScope, ScopeRefused, ExecutorEnds, PassEnds, Sleep, Wake
  <2>4. QED BY <2>1, <2>2, <2>3
<1>3. QED BY <1>1, <1>2

\* No thread ends or revives a process, and a thread that is over stays over.
LEMMA ThreadsLive ==
  ASSUME NEW x \in Owner, Start(x) \/ Thread(x)
  PROVE  proc' = proc /\ pc[x] # "over"
<1>1. proc' = proc
  BY DEF clockVars, Start, Thread, Claiming, Executing, Recover, List, Visit, VisitsEnd, Observe,
     Record, SetNext, PassOver, Refuse, Claim, Continue, Fetch, StartRun, SkipRun, Picked,
     EnterScope, ScopeRefused, ExecutorEnds, Finish, FinishRaises, PassRaises, PassEnds, Sleep, Wake
<1>2. pc[x] # "over"
  BY DEF Start, Thread, Claiming, Executing, Recover, List, Visit, VisitsEnd, Observe, Record,
     SetNext, PassOver, Refuse, Claim, Fetch, StartRun, SkipRun, Picked, EnterScope, ScopeRefused,
     ExecutorEnds, Finish, FinishRaises, Finishing, PassRaises, PassEnds, Sleep, Wake
<1>3. QED BY <1>1, <1>2

\* A thread executes only what it owns: it starts a run by taking its lease,
\* and keeps both until it has ended it.
LEMMA OwnsStep ==
  ASSUME SInv, [Next]_vars
  PROVE  \A o \in Owner : OwnsRun(o)'
<1> SUFFICES ASSUME NEW o \in Owner PROVE OwnsRun(o)'
  OBVIOUS
<1>0. OwnsRun(o) /\ DOMAIN lease = DOMAIN run /\ DOMAIN ran = DOMAIN run /\ pc[o] \in Labels
      /\ (\A r \in DOMAIN run : r[1] \in Schedule) /\ exec \in [Schedule -> Holder]
  BY DEF SInv, SchedulerTyped
<1>1. CASE StaysPut
  BY <1>0, <1>1 DEF StaysPut, OwnsRun, Acting
<1>2. ASSUME NEW x \in Owner, Claim(x)
      PROVE  OwnsRun(o)'
  <2>1. /\ DOMAIN run \subseteq DOMAIN run'
        /\ \A q \in DOMAIN run : run'[q] = run[q] /\ lease'[q] = lease[q] /\ ran'[q] = ran[q]
        /\ UNCHANGED <<proc, exec, doing>> /\ Acting(x)
    BY <1>2, ClaimAdds
  <2>2. PICK l \in {"visit", "claim"} : pc' = [pc EXCEPT ![x] = l]
    BY <1>2, ClaimAdds
  <2>3. pc \in [Owner -> Labels]
    BY DEF SInv, SchedulerTyped
  <2>4. QED BY <1>0, <2>1, <2>2, <2>3 DEF OwnsRun, Acting, Busy
<1>3. ASSUME NEW p \in Process, Crash(p)
      PROVE  OwnsRun(o)'
  <2> DEFINE S == {x \in Owner : ProcessOf[x] = p}
  <2>1. Over(S) /\ UNCHANGED <<run, lease, exec, ran>> /\ proc' = [proc EXCEPT ![p] = "gone"]
    BY <1>3 DEF Crash, runRows
  <2>2. /\ o \in S => pc'[o] = "over"
        /\ o \notin S => pc'[o] = pc[o] /\ doing'[o] = doing[o]
    BY <2>1, OverKeeps DEF SInv
  <2>3. o \notin S => proc'[ProcessOf[o]] = proc[ProcessOf[o]]
    BY <2>1, OwnersLiveInProcesses DEF SInv, SchedulerTyped
  <2> HIDE DEF S
  <2>4. QED BY <1>0, <2>1, <2>2, <2>3 DEF OwnsRun, Acting, Busy
<1>4. ASSUME NEW x \in Owner, Start(x) \/ Thread(x), ~Claim(x), x # o
      PROVE  OwnsRun(o)'
  <2>1. pc'[o] = pc[o] /\ doing'[o] = doing[o] /\ proc' = proc
    BY <1>4, OthersStay, ThreadsLive
  <2>2. DOMAIN run \subseteq DOMAIN run'
    BY <1>4, RunSteps, ClaimAdds DEF Next
  <2>3. Acting(o) =>
          /\ \A r \in DOMAIN run : lease[r] = o => lease'[r] = o /\ run'[r] = run[r]
          /\ \A s \in Schedule : exec[s] = o => exec'[s] = o
          /\ \A r \in DOMAIN run : lease[r] = o => ran'[r] = ran[r]
    BY <1>4, OthersRunKept
  <2>4. QED BY <1>0, <2>1, <2>2, <2>3 DEF OwnsRun, Acting, Busy
<1>5. ASSUME Start(o) \/ Thread(o), ~Claim(o)
      PROVE  OwnsRun(o)'
  <2>1. proc' = proc /\ Acting(o)
    BY <1>0, <1>5, ThreadsLive DEF OwnsRun
  <2>2. CASE FinishRaises(o) \/ PassRaises(o)
    <3>1. Over({o})
      BY <2>2 DEF FinishRaises, PassRaises
    <3>2. pc'[o] = "over"
      BY <3>1, OverKeeps DEF SInv
    <3>3. QED BY <3>2 DEF OwnsRun, Busy
  <2>3. CASE StartRun(o)
    <3>1. PICK r \in batch[o] : /\ run[r] = "claimed"
                               /\ run' = [run EXCEPT ![r] = "running"]
                               /\ lease' = [lease EXCEPT ![r] = o]
                               /\ doing' = [doing EXCEPT ![o] = r]
                               /\ pc' = [pc EXCEPT ![o] = "enter"]
                               /\ UNCHANGED <<exec, ran>>
      BY <2>3 DEF StartRun, Picked, Goto
    <3>2. r \in DOMAIN run /\ ran[r] = 0 /\ DOMAIN doing = Owner /\ DOMAIN pc = Owner
      BY <3>1 DEF SInv, SchedulerTyped, NotYetRun
    <3>3. /\ DOMAIN run' = DOMAIN run /\ pc'[o] = "enter" /\ doing'[o] = r
          /\ lease'[r] = o /\ run'[r] = "running" /\ ran'[r] = 0
      BY <1>0, <3>1, <3>2
    <3>4. QED BY <2>1, <3>2, <3>3 DEF OwnsRun, Acting
  <2>4. CASE EnterScope(o) \/ ScopeRefused(o) \/ ExecutorEnds(o) \/ Finish(o)
    <3>0. DOMAIN doing = Owner /\ DOMAIN pc = Owner
      BY DEF SInv, SchedulerTyped
    <3>1. CASE EnterScope(o)
      BY <1>0, <2>1, <3>0, <3>1 DEF EnterScope, OwnsRun, Acting, Busy, Goto, workVars, TaskOf
    <3>2. CASE ScopeRefused(o)
      BY <1>0, <2>1, <3>0, <3>2 DEF ScopeRefused, OwnsRun, Acting, Busy, Goto, workVars, runRows
    <3>3. CASE ExecutorEnds(o)
      BY <1>0, <2>1, <3>0, <3>3 DEF ExecutorEnds, OwnsRun, Acting, Busy, Goto, workVars
    <3>4. CASE Finish(o)
      BY <1>0, <2>1, <3>0, <3>4 DEF Finish, OwnsRun, Acting, Busy, Goto
    <3>5. QED BY <2>4, <3>1, <3>2, <3>3, <3>4
  <2>5. ASSUME ~FinishRaises(o), ~PassRaises(o), ~StartRun(o), ~EnterScope(o), ~ScopeRefused(o),
               ~ExecutorEnds(o), ~Finish(o)
        PROVE  OwnsRun(o)'
    <3>1. pc[o] \notin Busy
      BY <1>5, <2>5 DEF Busy, Start, Thread, Claiming, Executing, Recover, List, Visit, VisitsEnd,
         Observe, Record, SetNext, PassOver, Refuse, Fetch, SkipRun, Picked, PassEnds, Sleep, Wake
    <3>2. PICK l \in Labels : pc' = [pc EXCEPT ![o] = l] /\ (l \in Busy => pc[o] \in Busy)
      BY <1>5, <2>5, LabelSteps
    <3>3. pc'[o] = l
      BY <3>2 DEF SInv, SchedulerTyped
    <3>4. QED BY <2>1, <3>1, <3>2, <3>3 DEF OwnsRun, Acting, Busy
  <2>6. QED BY <2>2, <2>3, <2>4, <2>5
<1>6. QED
  BY <1>1, <1>2, <1>3, <1>4, <1>5, UsersStay DEF Next

\* A run that only is claimed was never executed.
LEMMA NotYetStep ==
  ASSUME SInv, [Next]_vars
  PROVE  NotYetRun'
<1>0. DOMAIN lease = DOMAIN run /\ DOMAIN ran = DOMAIN run /\ NotYetRun
      /\ run \in [DOMAIN run -> RunStates]
  BY DEF SInv, SchedulerTyped
<1>1. CASE UNCHANGED <<run, ran>>
  BY <1>0, <1>1 DEF NotYetRun
<1>2. ASSUME NEW o \in Owner, Claim(o)
      PROVE  NotYetRun'
  <2>1. PICK r : /\ DOMAIN run' = DOMAIN run \union {r} /\ ran'[r] = 0
                 /\ \A q \in DOMAIN run : run'[q] = run[q] /\ ran'[q] = ran[q]
    BY <1>2, ClaimAdds
  <2>2. QED BY <1>0, <2>1 DEF NotYetRun
<1>3. ASSUME NEW o \in Owner, Recover(o) \/ StartRun(o) \/ SkipRun(o) \/ Finish(o) \/ FinishRaises(o)
      PROVE  NotYetRun'
  <2>1. ran' = ran /\ DOMAIN run' = DOMAIN run
        /\ \A r \in DOMAIN run : run'[r] = "claimed" => run[r] = "claimed"
    BY <1>0, <1>3 DEF Recover, StartRun, SkipRun, Picked, Finish, FinishRaises
  <2>2. QED BY <1>0, <2>1 DEF NotYetRun
<1>4. ASSUME NEW o \in Owner, EnterScope(o)
      PROVE  NotYetRun'
  <2>1. run[doing[o]] = "running" /\ run' = run /\ ran' = [ran EXCEPT ![doing[o]] = @ + 1]
    BY <1>4 DEF EnterScope, SInv, OwnsRun, Busy
  <2>2. QED BY <1>0, <2>1 DEF NotYetRun
<1>5. ASSUME NEW o \in Owner, Start(o) \/ Thread(o)
      PROVE  \/ Recover(o) \/ StartRun(o) \/ SkipRun(o) \/ Finish(o) \/ FinishRaises(o) \/ Claim(o)
             \/ EnterScope(o) \/ UNCHANGED <<run, ran>>
  BY <1>5 DEF runRows, Start, Thread, Claiming, Executing, List, Visit, VisitsEnd, Observe, Record,
     SetNext, PassOver, Refuse, Fetch, ScopeRefused, ExecutorEnds, PassRaises, PassEnds, Sleep, Wake
<1>6. ASSUME NEW p \in Process, Crash(p)
      PROVE  UNCHANGED <<run, ran>>
  BY <1>6 DEF Crash, runRows
<1>7. QED
  BY <1>1, <1>2, <1>3, <1>4, <1>5, <1>6, UsersStay DEF Next, StaysPut

\* The invariant of the scheduler, for every set of schedules and processes.
THEOREM SchedulerInvariant == Spec => []SInv
<1>1. Init => SInv
  BY SchedulerInit
<1>2. SInv /\ [Next]_vars => SInv'
  BY TypedStep, OwnsStep, NotYetStep, CeilingStep DEF SInv
<1>3. QED BY <1>1, <1>2, PTL DEF Spec

\* The claimed and running runs of all schedulers together never exceed a
\* ceiling (claim_due counts and inserts in one transaction).
THEOREM SchedulerCeilings == Spec => []Ceilings
<1>1. SInv => Ceilings
  BY DEF SInv
<1>2. QED BY <1>1, SchedulerInvariant, PTL

\* An occurrence is executed at most once, by the scheduler whose run it is
\* and, while it works, under the execution lease of the task
\* (claim_due, execute_claimed, recover).
THEOREM SchedulerRunIsExclusive == Spec => []RunIsExclusive
<1>1. SInv => RunIsExclusive
  <2> SUFFICES ASSUME SInv PROVE RunIsExclusive
    OBVIOUS
  <2>1. AtMostOnce
    BY DEF AtMostOnce, SInv, SchedulerTyped
  <2>2. RunIsOwned
    BY DEF RunIsOwned, SInv, OwnsRun, Busy, TaskOf
  <2>3. QED BY <2>1, <2>2 DEF RunIsExclusive
<1>2. QED BY <1>1, SchedulerInvariant, PTL

-----------------------------------------------------------------------------
(* Occurrences *)

\* t is an occurrence of a schedule that starts at a and recurs every e.
Occurs(a, e, t) == \E k \in Nat : t = a + k * e

\* Every set of naturals has a least member, because < is well founded on them.
LEMMA LeastOf ==
  ASSUME NEW S, S \subseteq Nat, S # {}
  PROVE  \E m \in S : \A k \in S : m <= k
<1> DEFINE R == OpToRel(<, Nat)
<1>1. IsWellFoundedOn(R, Nat)
  BY NatLessThanWellFounded
<1>2. \A x, y \in Nat : <<x, y>> \in R <=> x < y
  BY DEF OpToRel
<1> HIDE DEF R
<1>3. PICK m \in S : \A k \in S : ~(<<k, m>> \in R)
  BY <1>1, WFMin
<1>4. ASSUME NEW k \in S PROVE m <= k
  <2>1. k \in Nat /\ m \in Nat
    OBVIOUS
  <2>2. ~(k < m)
    BY <1>2, <1>3, <2>1
  <2>3. QED BY ONLY <2>1, <2>2
<1>5. QED BY <1>4

\* Earliest is what its name says.
LEMMA EarliestIs ==
  ASSUME NEW S, S \subseteq Nat, S # {}
  PROVE  Earliest(S) \in S /\ \A k \in S : Earliest(S) <= k
BY LeastOf DEF Earliest

\* A number without remainder is a multiple: the least remainder is below e.
LEMMA Multiple ==
  ASSUME NEW x \in Nat, NEW e \in Nat \ {0}, x % e = 0
  PROVE  \E k \in Nat : x = k * e
<1> DEFINE S == {r \in Nat : \E k \in Nat : x = k * e + r}
<1>1. x \in S
  <2>1. x = 0 * e + x
    OBVIOUS
  <2>2. QED BY <2>1
<1>2. PICK r \in S : \A q \in S : r <= q
  <2>1. S \subseteq Nat /\ S # {}
    BY <1>1
  <2> HIDE DEF S
  <2>2. QED BY <2>1, LeastOf
<1>3. PICK k \in Nat : x = k * e + r
  OBVIOUS
<1>4. r < e
  <2> SUFFICES ASSUME r >= e PROVE FALSE
    OBVIOUS
  <2>1. r - e \in Nat /\ k + 1 \in Nat /\ r - e < r
    OBVIOUS
  <2>2. x = (k + 1) * e + (r - e)
    BY <1>3
  <2>3. r - e \in S
    BY <2>1, <2>2
  <2>4. r <= r - e
    <3> HIDE DEF S
    <3>1. QED BY <1>2, <2>3
  <2>5. r \in Nat
    OBVIOUS
  <2>6. QED BY ONLY <2>1, <2>4, <2>5
<1>5. (k * e + r) % e = r
  BY ONLY <1>4, k \in Nat, e \in Nat \ {0}, r \in Nat
<1>6. r = 0
  BY <1>3, <1>5
<1>7. QED BY <1>3, <1>6

\* Multiples are ordered like their factors, and lie e apart.
LEMMA Apart ==
  ASSUME NEW e \in Nat \ {0}, NEW j \in Nat, NEW k \in Nat, j * e < k * e
  PROVE  j < k /\ j * e + e <= k * e
<1>1. j < k
  OBVIOUS
<1>2. PICK d \in Nat : k = j + 1 + d
  <2>1. k - j - 1 \in Nat
    BY <1>1
  <2>2. k = j + 1 + (k - j - 1)
    OBVIOUS
  <2>3. QED BY <2>1, <2>2
<1>3. k * e = j * e + e + d * e
  BY <1>2
<1>4. d * e \in Nat /\ j * e \in Nat /\ k * e \in Nat
  OBVIOUS
<1>5. QED BY <1>1, <1>3, <1>4

\* An occurrence is not before the first one.
LEMMA OccursLater ==
  ASSUME NEW a \in Nat, NEW e \in Nat \ {0}, NEW t, Occurs(a, e, t)
  PROVE  t \in Nat /\ t >= a
<1>1. PICK k \in Nat : t = a + k * e
  BY DEF Occurs
<1>2. k * e \in Nat
  OBVIOUS
<1>3. QED BY <1>1, <1>2

\* The first occurrence is one, and each is followed by one.
LEMMA OccursFirst ==
  ASSUME NEW a \in Nat, NEW e \in Nat \ {0}
  PROVE  Occurs(a, e, a) /\ \A t : Occurs(a, e, t) => Occurs(a, e, t + e)
<1>1. a = a + 0 * e
  OBVIOUS
<1>2. ASSUME NEW k \in Nat, NEW t, t = a + k * e
      PROVE  k + 1 \in Nat /\ t + e = a + (k + 1) * e
  <2>1. k * e \in Nat /\ (k + 1) * e = k * e + e
    OBVIOUS
  <2>2. QED BY <1>2, <2>1
<1>3. QED BY <1>1, <1>2 DEF Occurs

\* The occurrences from an occurrence on are occurrences of the whole.
LEMMA OccursAfter ==
  ASSUME NEW a \in Nat, NEW e \in Nat \ {0}, NEW r, NEW t,
         Occurs(a, e, r), Occurs(r, e, t)
  PROVE  Occurs(a, e, t)
<1>1. PICK j \in Nat : r = a + j * e
  BY DEF Occurs
<1>2. PICK k \in Nat : t = r + k * e
  BY DEF Occurs
<1>3. j * e \in Nat /\ k * e \in Nat /\ j + k \in Nat /\ (j + k) * e = j * e + k * e
  OBVIOUS
<1>4. t = a + (j + k) * e
  BY <1>1, <1>2, <1>3
<1>5. QED BY <1>3, <1>4 DEF Occurs

\* And the later occurrences of the whole are occurrences from there on.
LEMMA OccursFrom ==
  ASSUME NEW a \in Nat, NEW e \in Nat \ {0}, NEW r, NEW t,
         Occurs(a, e, r), Occurs(a, e, t), r <= t
  PROVE  Occurs(r, e, t)
<1>1. PICK j \in Nat : r = a + j * e
  BY DEF Occurs
<1>2. PICK k \in Nat : t = a + k * e
  BY DEF Occurs
<1>3. j * e \in Nat /\ k * e \in Nat
  OBVIOUS
<1>4. j * e <= k * e
  BY <1>1, <1>2, <1>3
<1>5. j <= k
  <2> SUFFICES ASSUME k < j PROVE FALSE
    OBVIOUS
  <2>1. j * e = k * e
    <3>1. ~(k * e < j * e)
      BY <1>3, <1>4
    <3>2. k * e <= j * e
      <4>1. (j - k) * e \in Nat /\ j * e = k * e + (j - k) * e
        OBVIOUS
      <4>2. QED BY <1>3, <4>1
    <3>3. QED BY <1>3, <3>1, <3>2
  <2>2. (j - k) * e = 0 /\ j - k \in Nat \ {0}
    BY <2>1
  <2>3. QED BY <2>2
<1>6. k - j \in Nat /\ k * e = j * e + (k - j) * e /\ (k - j) * e \in Nat
  BY <1>5
<1>7. t = r + (k - j) * e
  BY <1>1, <1>2, <1>3, <1>6
<1>8. QED BY <1>6, <1>7 DEF Occurs

\* No occurrence lies between one and the next.
LEMMA OccursNone ==
  ASSUME NEW a \in Nat, NEW e \in Nat \ {0}, NEW r, NEW t,
         Occurs(a, e, r), Occurs(a, e, t), r < t
  PROVE  r + e <= t
<1>1. PICK j \in Nat : r = a + j * e
  BY DEF Occurs
<1>2. PICK k \in Nat : t = a + k * e
  BY DEF Occurs
<1>3. j * e \in Nat /\ k * e \in Nat
  OBVIOUS
<1>4. j * e < k * e
  BY <1>1, <1>2, <1>3
<1>5. j * e + e <= k * e
  BY <1>4, Apart
<1>6. QED BY <1>1, <1>2, <1>3, <1>5

-----------------------------------------------------------------------------
(* What a pass knows of the rows it listed *)

Row == [next : Nat, every : Nat \ {0}, policy : {"skip", "run-once", "catch-up"},
        enabled : BOOLEAN, seen : BOOLEAN, removed : BOOLEAN, revision : Nat]

\* The row is as the pass listed it, for all that users have done.
Listed(o, s) == snap[o][s].revision = row[s].revision /\ row[s].revision > 0
CatchesUp(s) == KindOf[s] = "recurring" /\ row[s].policy = "catch-up"

\* Only a condition watch is visited without a claim, and what a pass still has
\* to claim is planned by the row it listed.
OnItem(o) ==
    /\ pc[o] \in Visiting \ {"claim"} => KindOf[item[o]] = "condition"
    /\ pc[o] \in Visiting =>
         slots[o] # {} /\ slots[o] \subseteq PlannedSlots(item[o], snap[o][item[o]], at[o])

RowsTyped ==
    /\ now \in Nat /\ at \in [Owner -> Nat]
    /\ row \in [Schedule -> Row] /\ snap \in [Owner -> [Schedule -> Row]]
    /\ slots = [o \in Owner |-> slots[o]]
    /\ \A s \in Schedule : row[s].enabled => row[s].revision > 0

\* A listed row that still has its revision still has its expression and policy.
SnapIsOld ==
    \A o \in Owner, s \in Schedule :
        /\ snap[o][s].revision <= row[s].revision
        /\ Listed(o, s) => snap[o][s].every = row[s].every /\ snap[o][s].policy = row[s].policy

\* The occurrences between the next run as listed and as it is are in the journal.
Journaled ==
    \A o \in Owner, s \in Schedule :
        Listed(o, s) /\ CatchesUp(s) =>
            /\ Occurs(snap[o][s].next, row[s].every, row[s].next)
            /\ \A t \in Nat :
                  Occurs(snap[o][s].next, row[s].every, t) /\ t < row[s].next =>
                      <<s, t>> \in DOMAIN run

\* So are the slots that a pass has behind it, unless its row has changed.
SlotsDone(o) ==
    LET s == item[o] IN
    (/\ pc[o] = "claim" /\ Listed(o, s) /\ CatchesUp(s)
     /\ row[s].enabled /\ ~row[s].removed) =>
        \A t \in PlannedSlots(s, snap[o][s], at[o]) \ slots[o] : <<s, t>> \in DOMAIN run

RowInv ==
    RowsTyped /\ SnapIsOld /\ Journaled /\ \A o \in Owner : OnItem(o) /\ SlotsDone(o)

\* Planned slots are instants, and occurrences from the next run on.
LEMMA PlannedOccur ==
  ASSUME NEW s, NEW r \in Row, NEW current, NEW t \in PlannedSlots(s, r, current)
  PROVE  t \in Nat /\ Occurs(r.next, r.every, t)
<1>1. r.next \in Nat /\ r.every \in Nat \ {0} /\ CatchUp \in Nat
  BY LimitsAreNat DEF Row
<1>2. CASE t = r.next
  BY <1>1, <1>2, OccursFirst
<1>3. CASE t # r.next
  <2>1. PICK k \in 1..(CatchUp - 1) : t = r.next + k * r.every
    BY <1>3 DEF PlannedSlots
  <2>2. k \in Nat /\ k * r.every \in Nat
    BY <1>1
  <2>3. QED BY <1>1, <2>1, <2>2 DEF Occurs
<1>4. QED BY <1>2, <1>3

\* The occurrences before a planned slot of a schedule that catches up are planned.
LEMMA PlannedBefore ==
  ASSUME NEW s, NEW r \in Row, NEW current \in Nat, NEW u \in PlannedSlots(s, r, current),
         KindOf[s] = "recurring", r.policy = "catch-up",
         NEW t, Occurs(r.next, r.every, t), t < u
  PROVE  t \in PlannedSlots(s, r, current)
<1>1. r.next \in Nat /\ r.every \in Nat \ {0} /\ CatchUp \in Nat
  BY LimitsAreNat DEF Row
<1>2. PICK k \in Nat : t = r.next + k * r.every
  BY DEF Occurs
<1>3. k * r.every \in Nat /\ t \in Nat /\ t >= r.next
  BY <1>1, <1>2
<1>4. PICK j \in 1..(CatchUp - 1) : u = r.next + j * r.every /\ u <= current
  BY <1>1, <1>3 DEF PlannedSlots
<1>5. j \in Nat /\ j * r.every \in Nat
  BY <1>1
<1>6. k * r.every < j * r.every
  BY <1>1, <1>2, <1>3, <1>4, <1>5
<1>7. k < j
  BY <1>1, <1>5, <1>6, Apart
<1>8. t <= current
  BY <1>1, <1>3, <1>4, <1>5
<1>9. CASE k = 0
  <2>1. t = r.next
    BY <1>1, <1>2, <1>9
  <2>2. QED BY <2>1 DEF PlannedSlots
<1>10. CASE k # 0
  <2>1. k \in 1..(CatchUp - 1)
    BY <1>1, <1>7, <1>10
  <2>2. QED BY <1>2, <1>8, <2>1 DEF PlannedSlots
<1>11. QED BY <1>9, <1>10

\* Where the next run goes is an instant; a schedule that catches up moves on
\* by one occurrence.
LEMMA AdvancedIs ==
  ASSUME NEW s \in Schedule, NEW r \in Row, NEW planned \in Nat, NEW current \in Nat
  PROVE  /\ Advanced(s, r, planned, current) \in Nat
         /\ KindOf[s] = "recurring" /\ r.policy = "catch-up" =>
              Advanced(s, r, planned, current) = planned + r.every
<1> DEFINE c == planned + r.every
<1>1. r.every \in Nat \ {0} /\ KindOf[s] \in {"one-shot", "recurring", "condition"} /\ Never \in Nat
      /\ r.policy \in {"skip", "run-once", "catch-up"}
  BY KindsOfSchedules DEF Row, Kinds, Never
<1>2. c \in Nat /\ current + r.every \in Nat
  BY <1>1
<1>3. CASE KindOf[s] = "one-shot"
  BY <1>1, <1>3 DEF Advanced
<1>4. CASE KindOf[s] = "condition"
  BY <1>1, <1>2, <1>4 DEF Advanced
<1>5. CASE KindOf[s] = "recurring" /\ r.policy = "skip" /\ c <= current
  <2>1. current - c \in Nat
    BY <1>2, <1>5
  <2> HIDE DEF c
  <2>2. (current - c) \div r.every + 1 \in Nat
    BY <1>1, <2>1
  <2>3. c + r.every * ((current - c) \div r.every + 1) \in Nat
    BY <1>1, <1>2, <2>2
  <2>4. Advanced(s, r, planned, current) = c + r.every * ((current - c) \div r.every + 1)
    BY <1>5 DEF Advanced, c
  <2>5. QED BY <1>5, <2>3, <2>4
<1>6. CASE KindOf[s] = "recurring" /\ r.policy = "run-once" /\ c <= current
  BY <1>2, <1>6 DEF Advanced
<1>7. CASE KindOf[s] = "recurring" /\ (r.policy = "catch-up" \/ ~(c <= current))
  BY <1>2, <1>7 DEF Advanced
<1>8. QED BY <1>1, <1>3, <1>4, <1>5, <1>6, <1>7

\* The initial state satisfies the invariant.
LEMMA RowInit ==
  ASSUME Init
  PROVE  RowInv
<1>1. Absent \in Row /\ Absent.revision = 0 /\ Absent.enabled = FALSE
  BY DEF Absent, Row, Never
<1> HIDE DEF Absent
<1>2. RowsTyped
  BY <1>1 DEF Init, Idle, RowsTyped, Unknown
<1>3. SnapIsOld /\ Journaled
  BY <1>1 DEF Init, Idle, SnapIsOld, Journaled, Listed, Unknown
<1>4. \A o \in Owner : OnItem(o) /\ SlotsDone(o)
  BY DEF Init, Idle, OnItem, SlotsDone, Visiting
<1>5. QED BY <1>2, <1>3, <1>4 DEF RowInv

\* The slot that a pass would claim is planned by the row it listed.
LEMMA SlotIs ==
  ASSUME SInv, RowInv, NEW o \in Owner, pc[o] \in Visiting
  PROVE  /\ item[o] \in Schedule /\ slots[o] \subseteq Nat
         /\ Slot(o) \in slots[o] /\ Slot(o) \in Nat /\ \A t \in slots[o] : Slot(o) <= t
         /\ Slot(o) \in PlannedSlots(item[o], snap[o][item[o]], at[o])
         /\ Occurs(snap[o][item[o]].next, snap[o][item[o]].every, Slot(o))
<1>1. item[o] \in Schedule /\ at[o] \in Nat
  BY DEF SInv, SchedulerTyped, RowInv, RowsTyped
<1>2. slots[o] # {} /\ slots[o] \subseteq PlannedSlots(item[o], snap[o][item[o]], at[o])
  BY DEF RowInv, OnItem
<1>3. snap[o][item[o]] \in Row
  BY <1>1 DEF RowInv, RowsTyped
<1>4. slots[o] \subseteq Nat
  BY <1>1, <1>2, <1>3, PlannedOccur
<1>5. Slot(o) \in slots[o] /\ \A t \in slots[o] : Slot(o) <= t
  BY <1>2, <1>4, EarliestIs DEF Slot
<1>6. QED BY <1>1, <1>2, <1>3, <1>4, <1>5, PlannedOccur

\* What a user makes of a row: another revision, or a removed row.
Revised(s) == row'[s] \in Row /\ row'[s].revision > row[s].revision
                              /\ (row'[s].enabled => row'[s].revision > 0)
Removed(s) == row'[s] = [row[s] EXCEPT !.enabled = FALSE, !.removed = TRUE]

\* What a pass makes of it, with the transaction that does.
Seen(s) == \E b \in BOOLEAN : row'[s] = [row[s] EXCEPT !.seen = b]
Deferred(o, s) ==
    /\ pc[o] = "advance" /\ item[o] = s /\ KindOf[s] = "condition"
    /\ row'[s] = [row[s] EXCEPT
                    !.next = Advanced(s, snap[o][s], snap[o][s].next, at[o])]
Served(o, s) ==
    /\ Claim(o) /\ item[o] = s
    /\ LET next == Advanced(s, row[s], Slot(o), at[o]) IN
       row'[s] = [row[s] EXCEPT !.next = next, !.enabled = next # Never]

\* Rows as users change them.
LEMMA RowRevised ==
  ASSUME NEW r \in Row
  PROVE  /\ \A n \in Nat, e \in Nat \ {0}, c \in BOOLEAN :
              [r EXCEPT !.every = e, !.next = n, !.revision = @ + 1,
                        !.seen = IF c THEN FALSE ELSE @] \in Row
         /\ \A n \in Nat : [r EXCEPT !.next = n, !.revision = @ + 1] \in Row
         /\ \A p \in {"skip", "run-once", "catch-up"} :
              [r EXCEPT !.policy = p, !.revision = @ + 1] \in Row
         /\ \A b \in BOOLEAN : [r EXCEPT !.enabled = b, !.revision = @ + 1] \in Row
<1> DEFINE v == r.revision + 1
<1>1. v \in Nat /\ r.seen \in BOOLEAN
  BY DEF Row
<1>2. ASSUME NEW n \in Nat, NEW e \in Nat \ {0}, NEW c \in BOOLEAN
      PROVE  [r EXCEPT !.every = e, !.next = n, !.revision = @ + 1,
                       !.seen = IF c THEN FALSE ELSE @] \in Row
  <2> DEFINE d == IF c THEN FALSE ELSE r.seen
  <2>1. d \in BOOLEAN
    BY <1>1
  <2>2. [r EXCEPT !.every = e, !.next = n, !.revision = @ + 1, !.seen = IF c THEN FALSE ELSE @]
          = [r EXCEPT !.every = e, !.next = n, !.revision = v, !.seen = d]
    OBVIOUS
  <2> HIDE DEF v, d
  <2>3. [r EXCEPT !.every = e, !.next = n, !.revision = v, !.seen = d] \in Row
    BY <1>1, <2>1 DEF Row
  <2>4. QED BY <2>2, <2>3
<1>3. ASSUME NEW n \in Nat
      PROVE  [r EXCEPT !.next = n, !.revision = @ + 1] \in Row
  <2>1. [r EXCEPT !.next = n, !.revision = @ + 1] = [r EXCEPT !.next = n, !.revision = v]
    OBVIOUS
  <2> HIDE DEF v
  <2>2. QED BY <1>1, <2>1 DEF Row
<1>4. ASSUME NEW p \in {"skip", "run-once", "catch-up"}
      PROVE  [r EXCEPT !.policy = p, !.revision = @ + 1] \in Row
  <2>1. [r EXCEPT !.policy = p, !.revision = @ + 1] = [r EXCEPT !.policy = p, !.revision = v]
    OBVIOUS
  <2> HIDE DEF v
  <2>2. QED BY <1>1, <2>1 DEF Row
<1>5. ASSUME NEW b \in BOOLEAN
      PROVE  [r EXCEPT !.enabled = b, !.revision = @ + 1] \in Row
  <2>1. [r EXCEPT !.enabled = b, !.revision = @ + 1] = [r EXCEPT !.enabled = b, !.revision = v]
    OBVIOUS
  <2> HIDE DEF v
  <2>2. QED BY <1>1, <2>1 DEF Row
<1>6. QED BY <1>2, <1>3, <1>4, <1>5

\* The steps of users, by what they do to a row.
LEMMA UserSteps ==
  ASSUME RowInv, Users, NEW s \in Schedule
  PROVE  /\ row'[s] = row[s] \/ Revised(s) \/ Removed(s)
         /\ row' = [x \in Schedule |-> row'[x]]
<1> USE DEF RowInv, RowsTyped
<1>0. row[s] \in Row /\ row[s].revision \in Nat /\ MaxRevision \in Nat /\ Instant \subseteq Nat
      /\ Horizon \in Nat
  BY LimitsAreNat DEF Row, Instant
<1>1. ASSUME NEW x \in Schedule, NEW new \in Row, Changed(x, new), new.revision > row[x].revision,
             new.revision > 0
      PROVE  /\ row'[s] = row[s] \/ Revised(s)
             /\ row' = [y \in Schedule |-> row'[y]]
  BY <1>1 DEF Changed, Revised
<1>2. ASSUME NEW x \in Schedule, CreateSchedule(x)
      PROVE  /\ row'[s] = row[s] \/ Revised(s)
             /\ row' = [y \in Schedule |-> row'[y]]
  <2>1. PICK t \in Instant, e \in Intervals, p \in Policies :
          Changed(x, [next |-> t, every |-> e, policy |-> p, enabled |-> TRUE,
                      seen |-> FALSE, removed |-> FALSE, revision |-> 1])
    BY <1>2 DEF CreateSchedule
  <2> DEFINE new == [next |-> t, every |-> e, policy |-> p, enabled |-> TRUE,
                     seen |-> FALSE, removed |-> FALSE, revision |-> 1]
  <2>2. new \in Row /\ new.revision = 1
    BY <1>0, IntervalsArePositive, PoliciesAreKnown DEF Row
  <2>3. row[x].revision = 0
    BY <1>2 DEF CreateSchedule
  <2> HIDE DEF new
  <2>4. new.revision > row[x].revision /\ new.revision > 0
    BY <2>2, <2>3
  <2>5. QED BY <1>1, <2>1, <2>2, <2>4 DEF new
<1>3. ASSUME NEW x \in Schedule, EditSchedule(x) \/ SetEnabled(x)
      PROVE  /\ row'[s] = row[s] \/ Revised(s)
             /\ row' = [y \in Schedule |-> row'[y]]
  <2>0. row[x] \in Row /\ row[x].revision \in Nat /\ row[x].revision > 0
    BY <1>3 DEF EditSchedule, SetEnabled, Live, Row
  <2>1. CASE EditSchedule(x) /\ EditExpression(x)
    <3>1. PICK e \in Intervals, t \in Instant :
            Changed(x, [row[x] EXCEPT !.every = e, !.next = t, !.revision = @ + 1,
                                      !.seen = IF KindOf[x] = "condition" THEN FALSE ELSE @])
      BY <2>1 DEF EditExpression
    <3> DEFINE new == [row[x] EXCEPT !.every = e, !.next = t, !.revision = @ + 1,
                                     !.seen = IF KindOf[x] = "condition" THEN FALSE ELSE @]
    <3>2. new \in Row /\ new.revision = row[x].revision + 1
      <4>1. t \in Nat /\ e \in Nat \ {0} /\ (KindOf[x] = "condition") \in BOOLEAN
        BY <1>0, IntervalsArePositive
      <4>2. new \in Row
        BY <2>0, <4>1, RowRevised
      <4>3. QED BY <2>0, <4>2 DEF Row
    <3> HIDE DEF new
    <3>3. new.revision > row[x].revision /\ new.revision > 0
      BY <2>0, <3>2
    <3>4. QED BY <1>1, <3>1, <3>2, <3>3 DEF new
  <2>2. CASE EditSchedule(x) /\ EditNext(x)
    <3>1. PICK t \in Instant : Changed(x, [row[x] EXCEPT !.next = t, !.revision = @ + 1])
      BY <2>2 DEF EditNext
    <3> DEFINE new == [row[x] EXCEPT !.next = t, !.revision = @ + 1]
    <3>2. new \in Row /\ new.revision = row[x].revision + 1
      <4>1. t \in Nat
        BY <1>0
      <4>2. new \in Row
        BY <2>0, <4>1, RowRevised
      <4>3. QED BY <2>0, <4>2 DEF Row
    <3> HIDE DEF new
    <3>3. new.revision > row[x].revision /\ new.revision > 0
      BY <2>0, <3>2
    <3>4. QED BY <1>1, <3>1, <3>2, <3>3 DEF new
  <2>3. CASE EditSchedule(x) /\ EditPolicy(x)
    <3>1. PICK p \in Policies : Changed(x, [row[x] EXCEPT !.policy = p, !.revision = @ + 1])
      BY <2>3 DEF EditPolicy
    <3> DEFINE new == [row[x] EXCEPT !.policy = p, !.revision = @ + 1]
    <3>2. new \in Row /\ new.revision = row[x].revision + 1
      <4>1. p \in {"skip", "run-once", "catch-up"}
        BY PoliciesAreKnown
      <4>2. new \in Row
        BY <2>0, <4>1, RowRevised
      <4>3. QED BY <2>0, <4>2 DEF Row
    <3> HIDE DEF new
    <3>3. new.revision > row[x].revision /\ new.revision > 0
      BY <2>0, <3>2
    <3>4. QED BY <1>1, <3>1, <3>2, <3>3 DEF new
  <2>4. CASE SetEnabled(x)
    <3>1. PICK b \in BOOLEAN : Changed(x, [row[x] EXCEPT !.enabled = b, !.revision = @ + 1])
      BY <2>4 DEF SetEnabled
    <3> DEFINE new == [row[x] EXCEPT !.enabled = b, !.revision = @ + 1]
    <3>2. new \in Row /\ new.revision = row[x].revision + 1
      <4>1. new \in Row
        BY <2>0, RowRevised
      <4>2. QED BY <2>0, <4>1 DEF Row
    <3> HIDE DEF new
    <3>3. new.revision > row[x].revision /\ new.revision > 0
      BY <2>0, <3>2
    <3>4. QED BY <1>1, <3>1, <3>2, <3>3 DEF new
  <2>5. QED BY <1>3, <2>1, <2>2, <2>3, <2>4 DEF EditSchedule
<1>4. ASSUME NEW x \in Schedule, RemoveSchedule(x)
      PROVE  /\ row'[s] = row[s] \/ Removed(s)
             /\ row' = [y \in Schedule |-> row'[y]]
  BY <1>4 DEF RemoveSchedule, Removed
<1>5. CASE Notify
  BY <1>5 DEF Notify
<1>6. QED BY <1>2, <1>3, <1>4, <1>5 DEF Users

\* Besides users, who writes rows.
LEMMA RowWriters ==
  ASSUME [Next]_vars
  PROVE  \/ Users
         \/ \E o \in Owner : Record(o) \/ SetNext(o) \/ Claim(o)
         \/ row' = row
<1>1. ASSUME NEW o \in Owner, Start(o) \/ Thread(o), ~Record(o), ~SetNext(o), ~Claim(o)
      PROVE  row' = row
  BY <1>1 DEF rowVars, Start, Thread, Claiming, Executing, Recover, List, Visit, VisitsEnd, Observe,
     PassOver, Refuse, Fetch, StartRun, SkipRun, Picked, EnterScope, ScopeRefused, ExecutorEnds,
     Finish, FinishRaises, PassRaises, PassEnds, Sleep, Wake
<1>2. Tick \/ Turn \/ (\E p \in Process : Crash(p)) \/ UNCHANGED vars => row' = row
  BY DEF Tick, Turn, Crash, rowVars, vars
<1>3. QED BY <1>1, <1>2 DEF Next

\* Every step, by what it does to a row.
LEMMA RowSteps ==
  ASSUME SInv, RowInv, [Next]_vars, NEW s \in Schedule
  PROVE  /\ \/ row'[s] = row[s] \/ Revised(s) \/ Removed(s) \/ Seen(s)
            \/ \E o \in Owner : Deferred(o, s) \/ Served(o, s)
         /\ row' = [x \in Schedule |-> row'[x]]
<1>0. row = [x \in Schedule |-> row[x]]
  BY DEF RowInv, RowsTyped
<1>1. CASE Users
  BY <1>1, UserSteps
<1>2. ASSUME NEW o \in Owner, Record(o)
      PROVE  Seen(s) \/ row'[s] = row[s]
  BY <1>0, <1>2 DEF Record, Seen
<1>3. ASSUME NEW o \in Owner, SetNext(o)
      PROVE  Deferred(o, s) \/ row'[s] = row[s]
  <2>1. KindOf[item[o]] = "condition" /\ pc[o] = "advance"
    BY <1>3 DEF SetNext, RowInv, OnItem, Visiting
  <2>2. QED BY <1>0, <1>3, <2>1 DEF SetNext, Deferred
<1>4. ASSUME NEW o \in Owner, Claim(o)
      PROVE  Served(o, s) \/ row'[s] = row[s]
  <2> DEFINE next == Advanced(item[o], row[item[o]], Slot(o), at[o])
  <2>1. row' = [row EXCEPT ![item[o]].next = next, ![item[o]].enabled = next # Never]
    BY <1>4 DEF Claim
  <2>2. CASE item[o] = s
    <3> HIDE DEF next
    <3>1. row'[s] = [row[s] EXCEPT !.next = next, !.enabled = next # Never]
      BY <1>0, <2>1, <2>2
    <3>2. QED BY <1>4, <2>2, <3>1 DEF Served, next
  <2>3. CASE item[o] # s
    BY <1>0, <2>1, <2>3
  <2>4. QED BY <2>2, <2>3
<1>5. ASSUME NEW o \in Owner, Record(o) \/ SetNext(o) \/ Claim(o)
      PROVE  row' = [x \in Schedule |-> row'[x]]
  BY <1>0, <1>5 DEF Record, SetNext, Claim
<1>6. CASE row' = row
  BY <1>0, <1>6
<1>7. QED BY <1>1, <1>2, <1>3, <1>4, <1>5, <1>6, RowWriters

\* What no step does to a row: its revision never falls, and only another
\* revision changes its expression or policy, enables it again or restores it.
LEMMA RowKept ==
  ASSUME SInv, RowInv, [Next]_vars, NEW s \in Schedule
  PROVE  /\ row'[s] \in Row /\ row'[s].revision >= row[s].revision
         /\ row'[s].enabled => row'[s].revision > 0
         /\ row'[s].revision = row[s].revision =>
              /\ row'[s].every = row[s].every /\ row'[s].policy = row[s].policy
              /\ (row'[s].enabled /\ ~row'[s].removed) => (row[s].enabled /\ ~row[s].removed)
              /\ \/ row'[s].next = row[s].next
                 \/ \E o \in Owner : Deferred(o, s) \/ Served(o, s)
<1>0. row[s] \in Row /\ row[s].revision \in Nat /\ (row[s].enabled => row[s].revision > 0)
  BY DEF RowInv, RowsTyped, Row
<1>1. CASE row'[s] = row[s]
  BY <1>0, <1>1
<1>2. CASE Revised(s)
  BY <1>0, <1>2 DEF Revised, Row
<1>3. CASE Removed(s)
  <2>1. /\ row'[s].enabled = FALSE /\ row'[s].removed = TRUE /\ row'[s].revision = row[s].revision
        /\ row'[s].every = row[s].every /\ row'[s].policy = row[s].policy
        /\ row'[s].next = row[s].next
    BY <1>0, <1>3 DEF Removed, Row
  <2>2. row'[s] \in Row
    BY <1>0, <1>3 DEF Removed, Row
  <2>3. QED BY <1>0, <2>1, <2>2
<1>4. CASE Seen(s)
  <2>1. PICK b \in BOOLEAN : row'[s] = [row[s] EXCEPT !.seen = b]
    BY <1>4 DEF Seen
  <2>2. /\ row'[s].enabled = row[s].enabled /\ row'[s].removed = row[s].removed
        /\ row'[s].revision = row[s].revision /\ row'[s].every = row[s].every
        /\ row'[s].policy = row[s].policy /\ row'[s].next = row[s].next
    BY <1>0, <2>1 DEF Row
  <2>3. row'[s] \in Row
    BY <1>0, <2>1 DEF Row
  <2>4. QED BY <1>0, <2>2, <2>3
<1>5. ASSUME NEW o \in Owner, Deferred(o, s)
      PROVE  /\ row'[s] \in Row
             /\ row'[s].enabled = row[s].enabled /\ row'[s].removed = row[s].removed
             /\ row'[s].revision = row[s].revision /\ row'[s].every = row[s].every
             /\ row'[s].policy = row[s].policy
  <2> DEFINE n == Advanced(s, snap[o][s], snap[o][s].next, at[o])
  <2>1. snap[o][s] \in Row /\ at[o] \in Nat /\ snap[o][s].next \in Nat
    BY DEF RowInv, RowsTyped, Row
  <2>2. n \in Nat
    BY <2>1, AdvancedIs
  <2>3. row'[s] = [row[s] EXCEPT !.next = n]
    BY <1>5 DEF Deferred
  <2> HIDE DEF n
  <2>4. QED BY <1>0, <2>2, <2>3 DEF Row
<1>6. ASSUME NEW o \in Owner, Served(o, s)
      PROVE  /\ row'[s] \in Row /\ row[s].enabled /\ row'[s].removed = row[s].removed
             /\ row'[s].revision = row[s].revision /\ row'[s].every = row[s].every
             /\ row'[s].policy = row[s].policy
  <2> DEFINE n == Advanced(s, row[s], Slot(o), at[o])
  <2>1. pc[o] = "claim" /\ item[o] = s /\ ~Stale(o)
    BY <1>6 DEF Served, Claim
  <2>2. Slot(o) \in Nat /\ at[o] \in Nat
    BY <2>1, SlotIs DEF Visiting, RowInv, RowsTyped
  <2>3. n \in Nat
    BY <1>0, <2>2, AdvancedIs
  <2>4. row'[s] = [row[s] EXCEPT !.next = n, !.enabled = n # Never]
    BY <1>6 DEF Served
  <2>5. row[s].enabled
    BY <2>1 DEF Stale
  <2> HIDE DEF n
  <2>6. (n # Never) \in BOOLEAN
    OBVIOUS
  <2>7. QED BY ZenonT(60), <1>0, <2>3, <2>4, <2>5, <2>6 DEF Row
<1>7. CASE \E o \in Owner : Deferred(o, s) \/ Served(o, s)
  <2>1. PICK o \in Owner : Deferred(o, s) \/ Served(o, s)
    BY <1>7
  <2>2. /\ row'[s] \in Row /\ row'[s].removed = row[s].removed
        /\ row'[s].revision = row[s].revision /\ row'[s].every = row[s].every
        /\ row'[s].policy = row[s].policy
        /\ row'[s].enabled => row[s].enabled
    BY <1>5, <1>6, <2>1
  <2>3. QED BY <1>0, <2>1, <2>2
<1>8. QED BY <1>1, <1>2, <1>3, <1>4, <1>7, RowSteps

\* What a thread knows of its pass, before and after a step that is not of it.
Remembers(o) ==
    pc'[o] = pc[o] /\ at'[o] = at[o] /\ snap'[o] = snap[o] /\ item'[o] = item[o] /\ slots'[o] = slots[o]
Forgets(o) ==
    pc'[o] \notin Visiting /\ snap'[o] \in {snap[o], Unknown} /\ at'[o] \in {at[o], 0}
Passes(o) ==
    \/ List(o) \/ Visit(o) \/ Observe(o) \/ Record(o) \/ SetNext(o) \/ PassOver(o) \/ Refuse(o)
    \/ Claim(o)

PassTyped == /\ at' = [o \in Owner |-> at'[o]] /\ snap' = [o \in Owner |-> snap'[o]]
             /\ slots' = [o \in Owner |-> slots'[o]]

\* The passes of a set of threads are forgotten, the others remembered.
LEMMA OverForgets ==
  ASSUME NEW S \in SUBSET Owner, Over(S)
  PROVE  PassTyped /\ \A o \in Owner : IF o \in S THEN Forgets(o) ELSE Remembers(o)
BY DEF Over, Forget, Cleared, PassTyped, Forgets, Remembers, Visiting

\* A step of a pass is its own thread's, and any other leaves it as it is or
\* ends it.
LEMMA PassSteps ==
  ASSUME SInv, RowInv, [Next]_vars
  PROVE  /\ PassTyped
         /\ \A o \in Owner : Remembers(o) \/ Forgets(o) \/ Passes(o)
         /\ \A o, x \in Owner : Passes(x) /\ x # o => Remembers(o)
<1>0. /\ at = [o \in Owner |-> at[o]] /\ snap = [o \in Owner |-> snap[o]]
      /\ slots = [o \in Owner |-> slots[o]] /\ item = [o \in Owner |-> item[o]]
      /\ pc \in [Owner -> Labels]
  BY DEF RowInv, RowsTyped, SInv, SchedulerTyped
<1>1. CASE UNCHANGED <<passVars, pc>>
  <2>1. PassTyped /\ \A o \in Owner : Remembers(o)
    BY <1>0, <1>1 DEF PassTyped, Remembers, passVars
  <2>2. QED BY <2>1
<1>2. ASSUME NEW S \in SUBSET Owner, Over(S)
      PROVE  PassTyped /\ \A o \in Owner : Remembers(o) \/ Forgets(o)
  BY <1>2, OverForgets
<1>3. ASSUME NEW x \in Owner, Passes(x)
      PROVE  PassTyped /\ \A o \in Owner : x # o => Remembers(o)
  <2>1. CASE List(x)
    BY <1>0, <2>1 DEF List, Goto, PassTyped, Remembers
  <2>2. CASE Visit(x)
    BY <1>0, <2>2 DEF Visit, Goto, PassTyped, Remembers
  <2>3. CASE Observe(x) \/ Record(x) \/ SetNext(x)
    BY <1>0, <2>3 DEF Observe, Record, SetNext, Goto, PassTyped, Remembers, passVars
  <2>4. CASE PassOver(x) \/ Refuse(x) \/ Claim(x)
    BY <1>0, <2>4 DEF PassOver, Refuse, Claim, Continue, Goto, PassTyped, Remembers
  <2>5. QED BY <1>3, <2>1, <2>2, <2>3, <2>4 DEF Passes
<1>4. ASSUME NEW x \in Owner, FinishRaises(x) \/ PassRaises(x)
      PROVE  PassTyped /\ \A o \in Owner : Remembers(o) \/ Forgets(o)
  BY <1>2, <1>4 DEF FinishRaises, PassRaises
<1>5. ASSUME NEW x \in Owner, VisitsEnd(x)
      PROVE  PassTyped /\ \A o \in Owner : Remembers(o) \/ Forgets(o)
  BY <1>0, <1>5 DEF VisitsEnd, Forget, Cleared, Goto, PassTyped, Remembers, Forgets, Visiting
<1>6. ASSUME NEW x \in Owner, Start(x) \/ Thread(x), ~Passes(x), ~FinishRaises(x), ~PassRaises(x),
             ~VisitsEnd(x)
      PROVE  PassTyped /\ \A o \in Owner : Remembers(o) \/ Forgets(o)
  <2>1. UNCHANGED passVars /\ pc[x] \notin Visiting
    BY <1>6 DEF Passes, passVars, Visiting, Start, Thread, Claiming, Executing, Recover, Fetch,
       StartRun, SkipRun, Picked, EnterScope, ScopeRefused, ExecutorEnds, Finish, Finishing,
       PassEnds, Sleep, Wake
  <2>2. PICK l \in Labels : /\ pc' = [pc EXCEPT ![x] = l]
                            /\ l \in Visiting => pc[x] \in Visiting \/ Visit(x)
    BY <1>6, LabelSteps
  <2>3. l \notin Visiting
    BY <1>6, <2>1, <2>2 DEF Passes
  <2>4. QED
    BY <1>0, <2>1, <2>2, <2>3 DEF PassTyped, Remembers, Forgets, passVars
<1>7. ASSUME NEW x \in Owner, Start(x) \/ Thread(x)
      PROVE  /\ PassTyped
             /\ \A o \in Owner : Remembers(o) \/ Forgets(o) \/ Passes(o)
  BY <1>3, <1>4, <1>5, <1>6, <1>7
<1>8. ASSUME NEW p \in Process, Crash(p)
      PROVE  PassTyped /\ \A o \in Owner : Remembers(o) \/ Forgets(o)
  BY <1>2, <1>8 DEF Crash
<1>9. Users \/ Tick \/ Turn \/ UNCHANGED vars => UNCHANGED <<passVars, pc>>
  BY DEF Users, CreateSchedule, EditSchedule, EditExpression, EditNext, EditPolicy, SetEnabled,
     Changed, RemoveSchedule, Notify, Tick, Turn, vars
<1>10. PassTyped /\ \A o \in Owner : Remembers(o) \/ Forgets(o) \/ Passes(o)
  BY <1>1, <1>7, <1>8, <1>9 DEF Next
<1>11. QED BY <1>3, <1>10

\* The rows stay typed, and a pass lists rows.
LEMMA RowsTypedStep ==
  ASSUME SInv, RowInv, [Next]_vars
  PROVE  RowsTyped'
<1>0. now \in Nat /\ at \in [Owner -> Nat] /\ row \in [Schedule -> Row]
      /\ snap \in [Owner -> [Schedule -> Row]]
  BY DEF RowInv, RowsTyped
<1>1. now' \in Nat
  <2>1. CASE Tick
    BY <1>0, <2>1 DEF Tick
  <2>2. CASE Users
    BY <1>0, <2>2 DEF Users, CreateSchedule, EditSchedule, EditExpression, EditNext, EditPolicy,
       SetEnabled, Changed, RemoveSchedule, Notify, clockVars
  <2>3. ASSUME NEW o \in Owner, Start(o) \/ Thread(o)
        PROVE  now' = now
    BY <2>3 DEF clockVars, Start, Thread, Claiming, Executing, Recover, List, Visit, VisitsEnd,
       Observe, Record, SetNext, PassOver, Refuse, Claim, Continue, Fetch, StartRun, SkipRun, Picked,
       EnterScope, ScopeRefused, ExecutorEnds, Finish, FinishRaises, PassRaises, PassEnds, Sleep, Wake
  <2>4. Turn \/ (\E p \in Process : Crash(p)) \/ UNCHANGED vars => now' = now
    BY DEF Turn, Crash, vars, clockVars
  <2>5. QED BY <1>0, <2>1, <2>2, <2>3, <2>4 DEF Next
<1>2. row' \in [Schedule -> Row]
  <2>1. row' = [s \in Schedule |-> row'[s]]
    <3>1. CASE Schedule # {}
      BY <3>1, RowSteps
    <3>2. CASE Schedule = {}
      <4>1. CASE Users
        BY <1>0, <3>2, <4>1 DEF Users, Notify
      <4>2. CASE \E o \in Owner : Record(o) \/ SetNext(o) \/ Claim(o)
        BY <1>0, <4>2 DEF Record, SetNext, Claim
      <4>3. QED BY <1>0, <4>1, <4>2, RowWriters
    <3>3. QED BY <3>1, <3>2
  <2>2. \A s \in Schedule : row'[s] \in Row
    BY RowKept
  <2>3. QED BY <2>1, <2>2
<1>3. ASSUME NEW o \in Owner
      PROVE  at'[o] \in Nat /\ snap'[o] \in [Schedule -> Row]
  <2>1. CASE Remembers(o)
    BY <1>0, <2>1 DEF Remembers
  <2>2. CASE Forgets(o)
    <3>1. Unknown \in [Schedule -> Row]
      BY DEF Unknown, Absent, Row, Never
    <3>2. QED BY <1>0, <2>2, <3>1 DEF Forgets
  <2>3. CASE List(o)
    BY <1>0, <2>3 DEF List
  <2>4. CASE Passes(o) /\ ~List(o)
    BY <1>0, <2>4 DEF Passes, Visit, Observe, Record, SetNext, PassOver, Refuse, Claim, Continue,
       passVars
  <2>5. QED BY <2>1, <2>2, <2>3, <2>4, PassSteps
<1>4. PassTyped
  BY PassSteps
<1>5. at' \in [Owner -> Nat] /\ snap' \in [Owner -> [Schedule -> Row]]
  BY <1>3, <1>4 DEF PassTyped
<1>6. \A s \in Schedule : row'[s].enabled => row'[s].revision > 0
  BY RowKept
<1>7. QED BY <1>1, <1>2, <1>4, <1>5, <1>6 DEF RowsTyped, PassTyped

\* A row that a pass has listed keeps its expression and policy until it has
\* another revision.
LEMMA SnapIsOldStep ==
  ASSUME SInv, RowInv, [Next]_vars
  PROVE  SnapIsOld'
<1> SUFFICES ASSUME NEW o \in Owner, NEW s \in Schedule
             PROVE  /\ snap'[o][s].revision <= row'[s].revision
                    /\ Listed(o, s)' => /\ snap'[o][s].every = row'[s].every
                                        /\ snap'[o][s].policy = row'[s].policy
  BY DEF SnapIsOld
<1>1. /\ row[s].revision \in Nat /\ snap[o][s].revision \in Nat
      /\ row'[s].revision \in Nat /\ row'[s].revision >= row[s].revision
      /\ row'[s].revision = row[s].revision =>
           row'[s].every = row[s].every /\ row'[s].policy = row[s].policy
  <2>1. row[s] \in Row /\ snap[o][s] \in Row
    BY DEF RowInv, RowsTyped
  <2>2. QED BY <2>1, RowKept DEF Row
<1>2. /\ snap[o][s].revision <= row[s].revision
      /\ Listed(o, s) => snap[o][s].every = row[s].every /\ snap[o][s].policy = row[s].policy
  BY DEF RowInv, SnapIsOld
<1>3. CASE snap'[o] = snap[o]
  BY <1>1, <1>2, <1>3 DEF Listed
<1>4. CASE snap'[o] = Unknown
  BY <1>1, <1>4 DEF Listed, Unknown, Absent
<1>5. CASE List(o)
  <2>1. snap'[o] = row /\ row' = row
    BY <1>5 DEF List, rowVars, RowInv, RowsTyped
  <2>2. QED BY <1>1, <2>1 DEF Listed
<1>6. CASE Passes(o) /\ ~List(o)
  <2>1. snap' = snap
    BY <1>6 DEF Passes, Visit, Observe, Record, SetNext, PassOver, Refuse, Claim, Continue, passVars
  <2>2. QED BY <1>3, <2>1
<1>7. QED BY <1>3, <1>4, <1>5, <1>6, PassSteps DEF Remembers, Forgets

\* The journal is append-preserved.
LEMMA RunsGrow ==
  ASSUME SInv, [Next]_vars
  PROVE  DOMAIN run \subseteq DOMAIN run'
BY RunSteps, ClaimAdds

\* What a pass has still to claim stays planned by the row it listed.
LEMMA OnItemStep ==
  ASSUME SInv, RowInv, [Next]_vars, NEW o \in Owner
  PROVE  OnItem(o)'
<1>0. OnItem(o) /\ pc \in [Owner -> Labels] /\ item = [x \in Owner |-> item[x]]
      /\ slots = [x \in Owner |-> slots[x]] /\ snap \in [Owner -> [Schedule -> Row]]
      /\ at \in [Owner -> Nat]
  BY DEF RowInv, RowsTyped, SInv, SchedulerTyped
<1>1. CASE Remembers(o)
  BY <1>0, <1>1 DEF Remembers, OnItem, PlannedSlots
<1>2. CASE Forgets(o)
  BY <1>2 DEF Forgets, OnItem
<1>3. CASE List(o)
  BY <1>0, <1>3 DEF List, Goto, OnItem, Visiting
<1>4. CASE Visit(o)
  <2>1. PICK s \in todo[o] :
          /\ item' = [item EXCEPT ![o] = s]
          /\ slots' = [slots EXCEPT ![o] = PlannedSlots(s, snap[o][s], at[o])]
          /\ pc' = [pc EXCEPT ![o] = IF KindOf[s] = "condition" THEN "observe" ELSE "claim"]
          /\ snap' = snap /\ at' = at
    BY <1>4 DEF Visit, Goto
  <2>2. item'[o] = s /\ slots'[o] = PlannedSlots(s, snap[o][s], at[o])
        /\ pc'[o] = IF KindOf[s] = "condition" THEN "observe" ELSE "claim"
    BY <1>0, <2>1
  <2>3. snap[o][s].next \in slots'[o]
    BY <2>2 DEF PlannedSlots
  <2>4. slots'[o] # {} /\ slots'[o] \subseteq PlannedSlots(item'[o], snap'[o][item'[o]], at'[o])
    BY <2>1, <2>2, <2>3
  <2>5. pc'[o] \in Visiting \ {"claim"} => KindOf[item'[o]] = "condition"
    BY <2>2
  <2>6. QED BY <2>4, <2>5 DEF OnItem, PlannedSlots
<1>5. CASE Observe(o) \/ Record(o) \/ SetNext(o)
  <2>1. UNCHANGED <<at, snap, item, slots>> /\ pc[o] \in Visiting \ {"claim"}
    BY <1>5 DEF Observe, Record, SetNext, passVars, Visiting
  <2>2. KindOf[item[o]] = "condition" /\ slots[o] # {}
        /\ slots[o] \subseteq PlannedSlots(item[o], snap[o][item[o]], at[o])
    BY <1>0, <2>1 DEF OnItem
  <2>3. QED BY <2>1, <2>2 DEF OnItem, PlannedSlots
<1>6. CASE PassOver(o) \/ Refuse(o) \/ Claim(o)
  <2>1. PICK rest, claimed : Continue(o, rest, claimed) /\ rest \subseteq slots[o] /\ pc[o] = "claim"
    BY <1>6 DEF PassOver, Refuse, Claim
  <2>2. /\ slots'[o] = rest /\ UNCHANGED <<at, snap, item>>
        /\ pc'[o] = "visit" \/ (pc'[o] = "claim" /\ rest # {})
    BY <1>0, <2>1 DEF Continue, Goto
  <2>3. slots[o] \subseteq PlannedSlots(item[o], snap[o][item[o]], at[o])
    BY <1>0, <2>1 DEF OnItem, Visiting
  <2>4. QED BY <2>1, <2>2, <2>3 DEF OnItem, PlannedSlots, Visiting
<1>7. QED BY <1>1, <1>2, <1>3, <1>4, <1>5, <1>6, PassSteps DEF Passes

\* A claim for a schedule that catches up moves its next run past the slot, and
\* all the occurrences before it are in the journal.
LEMMA ServedNext ==
  ASSUME SInv, RowInv, NEW x \in Owner, NEW s \in Schedule, Served(x, s), CatchesUp(s)
  PROVE  /\ Listed(x, s)
         /\ snap[x][s].every = row[s].every
         /\ row'[s].next = Slot(x) + row[s].every /\ Slot(x) \in Nat
         /\ Occurs(snap[x][s].next, row[s].every, Slot(x))
         /\ Occurs(snap[x][s].next, row[s].every, row[s].next)
         /\ row[s].next <= Slot(x)
         /\ \A t \in Nat :
              Occurs(snap[x][s].next, row[s].every, t) /\ t < Slot(x) + row[s].every =>
                 <<s, t>> \in DOMAIN run'
<1>1. /\ pc[x] = "claim" /\ item[x] = s /\ Claim(x)
      /\ row[s].enabled /\ ~row[s].removed /\ row[s].revision = snap[x][s].revision
      /\ <<s, Slot(x)>> \notin DOMAIN run
  BY DEF Served, Claim, Stale, Candidate
<1>2. row[s] \in Row /\ snap[x][s] \in Row /\ at[x] \in Nat
  BY DEF RowInv, RowsTyped
<1>3. /\ row[s].next \in Nat /\ row[s].every \in Nat \ {0} /\ snap[x][s].next \in Nat
  BY <1>2 DEF Row
<1>4. Listed(x, s)
  BY <1>1 DEF Listed, RowInv, RowsTyped
<1>5. snap[x][s].every = row[s].every /\ snap[x][s].policy = row[s].policy
  BY <1>4 DEF RowInv, SnapIsOld
<1>6. /\ Slot(x) \in Nat /\ Slot(x) \in slots[x] /\ \A t \in slots[x] : Slot(x) <= t
      /\ slots[x] \subseteq Nat
      /\ Slot(x) \in PlannedSlots(s, snap[x][s], at[x])
      /\ Occurs(snap[x][s].next, row[s].every, Slot(x))
  BY <1>1, <1>5, SlotIs DEF Visiting
<1>7. row'[s].next = Slot(x) + row[s].every
  <2>1. Advanced(s, row[s], Slot(x), at[x]) = Slot(x) + row[s].every
    BY <1>2, <1>6, AdvancedIs DEF CatchesUp
  <2>2. row'[s] = [row[s] EXCEPT !.next = Slot(x) + row[s].every,
                                 !.enabled = Slot(x) + row[s].every # Never]
    BY <2>1 DEF Served
  <2>3. QED BY <1>2, <2>2 DEF Row
<1>8. /\ Occurs(snap[x][s].next, row[s].every, row[s].next)
      /\ \A t \in Nat : Occurs(snap[x][s].next, row[s].every, t) /\ t < row[s].next =>
                          <<s, t>> \in DOMAIN run
  BY <1>4 DEF RowInv, Journaled
<1>9. row[s].next <= Slot(x)
  BY <1>1, <1>3, <1>6, <1>8
<1>10. \A t \in PlannedSlots(s, snap[x][s], at[x]) \ slots[x] : <<s, t>> \in DOMAIN run
  BY <1>1, <1>4 DEF RowInv, SlotsDone
<1>11. DOMAIN run \subseteq DOMAIN run' /\ <<s, Slot(x)>> \in DOMAIN run'
  BY <1>1, ClaimAdds DEF Candidate
<1>12. ASSUME NEW t \in Nat, Occurs(snap[x][s].next, row[s].every, t), t < Slot(x) + row[s].every
       PROVE  <<s, t>> \in DOMAIN run'
  <2>1. CASE t < Slot(x)
    <3>1. t \in PlannedSlots(s, snap[x][s], at[x])
      BY <1>2, <1>5, <1>6, <1>12, <2>1, PlannedBefore DEF CatchesUp
    <3>2. t \notin slots[x]
      BY <1>6, <2>1
    <3>3. QED BY <1>10, <1>11, <3>1, <3>2
  <2>2. CASE t = Slot(x)
    BY <1>11, <2>2
  <2>3. CASE t > Slot(x)
    <3>1. Slot(x) + row[s].every <= t
      BY <1>3, <1>6, <1>12, <2>3, OccursNone
    <3>2. QED BY <1>3, <1>6, <1>12, <3>1
  <2>4. QED BY <1>6, <2>1, <2>2, <2>3
<1>13. QED BY <1>4, <1>5, <1>6, <1>7, <1>8, <1>9, <1>12

\* A row that is listed after a step was listed before it, by the pass that
\* still remembers it.
LEMMA ListedBefore ==
  ASSUME SInv, RowInv, [Next]_vars, NEW o \in Owner, NEW s \in Schedule,
         snap'[o] = snap[o], Listed(o, s)'
  PROVE  /\ row'[s].revision = row[s].revision /\ Listed(o, s)
         /\ row'[s].every = row[s].every /\ row'[s].policy = row[s].policy
<1>1. row[s] \in Row /\ row'[s] \in Row /\ row'[s].revision >= row[s].revision
  BY RowKept DEF RowInv, RowsTyped
<1>2. row[s].revision \in Nat /\ row'[s].revision \in Nat /\ snap[o][s].revision <= row[s].revision
      /\ snap[o][s].revision = row'[s].revision /\ row'[s].revision > 0
      /\ snap[o][s].revision \in Nat
  BY <1>1 DEF Row, RowInv, RowsTyped, SnapIsOld, Listed
<1>3. row'[s].revision = row[s].revision
  BY <1>1, <1>2
<1>4. QED BY <1>2, <1>3, RowKept DEF Listed

\* The occurrences behind the next run of a listed row are in the journal.
LEMMA JournaledStep ==
  ASSUME SInv, RowInv, [Next]_vars
  PROVE  Journaled'
<1> SUFFICES ASSUME NEW o \in Owner, NEW s \in Schedule, Listed(o, s)', CatchesUp(s)'
             PROVE  /\ Occurs(snap'[o][s].next, row'[s].every, row'[s].next)
                    /\ \A t \in Nat :
                         Occurs(snap'[o][s].next, row'[s].every, t) /\ t < row'[s].next =>
                            <<s, t>> \in DOMAIN run'
  BY DEF Journaled, Occurs
<1>1. CASE snap'[o] = Unknown
  BY <1>1 DEF Listed, Unknown, Absent
<1>2. CASE List(o)
  <2>1. snap'[o] = row /\ row' = row
    BY <1>2 DEF List, rowVars, RowInv, RowsTyped
  <2>2. row[s].next \in Nat /\ row[s].every \in Nat \ {0}
    BY DEF RowInv, RowsTyped, Row
  <2>3. Occurs(row[s].next, row[s].every, row[s].next)
    BY <2>2, OccursFirst
  <2>4. \A t \in Nat : Occurs(row[s].next, row[s].every, t) => ~(t < row[s].next)
    BY <2>2, OccursLater
  <2>5. QED BY <2>1, <2>3, <2>4
<1>3. CASE snap'[o] = snap[o]
  <2>1. /\ row'[s].revision = row[s].revision /\ Listed(o, s)
        /\ row'[s].every = row[s].every /\ row'[s].policy = row[s].policy
    BY <1>3, ListedBefore
  <2>2. CatchesUp(s)
    BY <2>1 DEF CatchesUp
  <2>3. /\ Occurs(snap[o][s].next, row[s].every, row[s].next)
        /\ \A t \in Nat : Occurs(snap[o][s].next, row[s].every, t) /\ t < row[s].next =>
                            <<s, t>> \in DOMAIN run
    BY <2>1, <2>2 DEF RowInv, Journaled
  <2>4. CASE row'[s].next = row[s].next
    BY <1>3, <2>1, <2>3, <2>4, RunsGrow
  <2>5. ASSUME NEW x \in Owner, Served(x, s)
        PROVE  /\ Occurs(snap[o][s].next, row[s].every, row'[s].next)
               /\ \A t \in Nat :
                    Occurs(snap[o][s].next, row[s].every, t) /\ t < row'[s].next =>
                       <<s, t>> \in DOMAIN run'
    <3> DEFINE a == snap[o][s].next
    <3> DEFINE b == snap[x][s].next
    <3> DEFINE e == row[s].every
    <3> DEFINE r == row[s].next
    <3> DEFINE u == Slot(x)
    <3>1. /\ row'[s].next = u + e /\ u \in Nat /\ Occurs(b, e, u) /\ Occurs(b, e, r) /\ r <= u
          /\ \A t \in Nat : Occurs(b, e, t) /\ t < u + e => <<s, t>> \in DOMAIN run'
      BY <2>2, <2>5, ServedNext
    <3>2. a \in Nat /\ b \in Nat /\ r \in Nat /\ e \in Nat \ {0}
      BY DEF RowInv, RowsTyped, Row
    <3>3. Occurs(a, e, r) /\ \A t \in Nat : Occurs(a, e, t) /\ t < r => <<s, t>> \in DOMAIN run'
      BY <2>3, RunsGrow
    <3> HIDE DEF a, b, e, r, u
    <3>4. Occurs(r, e, u)
      BY <3>1, <3>2, OccursFrom
    <3>5. Occurs(a, e, u + e)
      BY <3>2, <3>3, <3>4, OccursAfter, OccursFirst
    <3>6. ASSUME NEW t \in Nat, Occurs(a, e, t), t < u + e
          PROVE  <<s, t>> \in DOMAIN run'
      <4>1. CASE t < r
        BY <3>3, <3>6, <4>1
      <4>2. CASE r <= t
        <5>1. Occurs(r, e, t)
          BY <3>2, <3>3, <3>6, <4>2, OccursFrom
        <5>2. Occurs(b, e, t)
          BY <3>1, <3>2, <5>1, OccursAfter
        <5>3. QED BY <3>1, <3>6, <5>2
      <4>3. QED BY <3>2, <4>1, <4>2
    <3>7. QED BY <3>1, <3>5, <3>6 DEF a, e
  <2>6. ASSUME NEW x \in Owner, Deferred(x, s)
        PROVE  FALSE
    BY <2>2, <2>6 DEF Deferred, CatchesUp
  <2>7. QED BY <1>3, <2>1, <2>4, <2>5, <2>6, RowKept
<1>4. CASE Passes(o) /\ ~List(o)
  <2>1. snap' = snap
    BY <1>4 DEF Passes, Visit, Observe, Record, SetNext, PassOver, Refuse, Claim, Continue, passVars
  <2>2. QED BY <1>3, <2>1
<1>5. QED BY <1>1, <1>2, <1>3, <1>4, PassSteps DEF Remembers, Forgets

\* A pass leaves a slot behind only when it is in the journal, or its row has
\* another revision, is paused or removed.
LEMMA SlotsDoneStep ==
  ASSUME SInv, RowInv, [Next]_vars, NEW o \in Owner
  PROVE  SlotsDone(o)'
<1> SUFFICES ASSUME NEW s, item'[o] = s,
                    pc'[o] = "claim", Listed(o, s)', CatchesUp(s)', row'[s].enabled, ~row'[s].removed,
                    NEW t \in PlannedSlots(s, snap'[o][s], at'[o]), t \notin slots'[o]
             PROVE  <<s, t>> \in DOMAIN run'
  BY DEF SlotsDone, PlannedSlots, Listed, CatchesUp
<1>0. s \in Schedule /\ KindOf[s] = "recurring"
  <2>1. SchedulerTyped' /\ pc'[o] \in Visiting
    BY TypedStep DEF Visiting
  <2>2. QED BY <2>1 DEF SchedulerTyped, CatchesUp
<1>1. DOMAIN run \subseteq DOMAIN run'
  BY RunsGrow
<1>2. ASSUME snap'[o] = snap[o]
      PROVE  /\ Listed(o, s) /\ CatchesUp(s) /\ row[s].enabled /\ ~row[s].removed
             /\ row'[s].revision = row[s].revision
  <2>1. /\ row'[s].revision = row[s].revision /\ Listed(o, s) /\ row'[s].policy = row[s].policy
    BY <1>0, <1>2, ListedBefore
  <2>2. QED BY <1>0, <2>1, RowKept DEF CatchesUp
<1>3. CASE Remembers(o)
  <2>1. /\ pc[o] = "claim" /\ item[o] = s /\ snap'[o] = snap[o]
        /\ t \in PlannedSlots(s, snap[o][s], at[o]) \ slots[o]
    BY <1>3 DEF Remembers
  <2>2. QED BY <1>1, <1>2, <2>1 DEF RowInv, SlotsDone
<1>4. CASE Forgets(o)
  BY <1>4 DEF Forgets, Visiting
<1>5. CASE Visit(o)
  <2>1. slots'[o] = PlannedSlots(s, snap'[o][s], at'[o])
    BY <1>5 DEF Visit, RowInv, RowsTyped, SInv, SchedulerTyped
  <2>2. QED BY <2>1
<1>6. CASE List(o)
  BY <1>6 DEF List, Goto, SInv, SchedulerTyped
<1>7. CASE Observe(o) \/ Record(o) \/ SetNext(o)
  <2>1. item' = item /\ pc[o] \in Visiting \ {"claim"}
    BY <1>7 DEF Observe, Record, SetNext, passVars, Visiting
  <2>2. KindOf[s] = "condition"
    BY <2>1 DEF RowInv, OnItem
  <2>3. QED BY <1>0, <2>2
<1>8. CASE PassOver(o) \/ Refuse(o) \/ Claim(o)
  <2>1. PICK rest, claimed : Continue(o, rest, claimed)
    BY <1>8 DEF PassOver, Refuse, Claim
  <2>2. /\ pc[o] = "claim" /\ UNCHANGED <<at, snap, item>> /\ item[o] = s
    BY <1>8, <2>1 DEF PassOver, Refuse, Claim, Continue
  <2>3. slots'[o] = rest /\ rest # {}
    BY <2>1 DEF Continue, Goto, RowInv, RowsTyped, SInv, SchedulerTyped
  <2>4. rest = slots[o] \ {Slot(o)} /\ ~Refuse(o)
    <3>1. CASE Refuse(o)
      <4>1. slots'[o] = {}
        BY <3>1 DEF Refuse, Continue, RowInv, RowsTyped
      <4>2. QED BY <2>3, <4>1
    <3>2. CASE PassOver(o) \/ Claim(o)
      <4>1. slots'[o] = slots[o] \ {Slot(o)}
        BY <3>2 DEF PassOver, Claim, Continue, RowInv, RowsTyped
      <4>2. CASE Refuse(o)
        BY <3>1, <4>2
      <4>3. QED BY <2>3, <4>1, <3>1
    <3>3. QED BY <1>8, <3>1, <3>2
  <2>5. /\ Listed(o, s) /\ CatchesUp(s) /\ row[s].enabled /\ ~row[s].removed
    BY <1>2, <2>2
  <2>6. \A x \in PlannedSlots(s, snap[o][s], at[o]) \ slots[o] : <<s, x>> \in DOMAIN run
    BY <2>2, <2>5 DEF RowInv, SlotsDone
  <2>7. <<s, Slot(o)>> \in DOMAIN run'
    <3>1. CASE Claim(o)
      BY ZenonT(60), <2>2, <3>1, ClaimAdds DEF Candidate
    <3>2. CASE PassOver(o) /\ Candidate(o) \in DOMAIN run
      BY <1>1, <2>2, <3>2 DEF Candidate
    <3>3. CASE PassOver(o) /\ Stale(o)
      <4>1. Slot(o) = snap[o][s].next /\ row[s].next # snap[o][s].next
        BY <2>2, <2>5, <3>3 DEF Stale, Listed
      <4>2. /\ snap[o][s].next \in Nat /\ row[s].every \in Nat \ {0} /\ row[s].next \in Nat
        BY <1>0 DEF RowInv, RowsTyped, Row
      <4>3. /\ Occurs(snap[o][s].next, row[s].every, row[s].next)
            /\ \A x \in Nat : Occurs(snap[o][s].next, row[s].every, x) /\ x < row[s].next =>
                                <<s, x>> \in DOMAIN run
        BY <1>0, <2>5 DEF RowInv, Journaled
      <4>4. row[s].next >= snap[o][s].next /\ Occurs(snap[o][s].next, row[s].every, snap[o][s].next)
        BY <4>2, <4>3, OccursLater, OccursFirst
      <4>5. snap[o][s].next < row[s].next
        BY <4>1, <4>2, <4>4
      <4>6. QED BY <1>1, <4>1, <4>2, <4>3, <4>4, <4>5
    <3>4. QED BY <1>8, <2>4, <3>1, <3>2, <3>3 DEF PassOver
  <2>8. t \in PlannedSlots(s, snap[o][s], at[o]) /\ (t \notin slots[o] \/ t = Slot(o))
    BY <2>2, <2>3, <2>4
  <2>9. QED BY <1>1, <2>6, <2>7, <2>8
<1>9. QED BY <1>3, <1>4, <1>5, <1>6, <1>7, <1>8, PassSteps DEF Passes

\* What passes know of rows, for every set of schedules and passes.
THEOREM SchedulerRows == Spec => []RowInv
<1>1. Init => RowInv
  BY RowInit
<1>2. SInv /\ RowInv /\ [Next]_vars => RowInv'
  BY RowsTypedStep, SnapIsOldStep, JournaledStep, OnItemStep, SlotsDoneStep DEF RowInv
<1>3. QED BY <1>1, <1>2, SchedulerInvariant, PTL DEF Spec

-----------------------------------------------------------------------------
(* What a next run stands for *)

\* No occurrence is lost: the next run of a schedule moves past its own
\* occurrence, and with catch-up past all those in between, only once they are
\* in the journal, whoever claims, edits and crashes meanwhile
\* (claim_due, _planned_slots, _advance).
THEOREM SchedulerNoOccurrenceLost == Spec => NoOccurrenceLost
<1> DEFINE Kept(s) ==
      LET from == row[s].next
          to == row'[s].next
      IN  (/\ KindOf[s] # "condition" /\ to # from
           /\ row'[s].revision = row[s].revision)
          => /\ <<s, from>> \in DOMAIN run'
             /\ (KindOf[s] = "recurring" /\ row[s].policy = "catch-up") =>
                  \A t \in from..(to - 1) :
                     (t - from) % row[s].every = 0 => <<s, t>> \in DOMAIN run'
<1>1. ASSUME SInv, RowInv, Next, NEW s \in Schedule, KindOf[s] # "condition",
             row'[s].next # row[s].next, row'[s].revision = row[s].revision
      PROVE  /\ <<s, row[s].next>> \in DOMAIN run'
             /\ CatchesUp(s) =>
                  \A t \in row[s].next..(row'[s].next - 1) :
                     (t - row[s].next) % row[s].every = 0 => <<s, t>> \in DOMAIN run'
  <2>1. PICK o \in Owner : Served(o, s)
    BY <1>1, RowKept DEF Deferred
  <2>2. /\ pc[o] = "claim" /\ item[o] = s /\ Claim(o) /\ ~Stale(o)
        /\ <<s, Slot(o)>> \in DOMAIN run'
    BY ZenonT(60), <1>1, <2>1, ClaimAdds DEF Served, Claim, Candidate
  <2>3. row[s].next \in Nat /\ row[s].every \in Nat \ {0}
    BY <1>1 DEF RowInv, RowsTyped, Row
  <2>4. CASE ~CatchesUp(s)
    <3>1. Listed(o, s)
      BY <1>1, <2>2 DEF Listed, Stale, RowInv, RowsTyped
    <3>2. snap[o][s].policy = row[s].policy
      BY <1>1, <3>1 DEF RowInv, SnapIsOld
    <3>3. Slot(o) \in PlannedSlots(s, snap[o][s], at[o])
      BY <1>1, <2>2, SlotIs DEF Visiting
    <3>4. Slot(o) = snap[o][s].next
      BY <2>4, <3>2, <3>3 DEF PlannedSlots, CatchesUp
    <3>5. row[s].next = Slot(o)
      BY <2>2, <3>4 DEF Stale
    <3>6. QED BY <2>2, <2>4, <3>5
  <2>5. CASE CatchesUp(s)
    <3> DEFINE b == snap[o][s].next
    <3> DEFINE e == row[s].every
    <3> DEFINE r == row[s].next
    <3>1. /\ row'[s].next = Slot(o) + e /\ Slot(o) \in Nat /\ Occurs(b, e, r) /\ r <= Slot(o)
          /\ \A t \in Nat : Occurs(b, e, t) /\ t < Slot(o) + e => <<s, t>> \in DOMAIN run'
      BY <1>1, <2>1, <2>5, ServedNext
    <3>2. b \in Nat
      BY <1>1 DEF RowInv, RowsTyped, Row
    <3> HIDE DEF b
    <3>3. ASSUME NEW t \in r..(row'[s].next - 1), (t - r) % e = 0
          PROVE  <<s, t>> \in DOMAIN run'
      <4>1. t \in Nat /\ t - r \in Nat /\ t < Slot(o) + e
        BY <2>3, <3>1
      <4>2. PICK k \in Nat : t - r = k * e
        BY <2>3, <3>3, <4>1, Multiple
      <4>3. t = r + k * e
        BY <2>3, <4>1, <4>2
      <4>4. Occurs(b, e, t)
        <5>1. Occurs(r, e, t)
          BY <4>3 DEF Occurs
        <5>2. QED BY <2>3, <3>1, <3>2, <5>1, OccursAfter
      <4>5. QED BY <3>1, <4>1, <4>4
    <3>4. <<s, r>> \in DOMAIN run'
      BY <2>3, <3>1
    <3>5. QED BY <3>3, <3>4
  <2>6. QED BY <2>4, <2>5
<1>2. SInv /\ RowInv /\ [Next]_vars => [\A s \in Schedule : Kept(s)]_vars
  BY <1>1 DEF CatchesUp
<1>3. QED
  BY <1>2, SchedulerInvariant, SchedulerRows, PTL DEF Spec, NoOccurrenceLost

\* No schedule watches a condition.
NoWatch == \A s \in Schedule : KindOf[s] # "condition"

\* What a user has set is replaced only by a scheduler that has listed it
\* (claim_due compares the revision), when no schedule is a watch: the next run
\* of a watch is written without a comparison, by _set_next.
THEOREM SchedulerEditSurvives == NoWatch /\ Spec => EditSurvives
<1> DEFINE Kept(s) ==
      row'[s].next # row[s].next /\ row'[s].revision = row[s].revision =>
         \E o \in Owner : /\ pc[o] \in {"claim", "advance"}
                          /\ item[o] = s
                          /\ snap[o][s].revision = row[s].revision
<1>0. NoWatch => NoWatch'
  BY DEF NoWatch
<1>1. ASSUME SInv, RowInv, NoWatch, Next, NEW s \in Schedule
      PROVE  Kept(s)
  <2> SUFFICES ASSUME row'[s].next # row[s].next, row'[s].revision = row[s].revision
               PROVE  \E o \in Owner : /\ pc[o] \in {"claim", "advance"}
                                       /\ item[o] = s
                                       /\ snap[o][s].revision = row[s].revision
    OBVIOUS
  <2>1. PICK o \in Owner : Served(o, s)
    BY <1>1, RowKept DEF Deferred, NoWatch
  <2>2. pc[o] = "claim" /\ item[o] = s /\ ~Stale(o)
    BY <2>1 DEF Served, Claim
  <2>3. snap[o][s].revision = row[s].revision
    BY <2>2 DEF Stale
  <2>4. QED BY <2>2, <2>3
<1>2. SInv /\ RowInv /\ NoWatch /\ [Next]_vars => [\A s \in Schedule : Kept(s)]_vars
  BY <1>1
<1>3. QED
  BY <1>0, <1>2, SchedulerInvariant, SchedulerRows, PTL DEF Spec, EditSurvives

-----------------------------------------------------------------------------
(* The service and its wait *)

Up(o) == pc[o] \notin {"off", "over"}

\* One service at a time binds the socket, and only a service sleeps.
OneService == \A o, x \in Service : Up(o) /\ Up(x) => o = x
OnlyServicesSleep == \A o \in Owner : pc[o] \in {"sleep", "wait"} => o \in Service

ServiceInv == OneService /\ OnlyServicesSleep /\ deadline \in [Owner -> Nat]

\* A thread that goes on was up, and its step is its own.
LEMMA UpSteps ==
  ASSUME SInv, [Next]_vars, NEW o \in Owner
  PROVE  /\ Up(o)' => Up(o) \/ Start(o)
         /\ pc'[o] \in {"sleep", "wait"} =>
              \/ pc[o] = pc'[o] /\ \A x \in Owner : ~(x = o /\ (Start(x) \/ Thread(x)))
              \/ PassEnds(o) /\ pc'[o] = "sleep" /\ o \in Service
              \/ Sleep(o) /\ pc'[o] = "wait"
<1>0. pc \in [Owner -> Labels]
  BY DEF SInv, SchedulerTyped
<1>1. CASE StaysPut /\ ~\E x \in Owner : Start(x) \/ Thread(x)
  BY <1>1 DEF StaysPut, Up
<1>2. ASSUME NEW x \in Owner, Start(x) \/ Thread(x), x # o
      PROVE  pc'[o] = pc[o]
  BY <1>2, OthersStay
<1>3. CASE Start(o) \/ Thread(o)
  <2>1. Up(o) \/ Start(o)
    BY <1>3 DEF Up, Thread, Claiming, Executing, Recover, List, Visit, VisitsEnd, Observe,
       Record, SetNext, PassOver, Refuse, Claim, Fetch, StartRun, SkipRun, Picked, EnterScope,
       ScopeRefused, ExecutorEnds, Finish, FinishRaises, Finishing, PassRaises, PassEnds, Sleep, Wake
  <2>2. CASE FinishRaises(o) \/ PassRaises(o)
    <3>1. Over({o})
      BY <2>2 DEF FinishRaises, PassRaises
    <3>2. pc'[o] = "over"
      BY <3>1, OverKeeps DEF SInv
    <3>3. QED BY <2>1, <3>2 DEF Up
  <2>3. CASE PassEnds(o)
    <3>1. pc'[o] = IF o \in Service THEN "sleep" ELSE "over"
      BY <1>0, <2>3 DEF PassEnds, Goto
    <3>2. QED BY <2>1, <2>3, <3>1
  <2>4. CASE Sleep(o)
    <3>1. pc'[o] = "wait"
      BY <1>0, <2>4 DEF Sleep, Goto
    <3>2. QED BY <2>1, <2>4, <3>1
  <2>5. CASE Start(o) \/ Recover(o) \/ List(o) \/ Visit(o) \/ VisitsEnd(o) \/ Observe(o) \/ Record(o)
             \/ SetNext(o) \/ Wake(o)
    <3>1. pc'[o] \notin {"sleep", "wait"}
      BY ZenonT(60), <1>0, <2>5 DEF Start, Recover, List, Visit, VisitsEnd, Observe, Record, SetNext,
         Wake, Goto
    <3>2. QED BY <2>1, <3>1
  <2>6. CASE PassOver(o) \/ Refuse(o) \/ Claim(o)
    <3>1. pc'[o] \notin {"sleep", "wait"}
      BY ZenonT(60), <1>0, <2>6 DEF PassOver, Refuse, Claim, Continue, Goto
    <3>2. QED BY <2>1, <3>1
  <2>7. CASE Fetch(o) \/ StartRun(o) \/ SkipRun(o) \/ EnterScope(o) \/ ScopeRefused(o)
             \/ ExecutorEnds(o) \/ Finish(o)
    <3>1. pc'[o] \notin {"sleep", "wait"}
      BY <1>0, <2>7 DEF Fetch, StartRun, SkipRun, Picked, EnterScope, ScopeRefused, ExecutorEnds,
         Finish, Goto
    <3>2. QED BY <2>1, <3>1
  <2>8. QED
    BY <1>3, <2>2, <2>3, <2>4, <2>5, <2>6, <2>7 DEF Thread, Claiming, Executing
<1>4. ASSUME NEW p \in Process, Crash(p)
      PROVE  pc'[o] = "over" \/ pc'[o] = pc[o]
  <2>1. Over({x \in Owner : ProcessOf[x] = p})
    BY <1>4 DEF Crash
  <2>2. QED BY <2>1, OverKeeps DEF SInv
<1>5. ASSUME NEW p \in Process, Crash(p), NEW x \in Owner
      PROVE  ~(Start(x) \/ Thread(x))
  <2>1. proc[p] = "alive" /\ proc'[p] = "gone"
    BY <1>5 DEF Crash, SInv, SchedulerTyped
  <2>2. QED BY <2>1, ThreadsLive
<1>6. ASSUME ~\E x \in Owner : x = o /\ (Start(x) \/ Thread(x)), pc'[o] = pc[o]
      PROVE  /\ Up(o)' => Up(o)
             /\ pc'[o] \in {"sleep", "wait"} =>
                  pc[o] = pc'[o] /\ \A x \in Owner : ~(x = o /\ (Start(x) \/ Thread(x)))
  BY <1>6 DEF Up
<1>7. CASE ~(Start(o) \/ Thread(o))
  <2>1. pc'[o] = pc[o] \/ pc'[o] = "over"
    BY <1>2, <1>4, <1>7, UsersStay DEF Next, StaysPut
  <2>2. QED BY <1>6, <1>7, <2>1 DEF Up
<1>8. QED BY <1>3, <1>7

\* One service at a time, then and ever.
LEMMA ServiceStep ==
  ASSUME SInv, ServiceInv, [Next]_vars
  PROVE  OneService' /\ OnlyServicesSleep'
<1>0. pc \in [Owner -> Labels] /\ Service \subseteq Owner
  BY ServicesAreOwners DEF SInv, SchedulerTyped
<1>1. OnlyServicesSleep'
  <2> SUFFICES ASSUME NEW o \in Owner, pc'[o] \in {"sleep", "wait"} PROVE o \in Service
    BY DEF OnlyServicesSleep
  <2>1. CASE pc[o] = pc'[o]
    BY <2>1 DEF ServiceInv, OnlyServicesSleep
  <2>2. CASE Sleep(o)
    BY <2>2 DEF Sleep, ServiceInv, OnlyServicesSleep
  <2>3. QED BY <2>1, <2>2, UpSteps
<1>2. ASSUME NEW o \in Service, NEW x \in Service, Up(o)', Up(x)', o # x
      PROVE  FALSE
  <2>1. ~Start(o) /\ ~Start(x)
    <3>1. ASSUME NEW y \in Service, NEW z \in Service, Start(y), Up(z)', y # z
          PROVE  FALSE
      <4>1. pc[z] \in {"off", "over"} /\ pc'[z] = pc[z]
        BY <1>0, <3>1 DEF Start, Goto
      <4>2. QED BY <3>1, <4>1 DEF Up
    <3>2. QED BY <1>2, <3>1
  <2>2. Up(o) /\ Up(x)
    BY <1>0, <1>2, <2>1, UpSteps
  <2>3. QED BY <1>0, <1>2, <2>2 DEF ServiceInv, OneService
<1>3. QED BY <1>1, <1>2 DEF OneService

\* The times at which a service may have to wake are numbers.
LEMMA NextWakeIs ==
  ASSUME SInv, RowInv
  PROVE  /\ NextWake \in Nat
         /\ \A s \in Schedule : Live(s) /\ row[s].enabled => NextWake <= row[s].next \/ NextWake <= now
<1> DEFINE times == {row[s].next : s \in {s \in Schedule : Live(s) /\ row[s].enabled}} \union {now + MaxWait}
<1>1. now \in Nat /\ MaxWait \in Nat /\ \A s \in Schedule : row[s].next \in Nat
  BY LimitsAreNat DEF RowInv, RowsTyped, Row
<1>2. times \subseteq Nat /\ times # {}
  BY <1>1
<1>3. Earliest(times) \in Nat /\ \A t \in times : Earliest(times) <= t
  <2> HIDE DEF times
  <2>1. QED BY <1>2, EarliestIs
<1>4. NextWake = IF Claimed # {} THEN now ELSE Earliest(times)
  BY DEF NextWake
<1>5. \A s \in Schedule : Live(s) /\ row[s].enabled => row[s].next \in times
  OBVIOUS
<1> HIDE DEF times
<1>6. QED BY <1>1, <1>3, <1>4, <1>5

\* A wait is begun by its service, and no step of another changes its end.
LEMMA WaitSteps ==
  ASSUME SInv, RowInv, ServiceInv, [Next]_vars
  PROVE  /\ deadline' \in [Owner -> Nat]
         /\ \A o \in Owner :
              pc'[o] = "wait" =>
                 \/ Sleep(o) /\ deadline'[o] = NextWake
                 \/ pc[o] = "wait" /\ deadline'[o] = deadline[o]
<1>0. pc \in [Owner -> Labels] /\ deadline \in [Owner -> Nat]
  BY DEF SInv, SchedulerTyped, ServiceInv
<1>1. ASSUME NEW o \in Owner, pc'[o] = "wait", ~Sleep(o)
      PROVE  pc[o] = "wait" /\ ~Start(o) /\ ~Thread(o)
  BY <1>1, UpSteps
<1>2. CASE UNCHANGED deadline
  <2>1. ASSUME NEW o \in Owner, Sleep(o) PROVE deadline'[o] = NextWake
    BY <1>0, <2>1 DEF Sleep
  <2>2. QED BY <1>0, <1>1, <1>2, <2>1
<1>3. ASSUME NEW x \in Owner, Sleep(x)
      PROVE  /\ deadline' \in [Owner -> Nat]
             /\ deadline'[x] = NextWake /\ \A o \in Owner : o # x => deadline'[o] = deadline[o]
  <2>1. NextWake \in Nat /\ deadline' = [deadline EXCEPT ![x] = NextWake]
    BY <1>3, NextWakeIs DEF Sleep
  <2> HIDE DEF NextWake
  <2>2. QED BY <1>0, <2>1
<1>4. ASSUME NEW x \in Owner, Wake(x)
      PROVE  /\ deadline' \in [Owner -> Nat]
             /\ \A o \in Owner : o # x => deadline'[o] = deadline[o]
  BY <1>0, <1>4 DEF Wake
<1>5. ASSUME NEW S \in SUBSET Owner, Over(S)
      PROVE  /\ deadline' \in [Owner -> Nat]
             /\ \A o \in Owner : /\ o \in S => pc'[o] = "over"
                                 /\ o \notin S => deadline'[o] = deadline[o] /\ pc'[o] = pc[o]
  BY <1>0, <1>5 DEF Over, Cleared
<1>6. ASSUME NEW x \in Owner, Start(x) \/ Thread(x), ~Sleep(x), ~Wake(x), ~FinishRaises(x), ~PassRaises(x)
      PROVE  UNCHANGED deadline
  BY <1>6 DEF Start, Thread, Claiming, Executing, Recover, List, Visit, VisitsEnd, Observe,
     Record, SetNext, PassOver, Refuse, Claim, Continue, Fetch, StartRun, SkipRun, Picked, EnterScope,
     ScopeRefused, ExecutorEnds, Finish, PassEnds
<1>7. Users \/ Tick \/ Turn \/ UNCHANGED vars => UNCHANGED deadline
  BY DEF Users, CreateSchedule, EditSchedule, EditExpression, EditNext, EditPolicy, SetEnabled,
     Changed, RemoveSchedule, Notify, Tick, Turn, vars
<1>8. ASSUME NEW x \in Owner, Start(x) \/ Thread(x)
      PROVE  /\ deadline' \in [Owner -> Nat]
             /\ \A o \in Owner :
                  pc'[o] = "wait" =>
                     \/ Sleep(o) /\ deadline'[o] = NextWake
                     \/ pc[o] = "wait" /\ deadline'[o] = deadline[o]
  <2>1. CASE Sleep(x)
    BY <1>1, <1>3, <2>1
  <2>2. CASE Wake(x)
    <3>1. \A o \in Owner : pc'[o] = "wait" /\ ~Sleep(o) => o # x
      BY <1>1, <2>2 DEF Thread
    <3>2. \A o \in Owner : ~Sleep(o)
      <4>1. ASSUME NEW o \in Owner, Sleep(o) PROVE FALSE
        <5>1. datagram' = FALSE /\ pc' = [pc EXCEPT ![x] = "list"] /\ pc' = [pc EXCEPT ![o] = "wait"]
          BY <2>2, <4>1 DEF Wake, Sleep, Goto
        <5>2. pc'[o] = "wait" /\ pc[o] = "sleep" /\ pc[x] = "wait" /\ o # x
          BY <1>0, <2>2, <4>1, <5>1 DEF Wake, Sleep
        <5>3. pc'[o] = pc[o]
          BY <1>0, <5>1, <5>2
        <5>4. QED BY <5>2, <5>3
      <4>2. QED BY <4>1
    <3>3. QED BY <1>1, <1>4, <2>2, <3>1, <3>2
  <2>3. CASE FinishRaises(x) \/ PassRaises(x)
    <3>1. Over({x})
      BY <2>3 DEF FinishRaises, PassRaises
    <3>2. \A o \in Owner : pc'[o] = "wait" => o # x /\ deadline'[o] = deadline[o] /\ pc[o] = "wait"
      BY <1>5, <3>1
    <3>3. QED BY <1>5, <3>1, <3>2
  <2>4. CASE ~Sleep(x) /\ ~Wake(x) /\ ~FinishRaises(x) /\ ~PassRaises(x)
    BY <1>2, <1>6, <1>8, <2>4
  <2>5. QED BY <2>1, <2>2, <2>3, <2>4
<1>9. ASSUME NEW p \in Process, Crash(p)
      PROVE  /\ deadline' \in [Owner -> Nat]
             /\ \A o \in Owner : pc'[o] = "wait" => pc[o] = "wait" /\ deadline'[o] = deadline[o]
  <2>1. Over({x \in Owner : ProcessOf[x] = p})
    BY <1>9 DEF Crash
  <2>2. QED BY <1>5, <2>1
<1>10. QED BY <1>2, <1>7, <1>8, <1>9 DEF Next

\* Without faults a change reaches the service that waits: what is committed is
\* notified, and a datagram is taken only by waking the service.
LEMMA SignalSteps ==
  ASSUME SInv, ServiceInv, [Next]_vars, ~Faults,
         NEW o \in Service, pc[o] = "wait", pc'[o] = "wait", ~datagram', ~unsent'
  PROVE  ~datagram /\ ~unsent /\ \A s \in Schedule : \A new : ~Changed(s, new)
<1>0. o \in Owner /\ Up(o) /\ pc \in [Owner -> Labels]
  BY ServicesAreOwners DEF Up, SInv, SchedulerTyped
<1>1. ~Notify
  BY <1>0 DEF Notify, Up
<1>2. ASSUME NEW S \in SUBSET Owner, Over(S)
      PROVE  ~datagram
  <2>1. o \notin S
    BY <1>0, <1>2 DEF Over, Cleared
  <2>2. \A x \in S \cap Service : pc[x] \in {"off", "over"}
    BY <1>0, <2>1 DEF ServiceInv, OneService, Up
  <2>3. datagram' = (datagram /\ ~\E x \in S \cap Service : pc[x] \notin {"off", "over"})
    BY <1>2 DEF Over
  <2>4. QED BY <2>2, <2>3
<1>3. ASSUME NEW x \in Owner, Wake(x)
      PROVE  FALSE
  <2>1. pc[x] = "wait" /\ pc'[x] = "list"
    BY <1>0, <1>3 DEF Wake, Goto
  <2>2. x \in Service /\ Up(x)
    BY <2>1 DEF ServiceInv, OnlyServicesSleep, Up
  <2>3. x = o
    BY <1>0, <2>2 DEF ServiceInv, OneService
  <2>4. QED BY <2>1, <2>3
<1>4. \A s \in Schedule : \A new : ~Changed(s, new)
  BY DEF Changed
<1>5. ASSUME NEW x \in Owner, Start(x) \/ Thread(x), ~FinishRaises(x), ~PassRaises(x), ~Wake(x)
      PROVE  UNCHANGED datagram
  BY <1>5 DEF Start, Thread, Claiming, Executing, Recover, List, Visit, VisitsEnd, Observe,
     Record, SetNext, PassOver, Refuse, Claim, Continue, Fetch, StartRun, SkipRun, Picked, EnterScope,
     ScopeRefused, ExecutorEnds, Finish, PassEnds, Sleep
<1>6. ASSUME NEW x \in Owner, Start(x) \/ Thread(x)
      PROVE  UNCHANGED unsent
  BY <1>6 DEF rowVars, Start, Thread, Claiming, Executing, Recover, List, Visit, VisitsEnd, Observe,
     Record, SetNext, PassOver, Refuse, Claim, Continue, Fetch, StartRun, SkipRun, Picked, EnterScope,
     ScopeRefused, ExecutorEnds, Finish, FinishRaises, PassRaises, PassEnds, Sleep, Wake
<1>7. ASSUME NEW x \in Owner, Start(x) \/ Thread(x)
      PROVE  ~datagram /\ ~unsent
  <2>1. CASE FinishRaises(x) \/ PassRaises(x)
    <3>1. Over({x})
      BY <2>1 DEF FinishRaises, PassRaises
    <3>2. QED BY <1>2, <1>6, <1>7, <3>1
  <2>2. CASE ~FinishRaises(x) /\ ~PassRaises(x)
    BY <1>3, <1>5, <1>6, <1>7, <2>2
  <2>3. QED BY <2>1, <2>2
<1>8. ASSUME NEW p \in Process, Crash(p)
      PROVE  ~datagram /\ ~unsent
  <2>1. Over({x \in Owner : ProcessOf[x] = p}) /\ unsent' = unsent
    BY <1>8 DEF Crash, rowVars
  <2>2. QED BY <1>2, <2>1
<1>9. CASE Users
  <2>1. \/ \E s \in Schedule : RemoveSchedule(s)
        \/ \E s \in Schedule : \E new : Changed(s, new)
    BY <1>1, <1>9 DEF Users, CreateSchedule, EditSchedule, EditExpression, EditNext, EditPolicy, SetEnabled
  <2>2. PICK s \in Schedule : RemoveSchedule(s)
    BY <1>4, <2>1
  <2>3. QED BY <1>4, <2>2 DEF RemoveSchedule
<1>10. Tick \/ Turn \/ UNCHANGED vars => UNCHANGED <<datagram, unsent>>
  BY DEF Tick, Turn, rowVars, vars
<1>11. QED BY <1>4, <1>7, <1>8, <1>9, <1>10 DEF Next

\* No next run is before the slot that it follows, but that of a watch.
LEMMA AdvancedLater ==
  ASSUME NEW s \in Schedule, NEW r \in Row, NEW planned \in Nat, NEW current \in Nat,
         KindOf[s] = "recurring"
  PROVE  Advanced(s, r, planned, current) >= planned
<1> DEFINE c == planned + r.every
<1>1. r.every \in Nat \ {0} /\ r.policy \in {"skip", "run-once", "catch-up"}
  BY DEF Row
<1>2. c \in Nat /\ c >= planned /\ current + r.every >= current
  BY <1>1
<1>3. CASE r.policy = "skip" /\ c <= current
  <2>1. current - c \in Nat
    BY <1>2, <1>3
  <2> HIDE DEF c
  <2>2. (current - c) \div r.every + 1 \in Nat
    BY <1>1, <2>1
  <2>3. r.every * ((current - c) \div r.every + 1) \in Nat
    BY <1>1, <2>2
  <2>4. c + r.every * ((current - c) \div r.every + 1) >= planned
    BY <1>2, <2>3
  <2>5. Advanced(s, r, planned, current) = c + r.every * ((current - c) \div r.every + 1)
    BY <1>3 DEF Advanced, c
  <2>6. QED BY <2>4, <2>5
<1>4. CASE r.policy = "run-once" /\ c <= current
  <2>1. Advanced(s, r, planned, current) = current + r.every
    BY <1>4 DEF Advanced
  <2>2. QED BY <1>1, <1>2, <1>4, <2>1
<1>5. CASE r.policy = "catch-up" \/ ~(c <= current)
  <2>1. Advanced(s, r, planned, current) = c
    BY <1>1, <1>5 DEF Advanced
  <2>2. QED BY <1>2, <2>1
<1>6. QED BY <1>1, <1>3, <1>4, <1>5

\* So a claim moves the next run of a schedule that stays enabled only forward.
LEMMA ServedForward ==
  ASSUME SInv, RowInv, NEW x \in Owner, NEW s \in Schedule, Served(x, s),
         KindOf[s] # "condition", row'[s].enabled
  PROVE  row'[s].next >= row[s].next /\ row'[s].next \in Nat /\ row[s].enabled /\ ~row[s].removed
<1>1. /\ pc[x] = "claim" /\ item[x] = s /\ Claim(x)
      /\ row[s].enabled /\ ~row[s].removed /\ row[s].revision = snap[x][s].revision
      /\ Slot(x) = snap[x][s].next => row[s].next = snap[x][s].next
  BY DEF Served, Claim, Stale
<1>2. row[s] \in Row /\ snap[x][s] \in Row /\ at[x] \in Nat
  BY DEF RowInv, RowsTyped
<1>3. /\ row[s].next \in Nat /\ row[s].every \in Nat \ {0} /\ snap[x][s].next \in Nat
  BY <1>2 DEF Row
<1>4. Slot(x) \in Nat /\ Slot(x) \in PlannedSlots(s, snap[x][s], at[x])
  BY <1>1, SlotIs DEF Visiting
<1>5. Advanced(s, row[s], Slot(x), at[x]) \in Nat
  BY <1>2, <1>4, AdvancedIs
<1>6. row'[s].next = Advanced(s, row[s], Slot(x), at[x])
      /\ row'[s].enabled = (Advanced(s, row[s], Slot(x), at[x]) # Never)
  <2> DEFINE n == Advanced(s, row[s], Slot(x), at[x])
  <2>1. row'[s] = [row[s] EXCEPT !.next = n, !.enabled = n # Never]
    BY DEF Served
  <2> HIDE DEF n
  <2>2. QED BY <1>2, <2>1 DEF Row, n
<1>7. KindOf[s] = "recurring"
  <2>1. KindOf[s] # "one-shot"
    BY <1>6 DEF Advanced
  <2>2. QED BY <2>1, KindsOfSchedules DEF Kinds
<1>8. CASE CatchesUp(s)
  BY <1>3, <1>4, <1>8, <1>1, ServedNext
<1>9. CASE ~CatchesUp(s)
  <2>1. Listed(x, s)
    BY <1>1 DEF Listed, RowInv, RowsTyped
  <2>2. snap[x][s].policy = row[s].policy
    BY <2>1 DEF RowInv, SnapIsOld
  <2>3. Slot(x) = snap[x][s].next
    BY <1>4, <1>7, <1>9, <2>2 DEF PlannedSlots, CatchesUp
  <2>4. Advanced(s, row[s], Slot(x), at[x]) >= row[s].next
    BY <1>1, <1>2, <1>4, <1>7, <2>3, AdvancedLater
  <2>5. QED BY <1>1, <1>5, <1>6, <2>4
<1>10. QED BY <1>8, <1>9
\* Without faults a service that waits is not overslept, where nobody else
\* defers a watch.
LEMMA WakeStep ==
  ASSUME SInv, RowInv, ServiceInv, NoLostWake, ~Faults, NoWatch \/ Service = Owner, [Next]_vars
  PROVE  NoLostWake'
<1> SUFFICES ASSUME NEW o \in Service, NEW s \in Schedule,
                    pc'[o] = "wait", ~datagram', ~unsent', Live(s)', row'[s].enabled
             PROVE  deadline'[o] <= row'[s].next \/ deadline'[o] <= now'
  BY DEF NoLostWake
<1>0. o \in Owner /\ now \in Nat /\ now' \in Nat /\ row[s].next \in Nat /\ deadline[o] \in Nat
      /\ row \in [Schedule -> Row]
  BY ServicesAreOwners, RowsTypedStep DEF RowInv, RowsTyped, Row, ServiceInv
<1>1. CASE Sleep(o) /\ deadline'[o] = NextWake
  <2>1. row' = row /\ now' = now
    BY <1>1 DEF Sleep, rowVars, clockVars
  <2>2. Live(s)
    BY <2>1 DEF Live
  <2>3. QED BY <1>1, <2>1, <2>2, NextWakeIs
<1>2. CASE pc[o] = "wait" /\ deadline'[o] = deadline[o]
  <2>1. ~datagram /\ ~unsent /\ \A x \in Schedule : \A new : ~Changed(x, new)
    BY <1>2, SignalSteps
  <2>2. now' >= now
    <3>1. ASSUME NEW x \in Owner, Start(x) \/ Thread(x)
          PROVE  now' = now
      BY <3>1 DEF Start, Thread, Claiming, Executing, Recover, List, Visit,
         VisitsEnd, Observe, Record, SetNext, PassOver, Refuse, Claim, Continue, Fetch, StartRun, SkipRun,
         Picked, EnterScope, ScopeRefused, ExecutorEnds, Finish, FinishRaises, PassRaises, PassEnds, Sleep,
         Wake, clockVars
    <3>2. Users \/ Turn \/ (\E p \in Process : Crash(p)) \/ UNCHANGED vars => now' = now
      BY DEF Users, CreateSchedule, EditSchedule, EditExpression, EditNext, EditPolicy, SetEnabled,
         Changed, RemoveSchedule, Notify, Turn, Crash, clockVars, vars
    <3>3. Tick => now' = now + 1
      BY DEF Tick
    <3>4. now' = now \/ now' = now + 1
      BY <3>1, <3>2, <3>3 DEF Next
    <3>5. QED BY <1>0, <3>4
  <2>3. ASSUME NEW x \in Owner, pc[x] \in Visiting, Service = Owner
        PROVE  FALSE
    <3>1. Up(x) /\ Up(o)
      BY <1>2, <2>3 DEF Up, Visiting
    <3>2. x = o
      BY <2>3, <3>1 DEF ServiceInv, OneService
    <3>3. QED BY <1>2, <2>3, <3>2 DEF Visiting
  <2>4. CASE row'[s] = row[s]
    <3>1. Live(s)
      BY <2>4 DEF Live
    <3>2. deadline[o] <= row[s].next \/ deadline[o] <= now
      BY <1>2, <2>1, <2>4, <3>1 DEF NoLostWake
    <3>3. QED BY <1>0, <1>2, <2>2, <2>4, <3>2
  <2>5. CASE Seen(s)
    <3>1. row'[s].next = row[s].next /\ row'[s].enabled = row[s].enabled /\ row'[s].revision = row[s].revision
          /\ row'[s].removed = row[s].removed
      <4>1. PICK b \in BOOLEAN : row'[s] = [row[s] EXCEPT !.seen = b]
        BY <2>5 DEF Seen
      <4>2. row[s] \in Row
        BY <1>0
      <4>3. QED BY ONLY <4>1, <4>2 DEF Row
    <3>2. Live(s)
      BY <3>1 DEF Live
    <3>3. deadline[o] <= row[s].next \/ deadline[o] <= now
      BY <1>2, <2>1, <3>1, <3>2 DEF NoLostWake
    <3>4. QED BY <1>0, <1>2, <2>2, <3>1, <3>3
  <2>6. ASSUME NEW x \in Owner, Claim(x), Served(x, s)
        PROVE  deadline'[o] <= row'[s].next \/ deadline'[o] <= now'
    <3>1. NoWatch
      BY <2>3, <2>6 DEF Claim, Visiting
    <3>2. row'[s].next >= row[s].next /\ row'[s].next \in Nat /\ row[s].enabled /\ ~row[s].removed
      BY <2>6, <3>1, ServedForward DEF NoWatch
    <3>3. Live(s)
      BY <3>2 DEF Live, RowInv, RowsTyped
    <3>4. deadline[o] <= row[s].next \/ deadline[o] <= now
      BY <1>2, <2>1, <3>2, <3>3 DEF NoLostWake
    <3>5. QED BY <1>0, <1>2, <2>2, <3>2, <3>4
  <2>7. CASE Users
    <3>1. row' = row \/ \E x \in Schedule : RemoveSchedule(x)
      BY <2>1, <2>7 DEF Users, CreateSchedule, EditSchedule, EditExpression, EditNext, EditPolicy,
         SetEnabled, Notify
    <3>2. ASSUME NEW x \in Schedule, RemoveSchedule(x) PROVE row'[s] = row[s]
      <4>1. row' = [row EXCEPT ![x].enabled = FALSE, ![x].removed = TRUE]
        BY <3>2 DEF RemoveSchedule
      <4>2. CASE x = s
        <5>1. row'[s] = [row[s] EXCEPT !.enabled = FALSE, !.removed = TRUE]
          BY <1>0, <4>1, <4>2
        <5>2. row'[s].removed
          BY <1>0, <5>1 DEF Row
        <5>3. QED BY <5>2 DEF Live
      <4>3. QED BY <1>0, <4>1, <4>2
    <3>3. QED BY <2>4, <3>1, <3>2
  <2>8. CASE ~Users
    <3>1. \/ \E x \in Owner : Record(x) \/ SetNext(x) \/ Claim(x)
          \/ row' = row
      BY <2>8, RowWriters
    <3>2. ASSUME NEW x \in Owner, Record(x) PROVE Seen(s) \/ row'[s] = row[s]
      BY <1>0, <3>2 DEF Record, Seen
    <3>3. ASSUME NEW x \in Owner, SetNext(x) PROVE FALSE
      <4>1. pc[x] = "advance" /\ KindOf[item[x]] = "condition" /\ item[x] \in Schedule
        BY <3>3 DEF SetNext, RowInv, OnItem, Visiting, SInv, SchedulerTyped
      <4>2. QED BY <2>3, <4>1 DEF NoWatch, Visiting
    <3>4. ASSUME NEW x \in Owner, Claim(x) PROVE Served(x, s) \/ row'[s] = row[s]
      <4> DEFINE next == Advanced(item[x], row[item[x]], Slot(x), at[x])
      <4>1. row' = [row EXCEPT ![item[x]].next = next, ![item[x]].enabled = next # Never]
        BY <3>4 DEF Claim
      <4>2. CASE item[x] = s
        <5> HIDE DEF next
        <5>1. row'[s] = [row[s] EXCEPT !.next = next, !.enabled = next # Never]
          BY <1>0, <4>1, <4>2
        <5>2. QED BY <3>4, <4>2, <5>1 DEF Served, next
      <4>3. CASE item[x] # s
        BY <1>0, <4>1, <4>3
      <4>4. QED BY <4>2, <4>3
    <3>5. QED BY <2>4, <2>5, <2>6, <3>1, <3>2, <3>3, <3>4
  <2>9. QED BY <2>7, <2>8
<1>3. QED BY <1>0, <1>1, <1>2, WaitSteps

\* The service of a database that answers never sleeps past the next run of an
\* enabled schedule, unless it is about to be woken: users notify what they
\* change, and other passes only move a schedule forward (run_forever,
\* notify_scheduler).  A pass that defers a watch may move it backward, past an
\* edit; hence one of the two, no watch or no other pass.  With faults a
\* notification is lost.
THEOREM SchedulerNoLostWake ==
  Faults = FALSE /\ (NoWatch \/ Service = Owner) /\ Spec => []NoLostWake
<1>1. Init => ServiceInv /\ NoLostWake
  BY ServicesAreOwners DEF Init, Idle, ServiceInv, OneService, OnlyServicesSleep, Up, NoLostWake
<1>2. (Faults = FALSE /\ (NoWatch \/ Service = Owner)) => (Faults = FALSE /\ (NoWatch \/ Service = Owner))'
  BY DEF NoWatch
<1>3. SInv /\ RowInv /\ ServiceInv /\ [Next]_vars => ServiceInv'
  BY ServiceStep, WaitSteps DEF ServiceInv
<1>4. /\ SInv /\ RowInv /\ ServiceInv /\ NoLostWake /\ Faults = FALSE /\ (NoWatch \/ Service = Owner)
      /\ [Next]_vars
      => NoLostWake'
  BY WakeStep
<1>5. QED
  BY <1>1, <1>2, <1>3, <1>4, SchedulerInvariant, SchedulerRows, PTL DEF Spec

-----------------------------------------------------------------------------
(* The edge of a watch *)

Watched(s) == KindOf[s] = "condition"
InPass(o) == pc[o] \in Visiting \union {"visit"}

\* A watch that has run since its predicate was last false has seen it true.
ArmedIs ==
    /\ armed = [s \in Schedule |-> armed[s]]
    /\ \A s \in Schedule : Watched(s) /\ ~armed[s] => world /\ row[s].seen

\* Who has read a false predicate knows of a watch that may fire again; who is
\* about to claim has recorded that it is true, in the row that was listed.
EdgeRead(o) ==
    /\ pc[o] = "saw false" => armed[item[o]]
    /\ pc[o] \in Visiting => item[o] \notin todo[o]
    /\ pc[o] = "claim" /\ Watched(item[o]) =>
         /\ ~snap[o][item[o]].seen
         /\ snap[o][item[o]].revision = row[item[o]].revision => row[item[o]].seen

\* A watch that was listed before its edge may fire until the pass is done with it.
Ahead(o, s) == s \in todo[o] \/ (pc[o] \in Visiting \ {"advance"} /\ s = item[o])
EdgeAhead(o) ==
    InPass(o) => \A s \in Schedule : Ahead(o, s) /\ Watched(s) /\ ~snap[o][s].seen => armed[s]

EdgeInv == ArmedIs /\ \A o \in Owner : EdgeRead(o) /\ EdgeAhead(o)

\* What users and the world do: a watch that may fire still may.
LEMMA OutsideSteps ==
  ASSUME SInv, RowInv, ArmedIs, Users \/ Tick \/ Turn \/ UNCHANGED vars
  PROVE  /\ ArmedIs'
         /\ \A s \in Schedule : armed[s] => armed'[s]
         /\ UNCHANGED <<pc, item, todo, snap>>
<1>0. row = [s \in Schedule |-> row[s]] /\ armed = [s \in Schedule |-> armed[s]]
      /\ \A s \in Schedule : row[s] \in Row
  BY DEF RowInv, RowsTyped, ArmedIs
<1>1. ASSUME NEW x \in Schedule, NEW new, Changed(x, new)
      PROVE  /\ ArmedIs'
             /\ \A s \in Schedule : armed[s] => armed'[s]
             /\ UNCHANGED <<pc, item, todo, snap>>
  <2>1. /\ row' = [row EXCEPT ![x] = new]
        /\ armed' = [armed EXCEPT ![x] = armed[x] \/ (row[x].seen /\ ~new.seen)]
        /\ world' = world /\ UNCHANGED <<pc, item, todo, snap>>
    BY <1>1 DEF Changed, clockVars, passVars
  <2>2. ASSUME NEW s \in Schedule
        PROVE  /\ armed[s] => armed'[s]
               /\ ~armed'[s] /\ row[s].seen => row'[s].seen
    <3>1. CASE s = x
      <4>1. armed'[s] = (armed[s] \/ (row[s].seen /\ ~new.seen)) /\ row'[s] = new
        BY <1>0, <2>1, <3>1
      <4>2. QED BY Zenon, <4>1
    <3>2. CASE s # x
      BY <1>0, <2>1, <3>2
    <3>3. QED BY <3>1, <3>2
  <2>3. armed' = [s \in Schedule |-> armed'[s]]
    BY <1>0, <2>1
  <2>4. QED BY <2>1, <2>2, <2>3 DEF ArmedIs
<1>2. ASSUME NEW x \in Schedule, RemoveSchedule(x)
      PROVE  /\ ArmedIs'
             /\ \A s \in Schedule : armed[s] => armed'[s]
             /\ UNCHANGED <<pc, item, todo, snap>>
  <2>1. /\ row' = [row EXCEPT ![x].enabled = FALSE, ![x].removed = TRUE]
        /\ UNCHANGED <<armed, world, pc, item, todo, snap>>
    BY <1>2 DEF RemoveSchedule, clockVars, passVars
  <2>2. ASSUME NEW s \in Schedule PROVE row'[s].seen = row[s].seen
    <3>1. CASE s = x
      <4>1. row[s] \in Row /\ row'[s] = [row[s] EXCEPT !.enabled = FALSE, !.removed = TRUE]
        BY <1>0, <2>1, <3>1
      <4>2. QED BY ONLY <4>1 DEF Row
    <3>2. CASE s # x
      BY <1>0, <2>1, <3>2
    <3>3. QED BY <3>1, <3>2
  <2>3. QED BY <2>1, <2>2 DEF ArmedIs
<1>3. CASE Turn
  <2>1. /\ armed' = [s \in Schedule |-> armed[s] \/ ~world']
        /\ UNCHANGED <<row, pc, item, todo, snap>>
    BY <1>3 DEF Turn, passVars
  <2>2. \A s \in Schedule : armed'[s] = (armed[s] \/ ~world')
    BY <2>1
  <2>3. \A s \in Schedule : (armed[s] => armed'[s]) /\ (~armed'[s] => ~armed[s] /\ world')
    BY Zenon, <2>2
  <2>4. QED BY <2>1, <2>3 DEF ArmedIs
<1>4. CASE Notify \/ Tick \/ UNCHANGED vars
  <2>1. UNCHANGED <<row, armed, world, pc, item, todo, snap>>
    BY <1>4 DEF Notify, Tick, vars, clockVars, rowVars, passVars
  <2>2. QED BY <2>1 DEF ArmedIs
<1>5. CASE Users
  <2>1. \/ \E x \in Schedule : RemoveSchedule(x)
        \/ \E x \in Schedule : \E new : Changed(x, new)
        \/ Notify
    BY <1>5 DEF Users, CreateSchedule, EditSchedule, EditExpression, EditNext, EditPolicy, SetEnabled
  <2>2. QED BY <1>1, <1>2, <1>4, <2>1
<1>6. QED BY <1>3, <1>4, <1>5

\* Besides them, only a claim takes away that a watch may fire, and only what
\* was recorded changes what it has seen.
LEMMA InsideSteps ==
  ASSUME SInv, RowInv, EdgeInv, NEW x \in Owner, Start(x) \/ Thread(x)
  PROVE  /\ ArmedIs'
         /\ \A s \in Schedule : armed[s] => armed'[s] \/ (Claim(x) /\ item[x] = s)
         /\ ~Claim(x) => armed' = armed
         /\ world' = world
<1>0. row = [s \in Schedule |-> row[s]] /\ armed = [s \in Schedule |-> armed[s]]
      /\ \A s \in Schedule : row[s] \in Row
  BY DEF RowInv, RowsTyped, EdgeInv, ArmedIs
<1>1. world' = world
  BY DEF clockVars, Start, Thread, Claiming, Executing, Recover, List, Visit, VisitsEnd, Observe,
     Record, SetNext, PassOver, Refuse, Claim, Continue, Fetch, StartRun, SkipRun, Picked,
     EnterScope, ScopeRefused, ExecutorEnds, Finish, FinishRaises, PassRaises, PassEnds, Sleep, Wake
<1>2. ~Claim(x) => armed' = armed
  BY DEF rowVars, Start, Thread, Claiming, Executing, Recover, List, Visit, VisitsEnd, Observe,
     Record, SetNext, PassOver, Refuse, Fetch, StartRun, SkipRun, Picked,
     EnterScope, ScopeRefused, ExecutorEnds, Finish, FinishRaises, PassRaises, PassEnds, Sleep, Wake
<1>3. CASE Claim(x)
  <2> DEFINE s == item[x]
  <2> DEFINE n == Advanced(s, row[s], Slot(x), at[x])
  <2>1. /\ s \in Schedule /\ pc[x] = "claim" /\ row[s].revision = snap[x][s].revision
        /\ row' = [row EXCEPT ![s].next = n, ![s].enabled = n # Never]
        /\ armed' = [armed EXCEPT ![s] = KindOf[s] = "condition" => ~world]
    BY <1>3, ClaimAdds DEF Claim, Stale
  <2> HIDE DEF n
  <2>2. row'[s].seen = row[s].seen
    <3>1. row[s] \in Row /\ row'[s] = [row[s] EXCEPT !.next = n, !.enabled = n # Never]
      BY <1>0, <2>1
    <3>2. QED BY ONLY <3>1 DEF Row
  <2>3. armed'[s] = (KindOf[s] = "condition" => ~world)
    BY <1>0, <2>1
  <2>4. Watched(s) => row[s].seen
    BY <2>1 DEF EdgeInv, EdgeRead
  <2>5. Watched(s) /\ ~armed'[s] => world' /\ row'[s].seen
    <3>1. Watched(s) /\ ~armed'[s] => world
      BY Zenon, <2>3 DEF Watched
    <3>2. QED BY <1>1, <2>2, <2>4, <3>1
  <2>6. \A t \in Schedule : t # s => armed'[t] = armed[t] /\ row'[t] = row[t]
    BY <1>0, <2>1
  <2>7. armed' = [t \in Schedule |-> armed'[t]]
    BY <1>0, <2>1
  <2>8. ASSUME NEW t \in Schedule
        PROVE  /\ armed[t] => armed'[t] \/ t = s
               /\ Watched(t) /\ ~armed'[t] => world' /\ row'[t].seen
    BY <1>1, <2>5, <2>6 DEF EdgeInv, ArmedIs
  <2>9. QED BY <1>1, <1>3, <2>7, <2>8 DEF ArmedIs
<1>4. CASE Record(x)
  <2> DEFINE s == item[x]
  <2>1. /\ s \in Schedule /\ pc[x] \in {"saw true", "saw false"}
        /\ row' = [row EXCEPT ![s].seen = pc[x] = "saw true"]
        /\ armed' = armed
    BY <1>4 DEF Record, SInv, SchedulerTyped, Visiting
  <2>2. pc[x] = "saw true" => row'[s].seen
    <3>1. row[s] \in Row /\ row'[s] = [row[s] EXCEPT !.seen = pc[x] = "saw true"]
      BY <1>0, <2>1
    <3>2. row'[s].seen = (pc[x] = "saw true")
      BY ONLY <3>1 DEF Row
    <3>3. QED BY Zenon, <3>2
  <2>3. pc[x] = "saw false" => armed[s]
    BY DEF EdgeInv, EdgeRead
  <2>4. \A t \in Schedule : t # s => row'[t] = row[t]
    BY <1>0, <2>1
  <2>5. QED BY <1>0, <1>1, <2>1, <2>2, <2>3, <2>4, <1>4 DEF EdgeInv, ArmedIs
<1>5. CASE SetNext(x)
  <2> DEFINE s == item[x]
  <2> DEFINE n == Advanced(s, snap[x][s], snap[x][s].next, at[x])
  <2>1. row' = [row EXCEPT ![s].next = n] /\ armed' = armed
    BY <1>5 DEF SetNext
  <2> HIDE DEF n
  <2>2. ASSUME NEW t \in Schedule PROVE row'[t].seen = row[t].seen
    <3>1. CASE t = s
      <4>1. row[t] \in Row /\ row'[t] = [row[t] EXCEPT !.next = n]
        BY <1>0, <2>1, <3>1
      <4>2. QED BY ONLY <4>1 DEF Row
    <3>2. CASE t # s
      BY <1>0, <2>1, <3>2
    <3>3. QED BY <3>1, <3>2
  <2>3. QED BY <1>1, <2>1, <2>2 DEF EdgeInv, ArmedIs
<1>6. CASE ~Claim(x) /\ ~Record(x) /\ ~SetNext(x)
  <2>1. row' = row
    BY <1>6 DEF rowVars, Start, Thread, Claiming, Executing, Recover, List, Visit, VisitsEnd, Observe,
       PassOver, Refuse, Fetch, StartRun, SkipRun, Picked, EnterScope, ScopeRefused, ExecutorEnds,
       Finish, FinishRaises, PassRaises, PassEnds, Sleep, Wake
  <2>2. QED BY <1>1, <1>2, <1>6, <2>1 DEF EdgeInv, ArmedIs
<1>7. QED BY <1>3, <1>4, <1>5, <1>6

\* A pass that goes on keeps what it knows of the edges, when nobody else claims
\* or records.
LEMMA EdgeKept ==
  ASSUME SInv, RowInv, EdgeInv, NEW o \in Owner,
         pc'[o] = pc[o], item'[o] = item[o], todo'[o] = todo[o], snap'[o] = snap[o],
         \A s \in Schedule : armed[s] => armed'[s],
         \A s \in Schedule : row'[s] = row[s] \/ Revised(s) \/ Removed(s)
  PROVE  EdgeRead(o)' /\ EdgeAhead(o)'
<1>0. EdgeRead(o) /\ EdgeAhead(o) /\ (pc[o] \in Visiting => item[o] \in Schedule)
  BY DEF EdgeInv, SInv, SchedulerTyped
<1>1. EdgeAhead(o)'
  BY <1>0 DEF EdgeAhead, InPass, Ahead, Watched
<1>2. pc[o] = "saw false" => armed'[item[o]]
  BY <1>0 DEF EdgeRead, Visiting
<1>3. ASSUME pc[o] = "claim", Watched(item[o]),
             snap[o][item[o]].revision = row'[item[o]].revision
      PROVE  row'[item[o]].seen
  <2> DEFINE s == item[o]
  <2>1. s \in Schedule /\ row[s] \in Row
    BY <1>0, <1>3 DEF Visiting, RowInv, RowsTyped
  <2>2. snap[o][s].revision = row[s].revision => row[s].seen
    BY <1>0, <1>3 DEF EdgeRead
  <2>3. CASE row'[s] = row[s]
    BY <1>3, <2>2, <2>3
  <2>4. CASE Revised(s)
    <3>1. row[s].revision \in Nat /\ snap[o][s].revision \in Nat /\ row'[s].revision \in Nat
          /\ snap[o][s].revision <= row[s].revision
      BY <2>1, <2>4 DEF RowInv, RowsTyped, SnapIsOld, Row, Revised
    <3>2. row'[s].revision > row[s].revision
      BY <2>4 DEF Revised
    <3>3. QED BY <1>3, <3>1, <3>2
  <2>5. CASE Removed(s)
    <3>1. row'[s] = [row[s] EXCEPT !.enabled = FALSE, !.removed = TRUE]
      BY <2>5 DEF Removed
    <3>2. row'[s].revision = row[s].revision
      BY ONLY <2>1, <3>1 DEF Row
    <3>3. row'[s].seen = row[s].seen
      BY ONLY <2>1, <3>1 DEF Row
    <3>4. QED BY <1>3, <2>2, <3>2, <3>3
  <2>6. QED BY <2>1, <2>3, <2>4, <2>5
<1>4. EdgeRead(o)'
  BY <1>0, <1>2, <1>3 DEF EdgeRead, Watched
<1>5. QED BY <1>1, <1>4

\* Passes that end know nothing, and the others what they knew.
LEMMA EdgeOver ==
  ASSUME SInv, RowInv, EdgeInv, NEW S \in SUBSET Owner, Over(S), UNCHANGED <<row, armed>>,
         NEW o \in Owner
  PROVE  EdgeRead(o)' /\ EdgeAhead(o)'
<1>1. CASE o \in S
  <2>1. pc'[o] = "over"
    BY <1>1, OverKeeps DEF SInv
  <2>2. QED BY <2>1 DEF EdgeRead, EdgeAhead, InPass, Visiting
<1>2. CASE o \notin S
  <2>1. pc'[o] = pc[o] /\ item'[o] = item[o] /\ todo'[o] = todo[o]
    BY <1>2, OverKeeps DEF SInv
  <2>2. snap'[o] = snap[o]
    BY <1>2, OverForgets DEF Remembers
  <2>3. QED BY <2>1, <2>2, EdgeKept
<1>3. QED BY <1>1, <1>2

\* A pass learns of an edge by listing a watch that may fire, and spends it by
\* its one claim.
LEMMA EdgePass ==
  ASSUME SInv, RowInv, EdgeInv, NEW o \in Owner, Passes(o)
  PROVE  EdgeRead(o)' /\ EdgeAhead(o)'
<1>0. /\ EdgeRead(o) /\ EdgeAhead(o) /\ ArmedIs
      /\ pc \in [Owner -> Labels] /\ item = [x \in Owner |-> item[x]]
      /\ todo \in [Owner -> SUBSET Schedule] /\ slots = [x \in Owner |-> slots[x]]
      /\ snap \in [Owner -> [Schedule -> Row]]
      /\ (pc[o] \in Visiting => item[o] \in Schedule)
  BY DEF EdgeInv, SInv, SchedulerTyped, RowInv, RowsTyped
<1>00. Passes(o) => Start(o) \/ Thread(o)
  BY DEF Passes, Thread, Claiming
<1>1. CASE List(o)
  <2>1. /\ pc'[o] = "visit" /\ snap'[o] = row /\ todo'[o] \subseteq Schedule
        /\ armed' = armed
    BY <1>0, <1>1 DEF List, Goto, rowVars
  <2>2. EdgeRead(o)'
    BY <2>1 DEF EdgeRead, Visiting
  <2>3. EdgeAhead(o)'
    BY <1>0, <2>1 DEF EdgeAhead, ArmedIs, Watched
  <2>4. QED BY <2>2, <2>3
<1>2. CASE Visit(o)
  <2>1. PICK s \in todo[o] :
          /\ item' = [item EXCEPT ![o] = s]
          /\ todo' = [todo EXCEPT ![o] = @ \ {s}]
          /\ pc' = [pc EXCEPT ![o] = IF KindOf[s] = "condition" THEN "observe" ELSE "claim"]
    BY <1>2 DEF Visit, Goto
  <2>2. /\ item'[o] = s /\ todo'[o] = todo[o] \ {s} /\ s \in Schedule
        /\ pc'[o] = IF KindOf[s] = "condition" THEN "observe" ELSE "claim"
    BY <1>0, <2>1
  <2>3. armed' = armed /\ snap' = snap /\ pc[o] = "visit"
    BY <1>2 DEF Visit, rowVars
  <2>4. EdgeRead(o)'
    BY <2>2 DEF EdgeRead, Watched
  <2>5. \A t \in Schedule : Ahead(o, t)' => Ahead(o, t)
    BY <2>2 DEF Ahead
  <2>6. InPass(o)
    BY <2>3 DEF InPass
  <2>7. EdgeAhead(o)'
    BY <1>0, <2>3, <2>5, <2>6 DEF EdgeAhead, Watched
  <2>8. QED BY <2>4, <2>7
<1>3. ASSUME UNCHANGED <<armed, item, todo, snap>>, pc[o] \in Visiting,
             pc'[o] \in Visiting \ {"advance"} => pc[o] # "advance"
      PROVE  EdgeAhead(o)'
  <2>1. InPass(o) /\ \A t \in Schedule : Ahead(o, t)' => Ahead(o, t)
    BY <1>3 DEF InPass, Ahead
  <2>2. QED BY <1>0, <1>3, <2>1 DEF EdgeAhead, Watched
<1>4. CASE Observe(o)
  <2>1. /\ pc[o] = "observe" /\ pc'[o] \in {"saw true", "saw false", "advance"}
        /\ pc'[o] = "saw false" => ~world
        /\ UNCHANGED <<row, armed, item, todo, snap>>
    BY <1>0, <1>4 DEF Observe, Goto, rowVars, passVars
  <2>2. EdgeAhead(o)'
    BY <1>3, <2>1 DEF Visiting
  <2>3. Watched(item[o]) /\ item[o] \in Schedule /\ item[o] \notin todo[o]
    BY <1>0, <2>1 DEF RowInv, OnItem, Visiting, Watched, EdgeRead
  <2>4. pc'[o] = "saw false" => armed[item[o]]
    BY <1>0, <2>1, <2>3 DEF ArmedIs
  <2>5. QED BY <2>1, <2>2, <2>3, <2>4 DEF EdgeRead
<1>5. CASE Record(o)
  <2> DEFINE s == item[o]
  <2>1. /\ pc[o] \in {"saw true", "saw false"}
        /\ row' = [row EXCEPT ![s].seen = pc[o] = "saw true"]
        /\ UNCHANGED <<armed, item, todo, snap>>
        /\ pc' = [pc EXCEPT ![o] = IF pc[o] = "saw true" /\ ~snap[o][s].seen THEN "claim" ELSE "advance"]
    BY <1>5 DEF Record, Goto, passVars
  <2>2. pc'[o] \in {"claim", "advance"} /\ (pc'[o] = "claim" => pc[o] = "saw true" /\ ~snap[o][s].seen)
    BY <1>0, <2>1
  <2>3. s \in Schedule /\ row[s] \in Row /\ s \notin todo[o]
    BY <1>0, <2>1 DEF Visiting, EdgeRead, RowInv, RowsTyped
  <2>4. pc[o] = "saw true" => row'[s].seen
    <3>1. row'[s] = [row[s] EXCEPT !.seen = pc[o] = "saw true"]
      BY <2>1, <2>3 DEF RowInv, RowsTyped
    <3>2. row'[s].seen = (pc[o] = "saw true")
      BY ONLY <2>3, <3>1 DEF Row
    <3>3. QED BY Zenon, <3>2
  <2>5. EdgeRead(o)'
    BY <2>1, <2>2, <2>3, <2>4 DEF EdgeRead
  <2>6. EdgeAhead(o)'
    BY <1>3, <2>1 DEF Visiting
  <2>7. QED BY <2>5, <2>6
<1>6. CASE SetNext(o)
  <2>1. pc[o] = "advance" /\ pc'[o] = "visit" /\ UNCHANGED <<armed, item, todo, snap>>
    BY <1>0, <1>6 DEF SetNext, Goto, passVars
  <2>2. QED BY <1>3, <2>1 DEF EdgeRead, Visiting
<1>7. CASE PassOver(o) \/ Refuse(o)
  <2>1. /\ pc[o] = "claim" /\ pc'[o] \in {"visit", "claim"}
        /\ UNCHANGED <<row, armed, item, todo, snap>>
    <3>1. PICK rest, claimed : Continue(o, rest, claimed)
      BY <1>7 DEF PassOver, Refuse
    <3>2. pc'[o] \in {"visit", "claim"} /\ UNCHANGED <<item, todo, snap>>
      BY <1>0, <3>1 DEF Continue, Goto
    <3>3. QED BY <1>7, <3>2 DEF PassOver, Refuse
  <2>2. EdgeAhead(o)'
    BY <1>3, <2>1 DEF Visiting
  <2>3. QED BY <1>0, <2>1, <2>2 DEF EdgeRead, Visiting, Watched
<1>8. CASE Claim(o)
  <2> DEFINE s == item[o]
  <2>1. /\ pc[o] = "claim" /\ s \in Schedule /\ s \notin todo[o]
        /\ UNCHANGED <<item, todo, snap>>
    BY <1>0, <1>8 DEF Claim, Continue, Visiting, EdgeRead
  <2>2. PICK claimed : Continue(o, slots[o] \ {Slot(o)}, claimed)
    BY <1>8 DEF Claim
  <2>3. pc'[o] = "visit" \/ (pc'[o] = "claim" /\ slots[o] \ {Slot(o)} # {})
    BY <1>0, <2>2 DEF Continue, Goto
  <2>4. pc'[o] = "claim" => ~Watched(s)
    <3>1. ASSUME Watched(s) PROVE slots[o] \ {Slot(o)} = {}
      <4>1. slots[o] \subseteq PlannedSlots(s, snap[o][s], at[o])
        BY <2>1 DEF RowInv, OnItem, Visiting
      <4>2. slots[o] \subseteq {snap[o][s].next}
        BY <3>1, <4>1 DEF PlannedSlots, Watched
      <4>3. Slot(o) \in slots[o]
        BY <2>1, SlotIs DEF Visiting
      <4>4. QED BY <4>2, <4>3
    <3>2. QED BY <2>3, <3>1
  <2>5. EdgeRead(o)'
    BY <2>1, <2>3, <2>4 DEF EdgeRead, Watched
  <2>6. \A t \in Schedule : armed[t] => armed'[t] \/ t = s
    BY <1>00, InsideSteps
  <2>7. ASSUME NEW t \in Schedule, Ahead(o, t)', Watched(t), ~snap[o][t].seen
        PROVE  armed'[t]
    <3>1. t # s
      BY <2>1, <2>3, <2>4, <2>7 DEF Ahead, Visiting
    <3>2. Ahead(o, t) /\ InPass(o)
      BY <2>1, <2>7 DEF Ahead, InPass, Visiting
    <3>3. armed[t]
      BY <1>0, <2>7, <3>2 DEF EdgeAhead
    <3>4. QED BY <2>6, <3>1, <3>3
  <2>8. EdgeAhead(o)'
    BY <2>1, <2>7 DEF EdgeAhead, Watched
  <2>9. QED BY <2>5, <2>8
<1>9. QED BY <1>1, <1>2, <1>4, <1>5, <1>6, <1>7, <1>8 DEF Passes

\* One service at a time: a pass at work is the only one that reads and claims.
LEMMA EdgeStep ==
  ASSUME SInv, RowInv, ServiceInv, EdgeInv, Service = Owner, [Next]_vars, NEW o \in Owner
  PROVE  EdgeRead(o)' /\ EdgeAhead(o)'
<1>0. pc \in [Owner -> Labels]
  BY DEF SInv, SchedulerTyped
<1>1. CASE Users \/ Tick \/ Turn \/ UNCHANGED vars
  <2>1. /\ \A s \in Schedule : armed[s] => armed'[s]
        /\ UNCHANGED <<pc, item, todo, snap>>
    BY <1>1, OutsideSteps DEF EdgeInv
  <2>2. \A s \in Schedule : row'[s] = row[s] \/ Revised(s) \/ Removed(s)
    <3>1. Tick \/ Turn \/ UNCHANGED vars => row' = row
      BY DEF Tick, Turn, vars, rowVars
    <3>2. QED BY <1>1, <3>1, UserSteps
  <2>3. QED BY <2>1, <2>2, EdgeKept
<1>2. ASSUME NEW p \in Process, Crash(p)
      PROVE  EdgeRead(o)' /\ EdgeAhead(o)'
  <2>1. Over({x \in Owner : ProcessOf[x] = p}) /\ UNCHANGED <<row, armed>>
    BY <1>2 DEF Crash, rowVars
  <2>2. QED BY <2>1, EdgeOver
<1>3. ASSUME NEW x \in Owner, Start(x) \/ Thread(x), x # o
      PROVE  EdgeRead(o)' /\ EdgeAhead(o)'
  <2>1. pc'[o] = pc[o]
    BY <1>3, OthersStay
  <2>2. CASE Up(o)
    <3>1. CASE Start(x)
      BY <1>3, <2>2, <3>1 DEF Start, Up
    <3>2. CASE ~Start(x)
      <4>1. Up(x)
        BY <1>3, <3>2 DEF Up, Thread, Claiming, Executing, Recover, List, Visit, VisitsEnd, Observe,
           Record, SetNext, PassOver, Refuse, Claim, Fetch, StartRun, SkipRun, Picked, EnterScope,
           ScopeRefused, ExecutorEnds, Finish, FinishRaises, Finishing, PassRaises, PassEnds, Sleep,
           Wake
      <4>2. QED BY <1>3, <2>2, <4>1 DEF ServiceInv, OneService
    <3>3. QED BY <3>1, <3>2
  <2>3. CASE ~Up(o)
    BY <2>1, <2>3 DEF Up, EdgeRead, EdgeAhead, InPass, Visiting
  <2>4. QED BY <2>2, <2>3
<1>4. CASE FinishRaises(o) \/ PassRaises(o)
  <2>1. Over({o}) /\ UNCHANGED <<row, armed>>
    BY <1>4 DEF FinishRaises, PassRaises, rowVars
  <2>2. QED BY <2>1, EdgeOver
<1>5. CASE Start(o) \/ Recover(o) \/ VisitsEnd(o) \/ Sleep(o) \/ Wake(o)
  <2>1. pc'[o] \in {"recover", "list", "fetch", "wait"}
    BY <1>0, <1>5 DEF Start, Recover, VisitsEnd, Sleep, Wake, Goto
  <2>2. QED BY <2>1 DEF EdgeRead, EdgeAhead, InPass, Visiting
<1>6. CASE Executing(o) /\ ~FinishRaises(o) /\ ~PassRaises(o)
  <2>1. pc'[o] \notin Visiting \union {"visit"}
    <3>1. CASE Fetch(o) \/ StartRun(o) \/ EnterScope(o) \/ ScopeRefused(o) \/ ExecutorEnds(o)
      BY <1>0, <3>1 DEF Fetch, StartRun, EnterScope, ScopeRefused, ExecutorEnds, Goto, Visiting
    <3>2. CASE SkipRun(o) \/ Finish(o)
      BY <1>0, <3>2 DEF SkipRun, Picked, Finish, Goto, Visiting
    <3>3. CASE PassEnds(o)
      BY <1>0, <3>3 DEF PassEnds, Goto, Visiting
    <3>4. QED BY <1>6, <3>1, <3>2, <3>3 DEF Executing
  <2>2. QED BY <2>1 DEF EdgeRead, EdgeAhead, InPass, Visiting
<1>7. CASE Passes(o)
  BY <1>7, EdgePass
<1>8. Start(o) \/ Thread(o) =>
        \/ Passes(o) \/ Start(o) \/ Recover(o) \/ VisitsEnd(o) \/ Executing(o) \/ Sleep(o) \/ Wake(o)
  BY DEF Passes, Thread, Claiming
<1>9. Start(o) \/ Thread(o) => EdgeRead(o)' /\ EdgeAhead(o)'
  BY <1>4, <1>5, <1>6, <1>7, <1>8
<1>10. QED BY <1>1, <1>2, <1>3, <1>9 DEF Next

\* When every scheduler is a service, of which one at a time runs, a watch
\* claims no second run until its predicate was false again or a user has reset
\* it: whatever was listed, read and recorded before an edit is refused by its
\* revision (_condition_due, claim_due).  Two passes of `run-due' at once may
\* both read the one edge.
THEOREM SchedulerEdgeFiresOnce == Service = Owner /\ Spec => EdgeFiresOnce
<1> DEFINE Kept(s) == KindOf[s] = "condition" /\ ~armed[s] =>
                        \A r \in DOMAIN run' \ DOMAIN run : r[1] # s
<1>1. Init => ServiceInv /\ EdgeInv
  BY ServicesAreOwners DEF Init, Idle, ServiceInv, OneService, OnlyServicesSleep, Up, EdgeInv, ArmedIs,
     EdgeRead, EdgeAhead, InPass, Visiting
<1>2. (Service = Owner) => (Service = Owner)'
  OBVIOUS
<1>3. SInv /\ RowInv /\ ServiceInv /\ [Next]_vars => ServiceInv'
  BY ServiceStep, WaitSteps DEF ServiceInv
<1>4. SInv /\ RowInv /\ ServiceInv /\ EdgeInv /\ Service = Owner /\ [Next]_vars => EdgeInv'
  <2> SUFFICES ASSUME SInv, RowInv, ServiceInv, EdgeInv, Service = Owner, [Next]_vars
               PROVE  EdgeInv'
    OBVIOUS
  <2>1. ASSUME Users \/ Tick \/ Turn \/ UNCHANGED vars PROVE ArmedIs'
    BY <2>1, OutsideSteps DEF EdgeInv
  <2>2. ASSUME NEW x \in Owner, Start(x) \/ Thread(x) PROVE ArmedIs'
    BY <2>2, InsideSteps
  <2>3. ASSUME NEW p \in Process, Crash(p) PROVE ArmedIs'
    BY <2>3 DEF Crash, rowVars, EdgeInv, ArmedIs
  <2>4. ArmedIs'
    BY <2>1, <2>2, <2>3 DEF Next
  <2>5. QED BY <2>4, EdgeStep DEF EdgeInv
<1>5. ASSUME SInv, RowInv, EdgeInv, Next, NEW s \in Schedule, KindOf[s] = "condition", ~armed[s],
             NEW r \in DOMAIN run' \ DOMAIN run
      PROVE  r[1] # s
  <2>1. PICK o \in Owner : Claim(o)
    BY <1>5, RunSteps
  <2>2. r = Candidate(o) /\ item[o] \in Schedule /\ pc[o] = "claim"
    <3>1. /\ DOMAIN run' = DOMAIN run \union {Candidate(o)}
          /\ item[o] \in Schedule /\ pc[o] = "claim"
      BY <1>5, <2>1, ClaimAdds
    <3>2. QED BY <1>5, <3>1
  <2>3. r[1] = item[o]
    BY <2>2 DEF Candidate
  <2>4. CASE item[o] = s
    <3>1. ~snap[o][s].seen
      BY <1>5, <2>2, <2>4 DEF EdgeInv, EdgeRead, Watched
    <3>2. QED BY <1>5, <2>2, <2>4, <3>1 DEF EdgeInv, EdgeAhead, InPass, Ahead, Visiting, Watched
  <2>5. QED BY <2>3, <2>4
<1>6. SInv /\ RowInv /\ EdgeInv /\ [Next]_vars => [\A s \in Schedule : Kept(s)]_vars
  BY <1>5
<1>7. QED
  BY <1>1, <1>2, <1>3, <1>4, <1>6, SchedulerInvariant, SchedulerRows, PTL DEF Spec, EdgeFiresOnce
=============================================================================
