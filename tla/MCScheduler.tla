---------------------------- MODULE MCScheduler ---------------------------
EXTENDS Scheduler, TLC

CONSTANTS o1, o2, p1, p2, s1, s2

MCProcessOf == (o1 :> p1) @@ (o2 :> p2)
MCSoloProcessOf == o1 :> p1

MCRecurring == [s \in Schedule |-> "recurring"]
=============================================================================
