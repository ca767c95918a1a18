---------------------------- MODULE MCAgentLoop ---------------------------
EXTENDS AgentLoop, TLC

CONSTANTS o1, o2, p1, p2

\* two loops in two processes
MCProcessOf == (o1 :> p1) @@ (o2 :> p2)
=============================================================================
