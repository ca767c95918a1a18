---------------------------- MODULE MCToolActions ----------------------------
EXTENDS ToolActions, TLC

CONSTANTS o1, o2, p1, p2, i1, i2, i3, a1, a2, dir, file, other

MCProcessOf == (o1 :> p1) @@ (o2 :> p2)

\* i1 and i2 differ in their arguments; i3 is an action that needs no approval
MCAuthorityOf == (i1 :> a1) @@ (i2 :> a1) @@ (i3 :> a2)
MCDefault == (i1 :> "ask") @@ (i2 :> "ask") @@ (i3 :> "allow")

\* the file is in the directory, the other one is not
MCOverlaps == ({dir, file} \X {dir, file}) \union {<<other, other>>}

Write(i, p) == [intent |-> i, path |-> p]
Run(i) == [intent |-> i, path |-> NoPath]
RuntimeCall(reqs) == [kind |-> "runtime", open |-> FALSE, requests |-> reqs]
Open(reqs) == [kind |-> "executor", open |-> TRUE, requests |-> reqs]
ExecutorCall(reqs) == [kind |-> "executor", open |-> FALSE, requests |-> reqs]

MCCalls == {RuntimeCall(<<Write(i3, file), Write(i1, other)>>),
            ExecutorCall(<<Run(i2), Write(i3, dir)>>),
            Open(<<Run(i2), Write(i3, dir)>>)}

\* a container that asks for network and names no destination
MCOpenCalls == {Open(<<Run(i3), Write(i1, file)>>)}
=============================================================================
