--------------------------- MODULE ContextWindow ---------------------------
(***************************************************************************)
(* What of a transcript the model is shown: ContextManager.build           *)
(* (context.py).  The oldest messages are dropped until the projection     *)
(* fits, first by a cheap estimate with some room left, then, where the    *)
(* tokenizer answers, by its count.  Tokens are counted in coarse units;   *)
(* the count of the tokenizer exceeds the estimate by `excess' a message.  *)
(***************************************************************************)
EXTENDS Naturals, Sequences, FiniteSets

CONSTANTS
    MaxHistory,     \* history_message_limit: how many messages are read at all
    MaxSize,        \* the longest message there is, in units
    Usables, Excesses,
    MaxAttempts     \* how often the tokenizer is asked again

ASSUME TokensAreCounted == MaxSize \in Nat /\ Usables \subseteq Nat /\ Excesses \subseteq Nat
ASSUME LimitsAreCounted == MaxHistory \in Nat /\ MaxAttempts \in Nat

VARIABLES
    history,        \* messages read: author, whether protected, size
    shown,          \* indices of those selected so far
    budget,         \* usable input, and the excess of the exact count
    building        \* where build is, the count and the attempts so far

contextVars == <<history, shown, budget, building>>

Author == {"user", "reply"}     \* a reply is a message of the assistant or of a tool
Message == [by : Author, kept : BOOLEAN, size : 1..MaxSize]

Newest(S) == CHOOSE i \in S : \A j \in S : j <= i
BuildAt(place) == building.at = place
BuildTo(place) == building' = [building EXCEPT !.at = place]

\* the prompt of the role, and the remark that something is left out
Around(S) == 1 + (IF S = DOMAIN history THEN 0 ELSE 1)
Units(S) == {unit \in S \X (1..MaxSize) : unit[2] <= history[unit[1]].size}
Estimate(S) == Around(S) + Cardinality(Units(S))
Exact(S) == Estimate(S) + budget.excess * Cardinality(S)
Target == (budget.usable * 94) \div 100

\* mutant: what is protected goes with the rest
RemovableAny(S) == S \ {Newest(S)}
Removable(S) == {i \in S \ {Newest(S)} : ~history[i].kept}
DropOldest(S, n) == S \ {i \in Removable(S) : Cardinality({j \in Removable(S) : j < i}) < n}

\* a transcript that lost its beginning does not begin with an answer
Normalized(S) ==
    S \ {i \in S \ {Newest(S)} : \A j \in S : j <= i => history[j].by = "reply" /\ ~history[j].kept}
NormalizedIfCut(S) == IF S = DOMAIN history THEN S ELSE Normalized(S)

AskForContext ==
    /\ BuildAt("idle")
    /\ \E n \in 1..MaxHistory : history' \in [1..n -> Message]
    /\ shown' = DOMAIN history'
    /\ budget' \in [usable : Usables, excess : Excesses]
    /\ BuildTo("prunes")

Eighth(n) == IF n < 8 THEN 1 ELSE n \div 8

PruneByEstimate ==
    LET tooLong == Estimate(shown) > Target /\ Removable(shown) # {}
    IN  /\ BuildAt("prunes")
        /\ \/ tooLong /\ shown' = DropOldest(shown, Eighth(Cardinality(shown))) /\ UNCHANGED building
           \/ /\ ~tooLong /\ shown' = NormalizedIfCut(shown)
              /\ BuildTo("counts") \/ building' = [building EXCEPT !.at = "counted", !.count = Estimate(shown')]
        /\ UNCHANGED <<history, budget>>

\* How many are dropped at once depends on by how much they overflow.
CountExactly ==
    LET again == Exact(shown) > budget.usable /\ Removable(shown) # {} /\ building.attempts < MaxAttempts
    IN  /\ BuildAt("counts")
        /\ \/ /\ again /\ \E n \in 1..(Cardinality(shown) - 1) : shown' = Normalized(DropOldest(shown, n))
              /\ building' = [building EXCEPT !.attempts = @ + 1]
           \/ /\ ~again /\ building' = [building EXCEPT !.at = "counted", !.count = Exact(shown)]
              /\ UNCHANGED shown
        /\ UNCHANGED <<history, budget>>

TokenizerRaises ==
    /\ BuildAt("counts")
    /\ building' = [building EXCEPT !.at = "counted", !.count = Estimate(shown)]
    /\ UNCHANGED <<history, shown, budget>>

Project ==
    /\ BuildAt("counted")
    /\ BuildTo(IF building.count > budget.usable THEN "refused" ELSE "built")
    /\ UNCHANGED <<history, shown, budget>>

ContextInit ==
    /\ history = <<>> /\ shown = {} /\ budget = [usable |-> 0, excess |-> 0]
    /\ building = [at |-> "idle", count |-> 0, attempts |-> 0]
ContextNext ==
    \/ AskForContext \/ PruneByEstimate \/ CountExactly \/ TokenizerRaises \/ Project

ContextSpec == ContextInit /\ [][ContextNext]_contextVars

-----------------------------------------------------------------------------
(* Properties *)

\* A projection fits, shows the newest message and every protected one that was
\* read, does not begin in the middle of an exchange unless nothing else is left,
\* and leaves nothing out when everything fits; it is refused only when there is
\* nothing more to drop or the tokenizer has been asked often enough.
ContextIsSound ==
    LET begins == CHOOSE i \in shown : \A j \in shown : i <= j
    IN  /\ BuildAt("built") =>
             /\ building.count <= budget.usable
             /\ Len(history) \in shown /\ \A i \in DOMAIN history : history[i].kept => i \in shown
             /\ shown = DOMAIN history \/ shown = {Len(history)} \/ history[begins].by = "user" \/ history[begins].kept
             /\ Estimate(DOMAIN history) <= Target /\ Exact(DOMAIN history) <= budget.usable => shown = DOMAIN history
        /\ BuildAt("refused") => Removable(shown) = {} \/ building.attempts = MaxAttempts
=============================================================================
