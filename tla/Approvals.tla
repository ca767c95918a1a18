------------------------------ MODULE Approvals ------------------------------
(***************************************************************************)
(* Approvals and policy rules (approvals.py, policy.py): what a user has   *)
(* allowed.  An intent is the canonical digest of a request (tool, effect, *)
(* target, arguments, task and session); its authority is the same without *)
(* the arguments.  Each database transaction is one step.                  *)
(***************************************************************************)
EXTENDS Naturals, Sequences, FiniteSetsExt

CONSTANTS
    Intent,
    AuthorityOf,    \* the authority of an intent
    Default,        \* DEFAULT_ACTIONS: the decision on an intent without a rule
    Scopes,         \* approval scopes that are requested
    Added,          \* decisions of the rules that users add
    Ruled,          \* bound: the intents for whose target they add a rule
    MaxGrants,      \* bound: approvals ever requested
    MaxRules        \* bound: policy rules ever added

Decisions == {"allow", "ask", "deny"}

ASSUME DefaultsAreDecisions == Default \in [Intent -> Decisions]
ASSUME ScopesAreKnown ==
    Scopes \subseteq {"call", "task", "session", "target", "persistent"}
ASSUME AddedAreDecisions == Added \subseteq Decisions
ASSUME RuledAreIntents == Ruled \subseteq Intent
ASSUME GrantBoundsAreNat == {MaxGrants, MaxRules} \subseteq Nat

VARIABLES
    grant,      \* approvals: the rows in the order of their requests
    lapsed,     \* the approvals whose expires_at has passed
    rules       \* policy_rules in the order of their creation

grantVars == <<grant, lapsed, rules>>

Grants == DOMAIN grant

-----------------------------------------------------------------------------
(* ScopeGuard.evaluate: the newest active rule that covers the intent, or  *)
(* else the default.  A rule made by an approval expires with it.          *)

ActiveRules(i) == {k \in DOMAIN rules : i \in rules[k].covers /\ rules[k].grant \notin lapsed}

Decision(i) ==
    IF ActiveRules(i) = {} THEN Default[i] ELSE rules[Max(ActiveRules(i))].action

\* mutant: every approval is compared without its arguments
CoversAuthority(g, i) == AuthorityOf[grant[g].intent] = AuthorityOf[i]

\* the part of _matches that compares what was approved to what is done
Covers(g, i) ==
    IF grant[g].scope = "target"
    THEN AuthorityOf[grant[g].intent] = AuthorityOf[i]
    ELSE grant[g].intent = i

\* authorize: approved, not expired, and for this action
Authorizing(i) ==
    {g \in Grants : grant[g].state = "approved" /\ g \notin lapsed /\ Covers(g, i)}

\* _expire, which every load and list runs first
Expired ==
    [g \in Grants |->
        IF g \in lapsed /\ grant[g].state \in {"pending", "approved"}
        THEN [grant[g] EXCEPT !.state = "expired"]
        ELSE grant[g]]

\* mutant: what authorize has read is not checked again
MayUseAsRead(g) == g \in 0..Len(grant)

\* the consumption inside _create, and whether it may go on
MayUse(g) == g # 0 /\ grant[g].scope = "call" => grant[g].state = "approved"

Used(g) ==
    IF g # 0 /\ grant[g].scope = "call"
    THEN [grant EXCEPT ![g].state = "consumed"]
    ELSE grant

-----------------------------------------------------------------------------
(* ApprovalBroker.request, decide; add_rule *)

Request ==
    /\ Len(grant) < MaxGrants
    /\ \E i \in Intent, s \in Scopes :
         /\ Decision(i) = "ask"
         /\ grant' = Append(grant, [intent |-> i, scope |-> s, state |-> "pending"])
    /\ UNCHANGED <<lapsed, rules>>

\* The load of decide has expired the lapsed approvals; one may lapse between
\* that and its update.  Approving a persistent one also adds a rule.
Decide(g) ==
    /\ grant[g].state = "pending"
    /\ \E verdict \in {"approved", "denied"} :
         /\ grant' = [grant EXCEPT ![g].state = verdict]
         /\ IF verdict = "approved" /\ grant[g].scope = "persistent"
            THEN /\ Len(rules) < MaxRules
                 /\ rules' = Append(rules, [action |-> "allow", grant |-> g,
                                            covers |-> {grant[g].intent}])
            ELSE UNCHANGED rules
    /\ UNCHANGED lapsed

\* a rule of the user for one target
AddRule ==
    /\ Len(rules) < MaxRules
    /\ \E i \in Ruled, d \in Added :
         rules' = Append(rules, [action |-> d, grant |-> 0, covers |->
                     {j \in Intent : AuthorityOf[j] = AuthorityOf[i]}])
    /\ UNCHANGED <<grant, lapsed>>

\* an approval without expires_at is one that never does
Lapse(g) ==
    /\ g \notin lapsed
    /\ lapsed' = lapsed \union {g}
    /\ UNCHANGED <<grant, rules>>

\* `tars approvals': list
Expire == grant' = Expired /\ UNCHANGED <<lapsed, rules>>

GrantInit ==
    /\ grant = <<>>
    /\ lapsed = {}
    /\ rules = <<>>

GrantNext ==
    \/ Request
    \/ \E g \in Grants : Decide(g) \/ Lapse(g)
    \/ AddRule
    \/ Expire

-----------------------------------------------------------------------------
GrantStates == {"pending", "approved", "denied", "consumed", "expired"}
=============================================================================
