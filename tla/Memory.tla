------------------------------- MODULE Memory -------------------------------
(***************************************************************************)
(* Long-term memory: documents, their index and the candidates for them    *)
(* (memory.py), its maintenance (memory_maintenance.py), and the review of *)
(* what a child task proposed (delegation.py).  A document is a file, and  *)
(* the index follows it in a transaction of its own.  Who reviews or       *)
(* maintains holds a lease that nobody takes while the process of the      *)
(* holder lives; when it has expired the holder may no longer decide.      *)
(***************************************************************************)
EXTENDS Naturals

CONSTANTS
    Candidate,      \* candidates; the entry a candidate becomes has its id
    UserEntry,      \* entries the user remembers
    TextOf,         \* the text of each entry
    Mind,           \* processes that call these modules
    Maintainers,    \* those of them that rebuild and maintain (bound)
    NoMind,
    MaxFaults       \* bound: processes that die in a call, and leases that expire

ASSUME EntriesAreApart == Candidate \intersect UserEntry = {}
ASSUME NoMindIsNobody == NoMind \notin Mind

Entry == Candidate \union UserEntry

VARIABLES
    documents,      \* entries that have a file
    indexed,        \* entries in memory_index
    archived,       \* entries with a file in the history
    candidate,      \* memory_candidates.status
    proposal,       \* delegation_memory.state of a candidate from a child task
    reviewer,       \* who has the lease on the review of a candidate
    parent,         \* who has the lease on the review of a proposal
    upkeep,         \* memory_maintenance_runs: state, and who has its lease
    mind,           \* what each process is doing
    faults,         \* how many have died or expired
    written,        \* history: entries that ever had a file
    torn,           \* history: candidates whose promotion broke off
    drifting        \* history: calls that broke off or met have set files and index apart

corpus == <<documents, indexed, archived, written, drifting>>
reviews == <<candidate, proposal, reviewer, parent, torn>>
around == <<upkeep, faults>>
memoryVars == <<corpus, reviews, around, mind>>

MindAtRest == [at |-> "rest", entry |-> NoMind, promote |-> FALSE, forParent |-> FALSE, upkeep |-> FALSE,
               late |-> FALSE, set |-> {}]
MindIs(m, place) == mind[m].at = place
MindTo(m, place) == mind' = [mind EXCEPT ![m] = IF place = "over" THEN MindAtRest ELSE [@ EXCEPT !.at = place]]
MindStarts(m, place, e) == MindIs(m, "rest") /\ mind' = [mind EXCEPT ![m] = [MindAtRest EXCEPT !.at = place, !.entry = e]]

\* where a call goes on that has done its part, and one that raised
After(m) == IF mind[m].upkeep THEN "audited" ELSE IF mind[m].entry \in Candidate THEN "decide" ELSE "over"
AfterRaise(m) == IF mind[m].upkeep THEN "upkeep-fails" ELSE IF mind[m].entry \in Candidate THEN "give-back" ELSE "over"

-----------------------------------------------------------------------------
(* remember *)

Remember(m, e) ==
    /\ e \notin written /\ MindStarts(m, "remember", e)
    /\ UNCHANGED <<corpus, reviews, around>>

\* the index is searched, then the file of the twin is read, which may be gone
FindDuplicate(m) ==
    LET twins == {d \in indexed : TextOf[d] = TextOf[mind[m].entry]}
    IN  /\ MindIs(m, "remember")
        /\ \/ twins = {} /\ MindTo(m, "write")
           \/ twins \intersect documents # {} /\ MindTo(m, After(m))
           \/ twins \ documents # {} /\ MindTo(m, AfterRaise(m))
        /\ UNCHANGED <<corpus, reviews, around>>

WriteDocument(m) ==
    LET e == mind[m].entry
    IN  /\ MindIs(m, "write")
        /\ documents' = documents \union {e} /\ written' = written \union {e}
        /\ MindTo(m, "index")
        /\ UNCHANGED <<indexed, archived, drifting, reviews, around>>

IndexDocument(m) ==
    LET e == mind[m].entry
    IN  /\ MindIs(m, "index")
        /\ indexed' = indexed \union {e} /\ drifting' = (drifting \/ e \notin documents)
        /\ MindTo(m, After(m))
        /\ UNCHANGED <<documents, archived, written, reviews, around>>

-----------------------------------------------------------------------------
(* forget *)

Inspectable(e) == e \in indexed \intersect documents

Forget(m, e) ==
    /\ Inspectable(e) /\ MindStarts(m, "archive", e)
    /\ UNCHANGED <<corpus, reviews, around>>

Archive(m) ==
    /\ MindIs(m, "archive")
    /\ archived' = archived \union ({mind[m].entry} \intersect documents) /\ MindTo(m, "unlink")
    /\ UNCHANGED <<documents, indexed, written, drifting, reviews, around>>

\* after another call has removed the file this one raises
Unlink(m) ==
    LET e == mind[m].entry
    IN  /\ MindIs(m, "unlink")
        /\ documents' = documents \ {e}
        /\ MindTo(m, IF e \in documents THEN "drop" ELSE IF mind[m].upkeep THEN "upkeep-fails" ELSE "over")
        /\ UNCHANGED <<indexed, archived, written, drifting, reviews, around>>

DropFromIndex(m) ==
    LET e == mind[m].entry
    IN  /\ MindIs(m, "drop")
        /\ indexed' = indexed \ {e} /\ drifting' = (drifting \/ e \in documents)
        /\ MindTo(m, IF mind[m].upkeep THEN "audited" ELSE "over")
        /\ UNCHANGED <<documents, archived, written, reviews, around>>

-----------------------------------------------------------------------------
(* rebuild_index, doctor *)

RebuildIndex(m) ==
    /\ \/ m \in Maintainers /\ MindStarts(m, "rebuild", NoMind)
       \/ MindIs(m, "repair") /\ MindTo(m, "rebuild")
    /\ UNCHANGED <<corpus, reviews, around>>

ReadDocuments(m) ==
    /\ MindIs(m, "rebuild") /\ mind' = [mind EXCEPT ![m].at = "replace", ![m].set = documents]
    /\ UNCHANGED <<corpus, reviews, around>>

\* what the index is to become is what was read, unless a call between its file
\* and its index sets it right
ReplaceIndex(m) ==
    LET unsettled == {mind[n].entry : n \in {n \in Mind : mind[n].at \in {"index", "drop"}}}
        read == mind[m].set
    IN  /\ MindIs(m, "replace")
        /\ indexed' = read
        /\ drifting' = ~(((read \ documents) \union (documents \ read)) \subseteq unsettled)
        /\ MindTo(m, IF mind[m].upkeep THEN "upkeep-done" ELSE "over")
        /\ UNCHANGED <<documents, archived, written, reviews, around>>

-----------------------------------------------------------------------------
(* stage_candidate, stage_child_memory *)

StageCandidate(c) ==
    /\ candidate[c] = "none" /\ candidate' = [candidate EXCEPT ![c] = "staged"]
    /\ UNCHANGED <<proposal, reviewer, parent, torn, corpus, around, mind>>

LinkProposal(c) ==
    /\ candidate[c] # "none" /\ proposal[c] = "none"
    /\ proposal' = [proposal EXCEPT ![c] = "staged"]
    /\ UNCHANGED <<candidate, reviewer, parent, torn, corpus, around, mind>>

-----------------------------------------------------------------------------
(* decide_candidate *)

Undecided(c) == candidate[c] \in {"staged", "reviewing"}

Review(m, c, promote) ==
    /\ MindIs(m, "rest") /\ Undecided(c)
    /\ mind' = [mind EXCEPT ![m] = [MindAtRest EXCEPT !.at = "claim", !.entry = c, !.promote = promote]]
    /\ UNCHANGED <<corpus, reviews, around>>

\* mutant: the claim does not look who reviews
ClaimReviewAnyway(m) ==
    LET c == mind[m].entry
    IN  /\ MindIs(m, "claim")
        /\ \/ /\ Undecided(c)
              /\ candidate' = [candidate EXCEPT ![c] = "reviewing"] /\ reviewer' = [reviewer EXCEPT ![c] = m]
              /\ MindTo(m, IF mind[m].promote THEN "remember" ELSE "decide")
           \/ ~Undecided(c) /\ MindTo(m, "refused") /\ UNCHANGED <<candidate, reviewer>>
        /\ UNCHANGED <<proposal, parent, torn, corpus, around>>

ClaimReview(m) ==
    LET c == mind[m].entry
        mayClaim == Undecided(c) /\ reviewer[c] = NoMind
    IN  /\ MindIs(m, "claim")
        /\ \/ /\ mayClaim
              /\ candidate' = [candidate EXCEPT ![c] = "reviewing"] /\ reviewer' = [reviewer EXCEPT ![c] = m]
              /\ MindTo(m, IF mind[m].promote THEN "remember" ELSE "decide")
           \/ ~mayClaim /\ MindTo(m, "refused") /\ UNCHANGED <<candidate, reviewer>>
        /\ UNCHANGED <<proposal, parent, torn, corpus, around>>

\* A reviewer that may no longer decide gives a promotion back, and leaves a
\* rejection as it is, lease included.
DecideCandidate(m) ==
    LET c == mind[m].entry
    IN  /\ MindIs(m, "decide")
        /\ \/ /\ candidate[c] = "reviewing" /\ reviewer[c] = m /\ ~mind[m].late
              /\ candidate' = [candidate EXCEPT ![c] = IF mind[m].promote THEN "promoted" ELSE "rejected"]
              /\ reviewer' = [reviewer EXCEPT ![c] = NoMind]
              /\ MindTo(m, IF mind[m].forParent THEN "settle" ELSE "over")
           \/ /\ candidate[c] # "reviewing" \/ reviewer[c] # m \/ mind[m].late
              /\ MindTo(m, IF mind[m].promote THEN "give-back" ELSE "refused")
              /\ UNCHANGED <<candidate, reviewer>>
        /\ UNCHANGED <<proposal, parent, torn, corpus, around>>

GiveReviewBack(m) ==
    LET c == mind[m].entry
    IN  /\ MindIs(m, "give-back")
        /\ IF candidate[c] = "reviewing" /\ reviewer[c] = m
           THEN candidate' = [candidate EXCEPT ![c] = "staged"] /\ reviewer' = [reviewer EXCEPT ![c] = NoMind]
           ELSE UNCHANGED <<candidate, reviewer>>
        /\ torn' = torn \union {c} /\ MindTo(m, "refused")
        /\ UNCHANGED <<proposal, parent, corpus, around>>

-----------------------------------------------------------------------------
(* review_child_memory *)

\* A promotion is refused before the parent has accepted the child
\* (delegation.py:704-706).  That is written once, in another table, and may have
\* been so from the start, which it is here.
ReviewProposal(m, c, promote) ==
    /\ MindIs(m, "rest") /\ proposal[c] = "staged" /\ parent[c] = NoMind
    /\ parent' = [parent EXCEPT ![c] = m]
    /\ mind' = [mind EXCEPT ![m] = [MindAtRest EXCEPT !.at = "look", !.entry = c, !.promote = promote, !.forParent = TRUE]]
    /\ UNCHANGED <<candidate, proposal, reviewer, torn, corpus, around>>

\* a candidate that has been decided settles the proposal, whatever the parent asked for
LookAtCandidate(m) ==
    LET c == mind[m].entry
    IN  /\ MindIs(m, "look")
        /\ \/ Undecided(c) /\ MindTo(m, "claim")
           \/ candidate[c] = "rejected" /\ mind' = [mind EXCEPT ![m].at = "settle", ![m].promote = FALSE]
           \/ candidate[c] = "promoted" /\ c \in indexed \ documents /\ MindTo(m, "refused")
           \/ candidate[c] = "promoted" /\ c \notin indexed /\ MindTo(m, "refused")
           \/ candidate[c] = "promoted" /\ Inspectable(c) /\ mind' = [mind EXCEPT ![m].at = "settle", ![m].promote = TRUE]
        /\ UNCHANGED <<corpus, reviews, around>>

Settle(m) ==
    LET c == mind[m].entry
    IN  /\ MindIs(m, "settle")
        /\ \/ /\ parent[c] = m /\ proposal[c] = "staged" /\ ~mind[m].late
              /\ proposal' = [proposal EXCEPT ![c] = IF mind[m].promote THEN "accepted" ELSE "rejected"]
              /\ parent' = [parent EXCEPT ![c] = NoMind] /\ MindTo(m, "over")
           \/ /\ parent[c] # m \/ mind[m].late
              /\ MindTo(m, "refused") /\ UNCHANGED <<proposal, parent>>
        /\ UNCHANGED <<candidate, reviewer, torn, corpus, around>>

\* the review raised: the lease on the proposal, if there is one, is given back
Refused(m) ==
    /\ MindIs(m, "refused")
    /\ parent' = [c \in Candidate |-> IF parent[c] = m THEN NoMind ELSE parent[c]]
    /\ MindTo(m, "over")
    /\ UNCHANGED <<candidate, proposal, reviewer, torn, corpus, around>>

-----------------------------------------------------------------------------
(* run_maintenance, stage_reflection, recover_interrupted_runs *)

Maintain(m) ==
    /\ m \in Maintainers /\ upkeep.state = "none" /\ MindIs(m, "rest")
    /\ upkeep' = [state |-> "running", owner |-> m]
    /\ mind' = [mind EXCEPT ![m] = [MindAtRest EXCEPT !.at = "audit", !.upkeep = TRUE]]
    /\ UNCHANGED <<faults, corpus, reviews>>

\* any entry of the user may be past its expiry
Audit(m) ==
    /\ MindIs(m, "audit")
    /\ \E expired \in SUBSET (indexed \intersect UserEntry) :
         mind' = [mind EXCEPT ![m].at = "audited", ![m].set = expired]
    /\ UNCHANGED <<corpus, reviews, around>>

ForgetExpired(m) ==
    /\ MindIs(m, "audited")
    /\ \/ mind[m].set = {} /\ MindTo(m, "repair")
       \/ \E e \in mind[m].set :
            mind' = [mind EXCEPT ![m].at = IF Inspectable(e) THEN "archive" ELSE "upkeep-fails",
                                 ![m].entry = e, ![m].set = @ \ {e}]
    /\ UNCHANGED <<corpus, reviews, around>>

\* what a reflection proposes is staged like any candidate
Reflect(m, c) ==
    /\ upkeep.state = "none" /\ MindIs(m, "rest") /\ candidate[c] = "none"
    /\ upkeep' = [state |-> "running", owner |-> m]
    /\ candidate' = [candidate EXCEPT ![c] = "staged"]
    /\ mind' = [mind EXCEPT ![m] = [MindAtRest EXCEPT !.at = "upkeep-done", !.upkeep = TRUE]]
    /\ UNCHANGED <<faults, proposal, reviewer, parent, torn, corpus>>

FinishUpkeep(m) ==
    /\ mind[m].at \in {"upkeep-done", "upkeep-fails"}
    /\ upkeep' = IF upkeep.owner = m /\ upkeep.state = "running" /\ ~mind[m].late
                 THEN [state |-> IF MindIs(m, "upkeep-done") THEN "completed" ELSE "failed", owner |-> NoMind]
                 ELSE upkeep
    /\ MindTo(m, "over")
    /\ UNCHANGED <<faults, corpus, reviews>>

RecoverUpkeep ==
    /\ upkeep = [state |-> "running", owner |-> NoMind]
    /\ upkeep' = [upkeep EXCEPT !.state = "failed"]
    /\ UNCHANGED <<faults, corpus, reviews, mind>>

-----------------------------------------------------------------------------
(* What happens to the processes *)

\* a process ends, its leases can be taken
MindGone(m) ==
    /\ faults' = IF MindIs(m, "rest") THEN faults ELSE faults + 1
    /\ faults' <= MaxFaults
    /\ mind' = [mind EXCEPT ![m] = MindAtRest]
    /\ reviewer' = [c \in Candidate |-> IF reviewer[c] = m THEN NoMind ELSE reviewer[c]]
    /\ parent' = [c \in Candidate |-> IF parent[c] = m THEN NoMind ELSE parent[c]]
    /\ upkeep' = [upkeep EXCEPT !.owner = IF @ = m THEN NoMind ELSE @]
    /\ torn' = torn \union {c \in Candidate : c = mind[m].entry /\ reviewer[c] = m}
    /\ drifting' = (drifting \/ mind[m].at \in {"index", "drop"})
    /\ UNCHANGED <<documents, indexed, archived, written, candidate, proposal>>

\* the leases of a call expire while it goes on
LeasesExpire(m) ==
    /\ ~MindIs(m, "rest") /\ ~mind[m].late
    /\ m \in {reviewer[c] : c \in Candidate} \union {parent[c] : c \in Candidate} \union {upkeep.owner}
    /\ faults < MaxFaults /\ faults' = faults + 1
    /\ mind' = [mind EXCEPT ![m].late = TRUE]
    /\ UNCHANGED <<upkeep, corpus, reviews>>

MemoryInit ==
    /\ documents = {} /\ indexed = {} /\ archived = {} /\ written = {} /\ torn = {}
    /\ candidate = [c \in Candidate |-> "none"] /\ proposal = candidate
    /\ reviewer = [c \in Candidate |-> NoMind] /\ parent = reviewer
    /\ upkeep = [state |-> "none", owner |-> NoMind]
    /\ mind = [m \in Mind |-> MindAtRest] /\ faults = 0 /\ drifting = FALSE

MemoryNext ==
    \/ RecoverUpkeep
    \/ \E c \in Candidate : StageCandidate(c) \/ LinkProposal(c)
    \/ \E m \in Mind :
         \/ \E e \in UserEntry : Remember(m, e)
         \/ \E e \in Entry : Forget(m, e)
         \/ \E c \in Candidate : Reflect(m, c)
         \/ \E c \in Candidate, promote \in BOOLEAN : Review(m, c, promote) \/ ReviewProposal(m, c, promote)
         \/ FindDuplicate(m) \/ WriteDocument(m) \/ IndexDocument(m) \/ Archive(m) \/ Unlink(m) \/ DropFromIndex(m)
         \/ RebuildIndex(m) \/ ReadDocuments(m) \/ ReplaceIndex(m)
         \/ ClaimReview(m) \/ DecideCandidate(m) \/ GiveReviewBack(m) \/ LookAtCandidate(m) \/ Settle(m) \/ Refused(m)
         \/ Maintain(m) \/ Audit(m) \/ ForgetExpired(m) \/ FinishUpkeep(m)
         \/ MindGone(m) \/ LeasesExpire(m)

MemorySpec == MemoryInit /\ [][MemoryNext]_memoryVars

-----------------------------------------------------------------------------
(* Properties *)

\* What had a file has one or is in the history; a promoted candidate has been
\* remembered; a rejected one has not, unless a promotion of it broke off before;
\* a proposal is settled as its candidate is; and the index lists the files
\* whenever no call is between the two and none has broken off there, or met
\* another, since the index was last rebuilt.
MemoryKeepsItsWord ==
    /\ written \subseteq documents \union archived
    /\ \A c \in Candidate :
         /\ candidate[c] = "promoted" => \E e \in written : TextOf[e] = TextOf[c]
         /\ candidate[c] = "rejected" /\ c \in written => c \in torn
         /\ proposal[c] = "accepted" => candidate[c] = "promoted"
         /\ proposal[c] = "rejected" => candidate[c] = "rejected"
    /\ drifting \/ indexed = documents \/ \E m \in Mind : mind[m].at \in {"index", "drop"}
=============================================================================
