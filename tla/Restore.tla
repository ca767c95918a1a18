------------------------------ MODULE Restore ------------------------------
(***************************************************************************)
(* Backup and restore (backup.py).  The members of a bundle are staged     *)
(* beside their destinations and exchanged one by one under a durable      *)
(* journal, which says at any moment whether an interrupted restore goes   *)
(* back or is finished; a marker keeps processes from starting meanwhile.  *)
(*                                                                         *)
(* Everything here runs under the installation lock                        *)
(* (file_transactions.py), which TARS's own writers of these files take    *)
(* too, so there is one caller at a time and the identity checks, which    *)
(* look for other writers, always pass.  A step is one durable write; a    *)
(* caller may raise or die before each of them.  The content of an item is *)
(* the restore that brought it.                                            *)
(***************************************************************************)
EXTENDS Naturals, FiniteSets

CONSTANTS
    Item,           \* the destinations of a bundle
    Present,        \* those that exist at first
    Missing,        \* no file
    MaxRestores     \* bound on restores

ASSUME PresentAreItems == Present \subseteq Item
ASSUME MissingIsNoContent == Missing \notin Nat
ASSUME MaxRestoresIsNat == MaxRestores \in Nat

VARIABLES
    place,          \* where the caller is
    purpose,        \* what it came for; "body" and "handler" inside restore_bundle
    restores,       \* number of the last restore, its transaction id
    destination,    \* content of each destination
    incoming,       \* the restores whose staged copy lies beside it
    saved,          \* the previous content, moved aside
    transactionDir, \* the directory of the transaction exists
    staging,        \* with the unpacked bundle in it
    journal,        \* journal.json
    marker,         \* .restore-recovery-required exists
    remaining,      \* items the loop of the caller has left
    taken           \* the last bundle created: what was copied into it

liveFiles == <<destination, incoming, saved>>
transaction == <<transactionDir, staging, journal, marker>>
restoreVars == <<place, purpose, restores, liveFiles, transaction, remaining, taken>>

NoJournal == [status |-> "none", original |-> <<>>, staged |-> {}]
Members == DOMAIN journal.original
GoesTo(next) == place' = next
Journals(status) == journal' = [journal EXCEPT !.status = status]

-----------------------------------------------------------------------------
(* Recovery, which every caller begins with *)

EnterLocked(p) ==
    /\ place = "away"
    /\ p = "restore" => restores < MaxRestores
    /\ purpose' = p
    /\ GoesTo("recover")
    /\ UNCHANGED <<restores, liveFiles, transaction, remaining, taken>>

\* a marker without a journal is refused
NothingToRecover ==
    /\ place = "recover" /\ ~transactionDir
    /\ GoesTo(IF marker THEN "away"
            ELSE CASE purpose = "restore" -> "open"
                   [] purpose = "create" -> "create"
                   [] purpose = "recover" -> "away")
    /\ UNCHANGED <<purpose, restores, liveFiles, transaction, remaining, taken>>

\* a restore that died before its first record is dropped; files without a
\* journal are refused, now and for every later caller
RecoverUnrecorded ==
    /\ place = "recover" /\ transactionDir /\ journal = NoJournal
    /\ IF staging THEN GoesTo("away") /\ UNCHANGED transactionDir
       ELSE transactionDir' = FALSE /\ UNCHANGED place
    /\ UNCHANGED <<purpose, restores, liveFiles, staging, journal, marker, remaining, taken>>

Settles(status) ==
    CASE status = "committed" -> "finalize"
      [] status = "validating" -> "clear"
      [] OTHER -> "roll back"

RecoverRecorded ==
    /\ place = "recover" /\ transactionDir /\ journal # NoJournal
    /\ GoesTo(Settles(journal.status))
    /\ remaining' = Members
    /\ UNCHANGED <<purpose, restores, liveFiles, transaction, taken>>

-----------------------------------------------------------------------------
(* Rollback, from recovery or from the handler of a restore *)

BeginRollback ==
    /\ place = "roll back"
    /\ Journals("rolling_back")
    /\ GoesTo("rolling")
    /\ UNCHANGED <<purpose, restores, liveFiles, transactionDir, staging, marker, remaining, taken>>

\* a destination that the restore brought goes first, then the saved one is
\* moved back
RollBack(i) ==
    /\ place = "rolling" /\ i \in remaining
    /\ IF saved[i] # Missing
       THEN IF destination[i] # Missing
            THEN destination' = [destination EXCEPT ![i] = Missing] /\ UNCHANGED <<incoming, saved, remaining>>
            ELSE /\ destination' = [destination EXCEPT ![i] = saved[i]]
                 /\ saved' = [saved EXCEPT ![i] = Missing]
                 /\ remaining' = remaining \ {i} /\ UNCHANGED incoming
       ELSE /\ remaining' = remaining \ {i} /\ UNCHANGED saved
            /\ IF restores \in incoming[i]
               THEN incoming' = [incoming EXCEPT ![i] = @ \ {restores}] /\ UNCHANGED destination
               ELSE /\ destination' = [destination EXCEPT ![i] = IF @ = restores THEN Missing ELSE @]
                    /\ UNCHANGED incoming
    /\ UNCHANGED <<place, purpose, restores, transaction, taken>>

EndRollback ==
    /\ place = "rolling" /\ remaining = {}
    /\ Journals("rolled_back")
    /\ GoesTo("clear")
    /\ UNCHANGED <<purpose, restores, liveFiles, transactionDir, staging, marker, remaining, taken>>

-----------------------------------------------------------------------------
(* The end of a committed restore, and of every journal *)

Finalize(i) ==
    /\ place = "finalize" /\ i \in remaining
    /\ saved' = [saved EXCEPT ![i] = Missing]
    /\ incoming' = [incoming EXCEPT ![i] = @ \ {restores}]
    /\ remaining' = remaining \ {i}
    /\ UNCHANGED <<place, purpose, restores, destination, transaction, taken>>

ClearMarker ==
    /\ place = "clear" \/ (place = "finalize" /\ remaining = {})
    /\ marker' = FALSE
    /\ GoesTo("delete")
    /\ UNCHANGED <<purpose, restores, liveFiles, transactionDir, staging, journal, remaining, taken>>

\* the directory is emptied in the order the file system lists it
DeleteTransaction ==
    /\ place = "delete"
    /\ \/ journal # NoJournal /\ journal' = NoJournal /\ UNCHANGED <<transactionDir, staging, place>>
       \/ staging /\ staging' = FALSE /\ UNCHANGED <<transactionDir, journal, place>>
       \/ /\ journal = NoJournal /\ ~staging
          /\ transactionDir' = FALSE
          /\ GoesTo(IF purpose \in {"body", "handler"} THEN "away" ELSE "recover")
          /\ UNCHANGED <<staging, journal>>
    /\ UNCHANGED <<purpose, restores, liveFiles, marker, remaining, taken>>

-----------------------------------------------------------------------------
(* create_bundle and restore_bundle *)

CreateBundle ==
    /\ place = "create"
    /\ taken' = destination
    /\ GoesTo("away")
    /\ UNCHANGED <<purpose, restores, liveFiles, transaction, remaining>>

OpenTransaction ==
    /\ place = "open"
    /\ transactionDir' = TRUE
    /\ restores' = restores + 1
    /\ purpose' = "body"
    /\ GoesTo("validating")
    /\ UNCHANGED <<liveFiles, staging, journal, marker, remaining, taken>>

RecordValidating ==
    /\ place = "validating"
    /\ Journals("validating")
    /\ GoesTo("mark")
    /\ UNCHANGED <<purpose, restores, liveFiles, transactionDir, staging, marker, remaining, taken>>

\* mutant: the marker does not reach the disk
SetMarkerInMemory ==
    /\ place = "mark"
    /\ GoesTo("unpack")
    /\ UNCHANGED <<purpose, restores, liveFiles, transaction, remaining, taken>>

SetMarker ==
    /\ place = "mark"
    /\ marker' = TRUE
    /\ GoesTo("unpack")
    /\ UNCHANGED <<purpose, restores, liveFiles, transactionDir, staging, journal, remaining, taken>>

UnpackBundle ==
    /\ place = "unpack"
    /\ staging' = TRUE
    /\ GoesTo("build")
    /\ UNCHANGED <<purpose, restores, liveFiles, transactionDir, journal, marker, remaining, taken>>

\* the bundle is valid and brings some of the items
BuildItems ==
    /\ place = "build"
    /\ \E members \in SUBSET Item \ {{}} :
         /\ journal' = [status |-> "preparing", original |-> [i \in members |-> destination[i]],
                        staged |-> {}]
         /\ remaining' = members
    /\ GoesTo("prepare")
    /\ UNCHANGED <<purpose, restores, liveFiles, transactionDir, staging, marker, taken>>

\* the copy, and then the identity of the copy
PrepareItem(i) ==
    /\ place = "prepare" /\ i \in remaining
    /\ IF restores \notin incoming[i]
       THEN incoming' = [incoming EXCEPT ![i] = @ \union {restores}]
            /\ UNCHANGED <<journal, remaining>>
       ELSE /\ journal' = [journal EXCEPT !.staged = @ \union {i}]
            /\ remaining' = remaining \ {i} /\ UNCHANGED incoming
    /\ UNCHANGED <<place, purpose, restores, destination, saved, transactionDir, staging, marker, taken>>

\* "prepared" and "applying" are written one after the other
BeginApply ==
    /\ place = "prepare" /\ remaining = {}
    /\ Journals("applying")
    /\ remaining' = Members
    /\ GoesTo("apply")
    /\ UNCHANGED <<purpose, restores, liveFiles, transactionDir, staging, marker, taken>>

MoveAside(i) ==
    /\ place = "apply" /\ i \in remaining /\ destination[i] # Missing
    /\ \A j \in remaining : saved[j] = Missing
    /\ saved' = [saved EXCEPT ![i] = destination[i]]
    /\ destination' = [destination EXCEPT ![i] = Missing]
    /\ UNCHANGED <<place, purpose, restores, incoming, transaction, remaining, taken>>

MoveIn(i) ==
    /\ place = "apply" /\ i \in remaining /\ destination[i] = Missing
    /\ \A j \in remaining \ {i} : saved[j] = Missing
    /\ destination' = [destination EXCEPT ![i] = restores]
    /\ incoming' = [incoming EXCEPT ![i] = @ \ {restores}]
    /\ remaining' = remaining \ {i}
    /\ UNCHANGED <<place, purpose, restores, saved, transaction, taken>>

\* the index of memories is rebuilt, the environment looked at
Rebuild ==
    /\ place = "apply" /\ remaining = {}
    /\ Journals("rebuilding")
    /\ GoesTo("commit")
    /\ UNCHANGED <<purpose, restores, liveFiles, transactionDir, staging, marker, remaining, taken>>

CommitRestore ==
    /\ place = "commit"
    /\ Journals("committed")
    /\ remaining' = Members
    /\ GoesTo("finalize")
    /\ UNCHANGED <<purpose, restores, liveFiles, transactionDir, staging, marker, taken>>

-----------------------------------------------------------------------------
\* An exception inside the try of restore_bundle rolls back what the durable
\* journal does not say is committed; any other one leaves all as it is.
RestoreRaises ==
    /\ place # "away"
    /\ IF /\ purpose = "body" /\ place \in {"build", "prepare", "apply", "commit"}
       THEN GoesTo("roll back") /\ purpose' = "handler" /\ remaining' = Members
       ELSE GoesTo("away") /\ UNCHANGED <<purpose, remaining>>
    /\ UNCHANGED <<restores, liveFiles, transaction, taken>>

RestoreCrash ==
    /\ place # "away"
    /\ GoesTo("away")
    /\ UNCHANGED <<purpose, restores, liveFiles, transaction, remaining, taken>>

RestoreInit ==
    /\ place = "away" /\ purpose = "recover"
    /\ restores = 0
    /\ destination = [i \in Item |-> IF i \in Present THEN 0 ELSE Missing]
    /\ incoming = [i \in Item |-> {}]
    /\ saved = [i \in Item |-> Missing]
    /\ transactionDir = FALSE /\ staging = FALSE /\ journal = NoJournal /\ marker = FALSE
    /\ remaining = {}
    /\ taken = destination

RestoreNext ==
    \/ \E p \in {"restore", "recover", "create"} : EnterLocked(p)
    \/ NothingToRecover \/ RecoverUnrecorded \/ RecoverRecorded
    \/ BeginRollback \/ EndRollback \/ ClearMarker \/ DeleteTransaction
    \/ CreateBundle \/ OpenTransaction \/ RecordValidating \/ SetMarker \/ UnpackBundle \/ BuildItems \/ BeginApply \/ Rebuild
    \/ CommitRestore
    \/ \E i \in Item : RollBack(i) \/ Finalize(i) \/ PrepareItem(i) \/ MoveAside(i) \/ MoveIn(i)
    \/ RestoreRaises \/ RestoreCrash

RestoreSpec == RestoreInit /\ [][RestoreNext]_restoreVars

-----------------------------------------------------------------------------
(* Properties *)

\* the version that the journal vouches for, and what a starting process sees
VersionOfState ==
    [i \in Item |->
        IF i \notin Members \/ journal.status = "rolled_back" THEN destination[i]
        ELSE IF journal.status = "committed" THEN restores ELSE journal.original[i]]
Nothing == <<>>
ShownToStarts == IF marker THEN Nothing ELSE destination

AtomicVersion == INSTANCE AtomicRestore
     WITH version <- VersionOfState, shown <- ShownToStarts, bundle <- taken, Hidden <- Nothing

\* However often restores, their rollbacks and their recoveries are interrupted,
\* all members of a bundle are replaced at once, at the commit, or none is; a
\* process that starts in between sees nothing, and no bundle mixes two versions
\* (docs/PORTABILITY.md:30 "Process death before that point is rolled back;
\* process death after it finalizes the new state").
RestoreIsAtomic ==
    /\ AtomicVersion!Start([i \in Item |-> IF i \in Present THEN 0 ELSE Missing])
    /\ [][AtomicVersion!Step(1..MaxRestores)]_<<VersionOfState, ShownToStarts, taken>>
=============================================================================
