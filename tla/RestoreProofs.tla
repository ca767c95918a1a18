--------------------------- MODULE RestoreProofs ---------------------------
(***************************************************************************)
(* A restore is atomic, for every set of items and every number of         *)
(* restores: what Restore does under its journal is what AtomicRestore     *)
(* promises.  And a rollback of a workspace (WorkspaceRecovery) loses      *)
(* nothing that the user had when it began, whatever he does meanwhile.    *)
(***************************************************************************)
EXTENDS Restore, WorkspaceRecovery, TLAPS, SequenceTheorems

Places == {"away", "recover", "open", "create", "validating", "mark", "unpack", "build",
           "prepare", "apply", "commit", "roll back", "rolling", "clear", "finalize", "delete"}
Statuses == {"none", "validating", "preparing", "applying", "rebuilding", "rolling_back",
             "rolled_back", "committed"}

Content == 0..restores \union {Missing}

RTypes ==
    /\ place \in Places
    /\ purpose \in {"restore", "recover", "create", "body", "handler"}
    /\ restores \in 0..MaxRestores
    /\ destination \in [Item -> Content]
    /\ incoming \in [Item -> SUBSET (1..MaxRestores)]
    /\ saved \in [Item -> Content]
    /\ {transactionDir, staging, marker} \subseteq BOOLEAN
    /\ remaining \subseteq Item

\* the journal is a record, and the lack of one is NoJournal
IsJournal ==
    /\ journal = [status |-> journal.status, original |-> journal.original,
                  staged |-> journal.staged]
    /\ journal.status \in Statuses
    /\ Members \subseteq Item
    /\ journal.status = "none" => journal = NoJournal
    /\ journal.status = "validating" => Members = {}
    /\ ~transactionDir => journal = NoJournal

\* an item that the restore has not touched, or that has gone back
Original(i) == saved[i] = Missing /\ destination[i] = journal.original[i]

\* its content moved aside, and perhaps the new one in its place
Aside(i) ==
    /\ saved[i] = journal.original[i] /\ saved[i] # Missing
    /\ destination[i] \in {Missing, restores}

\* a new item in a place where there was none
Fresh(i) ==
    /\ saved[i] = Missing /\ journal.original[i] = Missing
    /\ destination[i] = restores /\ restores \notin incoming[i]

\* What the journal tells of the files of a member, and of all others.
Recoverable ==
    /\ \A i \in Item \ Members : saved[i] = Missing
    /\ \A i \in Members :
         /\ journal.original[i] \in Content \ {restores}
         /\ journal.status = "committed" => destination[i] = restores
         /\ journal.status # "committed" => Original(i) \/ Aside(i) \/ Fresh(i)
         /\ journal.status \in {"preparing", "rolled_back"} => Original(i)

\* What a process that starts would see, were it not for the marker.
Showable == ~marker => \A i \in Item : destination[i] = VersionOfState[i]

\* Where the caller is, the journal says so.
Placed ==
    /\ place = "recover" => purpose \in {"restore", "recover", "create"}
    /\ purpose = "restore" => restores < MaxRestores
    /\ place = "create" => ~marker
    /\ place = "open" => purpose = "restore" /\ ~transactionDir /\ ~marker
    /\ place = "validating" => transactionDir /\ journal = NoJournal /\ ~marker
    /\ place \in {"mark", "unpack", "build"} => journal.status = "validating"
    /\ place \in {"validating", "mark", "unpack", "build"} =>
         restores > 0 /\ \A i \in Item : destination[i] # restores
    /\ place \in {"unpack", "build", "prepare", "apply", "commit"} => marker
    /\ place = "prepare" => journal.status = "preparing"
    /\ place = "apply" => journal.status = "applying"
    /\ place = "commit" => journal.status = "rebuilding"
    /\ place = "roll back" => journal.status \notin {"none", "committed"} /\ remaining = Members
    /\ place = "rolling" => journal.status = "rolling_back"
    /\ place = "finalize" => journal.status = "committed"
    /\ place = "clear" => journal.status \in {"validating", "rolled_back"}
    /\ place = "delete" =>
         ~marker /\ journal.status \in {"none", "validating", "rolled_back", "committed"}

\* How far the loop of the caller is.
Progress ==
    /\ place \in {"prepare", "apply", "rolling", "finalize"} => remaining \subseteq Members
    /\ place = "apply" =>
         /\ \A i \in Members \ remaining : destination[i] = restores
         /\ \A i \in remaining : destination[i] # restores
    /\ place = "commit" => \A i \in Members : destination[i] = restores
    /\ place = "rolling" => \A i \in Members \ remaining : Original(i)
    /\ place = "finalize" => \A i \in Members \ remaining : saved[i] = Missing
    /\ place = "delete" => \A i \in Item : saved[i] = Missing
    /\ journal.status # "none" => restores > 0

RInv == RTypes /\ IsJournal /\ Recoverable /\ Showable /\ Placed /\ Progress

-----------------------------------------------------------------------------
(* Every step keeps the invariant *)

\* A step that leaves files and journal alone is one of the caller.
LEMMA OnlyTheCaller ==
  ASSUME RInv, UNCHANGED <<restores, liveFiles, transaction>>,
         place' \in Places, remaining' \subseteq Item,
         purpose' \in {"restore", "recover", "create", "body", "handler"},
         Placed', Progress'
  PROVE  RInv'
<1>1. RTypes' /\ IsJournal'
  BY DEF RInv, RTypes, IsJournal, Content, Members, liveFiles, transaction
<1>2. Recoverable' /\ Showable'
  BY DEF RInv, Recoverable, Showable, VersionOfState, Original, Aside, Fresh, Content, Members,
         liveFiles, transaction
<1>3. QED BY <1>1, <1>2 DEF RInv

\* Entering, leaving, raising and crashing change nothing on disk that the
\* journal needs.
LEMMA CallerSteps ==
  ASSUME RInv,
         \/ \E p \in {"restore", "recover", "create"} : EnterLocked(p)
         \/ NothingToRecover \/ RecoverRecorded \/ RestoreRaises \/ RestoreCrash \/ CreateBundle
  PROVE  RInv'
<1> USE DEF RInv, RTypes, IsJournal, Placed, Progress, Places
<1>1. ASSUME NEW p \in {"restore", "recover", "create"}, EnterLocked(p) PROVE RInv'
  BY <1>1, OnlyTheCaller DEF EnterLocked, GoesTo, liveFiles, transaction, Members
<1>2. CASE NothingToRecover
  BY <1>2, OnlyTheCaller DEF NothingToRecover, GoesTo, liveFiles, transaction, Members
<1>3. CASE RecoverRecorded
  BY <1>3, OnlyTheCaller, MissingIsNoContent
     DEF RecoverRecorded, Settles, Statuses, GoesTo, liveFiles, transaction, Members
<1>4. CASE RestoreRaises
  BY ZenonT(60), <1>4, OnlyTheCaller DEF RestoreRaises, GoesTo, liveFiles, transaction, Members
<1>5. CASE RestoreCrash \/ CreateBundle
  BY <1>5, OnlyTheCaller DEF RestoreCrash, CreateBundle, GoesTo, liveFiles, transaction, Members
<1>6. QED BY <1>1, <1>2, <1>3, <1>4, <1>5

\* A journal that changes its status stays a journal of the same members.
LEMMA StatusChanges ==
  ASSUME IsJournal, NEW s \in Statuses \ {"none"}, Journals(s), UNCHANGED transactionDir,
         journal.status # "none" \/ transactionDir,
         s = "validating" => Members = {}
  PROVE  /\ IsJournal' /\ journal'.status = s
         /\ journal'.original = journal.original /\ Members' = Members
BY DEF IsJournal, Journals, Members, NoJournal

\* The steps that move the journal on, and leave the files alone.
LEMMA JournalSteps ==
  ASSUME RInv,
         BeginRollback \/ EndRollback \/ RecordValidating \/ BeginApply \/ Rebuild
         \/ CommitRestore
  PROVE  RInv'
<1> USE DEF RInv, RTypes, Placed, Progress, Places, Content, Recoverable, Original, Aside,
            Fresh, Showable, VersionOfState, GoesTo, liveFiles
<1>1. CASE BeginRollback
  <2>1. IsJournal' /\ journal'.status = "rolling_back"
        /\ journal'.original = journal.original /\ Members' = Members
    BY <1>1, StatusChanges DEF BeginRollback, Statuses, IsJournal, NoJournal
  <2>2. Recoverable'
    BY ZenonT(60), <1>1, <2>1 DEF BeginRollback
  <2>3. Showable'
    BY <1>1, <2>1 DEF BeginRollback
  <2>4. RTypes' /\ Placed'
    BY <1>1, <2>1 DEF BeginRollback
  <2>5. Progress'
    BY <1>1, <2>1 DEF BeginRollback, IsJournal, Statuses
  <2>6. QED BY <2>1, <2>2, <2>3, <2>4, <2>5
<1>2. CASE EndRollback
  <2>1. IsJournal' /\ journal'.status = "rolled_back"
        /\ journal'.original = journal.original /\ Members' = Members
    BY <1>2, StatusChanges DEF EndRollback, Statuses, IsJournal, NoJournal
  <2>2. QED BY <1>2, <2>1 DEF EndRollback, IsJournal, Statuses
<1>3. CASE RecordValidating
  <2>1. IsJournal' /\ journal'.status = "validating"
        /\ journal'.original = journal.original /\ Members' = Members /\ Members = {}
    <3>1. Members = {} /\ journal.status = "none"
      BY <1>3 DEF RecordValidating, IsJournal, NoJournal, Members
    <3>2. QED BY <1>3, <3>1, StatusChanges DEF RecordValidating, Statuses
  <2>2. RTypes' /\ Recoverable'
    BY <1>3, <2>1 DEF RecordValidating, IsJournal, NoJournal
  <2>3. Showable'
    BY <1>3, <2>1 DEF RecordValidating, IsJournal, NoJournal
  <2>4. QED BY <1>3, <2>1, <2>2, <2>3 DEF RecordValidating, IsJournal, NoJournal
<1>4. CASE BeginApply
  <2>1. IsJournal' /\ journal'.status = "applying"
        /\ journal'.original = journal.original /\ Members' = Members
    BY <1>4, StatusChanges DEF BeginApply, Statuses, IsJournal, NoJournal
  <2>2. QED BY <1>4, <2>1 DEF BeginApply, IsJournal, Statuses
<1>5. CASE Rebuild
  <2>1. IsJournal' /\ journal'.status = "rebuilding"
        /\ journal'.original = journal.original /\ Members' = Members
    BY <1>5, StatusChanges DEF Rebuild, Statuses, IsJournal, NoJournal
  <2>2. QED BY <1>5, <2>1 DEF Rebuild, IsJournal, Statuses
<1>6. CASE CommitRestore
  <2>1. IsJournal' /\ journal'.status = "committed"
        /\ journal'.original = journal.original /\ Members' = Members
    BY <1>6, StatusChanges DEF CommitRestore, Statuses, IsJournal, NoJournal
  <2>2. QED BY <1>6, <2>1 DEF CommitRestore, IsJournal, Statuses
<1>7. QED BY <1>1, <1>2, <1>3, <1>4, <1>5, <1>6

\* The steps around the journal: its directory, its marker, its end.
LEMMA TransactionSteps ==
  ASSUME RInv,
         RecoverUnrecorded \/ ClearMarker \/ DeleteTransaction \/ OpenTransaction \/ SetMarker
         \/ UnpackBundle
  PROVE  RInv'
<1> USE DEF RInv, RTypes, IsJournal, Placed, Progress, Places, Content, Recoverable, Original,
            Aside, Fresh, Showable, VersionOfState, GoesTo, liveFiles, Members, NoJournal
<1>1. CASE RecoverUnrecorded
  BY ZenonT(60), <1>1 DEF RecoverUnrecorded
<1>2. CASE ClearMarker
  BY <1>2 DEF ClearMarker
<1>3. CASE DeleteTransaction
  <2>1. CASE UNCHANGED journal
    BY <1>3, <2>1 DEF DeleteTransaction
  <2>2. CASE journal # NoJournal /\ journal' = NoJournal /\ UNCHANGED <<transactionDir, staging, place>>
    <3>1. \A i \in Item : destination[i] = VersionOfState[i] /\ saved[i] = Missing
      BY <1>3, <2>2 DEF DeleteTransaction
    <3>2. Members' = {} /\ journal'.status = "none"
      BY ONLY <2>2 DEF NoJournal, Members
    <3>3. RTypes' /\ IsJournal' /\ Recoverable'
      BY <1>3, <2>2, <3>1, <3>2 DEF DeleteTransaction, Statuses
    <3>4. Showable'
      BY <1>3, <2>2, <3>1, <3>2 DEF DeleteTransaction
    <3>5. QED BY <1>3, <2>2, <3>1, <3>2, <3>3, <3>4 DEF DeleteTransaction
  <2>3. QED BY <1>3, <2>1, <2>2 DEF DeleteTransaction
<1>4. CASE OpenTransaction
  BY <1>4, MaxRestoresIsNat, MissingIsNoContent DEF OpenTransaction
<1>5. CASE SetMarker \/ UnpackBundle
  BY <1>5 DEF SetMarker, UnpackBundle
<1>6. QED BY <1>1, <1>2, <1>3, <1>4, <1>5

\* Staging the members, and what BuildItems decides about them.
LEMMA StagingSteps ==
  ASSUME RInv, BuildItems \/ \E i \in Item : PrepareItem(i)
  PROVE  RInv'
<1> USE DEF RInv, RTypes, IsJournal, Placed, Progress, Places, Content, Recoverable, Original,
            Aside, Fresh, Showable, VersionOfState, GoesTo, Members, Statuses
<1>1. CASE BuildItems
  <2>1. PICK members \in SUBSET Item :
           /\ journal' = [status |-> "preparing", original |-> [i \in members |-> destination[i]],
                          staged |-> {}]
           /\ remaining' = members
    BY <1>1 DEF BuildItems
  <2>2. /\ journal'.status = "preparing" /\ Members' = members
        /\ \A i \in members : journal'.original[i] = destination[i]
    BY ONLY <2>1 DEF Members
  <2>3. transactionDir
    BY <1>1 DEF BuildItems, NoJournal
  <2>4. IsJournal'
    <3>1. journal' = [status |-> journal'.status, original |-> journal'.original,
                      staged |-> journal'.staged]
      BY ONLY <2>1
    <3>2. transactionDir' = transactionDir
      BY <1>1 DEF BuildItems
    <3>3. QED BY ONLY <2>2, <2>3, <3>1, <3>2 DEF IsJournal, Statuses
  <2>5. RTypes'
    BY <1>1, <2>1 DEF BuildItems, liveFiles
  <2>6. Recoverable' /\ Showable'
    BY <1>1, <2>1, <2>2 DEF BuildItems, liveFiles
  <2>7. Placed' /\ Progress'
    BY <1>1, <2>1, <2>2 DEF BuildItems, liveFiles
  <2>8. QED BY <2>4, <2>5, <2>6, <2>7
<1>2. ASSUME NEW i \in Item, PrepareItem(i) PROVE RInv'
  <2>1. /\ UNCHANGED <<place, purpose, restores, destination, saved, transactionDir, staging, marker>>
        /\ remaining' \subseteq remaining
        /\ journal'.status = journal.status /\ journal'.original = journal.original
    BY <1>2 DEF PrepareItem
  <2>2. RTypes'
    BY <1>2, <2>1, MaxRestoresIsNat DEF PrepareItem
  <2>3. IsJournal'
    BY <1>2, <2>1 DEF PrepareItem, NoJournal
  <2>4. Recoverable' /\ Showable'
    BY <1>2, <2>1 DEF PrepareItem
  <2>5. Placed' /\ Progress'
    BY <1>2, <2>1 DEF PrepareItem, NoJournal
  <2>6. QED BY <2>2, <2>3, <2>4, <2>5
<1>3. QED BY <1>1, <1>2

\* Moving the files, forth and back.
LEMMA MovingSteps ==
  ASSUME RInv, NEW i \in Item,
         RollBack(i) \/ Finalize(i) \/ MoveAside(i) \/ MoveIn(i)
  PROVE  RInv'
<1> USE DEF RInv, RTypes, Placed, Progress, Places, Content, Recoverable, Original,
            Aside, Fresh, Showable, VersionOfState, liveFiles
<1>1. UNCHANGED <<place, purpose, restores, transaction>> /\ IsJournal' /\ Members' = Members
  BY DEF RollBack, Finalize, MoveAside, MoveIn, IsJournal, Members, transaction
<1>2. CASE RollBack(i)
  <2>1. /\ i \in Members /\ journal.status = "rolling_back"
        /\ \A j \in Item \ {i} : /\ destination'[j] = destination[j]
                                /\ saved'[j] = saved[j] /\ incoming'[j] = incoming[j]
    BY <1>2 DEF RollBack
  <2>2. /\ remaining' \in {remaining, remaining \ {i}}
        /\ (Original(i) \/ Aside(i) \/ Fresh(i))'
        /\ i \notin remaining' => Original(i)'
    <3>1. /\ Original(i) \/ Aside(i) \/ Fresh(i)
          /\ journal.original[i] # restores /\ i \in remaining
          /\ journal' = journal /\ restores' = restores
          /\ i \in DOMAIN destination /\ i \in DOMAIN saved /\ i \in DOMAIN incoming
      BY <1>1, <1>2, <2>1 DEF RollBack, transaction
    <3>2. CASE saved[i] # Missing
      BY ONLY <1>2, <3>1, <3>2 DEF RollBack, Original, Aside, Fresh
    <3>3. CASE saved[i] = Missing /\ restores \in incoming[i]
      <4>1. Original(i) /\ remaining' = remaining \ {i}
            /\ destination' = destination /\ saved' = saved
        BY ONLY <1>2, <3>1, <3>3 DEF RollBack, Original, Aside, Fresh, liveFiles
      <4>2. QED BY ONLY <3>1, <4>1 DEF Original
    <3>4. CASE saved[i] = Missing /\ restores \notin incoming[i]
      <4>1. /\ destination'[i] = IF destination[i] = restores THEN Missing ELSE destination[i]
            /\ remaining' = remaining \ {i} /\ saved' = saved
        BY ONLY <1>2, <3>1, <3>4 DEF RollBack
      <4>2. QED BY ONLY <3>1, <3>4, <4>1 DEF Original, Aside, Fresh
    <3>5. QED BY <3>2, <3>3, <3>4
  <2>3. RTypes'
    BY <1>1, <1>2, MissingIsNoContent DEF RollBack, transaction
  <2>4. Recoverable'
    <3>1. /\ journal' = journal /\ restores' = restores /\ Members' = Members
          /\ journal.status \notin {"committed", "preparing", "rolled_back"}
      BY <1>1, <2>1 DEF transaction
    <3>2. \A j \in Item \ Members : saved'[j] = Missing
      BY <2>1
    <3>3. \A j \in Members : /\ journal.original[j] \in Content \ {restores}
                             /\ (Original(j) \/ Aside(j) \/ Fresh(j))'
      BY ZenonT(60), <1>1, <2>1, <2>2, <3>1 DEF IsJournal
    <3>4. QED BY <3>1, <3>2, <3>3
  <2>5. Showable'
    <3>1. journal' = journal /\ restores' = restores /\ marker' = marker /\ Members' = Members
      BY <1>1 DEF transaction
    <3>2. ASSUME ~marker PROVE destination'[i] = destination[i]
      <4>1. /\ destination[i] = journal.original[i] /\ journal.original[i] # restores
            /\ Original(i) \/ Aside(i) \/ Fresh(i)
            /\ i \in DOMAIN destination /\ i \in DOMAIN saved
        BY <2>1, <3>2
      <4>2. QED BY ONLY <1>2, <4>1 DEF RollBack, Original, Aside, Fresh
    <3>3. QED BY <2>1, <3>1, <3>2
  <2>6. Placed'
    BY <1>1, <1>2 DEF RollBack, transaction
  <2>7. Progress'
    <3>1. place = "rolling" /\ place' = "rolling" /\ Members' = Members
          /\ journal' = journal /\ restores' = restores
      BY <1>1, <1>2 DEF RollBack, transaction
    <3>2. remaining' \subseteq Members' /\ \A j \in Members' \ remaining' : Original(j)'
      BY <2>1, <2>2, <3>1 DEF IsJournal
    <3>3. QED BY <3>1, <3>2
  <2>8. QED BY <1>1, <2>3, <2>4, <2>5, <2>6, <2>7
<1>3. CASE Finalize(i)
  BY <1>1, <1>3 DEF Finalize, transaction
<1>4. CASE MoveAside(i)
  BY <1>1, <1>4, MissingIsNoContent DEF MoveAside, transaction
<1>5. CASE MoveIn(i)
  BY <1>1, <1>5, MissingIsNoContent DEF MoveIn, transaction
<1>6. QED BY <1>2, <1>3, <1>4, <1>5

\* Whatever is interrupted, the journal says what the files are, and the
\* caller is where the journal says.
THEOREM RestoreIsRecoverable == RestoreSpec => []RInv
<1>1. RestoreInit => RInv
  <2>1. ASSUME RestoreInit PROVE Members = {} /\ journal.status = "none"
    BY <2>1 DEF RestoreInit, NoJournal, Members
  <2>2. ASSUME RestoreInit PROVE RTypes /\ IsJournal
    <3>1. RTypes
      <4>1. restores = 0 /\ restores \in 0..MaxRestores /\ 0 \in Content /\ Missing \in Content
        BY <2>2, MaxRestoresIsNat DEF RestoreInit, Content
      <4>2. destination \in [Item -> Content] /\ saved \in [Item -> Content]
            /\ incoming \in [Item -> SUBSET (1..MaxRestores)]
        BY ONLY <2>2, <4>1 DEF RestoreInit
      <4>3. QED BY ONLY <2>2, <4>1, <4>2 DEF RestoreInit, RTypes, Places
    <3>2. journal = [status |-> journal.status, original |-> journal.original,
                     staged |-> journal.staged]
      BY <2>2 DEF RestoreInit, NoJournal
    <3>3. QED BY <2>1, <2>2, <3>1, <3>2 DEF RestoreInit, IsJournal, Statuses
  <2>3. ASSUME RestoreInit PROVE Recoverable /\ Showable /\ Placed /\ Progress
    BY <2>1, <2>3 DEF RestoreInit, Recoverable, Showable, VersionOfState, Placed, Progress
  <2>4. QED BY <2>2, <2>3 DEF RInv
<1>2. RInv /\ [RestoreNext]_restoreVars => RInv'
  <2>1. ASSUME RInv, UNCHANGED restoreVars PROVE RInv'
    <3>1. Placed' /\ Progress'
      BY ZenonT(60), <2>1 DEF RInv, Placed, Progress, Original, Members, restoreVars, liveFiles, transaction
    <3>2. QED BY <2>1, <3>1, OnlyTheCaller DEF RInv, RTypes, restoreVars
  <2>2. ASSUME RInv, NEW i \in Item, Finalize(i) PROVE RInv'
    BY <2>2, MovingSteps
  <2>3. QED BY <2>1, CallerSteps, JournalSteps, TransactionSteps, StagingSteps, MovingSteps
            DEF RestoreNext
<1>3. QED BY <1>1, <1>2, PTL DEF RestoreSpec

-----------------------------------------------------------------------------
(* Every step is one of the abstract specification, or none *)

\* What a starting process sees is the version, or nothing.
LEMMA ShownIsVersion ==
  ASSUME RInv
  PROVE  ShownToStarts = IF marker THEN Nothing ELSE VersionOfState
BY DEF RInv, RTypes, Showable, ShownToStarts, VersionOfState

\* The steps of the files and of most of the journal leave the version alone.
LEMMA VersionKept ==
  ASSUME RInv,
         \/ BeginRollback \/ EndRollback \/ RecordValidating \/ BeginApply \/ Rebuild
         \/ OpenTransaction \/ DeleteTransaction \/ BuildItems
         \/ \E i \in Item : PrepareItem(i) \/ RollBack(i) \/ MoveAside(i) \/ MoveIn(i)
  PROVE  VersionOfState' = VersionOfState
<1> USE DEF RInv, IsJournal, Placed, Progress, VersionOfState, liveFiles, Members
<1>1. CASE BeginRollback
  BY <1>1 DEF BeginRollback, Journals, Recoverable, Original
<1>2. CASE EndRollback
  BY <1>2 DEF EndRollback, Journals, Original
<1>3. CASE RecordValidating
  BY <1>3 DEF RecordValidating, Journals, NoJournal
<1>4. CASE BeginApply \/ Rebuild
  BY <1>4 DEF BeginApply, Rebuild, Journals
<1>5. CASE OpenTransaction
  BY <1>5 DEF OpenTransaction, NoJournal
<1>6. CASE DeleteTransaction
  <2>1. \A j \in Item : destination[j] = VersionOfState[j]
    BY <1>6 DEF DeleteTransaction, Showable
  <2>2. CASE journal' = journal
    BY <1>6, <2>2 DEF DeleteTransaction
  <2>3. CASE journal' = NoJournal
    BY <1>6, <2>1, <2>3 DEF DeleteTransaction, NoJournal
  <2>4. QED BY <1>6, <2>2, <2>3 DEF DeleteTransaction
<1>7. ASSUME NEW i \in Item, PrepareItem(i) PROVE VersionOfState' = VersionOfState
  BY <1>7 DEF PrepareItem
<1>8. CASE BuildItems
  <2>1. PICK members \in SUBSET Item :
           journal' = [status |-> "preparing", original |-> [j \in members |-> destination[j]],
                       staged |-> {}]
    BY <1>8 DEF BuildItems
  <2>2. /\ journal'.status = "preparing" /\ Members' = members
        /\ \A j \in members : journal'.original[j] = destination[j]
    BY ONLY <2>1 DEF Members
  <2>3. Members = {}
    BY <1>8 DEF BuildItems
  <2>4. QED BY <1>8, <2>2, <2>3 DEF BuildItems
<1>9. ASSUME NEW i \in Item, RollBack(i) PROVE VersionOfState' = VersionOfState
  BY <1>9 DEF RollBack, transaction, RTypes
<1>10. ASSUME NEW i \in Item, MoveAside(i) PROVE VersionOfState' = VersionOfState
  BY <1>10 DEF MoveAside, transaction, RTypes
<1>11. ASSUME NEW i \in Item, MoveIn(i) PROVE VersionOfState' = VersionOfState
  BY <1>11 DEF MoveIn, transaction, RTypes
<1>12. QED BY <1>1, <1>2, <1>3, <1>4, <1>5, <1>6, <1>7, <1>8, <1>9, <1>10, <1>11

\* A step of a restore is a step of the atomic one, or none that it shows.
LEMMA StepRefines ==
  ASSUME RInv, RInv', [RestoreNext]_restoreVars
  PROVE  [AtomicVersion!Step(1..MaxRestores)]_<<VersionOfState, ShownToStarts, taken>>
<1> USE DEF AtomicVersion!Step, AtomicVersion!Hide, AtomicVersion!Show, AtomicVersion!BackUp,
            AtomicVersion!Commit, AtomicVersion!Replaced
<1>1. /\ ShownToStarts = IF marker THEN Nothing ELSE VersionOfState
      /\ ShownToStarts' = IF marker' THEN Nothing ELSE VersionOfState'
  BY ShownIsVersion DEF RInv, RTypes, Showable, ShownToStarts, VersionOfState, Nothing
<1>2. CASE VersionOfState' = VersionOfState /\ UNCHANGED <<marker, taken>>
  BY <1>1, <1>2
<1>3. CASE UNCHANGED <<restores, destination, journal>> /\ UNCHANGED <<marker, taken>>
  BY <1>2, <1>3 DEF VersionOfState, Members
<1>4. CASE SetMarker
  BY <1>1, <1>4 DEF SetMarker, VersionOfState, Members, liveFiles, Nothing
<1>5. CASE ClearMarker
  BY <1>1, <1>5 DEF ClearMarker, VersionOfState, Members, liveFiles
<1>6. CASE CreateBundle
  <2>1. ~marker /\ taken' = destination /\ destination = VersionOfState
        /\ UNCHANGED <<restores, destination, journal, marker>>
    BY <1>1, <1>6 DEF CreateBundle, RInv, Placed, ShownToStarts, liveFiles, transaction
  <2>2. QED BY <1>1, <2>1 DEF VersionOfState, Members
<1>7. CASE CommitRestore
  <2>1. /\ marker /\ marker' = marker /\ taken' = taken /\ restores \in 1..MaxRestores
        /\ journal'.status = "committed" /\ journal'.original = journal.original
        /\ Members' = Members /\ Members \subseteq Item
        /\ journal.status = "rebuilding"
        /\ UNCHANGED <<restores, destination>>
    <3>1. journal.status = "rebuilding" /\ IsJournal
      BY <1>7 DEF CommitRestore, RInv, Placed
    <3>2. /\ journal'.status = "committed" /\ journal'.original = journal.original
          /\ Members' = Members
      BY <1>7, <3>1, StatusChanges DEF CommitRestore, Statuses
    <3>3. marker /\ restores \in 1..MaxRestores /\ Members \subseteq Item
      <4>1. Members \subseteq Item /\ marker /\ restores \in 0..MaxRestores /\ restores > 0
        BY <1>7, <3>1 DEF CommitRestore, RInv, RTypes, IsJournal, Placed, Progress
      <4>2. QED BY ONLY <4>1, MaxRestoresIsNat
    <3>4. QED BY <1>7, <3>1, <3>2, <3>3 DEF CommitRestore, liveFiles
  <2>2. VersionOfState' = AtomicVersion!Replaced(Members, restores)
    BY <2>1 DEF VersionOfState
  <2>3. QED BY <1>1, <2>1, <2>2
<1>8. CASE \/ BeginRollback \/ EndRollback \/ RecordValidating \/ BeginApply \/ Rebuild
           \/ OpenTransaction \/ DeleteTransaction \/ BuildItems
           \/ \E i \in Item : PrepareItem(i) \/ RollBack(i) \/ MoveAside(i) \/ MoveIn(i)
  <2>1. UNCHANGED <<marker, taken>>
    BY <1>8 DEF BeginRollback, EndRollback, RecordValidating, BeginApply, Rebuild, OpenTransaction,
                DeleteTransaction, PrepareItem, BuildItems, RollBack, MoveAside, MoveIn, transaction
  <2>2. QED BY <1>2, <1>8, <2>1, VersionKept
<1>9. CASE \/ UNCHANGED restoreVars \/ NothingToRecover \/ RecoverUnrecorded \/ RecoverRecorded
           \/ UnpackBundle \/ RestoreRaises \/ RestoreCrash
           \/ \E p \in {"restore", "recover", "create"} : EnterLocked(p)
           \/ \E i \in Item : Finalize(i)
  BY <1>3, <1>9
     DEF restoreVars, NothingToRecover, RecoverUnrecorded, RecoverRecorded, UnpackBundle,
         RestoreRaises, RestoreCrash, EnterLocked, Finalize, liveFiles, transaction
<1>10. QED BY <1>4, <1>5, <1>6, <1>7, <1>8, <1>9 DEF RestoreNext

\* All members of a bundle are replaced at once, at the commit, or none is,
\* whatever is interrupted; a process that starts in between sees nothing, and
\* no bundle mixes two versions.
THEOREM RestoreRefines == RestoreSpec => RestoreIsAtomic
<1>1. RestoreInit => AtomicVersion!Start([i \in Item |-> IF i \in Present THEN 0 ELSE Missing])
  BY DEF RestoreInit, AtomicVersion!Start, VersionOfState, ShownToStarts, Members, NoJournal
<1>2. RInv /\ RInv' /\ [RestoreNext]_restoreVars
        => [AtomicVersion!Step(1..MaxRestores)]_<<VersionOfState, ShownToStarts, taken>>
  BY StepRefines
<1>3. QED BY <1>1, <1>2, RestoreIsRecoverable, PTL DEF RestoreSpec, RestoreIsAtomic

-----------------------------------------------------------------------------
(* Workspace recovery: what a rollback overwrites can still be had *)

FileContent == Nat \union {NoFile}
Tree == [Tracked -> FileContent]
Patches == {NoPatch} \union (Tree \X Tree)
FileSets == UNION {[paths -> FileContent] : paths \in SUBSET Path}
CheckpointRow == [kind : {"none", "git", "filesystem"}, commit : Nat, staged : Patches,
                  unstaged : Patches, files : FileSets]

Undoing == {"restore", "apply-staged", "apply-unstaged", "sweep", "quarantine", "files"}
Making == {"staged", "unstaged", "list", "copy"}

RecoveryTypes ==
    /\ commit \in Nat /\ contents \in Nat
    /\ head \in Tree /\ index \in Tree /\ work \in [Path -> FileContent]
    /\ checkpoints \in Seq(CheckpointRow)
    /\ job \in [at : {"idle", "safety"} \union Making \union Undoing, to : Nat,
                made : CheckpointRow, todo : SUBSET Path]

SavedIn(c) == InPatch(c.staged) \union InPatch(c.unstaged) \union InFiles(c.files)
Saved == UNION {SavedIn(checkpoints[c]) : c \in DOMAIN checkpoints}

\* what will be there after the rollback, or was written too late for it
Safe == committed \union Saved \union late \union {NoFile}
Covered == Safe \union SavedIn(job.made)

\* A checkpoint in the making takes each thing once.
TakenOnce ==
    /\ job.at \in {"staged", "unstaged"} => job.made.unstaged = NoPatch
    /\ job.at \in {"staged", "unstaged", "list"} => job.made.files = NoFiles
    /\ job.at = "copy" => job.todo \cap DOMAIN job.made.files = {}
    /\ job.at \in Undoing => SavedIn(job.made) = {}

\* In a rollback to a git checkpoint the index, the tracked files and the others
\* are safe one after the other, and all of them before the first is touched ...
GitCovered ==
    /\ job.at \in {"unstaged", "list", "copy"} \union Undoing =>
         \A p \in Tracked : index[p] \in Covered
    /\ job.at \in {"list", "copy"} \union Undoing => \A p \in Tracked : work[p] \in Covered
    /\ job.at = "copy" => \A p \in Untracked \ job.todo : work[p] \in Covered
    /\ job.at \in Undoing => \A p \in Untracked : work[p] \in Covered

\* ... in one to a checkpoint of files, those that it will overwrite.
FilesCovered ==
    /\ job.at \in {"safety", "copy", "restore", "files"}
    /\ job.at = "copy" => \A p \in DOMAIN To.files \ job.todo : work[p] \in Covered
    /\ job.at \in {"restore", "files"} => \A p \in DOMAIN To.files : work[p] \in Covered

RollbackCovered ==
    /\ job.at \in {"safety"} \union Undoing => job.to # 0
    /\ job.to # 0 => /\ job.to \in DOMAIN checkpoints
                     /\ job.at # "idle"
                     /\ job.at = "files" => job.todo \subseteq DOMAIN To.files
                     /\ IF To.kind = "git" THEN GitCovered ELSE FilesCovered

RecoveryInv ==
    /\ RecoveryTypes
    /\ \A p \in Tracked : head[p] \in committed
    /\ TakenOnce
    /\ RollbackCovered

JobRow == [at : {"idle", "safety"} \union Making \union Undoing, to : Nat,
           made : CheckpointRow, todo : SUBSET Path]

LEMMA JobFields ==
  ASSUME RecoveryTypes
  PROVE  /\ job \in JobRow
         /\ job = [at |-> job.at, to |-> job.to, made |-> job.made, todo |-> job.todo]
         /\ job.made \in CheckpointRow
         /\ job.made = [kind |-> job.made.kind, commit |-> job.made.commit, staged |-> job.made.staged,
                        unstaged |-> job.made.unstaged, files |-> job.made.files]
<1>1. job \in JobRow
  BY DEF RecoveryTypes, JobRow
<1>2. job = [at |-> job.at, to |-> job.to, made |-> job.made, todo |-> job.todo]
      /\ job.made \in CheckpointRow
  BY <1>1 DEF JobRow
<1>3. QED BY <1>1, <1>2 DEF CheckpointRow

LEMMA EmptyFiles ==
  /\ NoFiles \in FileSets /\ DOMAIN NoFiles = {} /\ InFiles(NoFiles) = {} /\ InPatch(NoPatch) = {}
<1>1. DOMAIN NoFiles = {} /\ NoFiles \in [{} -> FileContent]
  BY DEF NoFiles
<1>2. {} \in SUBSET Path
  OBVIOUS
<1>3. QED BY <1>1, <1>2 DEF FileSets, InFiles, InPatch

\* A checkpoint that begins, and what is left when a call is over.
LEMMA NothingMade ==
  ASSUME RecoveryTypes, NEW kind \in {"none", "git", "filesystem"}
  PROVE  /\ NewCheckpoint(kind) \in CheckpointRow /\ SavedIn(NewCheckpoint(kind)) = {}
         /\ NewCheckpoint(kind).files = NoFiles /\ NewCheckpoint(kind).unstaged = NoPatch
<1>1. /\ NewCheckpoint(kind).files = NoFiles /\ NewCheckpoint(kind).unstaged = NoPatch
      /\ NewCheckpoint(kind).staged = NoPatch
  BY DEF NewCheckpoint
<1>2. NewCheckpoint(kind) \in CheckpointRow
  BY EmptyFiles DEF NewCheckpoint, CheckpointRow, RecoveryTypes, Patches
<1>3. QED BY <1>1, <1>2, EmptyFiles DEF SavedIn

LEMMA IdleAgain ==
  ASSUME RecoveryTypes, job' = Idle
  PROVE  job' \in JobRow /\ TakenOnce' /\ RollbackCovered'
<1>1. job' = [at |-> "idle", to |-> 0, made |-> NewCheckpoint("none"), todo |-> {}]
  BY DEF Idle
<1>2. NewCheckpoint("none") \in CheckpointRow
  BY NothingMade
<1>3. job' \in JobRow
  BY <1>1, <1>2 DEF JobRow
<1>4. QED BY <1>1, <1>3 DEF TakenOnce, RollbackCovered, Undoing

\* What a checkpoint has saved, for one that is ready and the one in the making.
LEMMA CheckpointSaves ==
  ASSUME RecoveryTypes, NEW c \in DOMAIN checkpoints
  PROVE  /\ checkpoints[c] \in CheckpointRow
         /\ SavedIn(checkpoints[c]) \subseteq Safe
         /\ \A p \in DOMAIN checkpoints[c].files : checkpoints[c].files[p] \in Safe
         /\ DOMAIN checkpoints[c].files \subseteq Path
<1>1. checkpoints[c] \in CheckpointRow
  BY ElementOfSeq, LenProperties DEF RecoveryTypes
<1>2. SavedIn(checkpoints[c]) \subseteq Safe
  BY DEF Safe, Saved
<1>3. \A p \in DOMAIN checkpoints[c].files : checkpoints[c].files[p] \in Safe
  BY <1>2 DEF SavedIn, InFiles, Safe
<1>4. checkpoints[c].files \in FileSets
  BY <1>1 DEF CheckpointRow
<1>5. QED BY <1>1, <1>2, <1>3, <1>4 DEF FileSets

\* The other side moves: nothing that a rollback relies on gets lost.
LEMMA OtherSideMoves ==
  ASSUME RecoveryInv, UNCHANGED <<checkpoints, job>>, Safe \subseteq Safe',
         \A p \in Tracked : index'[p] = index[p] \/ index'[p] \in Safe',
         \A p \in Path : work'[p] = work[p] \/ work'[p] \in Safe'
  PROVE  TakenOnce' /\ RollbackCovered'
<1>1. TakenOnce'
  BY DEF RecoveryInv, TakenOnce
<1>2. Covered \subseteq Covered' /\ Safe' \subseteq Covered'
  BY DEF Covered
<1>3. To' = To
  BY DEF To
<1>4. GitCovered => GitCovered'
  BY <1>2, <1>3 DEF GitCovered, Path
<1>5. job.to \in DOMAIN checkpoints => DOMAIN To.files \subseteq Path
  BY CheckpointSaves DEF RecoveryInv, To
<1>6. job.to \in DOMAIN checkpoints /\ FilesCovered => FilesCovered'
  BY <1>2, <1>3, <1>5 DEF FilesCovered
<1>7. QED BY <1>1, <1>3, <1>4, <1>6 DEF RecoveryInv, RollbackCovered

LEMMA UserKeeps ==
  ASSUME RecoveryInv,
         (\E p \in Path : EditFile(p) \/ RemoveFile(p)) \/ StageFiles \/ CommitIndex
  PROVE  RecoveryInv'
<1>1. RecoveryTypes /\ job \in JobRow
  BY JobFields DEF RecoveryInv
<1>2. UNCHANGED <<checkpoints, job>>
  BY DEF EditFile, RemoveFile, StageFiles, CommitIndex
<1>3. ASSUME committed \subseteq committed', late \subseteq late' PROVE Safe \subseteq Safe'
  BY <1>2, <1>3 DEF Safe, Saved
<1>4. CASE \E p \in Path : EditFile(p)
  <2>1. PICK p \in Path : EditFile(p)
    BY <1>4
  <2>2. /\ UNCHANGED <<commit, committed, head, index>> /\ contents' = contents + 1
        /\ work' = [work EXCEPT ![p] = contents + 1] /\ late' = late \union {contents + 1}
    BY <2>1 DEF EditFile
  <2>3. contents + 1 \in Nat /\ work' \in [Path -> FileContent]
    BY <1>1, <2>2 DEF RecoveryTypes, FileContent
  <2>4. \A q \in Path : work'[q] = work[q] \/ work'[q] \in Safe'
    BY <1>1, <2>2 DEF RecoveryTypes, Safe
  <2>5. TakenOnce' /\ RollbackCovered'
    BY <1>2, <1>3, <2>2, <2>4, OtherSideMoves
  <2>6. QED BY <1>1, <1>2, <2>2, <2>3, <2>5 DEF RecoveryInv, RecoveryTypes
<1>5. CASE \E p \in Path : RemoveFile(p)
  <2>1. PICK p \in Path : RemoveFile(p)
    BY <1>5
  <2>2. /\ UNCHANGED <<commit, committed, head, index, contents, late>>
        /\ work' = [work EXCEPT ![p] = NoFile]
    BY <2>1 DEF RemoveFile
  <2>3. work' \in [Path -> FileContent]
    BY <1>1, <2>2 DEF RecoveryTypes, FileContent
  <2>4. \A q \in Path : work'[q] = work[q] \/ work'[q] \in Safe'
    BY <1>1, <2>2 DEF RecoveryTypes, Safe
  <2>5. TakenOnce' /\ RollbackCovered'
    BY <1>2, <1>3, <2>2, <2>4, OtherSideMoves
  <2>6. QED BY <1>1, <1>2, <2>2, <2>3, <2>5 DEF RecoveryInv, RecoveryTypes
<1>6. CASE StageFiles
  <2>1. /\ UNCHANGED <<commit, committed, head, work, contents>>
        /\ index' = [p \in Tracked |-> work[p]]
        /\ late' = late \union {work[p] : p \in Tracked}
    BY <1>6 DEF StageFiles
  <2>2. index' \in Tree
    BY <1>1, <2>1 DEF RecoveryTypes, Tree, Path
  <2>3. \A p \in Tracked : index'[p] \in Safe'
    BY <2>1 DEF Safe
  <2>4. TakenOnce' /\ RollbackCovered'
    BY <1>2, <1>3, <2>1, <2>3, OtherSideMoves
  <2>5. QED BY <1>1, <1>2, <2>1, <2>2, <2>4 DEF RecoveryInv, RecoveryTypes
<1>7. CASE CommitIndex
  <2>1. /\ UNCHANGED <<index, work, contents, late>> /\ commit' = commit + 1 /\ head' = index
        /\ committed' = committed \union {index[p] : p \in Tracked}
    BY <1>7 DEF CommitIndex
  <2>2. commit' \in Nat /\ head' \in Tree /\ \A p \in Tracked : head'[p] \in committed'
    BY <1>1, <2>1 DEF RecoveryTypes
  <2>3. TakenOnce' /\ RollbackCovered'
    BY <1>2, <1>3, <2>1, OtherSideMoves
  <2>4. QED BY <1>1, <1>2, <2>1, <2>2, <2>3 DEF RecoveryInv, RecoveryTypes
<1>8. QED BY <1>4, <1>5, <1>6, <1>7

\* A step of a call that touches neither the repository nor what is ready.
LEMMA CallMoves ==
  ASSUME RecoveryInv, UNCHANGED <<commit, committed, head, index, work, contents, checkpoints>>,
         job' \in JobRow, TakenOnce', RollbackCovered'
  PROVE  RecoveryInv'
BY DEF RecoveryInv, RecoveryTypes, JobRow

LEMMA CaptureKeeps ==
  ASSUME RecoveryInv, CaptureStaged \/ CaptureUnstaged \/ ListUntracked
  PROVE  RecoveryInv'
<1>1. RecoveryTypes /\ TakenOnce /\ RollbackCovered
  BY DEF RecoveryInv
<1>2. /\ job = [at |-> job.at, to |-> job.to, made |-> job.made, todo |-> job.todo] /\ job \in JobRow
      /\ job.made \in CheckpointRow
      /\ job.made = [kind |-> job.made.kind, commit |-> job.made.commit, staged |-> job.made.staged,
                     unstaged |-> job.made.unstaged, files |-> job.made.files]
  BY <1>1, JobFields
<1>3. UNCHANGED <<commit, committed, head, index, work, contents, late, checkpoints>>
  BY DEF CaptureStaged, CaptureUnstaged, ListUntracked, repository
<1>4. Safe' = Safe
  BY <1>3 DEF Safe, Saved
<1>5. job.at \in {"staged", "unstaged", "list"}
  BY DEF CaptureStaged, CaptureUnstaged, ListUntracked
<1>6. job.to # 0 => job.to \in DOMAIN checkpoints /\ To.kind = "git" /\ GitCovered
  BY <1>1, <1>5 DEF RollbackCovered, FilesCovered
<1>7. ASSUME job'.to = job.to, GitCovered => GitCovered', job'.at \in Making, TakenOnce', job' \in JobRow
      PROVE  RecoveryInv'
  <2>1. To' = To
    BY <1>3, <1>7 DEF To
  <2>2. RollbackCovered'
    BY <1>3, <1>6, <1>7, <2>1 DEF RollbackCovered, Making, Undoing
  <2>3. QED BY <1>3, <1>7, <2>2, CallMoves
<1>8. ASSUME NEW from \in Tree, NEW to \in Tree
      PROVE  /\ Patch(from, to) \in Patches
             /\ \A p \in Tracked : to[p] = from[p] \/ to[p] \in InPatch(Patch(from, to))
  BY DEF Patch, Patches, InPatch, NoPatch
<1>9. CASE CaptureStaged
  <2> DEFINE m == [kind |-> job.made.kind, commit |-> job.made.commit, staged |-> Patch(head, index),
                   unstaged |-> job.made.unstaged, files |-> job.made.files]
  <2>1. job.at = "staged" /\ job' = [at |-> "unstaged", to |-> job.to, made |-> m, todo |-> job.todo]
    BY <1>2, <1>9 DEF CaptureStaged
  <2>2. head \in Tree /\ index \in Tree
    BY <1>1 DEF RecoveryTypes
  <2>3. m \in CheckpointRow
    BY <1>2, <1>8, <2>2 DEF CheckpointRow
  <2>4. /\ m.staged = Patch(head, index) /\ m.unstaged = job.made.unstaged /\ m.files = job.made.files
    OBVIOUS
  <2> HIDE DEF m
  <2>5. job' \in JobRow /\ job'.to = job.to /\ job'.at = "unstaged" /\ job'.made = m
    BY <1>2, <2>1, <2>3 DEF JobRow, Making
  <2>6. TakenOnce'
    BY <1>1, <2>1, <2>4, <2>5 DEF TakenOnce, Undoing
  <2>7. \A p \in Tracked : index[p] \in Safe \union SavedIn(m)
    BY <1>8, <2>2, <2>4 DEF RecoveryInv, Safe, SavedIn
  <2>8. GitCovered'
    BY <1>3, <1>4, <2>5, <2>7 DEF GitCovered, Covered, Undoing
  <2>9. QED BY <1>7, <2>5, <2>6, <2>8 DEF Making
<1>10. CASE CaptureUnstaged
  <2> DEFINE tree == [p \in Tracked |-> work[p]]
             m == [kind |-> job.made.kind, commit |-> job.made.commit, staged |-> job.made.staged,
                   unstaged |-> Patch(index, tree), files |-> job.made.files]
  <2>1. job.at = "unstaged" /\ job' = [at |-> "list", to |-> job.to, made |-> m, todo |-> job.todo]
    BY <1>2, <1>10 DEF CaptureUnstaged
  <2>2. index \in Tree /\ tree \in Tree
    BY <1>1 DEF RecoveryTypes, Tree, Path
  <2>3. m \in CheckpointRow
    BY <1>2, <1>8, <2>2 DEF CheckpointRow
  <2>4. /\ m.unstaged = Patch(index, tree) /\ m.staged = job.made.staged /\ m.files = job.made.files
    OBVIOUS
  <2>5. \A p \in Tracked : work[p] = index[p] \/ work[p] \in InPatch(m.unstaged)
    BY <1>8, <2>2, <2>4
  <2> HIDE DEF m, tree
  <2>6. job' \in JobRow /\ job'.to = job.to /\ job'.at = "list" /\ job'.made = m
    BY <1>2, <2>1, <2>3 DEF JobRow, Making
  <2>7. TakenOnce'
    BY <1>1, <2>1, <2>4, <2>6 DEF TakenOnce, Undoing
  <2>8. SavedIn(job.made) \subseteq SavedIn(m)
    BY <1>1, <2>1, <2>4, EmptyFiles DEF TakenOnce, SavedIn
  <2>9. ASSUME GitCovered PROVE GitCovered'
    <3>1. \A p \in Tracked : index[p] \in Safe \union SavedIn(m)
      BY <2>1, <2>8, <2>9 DEF GitCovered, Covered
    <3>2. \A p \in Tracked : work[p] \in Safe \union SavedIn(m)
      BY <2>5, <3>1 DEF SavedIn
    <3>3. QED BY <1>3, <1>4, <2>6, <3>1, <3>2 DEF GitCovered, Covered, Undoing
  <2>10. QED BY <1>7, <2>6, <2>7, <2>9 DEF Making
<1>11. CASE ListUntracked
  <2>1. /\ job.at = "list"
        /\ job' = [at |-> "copy", to |-> job.to, made |-> job.made, todo |-> OnDisk(Untracked)]
    BY <1>2, <1>11 DEF ListUntracked, Moves
  <2>2. OnDisk(Untracked) \subseteq Path /\ \A p \in Untracked \ OnDisk(Untracked) : work[p] = NoFile
    BY DEF OnDisk, Exists, Path
  <2>3. /\ job' \in JobRow /\ job'.to = job.to /\ job'.at = "copy" /\ job'.made = job.made
        /\ job'.todo = OnDisk(Untracked)
    BY <1>2, <2>1, <2>2 DEF JobRow, Making
  <2>4. TakenOnce'
    BY <1>1, <2>1, <2>3, EmptyFiles DEF TakenOnce, Undoing
  <2>5. GitCovered => GitCovered'
    BY <1>3, <1>4, <2>1, <2>2, <2>3 DEF GitCovered, Covered, Undoing, Safe
  <2>6. QED BY <1>7, <2>3, <2>4, <2>5 DEF Making
<1>12. QED BY <1>9, <1>10, <1>11

LEMMA CopyKeeps ==
  ASSUME RecoveryInv, NEW p \in Path, CopyFile(p)
  PROVE  RecoveryInv'
<1>1. RecoveryTypes /\ TakenOnce /\ RollbackCovered
  BY DEF RecoveryInv
<1>2. /\ job = [at |-> job.at, to |-> job.to, made |-> job.made, todo |-> job.todo] /\ job \in JobRow
      /\ job.made \in CheckpointRow
      /\ job.made = [kind |-> job.made.kind, commit |-> job.made.commit, staged |-> job.made.staged,
                     unstaged |-> job.made.unstaged, files |-> job.made.files]
  BY <1>1, JobFields
<1>3. /\ UNCHANGED <<commit, committed, head, index, work, contents, late, checkpoints>>
      /\ job.at = "copy" /\ p \in job.todo
  BY DEF CopyFile, repository
<1>4. Safe' = Safe
  BY <1>3 DEF Safe, Saved
<1>5. CASE ~Exists(p)
  <2>1. job' = Idle
    BY <1>5 DEF CopyFile, Stops
  <2>2. QED BY <1>1, <1>3, <2>1, IdleAgain, CallMoves
<1>6. CASE Exists(p)
  <2> DEFINE files == With(job.made.files, p, work[p])
             m == [kind |-> job.made.kind, commit |-> job.made.commit, staged |-> job.made.staged,
                   unstaged |-> job.made.unstaged, files |-> files]
  <2>1. job' = [at |-> "copy", to |-> job.to, made |-> m, todo |-> job.todo \ {p}]
    BY <1>2, <1>3, <1>6 DEF CopyFile
  <2>2. PICK paths \in SUBSET Path : job.made.files \in [paths -> FileContent]
    BY <1>2 DEF CheckpointRow, FileSets
  <2>3. work[p] \in FileContent /\ paths \union {p} \in SUBSET Path
    BY <1>1, <2>2 DEF RecoveryTypes
  <2>4. /\ files \in [paths \union {p} -> FileContent] /\ files[p] = work[p]
        /\ DOMAIN files = DOMAIN job.made.files \union {p}
        /\ \A q \in DOMAIN job.made.files : q # p => files[q] = job.made.files[q]
    BY <2>2, <2>3 DEF With
  <2>5. files \in FileSets
    BY <2>3, <2>4 DEF FileSets
  <2>6. InFiles(job.made.files) \subseteq InFiles(files) /\ work[p] \in InFiles(files) \union {NoFile}
    BY <1>1, <1>3, <2>4 DEF InFiles, TakenOnce
  <2> HIDE DEF files
  <2>7. m \in CheckpointRow
    BY <1>2, <2>5 DEF CheckpointRow
  <2>8. m.staged = job.made.staged /\ m.unstaged = job.made.unstaged /\ m.files = files
    OBVIOUS
  <2> HIDE DEF m
  <2>9. /\ job' \in JobRow /\ job'.at = "copy" /\ job'.to = job.to /\ job'.made = m
        /\ job'.todo = job.todo \ {p}
    BY <1>2, <2>1, <2>7 DEF JobRow, Making
  <2>10. TakenOnce'
    BY <1>1, <1>3, <2>4, <2>8, <2>9 DEF TakenOnce, Undoing
  <2>11. Covered \subseteq Covered' /\ work[p] \in Covered'
    BY <1>4, <2>6, <2>8, <2>9 DEF Covered, SavedIn, Safe
  <2>12. To' = To
    BY <1>3, <2>9 DEF To
  <2>13. GitCovered => GitCovered'
    BY <1>3, <2>9, <2>11 DEF GitCovered, Undoing
  <2>14. FilesCovered => FilesCovered'
    BY <1>3, <2>9, <2>11, <2>12 DEF FilesCovered
  <2>15. RollbackCovered'
    BY <1>1, <1>3, <2>9, <2>12, <2>13, <2>14 DEF RollbackCovered, Undoing
  <2>16. QED BY <1>3, <2>9, <2>10, <2>15, CallMoves
<1>7. QED BY <1>5, <1>6

LEMMA InsertKeeps ==
  ASSUME RecoveryInv, InsertCheckpoint
  PROVE  RecoveryInv' /\ Kept \subseteq Kept'
<1>1. RecoveryTypes /\ TakenOnce /\ RollbackCovered
  BY DEF RecoveryInv
<1>2. /\ job = [at |-> job.at, to |-> job.to, made |-> job.made, todo |-> job.todo] /\ job \in JobRow
      /\ job.made \in CheckpointRow
  BY <1>1, JobFields
<1>3. /\ UNCHANGED <<commit, committed, head, index, work, contents, late>>
      /\ job.at = "copy" /\ job.todo = {} /\ checkpoints' = Append(checkpoints, job.made)
      /\ job' = IF job.to = 0 THEN Idle ELSE [job EXCEPT !.at = "restore", !.made = Idle.made]
  BY DEF InsertCheckpoint, repository
<1>4. /\ checkpoints' \in Seq(CheckpointRow) /\ DOMAIN checkpoints' = 1..Len(checkpoints) + 1
      /\ DOMAIN checkpoints = 1..Len(checkpoints) /\ Len(checkpoints) \in Nat
      /\ checkpoints'[Len(checkpoints) + 1] = job.made
      /\ \A c \in DOMAIN checkpoints : checkpoints'[c] = checkpoints[c]
  <2>1. checkpoints \in Seq(CheckpointRow)
    BY <1>1 DEF RecoveryTypes
  <2>2. /\ checkpoints' \in Seq(CheckpointRow) /\ Len(checkpoints') = Len(checkpoints) + 1
        /\ \A c \in 1..Len(checkpoints) : checkpoints'[c] = checkpoints[c]
        /\ checkpoints'[Len(checkpoints) + 1] = job.made
    BY <1>2, <1>3, <2>1, AppendProperties
  <2>3. QED BY <2>1, <2>2, LenProperties
<1>5. Saved \subseteq Saved' /\ SavedIn(job.made) \subseteq Saved'
  <2>1. /\ \A c \in DOMAIN checkpoints : c \in DOMAIN checkpoints' /\ checkpoints'[c] = checkpoints[c]
        /\ Len(checkpoints) + 1 \in DOMAIN checkpoints'
    BY <1>4
  <2>2. \A c \in DOMAIN checkpoints : SavedIn(checkpoints[c]) \subseteq Saved'
    <3>1. SUFFICES ASSUME NEW c \in DOMAIN checkpoints PROVE SavedIn(checkpoints[c]) \subseteq Saved'
      OBVIOUS
    <3>2. PICK row : row = checkpoints[c]
      OBVIOUS
    <3>3. c \in DOMAIN checkpoints' /\ checkpoints'[c] = row
      BY <2>1, <3>2
    <3>4. SavedIn(row) \subseteq UNION {SavedIn(checkpoints'[d]) : d \in DOMAIN checkpoints'}
      BY <3>3
    <3>5. QED BY <3>2, <3>4 DEF Saved, SavedIn
  <2>3. SavedIn(job.made) \subseteq Saved'
    <3>1. PICK row : row = job.made
      OBVIOUS
    <3>2. Len(checkpoints) + 1 \in DOMAIN checkpoints' /\ checkpoints'[Len(checkpoints) + 1] = row
      BY <1>4, <2>1, <3>1
    <3>3. SavedIn(row) \subseteq UNION {SavedIn(checkpoints'[d]) : d \in DOMAIN checkpoints'}
      BY <3>2
    <3>4. QED BY <3>1, <3>3 DEF Saved, SavedIn
  <2>4. QED BY <2>2, <2>3 DEF Saved
<1>6. Covered \subseteq Safe' /\ Safe' \subseteq Covered'
  BY <1>3, <1>5 DEF Covered, Safe
<1>7. Kept \subseteq Kept'
  <2>1. Kept = committed \union InFiles(index) \union InFiles(work) \union Saved
    BY DEF Kept, Saved, SavedIn
  <2>2. Kept' = committed' \union InFiles(index') \union InFiles(work') \union Saved'
    BY DEF Kept, Saved, SavedIn
  <2>3. QED BY <1>3, <1>5, <2>1, <2>2
<1>8. job' \in JobRow /\ TakenOnce' /\ RollbackCovered'
  <2>1. CASE job.to = 0
    BY <1>1, <1>3, <2>1, IdleAgain
  <2>2. CASE job.to # 0
    <3>1. job' = [at |-> "restore", to |-> job.to, made |-> NewCheckpoint("none"), todo |-> job.todo]
      BY <1>2, <1>3, <2>2 DEF Idle
    <3>2. NewCheckpoint("none") \in CheckpointRow /\ SavedIn(NewCheckpoint("none")) = {}
      BY <1>1, NothingMade
    <3>3. PICK m : m = NewCheckpoint("none")
      OBVIOUS
    <3>4. /\ job' \in JobRow /\ job'.at = "restore" /\ job'.to = job.to
          /\ job'.made = m /\ SavedIn(m) = {}
      BY <1>2, <3>1, <3>2, <3>3 DEF JobRow, Undoing
    <3>5. TakenOnce'
      BY <3>4 DEF TakenOnce, SavedIn
    <3>6. job.to \in DOMAIN checkpoints /\ job.to \in DOMAIN checkpoints' /\ To' = To
      BY <1>1, <1>4, <2>2, <3>4 DEF RollbackCovered, To
    <3>7. ASSUME To.kind = "git" PROVE GitCovered'
      <4>1. GitCovered
        BY <1>1, <2>2, <3>7 DEF RollbackCovered
      <4>2. /\ \A p \in Tracked : index[p] \in Safe' /\ work[p] \in Safe'
            /\ \A p \in Untracked : work[p] \in Safe'
        BY <1>3, <1>6, <4>1 DEF GitCovered
      <4>3. QED BY <1>3, <1>6, <4>2 DEF GitCovered
    <3>8. ASSUME To.kind # "git" PROVE FilesCovered'
      <4>1. FilesCovered
        BY <1>1, <2>2, <3>8 DEF RollbackCovered
      <4>2. \A p \in DOMAIN To.files : work[p] \in Safe'
        BY <1>3, <1>6, <4>1 DEF FilesCovered
      <4>3. QED BY <1>3, <1>6, <3>4, <3>6, <4>2 DEF FilesCovered
    <3>9. RollbackCovered'
      BY <2>2, <3>4, <3>6, <3>7, <3>8 DEF RollbackCovered
    <3>10. QED BY <3>4, <3>5, <3>9
  <2>3. QED BY <2>1, <2>2
<1>9. RecoveryInv'
  BY <1>1, <1>3, <1>4, <1>8 DEF RecoveryInv, RecoveryTypes, JobRow
<1>10. QED BY <1>7, <1>9

\* The calls begin.
LEMMA BeginKeeps ==
  ASSUME RecoveryInv,
         \/ \E kind \in {"git", "filesystem"} : CreateCheckpoint(kind)
         \/ \E c \in 1..MaxCheckpoints : Rollback(c)
         \/ MakeSafe
  PROVE  RecoveryInv'
<1>1. RecoveryTypes /\ TakenOnce /\ RollbackCovered
  BY DEF RecoveryInv
<1>2. /\ job = [at |-> job.at, to |-> job.to, made |-> job.made, todo |-> job.todo] /\ job \in JobRow
      /\ job.made \in CheckpointRow
  BY <1>1, JobFields
<1>3. UNCHANGED <<commit, committed, head, index, work, contents, checkpoints>>
  BY DEF CreateCheckpoint, Rollback, MakeSafe, repository
<1>4. \A kind \in {"none", "git", "filesystem"} :
        /\ NewCheckpoint(kind) \in CheckpointRow /\ SavedIn(NewCheckpoint(kind)) = {}
        /\ NewCheckpoint(kind).files = NoFiles /\ NewCheckpoint(kind).unstaged = NoPatch
  BY <1>1, NothingMade
\* a checkpoint that is made first
<1>5. ASSUME NEW kind \in {"git", "filesystem"}, NEW todo \in SUBSET Path, NEW to \in Nat,
             job' = [at |-> IF kind = "git" THEN "staged" ELSE "copy", to |-> to,
                     made |-> NewCheckpoint(kind), todo |-> todo]
      PROVE  job' \in JobRow /\ TakenOnce'
  <2>1. PICK m : m = NewCheckpoint(kind)
    OBVIOUS
  <2>2. m \in CheckpointRow /\ m.files = NoFiles /\ m.unstaged = NoPatch
    BY <1>4, <1>5, <2>1
  <2>3. /\ job' \in JobRow /\ job'.at \in {"staged", "copy"} /\ job'.made = m
    BY <1>5, <2>1, <2>2 DEF JobRow, Making
  <2>4. QED BY <2>2, <2>3, EmptyFiles DEF TakenOnce, Undoing
<1>6. ASSUME NEW kind \in {"git", "filesystem"}, CreateCheckpoint(kind) PROVE RecoveryInv'
  <2>1. PICK todo \in SUBSET Path :
          job' = [at |-> IF kind = "git" THEN "staged" ELSE "copy", to |-> 0,
                  made |-> NewCheckpoint(kind), todo |-> todo]
    <3>1. CASE kind = "git"
      BY <1>6, <3>1 DEF CreateCheckpoint, Idle
    <3>2. CASE kind = "filesystem"
      <4>1. PICK todo \in SUBSET OnDisk(Path) :
              job' = [Idle EXCEPT !.at = "copy", !.made = NewCheckpoint("filesystem"), !.todo = todo]
        BY <1>6, <3>2 DEF CreateCheckpoint
      <4>2. todo \in SUBSET Path
        BY <4>1 DEF OnDisk
      <4>3. QED BY <3>2, <4>1, <4>2 DEF Idle
    <3>3. QED BY <3>1, <3>2
  <2>2. job' \in JobRow /\ TakenOnce' /\ job'.to = 0 /\ job'.at \in Making
    BY <1>5, <2>1 DEF Making
  <2>3. RollbackCovered'
    BY <2>2 DEF RollbackCovered, Making, Undoing
  <2>4. QED BY <1>3, <2>2, <2>3, CallMoves
<1>7. ASSUME NEW c \in 1..MaxCheckpoints, Rollback(c) PROVE RecoveryInv'
  <2>1. c \in DOMAIN checkpoints /\ c \in Nat /\ c # 0
    <3>1. c \in DOMAIN checkpoints /\ DOMAIN checkpoints = 1..Len(checkpoints) /\ Len(checkpoints) \in Nat
      BY <1>1, <1>7, LenProperties DEF Rollback, RecoveryTypes
    <3>2. QED BY <3>1
  <2>2. job' = [at |-> "safety", to |-> c, made |-> NewCheckpoint("none"), todo |-> {}]
    BY <1>7 DEF Rollback, Idle
  <2>3. job' \in JobRow /\ job'.at = "safety" /\ job'.to = c
    BY <1>4, <2>1, <2>2 DEF JobRow
  <2>4. TakenOnce'
    BY <2>3 DEF TakenOnce, Undoing
  <2>5. GitCovered' /\ FilesCovered'
    BY <2>3 DEF GitCovered, FilesCovered, Undoing
  <2>6. RollbackCovered'
    BY <1>3, <2>1, <2>3, <2>5 DEF RollbackCovered
  <2>7. QED BY <1>3, <2>3, <2>4, <2>6, CallMoves
<1>8. ASSUME MakeSafe PROVE RecoveryInv'
  <2>1. job.at = "safety" /\ job.to # 0 /\ job.to \in DOMAIN checkpoints /\ job.to \in Nat
    BY <1>1, <1>2, <1>8 DEF MakeSafe, RollbackCovered, JobRow
  <2>2. To = checkpoints[job.to] /\ DOMAIN To.files \subseteq Path
    BY <1>1, <2>1, CheckpointSaves DEF To
  <2>3. /\ UNCHANGED late
        /\ OnDisk(DOMAIN To.files) \subseteq Path
        /\ \A p \in DOMAIN To.files \ OnDisk(DOMAIN To.files) : work[p] = NoFile
    BY <1>8, <2>2 DEF MakeSafe, OnDisk, Exists
  <2>4. CASE To.kind = "git"
    <3>1. job' = [at |-> IF "git" = "git" THEN "staged" ELSE "copy", to |-> job.to,
                  made |-> NewCheckpoint("git"), todo |-> job.todo]
      BY <1>2, <1>8, <2>4 DEF MakeSafe
    <3>2. job.todo \in SUBSET Path
      BY <1>2 DEF JobRow
    <3>3. job' \in JobRow /\ TakenOnce'
      BY <1>5, <2>1, <3>1, <3>2
    <3>4. job'.at = "staged" /\ job'.to = job.to
      BY <3>1
    <3>5. To' = To /\ GitCovered'
      BY <1>3, <3>4 DEF To, GitCovered, Undoing
    <3>6. RollbackCovered'
      BY <1>3, <2>1, <2>4, <3>4, <3>5 DEF RollbackCovered, Undoing
    <3>7. QED BY <1>3, <3>3, <3>6, CallMoves
  <2>5. CASE To.kind # "git"
    <3>1. job' = [at |-> IF "filesystem" = "git" THEN "staged" ELSE "copy", to |-> job.to,
                  made |-> NewCheckpoint("filesystem"), todo |-> OnDisk(DOMAIN To.files)]
      BY <1>2, <1>8, <2>5 DEF MakeSafe
    <3>2. job' \in JobRow /\ TakenOnce'
      BY <1>5, <2>1, <2>3, <3>1
    <3>3. job'.at = "copy" /\ job'.to = job.to /\ job'.todo = OnDisk(DOMAIN To.files)
      BY <3>1
    <3>4. To' = To /\ FilesCovered'
      BY <1>3, <2>3, <3>3 DEF To, FilesCovered, Covered, Safe
    <3>5. RollbackCovered'
      BY <1>3, <2>1, <2>5, <3>3, <3>4 DEF RollbackCovered, Undoing
    <3>6. QED BY <1>3, <3>2, <3>5, CallMoves
  <2>6. QED BY <2>4, <2>5
<1>9. QED BY <1>6, <1>7, <1>8

\* Where a rollback stands when it changes something.
LEMMA RollbackTo ==
  ASSUME RecoveryInv, job.at \in Undoing
  PROVE  /\ job.to \in DOMAIN checkpoints /\ To = checkpoints[job.to] /\ To \in CheckpointRow
         /\ DOMAIN To.files \subseteq Path
         /\ \A p \in DOMAIN To.files : To.files[p] \in Safe /\ To.files[p] \in FileContent
         /\ \A patch \in {To.staged, To.unstaged} :
              patch # NoPatch => /\ patch[2] \in Tree
                                 /\ \A p \in Tracked : patch[2][p] \in Safe
         /\ job.at \notin {"restore", "files"} => To.kind = "git"
<1>1. job.to \in DOMAIN checkpoints /\ (To.kind # "git" => FilesCovered)
  BY DEF RecoveryInv, RollbackCovered
<1>2. /\ To = checkpoints[job.to] /\ To \in CheckpointRow /\ SavedIn(To) \subseteq Safe
      /\ DOMAIN To.files \subseteq Path /\ \A p \in DOMAIN To.files : To.files[p] \in Safe
  BY <1>1, CheckpointSaves DEF RecoveryInv, To
<1>3. \A p \in DOMAIN To.files : To.files[p] \in FileContent
  BY <1>2 DEF CheckpointRow, FileSets
<1>4. ASSUME NEW patch \in {To.staged, To.unstaged}, patch # NoPatch
      PROVE  patch[2] \in Tree /\ \A p \in Tracked : patch[2][p] \in Safe
  <2>1. patch \in Tree \X Tree
    BY <1>2, <1>4 DEF CheckpointRow, Patches
  <2>2. InPatch(patch) \subseteq Safe
    BY <1>2, <1>4 DEF SavedIn
  <2>3. QED BY <1>4, <2>1, <2>2 DEF InPatch
<1>5. job.at \notin {"restore", "files"} => To.kind = "git"
  BY <1>1 DEF FilesCovered, Undoing
<1>6. QED BY <1>1, <1>2, <1>3, <1>4, <1>5

\* What a rollback overwrites is safe, and so is what it writes.
LEMMA RollbackMoves ==
  ASSUME RecoveryInv, job.at \in Undoing,
         UNCHANGED <<commit, committed, head, contents, late, checkpoints>>,
         NEW at \in Undoing, NEW todo \in SUBSET Path, job' = [job EXCEPT !.at = at, !.todo = todo],
         To.kind # "git" => at \in {"restore", "files"}, at = "files" => todo \subseteq DOMAIN To.files,
         index' \in Tree, work' \in [Path -> FileContent],
         \A p \in Tracked : index'[p] = index[p] \/ (To.kind = "git" /\ index'[p] \in Safe),
         \A p \in Path : \/ work'[p] = work[p]
                         \/ work'[p] \in Safe /\ (To.kind = "git" \/ p \in DOMAIN To.files)
  PROVE  RecoveryInv' /\ Kept \subseteq Kept' \union late
<1>1. /\ RecoveryTypes /\ TakenOnce /\ RollbackCovered
      /\ \A p \in Tracked : head[p] \in committed
  BY DEF RecoveryInv
<1>2. job = [at |-> job.at, to |-> job.to, made |-> job.made, todo |-> job.todo] /\ job \in JobRow
  BY <1>1, JobFields
<1>3. /\ job' = [at |-> at, to |-> job.to, made |-> job.made, todo |-> todo] /\ job' \in JobRow
      /\ job'.at = at /\ job'.to = job.to /\ job'.made = job.made /\ job'.todo = todo
  BY <1>2 DEF JobRow
<1>4. SavedIn(job.made) = {} /\ job.to # 0 /\ job.to \in DOMAIN checkpoints
  BY <1>1 DEF TakenOnce, RollbackCovered
<1>5. TakenOnce'
  BY <1>3, <1>4 DEF TakenOnce, Undoing, SavedIn
<1>6. To' = To /\ Safe' = Safe /\ Covered = Safe /\ Covered' = Safe
  BY <1>3, <1>4 DEF To, Safe, Saved, Covered, SavedIn
<1>7. DOMAIN To.files \subseteq Path
  BY RollbackTo
<1>8. ASSUME To.kind = "git"
      PROVE  /\ GitCovered' /\ \A p \in Tracked : index[p] \in Safe
             /\ \A p \in Path : work[p] \in Safe
  <2>1. GitCovered
    BY <1>1, <1>4, <1>8 DEF RollbackCovered
  <2>2. (\A p \in Tracked : index[p] \in Safe) /\ \A p \in Path : work[p] \in Safe
    BY <1>6, <2>1 DEF GitCovered, Path
  <2>3. (\A p \in Tracked : index'[p] \in Safe) /\ \A p \in Path : work'[p] \in Safe
    BY <2>2
  <2>4. GitCovered'
    BY <1>3, <1>6, <2>3 DEF GitCovered, Path
  <2>5. QED BY <2>2, <2>4
<1>9. ASSUME To.kind # "git"
      PROVE  /\ FilesCovered' /\ \A p \in DOMAIN To.files : work[p] \in Safe
  <2>1. FilesCovered
    BY <1>1, <1>4, <1>9 DEF RollbackCovered
  <2>2. \A p \in DOMAIN To.files : work[p] \in Safe
    BY <1>6, <2>1 DEF FilesCovered, Undoing
  <2>3. \A p \in DOMAIN To.files : work'[p] \in Safe
    BY <1>7, <2>2
  <2>4. FilesCovered'
    BY <1>3, <1>6, <1>9, <2>3 DEF FilesCovered
  <2>5. QED BY <2>2, <2>4
<1>10. RollbackCovered'
  BY <1>3, <1>4, <1>6, <1>8, <1>9 DEF RollbackCovered, Undoing
<1>11. RecoveryInv'
  BY <1>1, <1>3, <1>5, <1>10 DEF RecoveryInv, RecoveryTypes, JobRow
<1>12. Kept \subseteq Kept' \union late
  <2>1. Kept = committed \union InFiles(index) \union InFiles(work) \union Saved
    BY DEF Kept, Saved, SavedIn
  <2>2. Kept' = committed \union InFiles(index') \union InFiles(work') \union Saved
    BY DEF Kept, Saved, SavedIn
  <2>3. Safe \subseteq Kept' \union late \union {NoFile}
    BY <2>2 DEF Safe
  <2>4. DOMAIN index = Tracked /\ DOMAIN index' = Tracked /\ DOMAIN work = Path /\ DOMAIN work' = Path
    BY <1>1 DEF RecoveryTypes, Tree
  <2>5. InFiles(index) \subseteq Kept' \union late
    <3>1. \A p \in Tracked : index[p] \in InFiles(index') \union {NoFile} \union Safe
      BY <1>8, <2>4 DEF InFiles
    <3>2. QED BY <2>2, <2>3, <2>4, <3>1 DEF InFiles
  <2>6. InFiles(work) \subseteq Kept' \union late
    <3>1. \A p \in Path : work[p] \in InFiles(work') \union {NoFile} \union Safe
      BY <1>8, <1>9, <2>4 DEF InFiles
    <3>2. QED BY <2>2, <2>3, <2>4, <3>1 DEF InFiles
  <2>7. QED BY <2>1, <2>2, <2>5, <2>6
<1>13. QED BY <1>11, <1>12

\* A call that gives up.
LEMMA GivesUp ==
  ASSUME RecoveryInv, Stops, UNCHANGED <<repository, late, checkpoints>>
  PROVE  RecoveryInv' /\ Kept \subseteq Kept'
<1>1. UNCHANGED <<commit, committed, head, index, work, contents, late, checkpoints>>
  BY DEF repository
<1>2. RecoveryTypes /\ job' = Idle
  BY DEF RecoveryInv, Stops
<1>3. Kept = Kept'
  BY <1>1 DEF Kept
<1>4. QED BY <1>1, <1>2, <1>3, IdleAgain, CallMoves

LEMMA RollbackSteps ==
  ASSUME RecoveryInv,
         \/ RestoreFiles \/ RestoreHead \/ ApplyStaged \/ ApplyUnstaged
         \/ SweepUntracked \/ Quarantined
         \/ \E p \in Path : Quarantine(p) \/ CopyBack(p)
  PROVE  RecoveryInv' /\ Kept \subseteq Kept' \union late
<1>1. RecoveryTypes /\ \A p \in Tracked : head[p] \in committed
  BY DEF RecoveryInv
<1>2. /\ index \in Tree /\ head \in Tree /\ work \in [Path -> FileContent] /\ Tracked \subseteq Path
      /\ Untracked \subseteq Path /\ Tracked \cap Untracked = {}
  BY <1>1, TrackedOrNot DEF RecoveryTypes, Path
<1>3. ASSUME NEW tree \in Tree
      PROVE  /\ Worktree(tree) \in [Path -> FileContent]
             /\ \A p \in Path : Worktree(tree)[p] = (IF p \in Tracked THEN tree[p] ELSE work[p])
  BY <1>2 DEF Worktree, Tree
<1>4. CASE RestoreFiles
  <2>1. job.at = "restore" /\ job' = [job EXCEPT !.at = "files", !.todo = DOMAIN To.files]
        /\ UNCHANGED <<commit, committed, head, index, work, contents, late, checkpoints>>
    BY <1>4 DEF RestoreFiles, Moves, repository
  <2>2. job.at \in Undoing /\ "files" \in Undoing
    BY <2>1 DEF Undoing
  <2>3. DOMAIN To.files \in SUBSET Path
    BY <2>2, RollbackTo
  <2>4. QED BY <1>2, <2>1, <2>2, <2>3, RollbackMoves
<1>5. CASE RestoreHead
  <2>1. /\ job.at = "restore" /\ To.kind = "git" /\ job' = [job EXCEPT !.at = "apply-staged", !.todo = {}]
        /\ index' = head /\ work' = Worktree(head)
        /\ UNCHANGED <<commit, committed, head, contents, late, checkpoints>>
    BY <1>5 DEF RestoreHead, Moves
  <2>2. job.at \in Undoing /\ "apply-staged" \in Undoing
    BY <2>1 DEF Undoing
  <2>3. \A p \in Tracked : head[p] \in Safe
    BY <1>1 DEF Safe
  <2>4. \A p \in Path : work'[p] = work[p] \/ work'[p] \in Safe
    BY <1>2, <1>3, <2>1, <2>3
  <2>5. work' \in [Path -> FileContent]
    BY <1>2, <1>3, <2>1
  <2>6. QED BY <1>2, <2>1, <2>2, <2>3, <2>4, <2>5, RollbackMoves
<1>6. CASE ApplyStaged
  <2>1. /\ job.at = "apply-staged"
        /\ UNCHANGED <<commit, committed, head, contents, late, checkpoints>>
    BY <1>6 DEF ApplyStaged
  <2>2. job.at \in Undoing /\ "apply-unstaged" \in Undoing /\ job.at \notin {"restore", "files"}
    BY <2>1 DEF Undoing
  <2>3. /\ To.kind = "git"
        /\ To.staged # NoPatch => To.staged[2] \in Tree /\ \A p \in Tracked : To.staged[2][p] \in Safe
    BY <2>2, RollbackTo
  <2>4. CASE Moves("apply-unstaged", {}) /\ UNCHANGED <<index, work>>
    BY <1>2, <2>1, <2>2, <2>3, <2>4, RollbackMoves DEF Moves
  <2>5. CASE /\ To.staged # NoPatch /\ index' = To.staged[2] /\ work' = Worktree(To.staged[2])
             /\ Moves("apply-unstaged", {})
    <3>1. \A p \in Path : work'[p] = work[p] \/ work'[p] \in Safe
      BY <1>2, <1>3, <2>3, <2>5
    <3>2. work' \in [Path -> FileContent]
      BY <1>3, <2>3, <2>5
    <3>3. QED BY <1>2, <2>1, <2>2, <2>3, <2>5, <3>1, <3>2, RollbackMoves DEF Moves
  <2>6. CASE Stops /\ UNCHANGED <<index, work>>
    BY <2>1, <2>6, GivesUp DEF repository
  <2>7. QED BY <1>6, <2>4, <2>5, <2>6 DEF ApplyStaged
<1>7. CASE ApplyUnstaged
  <2>1. /\ job.at = "apply-unstaged"
        /\ UNCHANGED <<commit, committed, head, index, contents, late, checkpoints>>
    BY <1>7 DEF ApplyUnstaged
  <2>2. job.at \in Undoing /\ "sweep" \in Undoing /\ job.at \notin {"restore", "files"}
    BY <2>1 DEF Undoing
  <2>3. /\ To.kind = "git"
        /\ To.unstaged # NoPatch => To.unstaged[2] \in Tree /\ \A p \in Tracked : To.unstaged[2][p] \in Safe
    BY <2>2, RollbackTo
  <2>4. CASE Moves("sweep", {}) /\ UNCHANGED work
    BY <1>2, <2>1, <2>2, <2>3, <2>4, RollbackMoves DEF Moves
  <2>5. CASE To.unstaged # NoPatch /\ work' = Worktree(To.unstaged[2]) /\ Moves("sweep", {})
    <3>1. \A p \in Path : work'[p] = work[p] \/ work'[p] \in Safe
      BY <1>2, <1>3, <2>3, <2>5
    <3>2. work' \in [Path -> FileContent]
      BY <1>3, <2>3, <2>5
    <3>3. QED BY <1>2, <2>1, <2>2, <2>3, <2>5, <3>1, <3>2, RollbackMoves DEF Moves
  <2>6. CASE Stops /\ UNCHANGED work
    BY <2>1, <2>6, GivesUp DEF repository
  <2>7. QED BY <1>7, <2>4, <2>5, <2>6 DEF ApplyUnstaged
<1>8. CASE SweepUntracked
  <2> DEFINE todo == OnDisk(Untracked) \ DOMAIN To.files
  <2>1. /\ job.at = "sweep" /\ job' = [job EXCEPT !.at = "quarantine", !.todo = todo]
        /\ UNCHANGED <<commit, committed, head, index, work, contents, late, checkpoints>>
    BY <1>8 DEF SweepUntracked, Moves, repository
  <2>2. job.at \in Undoing /\ "quarantine" \in Undoing /\ job.at \notin {"restore", "files"}
    BY <2>1 DEF Undoing
  <2>3. To.kind = "git" /\ todo \in SUBSET Path
    BY <1>2, <2>2, RollbackTo DEF OnDisk
  <2> HIDE DEF todo
  <2>4. QED BY <1>2, <2>1, <2>2, <2>3, RollbackMoves
<1>9. CASE Quarantined
  <2>1. /\ job.at = "quarantine" /\ job' = [job EXCEPT !.at = "files", !.todo = DOMAIN To.files]
        /\ UNCHANGED <<commit, committed, head, index, work, contents, late, checkpoints>>
    BY <1>9 DEF Quarantined, Moves, repository
  <2>2. job.at \in Undoing /\ "files" \in Undoing
    BY <2>1 DEF Undoing
  <2>3. DOMAIN To.files \in SUBSET Path
    BY <2>2, RollbackTo
  <2>4. QED BY <1>2, <2>1, <2>2, <2>3, RollbackMoves
<1>10. ASSUME NEW p \in Path, Quarantine(p)
       PROVE  RecoveryInv' /\ Kept \subseteq Kept' \union late
  <2>1. /\ job.at = "quarantine"
        /\ UNCHANGED <<commit, committed, head, index, contents, late, checkpoints>>
    BY <1>10 DEF Quarantine
  <2>2. job.at \in Undoing /\ "quarantine" \in Undoing /\ job.at \notin {"restore", "files"}
    BY <2>1 DEF Undoing
  <2>3. CASE work' = [work EXCEPT ![p] = NoFile] /\ Moves("quarantine", job.todo \ {p})
    <3>1. To.kind = "git" /\ job.todo \ {p} \in SUBSET Path
      BY <1>1, <2>2, RollbackTo DEF RecoveryTypes
    <3>2. work' \in [Path -> FileContent] /\ \A q \in Path : work'[q] = work[q] \/ work'[q] \in Safe
      BY <1>2, <2>3 DEF FileContent, Safe
    <3>3. QED BY ZenonT(60), <1>2, <2>1, <2>2, <2>3, <3>1, <3>2, RollbackMoves DEF Moves
  <2>4. CASE Stops /\ UNCHANGED <<quarantine, work>>
    BY <2>1, <2>4, GivesUp DEF repository
  <2>5. QED BY <1>10, <2>3, <2>4 DEF Quarantine
<1>11. ASSUME NEW p \in Path, CopyBack(p)
       PROVE  RecoveryInv' /\ Kept \subseteq Kept' \union late
  <2>1. /\ job.at = "files" /\ p \in job.todo /\ work' = [work EXCEPT ![p] = To.files[p]]
        /\ job' = [job EXCEPT !.at = "files", !.todo = job.todo \ {p}]
        /\ UNCHANGED <<commit, committed, head, index, contents, late, checkpoints>>
    BY <1>11 DEF CopyBack, Moves
  <2>2. job.at \in Undoing /\ job.todo \ {p} \in SUBSET Path
    BY <1>1, <2>1 DEF Undoing, RecoveryTypes
  <2>3. p \in DOMAIN To.files /\ job.todo \ {p} \subseteq DOMAIN To.files
    BY <2>1, <2>2 DEF RecoveryInv, RollbackCovered
  <2>4. To.files[p] \in Safe /\ To.files[p] \in FileContent
    BY <2>2, <2>3, RollbackTo
  <2>5. work' \in [Path -> FileContent] /\ \A q \in Path : q # p => work'[q] = work[q]
    BY <1>2, <2>1, <2>4
  <2>6. work'[p] \in Safe
    BY <1>2, <2>1, <2>4
  <2>7. QED BY ZenonT(60), <1>2, <2>1, <2>2, <2>3, <2>5, <2>6, RollbackMoves
<1>12. QED BY <1>4, <1>5, <1>6, <1>7, <1>8, <1>9, <1>10, <1>11

\* The steps of the program, and what each leaves of the work.
LEMMA TarsKeeps ==
  ASSUME RecoveryInv, Tars
  PROVE  RecoveryInv' /\ Kept \subseteq Kept' \union late
<1>1. CASE \/ \E kind \in {"git", "filesystem"} : CreateCheckpoint(kind)
           \/ \E c \in 1..MaxCheckpoints : Rollback(c)
           \/ MakeSafe
  <2>1. Kept' = Kept
    BY ZenonT(60), <1>1 DEF CreateCheckpoint, Rollback, MakeSafe, repository, Kept
  <2>2. QED BY <1>1, <2>1, BeginKeeps
<1>2. CASE CaptureStaged \/ CaptureUnstaged \/ ListUntracked
  <2>1. Kept' = Kept
    BY <1>2 DEF CaptureStaged, CaptureUnstaged, ListUntracked, repository, Kept
  <2>2. QED BY <1>2, <2>1, CaptureKeeps
<1>3. CASE InsertCheckpoint
  BY <1>3, InsertKeeps
<1>4. CASE Restored \/ Fails
  BY <1>4, GivesUp DEF Restored, Fails
<1>5. CASE \E p \in Path : CopyFile(p)
  <2>1. Kept' = Kept
    BY <1>5 DEF CopyFile, repository, Kept
  <2>2. QED BY <1>5, <2>1, CopyKeeps
<1>6. CASE \/ RestoreFiles \/ RestoreHead \/ ApplyStaged \/ ApplyUnstaged
           \/ SweepUntracked \/ Quarantined
           \/ \E p \in Path : Quarantine(p) \/ CopyBack(p)
  BY <1>6, RollbackSteps
<1>7. QED BY <1>1, <1>2, <1>3, <1>4, <1>5, <1>6 DEF Tars

LEMMA RecoveryStarts == RecoveryInit => RecoveryInv
<1> SUFFICES ASSUME RecoveryInit PROVE RecoveryInv
  OBVIOUS
<1>1. /\ commit = 0 /\ committed = {0} /\ head = [p \in Tracked |-> 0] /\ index = head
      /\ work = [p \in Path |-> IF p \in Tracked THEN 0 ELSE NoFile]
      /\ contents = 0 /\ checkpoints = <<>> /\ job = Idle
  BY DEF RecoveryInit
<1>2. NewCheckpoint("none") \in CheckpointRow
  BY <1>1, EmptyFiles DEF NewCheckpoint, CheckpointRow, Patches
<1>3. job = [at |-> "idle", to |-> 0, made |-> NewCheckpoint("none"), todo |-> {}] /\ job \in JobRow
  BY <1>1, <1>2 DEF Idle, JobRow
<1>4. RecoveryTypes
  BY <1>1, <1>3, EmptySeq DEF RecoveryTypes, JobRow, Tree, FileContent
<1>5. TakenOnce /\ RollbackCovered
  BY <1>3 DEF TakenOnce, RollbackCovered, Undoing
<1>6. QED BY <1>1, <1>4, <1>5 DEF RecoveryInv

LEMMA RecoverySteps == RecoveryInv /\ [RecoveryNext]_recoveryVars => RecoveryInv'
<1> SUFFICES ASSUME RecoveryInv, [RecoveryNext]_recoveryVars PROVE RecoveryInv'
  OBVIOUS
<1>1. CASE Tars
  BY <1>1, TarsKeeps
<1>2. CASE (\E p \in Path : EditFile(p) \/ RemoveFile(p)) \/ StageFiles \/ CommitIndex
  BY <1>2, UserKeeps
<1>3. CASE UNCHANGED recoveryVars
  <2>1. UNCHANGED <<commit, committed, head, index, work, contents, late, checkpoints, job>>
    BY <1>3 DEF recoveryVars, repository
  <2>2. Safe' = Safe
    BY <2>1 DEF Safe, Saved
  <2>3. TakenOnce' /\ RollbackCovered'
    BY <2>1, <2>2, OtherSideMoves
  <2>4. QED BY <2>1, <2>3 DEF RecoveryInv, RecoveryTypes
<1>4. QED BY <1>1, <1>2, <1>3 DEF RecoveryNext

\* Whatever a rollback overwrites, moves or fails at half way, the work that it found can
\* still be had, from the repository or a checkpoint (workspace_recovery.py): for any
\* files, checkpoints and commits, and however the user works meanwhile.
THEOREM RollbackKeepsWork == RecoverySpec => RollbackLosesNothing
<1>1. RecoveryInit => RecoveryInv
  BY RecoveryStarts
<1>2. RecoveryInv /\ [RecoveryNext]_recoveryVars => RecoveryInv'
  BY RecoverySteps
<1>3. RecoveryInv /\ [RecoveryNext]_recoveryVars
        => [Kept \subseteq Kept' \union late \/ ~Tars]_recoveryVars
  BY TarsKeeps
<1>4. QED BY <1>1, <1>2, <1>3, PTL DEF RecoverySpec, RollbackLosesNothing
=============================================================================
