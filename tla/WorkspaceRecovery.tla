-------------------------- MODULE WorkspaceRecovery --------------------------
(***************************************************************************)
(* Checkpoints of a workspace and their rollback (workspace_recovery.py).  *)
(* Nothing excludes the user, who edits, stages and commits between any    *)
(* two reads of a checkpoint and any two writes of a rollback; both run as *)
(* actions of the journal, which ToolActions models.                       *)
(*                                                                         *)
(* Contents are numbers, a new one for each edit.  A patch is the pair of  *)
(* the versions it leads between, and applies to its first.                *)
(***************************************************************************)
EXTENDS Naturals, Sequences

CONSTANTS
    Tracked, Untracked,     \* paths
    NoFile,                 \* no content
    MaxContents,            \* bound on edits
    MaxCommits,             \* bound on commits
    MaxManual,              \* bound on checkpoints made by hand, at first
    MaxCheckpoints          \* bound on checkpoints, safety ones included

ASSUME TrackedOrNot == Tracked \cap Untracked = {}

VARIABLES
    commit,         \* number of HEAD
    committed,      \* contents of the tracked files in HEAD and before
    head, index,    \* contents of the tracked files in HEAD and in the index
    work,           \* contents of all files in the worktree
    contents,       \* contents written so far
    late,           \* those written or staged since the rollback began
    checkpoints,    \* those that are ready, in their order
    quarantine,     \* checkpoint and path -> content moved there
    job             \* the call of create or rollback

repository == <<commit, committed, head, index, work, contents>>
recoveryVars == <<repository, late, checkpoints, quarantine, job>>

Path == Tracked \union Untracked
NoPatch == <<>>
Patch(from, to) == IF from = to THEN NoPatch ELSE <<from, to>>
NoFiles == [p \in {} |-> NoFile]
NewCheckpoint(kind) ==
    [kind |-> kind, commit |-> commit, staged |-> NoPatch, unstaged |-> NoPatch,
     files |-> NoFiles]
Idle == [at |-> "idle", to |-> 0, made |-> NewCheckpoint("none"), todo |-> {}]

Exists(p) == work[p] # NoFile
OnDisk(paths) == {p \in paths : Exists(p)}
Moves(label, todo) == job' = [job EXCEPT !.at = label, !.todo = todo]
With(files, p, c) == [q \in DOMAIN files \union {p} |-> IF q = p THEN c ELSE files[q]]

\* an exception: a checkpoint in the making is removed, the rest stays as it is
Stops == job' = Idle
Fails == /\ job.at # "idle" /\ Stops
         /\ UNCHANGED <<repository, late, checkpoints, quarantine>>

-----------------------------------------------------------------------------
(* The user *)

EditFile(p) ==
    /\ contents < MaxContents
    /\ contents' = contents + 1
    /\ work' = [work EXCEPT ![p] = contents + 1]
    /\ late' = late \union {contents + 1}
    /\ UNCHANGED <<commit, committed, head, index, checkpoints, quarantine, job>>

RemoveFile(p) ==
    /\ p \in Untracked /\ Exists(p)
    /\ work' = [work EXCEPT ![p] = NoFile]
    /\ UNCHANGED <<commit, committed, head, index, contents, late, checkpoints, quarantine, job>>

StageFiles ==
    /\ \E p \in Tracked : index[p] # work[p]
    /\ index' = [p \in Tracked |-> work[p]]
    /\ late' = late \union {work[p] : p \in Tracked}
    /\ UNCHANGED <<commit, committed, head, work, contents, checkpoints, quarantine, job>>

CommitIndex ==
    /\ commit < MaxCommits
    /\ head # index
    /\ commit' = commit + 1
    /\ head' = index
    /\ committed' = committed \union {index[p] : p \in Tracked}
    /\ UNCHANGED <<index, work, contents, late, checkpoints, quarantine, job>>

-----------------------------------------------------------------------------
(* create_git and create_filesystem, called alone or for safety *)

CreateCheckpoint(kind) ==
    /\ job.at = "idle" /\ Len(checkpoints) < MaxManual
    /\ IF kind = "git"
       THEN job' = [Idle EXCEPT !.at = "staged", !.made = NewCheckpoint("git")]
       ELSE \E paths \in SUBSET OnDisk(Path) \ {{}} :
              job' = [Idle EXCEPT !.at = "copy", !.made = NewCheckpoint("filesystem"),
                                  !.todo = paths]
    /\ UNCHANGED <<repository, late, checkpoints, quarantine>>

CaptureStaged ==
    /\ job.at = "staged"
    /\ job' = [job EXCEPT !.at = "unstaged", !.made.staged = Patch(head, index)]
    /\ UNCHANGED <<repository, late, checkpoints, quarantine>>

CaptureUnstaged ==
    /\ job.at = "unstaged"
    /\ job' = [job EXCEPT !.at = "list",
                          !.made.unstaged = Patch(index, [p \in Tracked |-> work[p]])]
    /\ UNCHANGED <<repository, late, checkpoints, quarantine>>

ListUntracked ==
    /\ job.at = "list"
    /\ Moves("copy", OnDisk(Untracked))
    /\ UNCHANGED <<repository, late, checkpoints, quarantine>>

\* a file that has gone meanwhile raises
CopyFile(p) ==
    /\ job.at = "copy" /\ p \in job.todo
    /\ IF Exists(p)
       THEN job' = [job EXCEPT !.todo = @ \ {p},
                               !.made.files = With(job.made.files, p, work[p])]
       ELSE Stops
    /\ UNCHANGED <<repository, late, checkpoints, quarantine>>

InsertCheckpoint ==
    /\ job.at = "copy" /\ job.todo = {}
    /\ checkpoints' = Append(checkpoints, job.made)
    /\ job' = IF job.to = 0 THEN Idle ELSE [job EXCEPT !.at = "restore", !.made = Idle.made]
    /\ UNCHANGED <<repository, late, quarantine>>

-----------------------------------------------------------------------------
(* preview and rollback *)

To == checkpoints[job.to]

\* the preview is taken, and a git checkpoint of another HEAD refused; preview
\* itself changes nothing
Rollback(c) ==
    /\ job.at = "idle" /\ Len(checkpoints) < MaxCheckpoints
    /\ c \in DOMAIN checkpoints
    /\ checkpoints[c].kind = "git" => checkpoints[c].commit = commit
    /\ job' = [Idle EXCEPT !.at = "safety", !.to = c]
    /\ late' = {}
    /\ UNCHANGED <<repository, checkpoints, quarantine>>

\* mutant: a git checkpoint is gone back to without a safety checkpoint
MakeSafeFiles ==
    /\ job.at = "safety"
    /\ job' = IF To.kind = "git" THEN [job EXCEPT !.at = "restore"]
              ELSE [job EXCEPT !.at = "copy", !.made = NewCheckpoint("filesystem"),
                               !.todo = OnDisk(DOMAIN To.files)]
    /\ UNCHANGED <<repository, late, checkpoints, quarantine>>

MakeSafe ==
    /\ job.at = "safety"
    /\ job' = IF To.kind = "git"
              THEN [job EXCEPT !.at = "staged", !.made = NewCheckpoint("git")]
              ELSE [job EXCEPT !.at = "copy", !.made = NewCheckpoint("filesystem"),
                               !.todo = OnDisk(DOMAIN To.files)]
    /\ UNCHANGED <<repository, late, checkpoints, quarantine>>

RestoreFiles ==
    /\ job.at = "restore" /\ To.kind = "filesystem"
    /\ Moves("files", DOMAIN To.files)
    /\ UNCHANGED <<repository, late, checkpoints, quarantine>>

Worktree(tree) == [p \in Path |-> IF p \in Tracked THEN tree[p] ELSE work[p]]

\* git restore --staged --worktree
RestoreHead ==
    /\ job.at = "restore" /\ To.kind = "git"
    /\ index' = head
    /\ work' = Worktree(head)
    /\ Moves("apply-staged", {})
    /\ UNCHANGED <<commit, committed, head, contents, late, checkpoints, quarantine>>

ApplyStaged ==
    /\ job.at = "apply-staged"
    /\ LET tree == [p \in Tracked |-> work[p]]
       IN IF To.staged = NoPatch
          THEN Moves("apply-unstaged", {}) /\ UNCHANGED <<index, work>>
          ELSE IF index = To.staged[1] /\ tree = To.staged[1]
          THEN /\ index' = To.staged[2] /\ work' = Worktree(To.staged[2])
               /\ Moves("apply-unstaged", {})
          ELSE Stops /\ UNCHANGED <<index, work>>
    /\ UNCHANGED <<commit, committed, head, contents, late, checkpoints, quarantine>>

ApplyUnstaged ==
    /\ job.at = "apply-unstaged"
    /\ IF To.unstaged = NoPatch THEN Moves("sweep", {}) /\ UNCHANGED work
       ELSE IF [p \in Tracked |-> work[p]] = To.unstaged[1]
       THEN work' = Worktree(To.unstaged[2]) /\ Moves("sweep", {})
       ELSE Stops /\ UNCHANGED work
    /\ UNCHANGED <<commit, committed, head, index, contents, late, checkpoints, quarantine>>

\* untracked files that the checkpoint does not know are listed ...
SweepUntracked ==
    /\ job.at = "sweep"
    /\ Moves("quarantine", OnDisk(Untracked) \ DOMAIN To.files)
    /\ UNCHANGED <<repository, late, checkpoints, quarantine>>

\* ... and moved over what an earlier rollback left there
Quarantine(p) ==
    /\ job.at = "quarantine" /\ p \in job.todo
    /\ IF Exists(p)
       THEN /\ quarantine' = With(quarantine, <<job.to, p>>, work[p])
            /\ work' = [work EXCEPT ![p] = NoFile]
            /\ Moves("quarantine", job.todo \ {p})
       ELSE Stops /\ UNCHANGED <<quarantine, work>>
    /\ UNCHANGED <<commit, committed, head, index, contents, late, checkpoints>>

Quarantined ==
    /\ job.at = "quarantine" /\ job.todo = {}
    /\ Moves("files", DOMAIN To.files)
    /\ UNCHANGED <<repository, late, checkpoints, quarantine>>

\* the copy is verified: an edit in between raises (Fails)
CopyBack(p) ==
    /\ job.at = "files" /\ p \in job.todo
    /\ work' = [work EXCEPT ![p] = To.files[p]]
    /\ Moves("files", job.todo \ {p})
    /\ UNCHANGED <<commit, committed, head, index, contents, late, checkpoints, quarantine>>

\* the row says restored, which nothing reads
Restored ==
    /\ job.at = "files" /\ job.todo = {}
    /\ Stops
    /\ UNCHANGED <<repository, late, checkpoints, quarantine>>

RecoveryInit ==
    /\ commit = 0
    /\ committed = {0}
    /\ head = [p \in Tracked |-> 0] /\ index = head
    /\ work = [p \in Path |-> IF p \in Tracked THEN 0 ELSE NoFile]
    /\ contents = 0
    /\ late = {}
    /\ checkpoints = <<>>
    /\ quarantine = NoFiles
    /\ job = Idle

Tars ==
    \/ \E kind \in {"git", "filesystem"} : CreateCheckpoint(kind)
    \/ \E c \in 1..MaxCheckpoints : Rollback(c)
    \/ CaptureStaged \/ CaptureUnstaged \/ ListUntracked \/ InsertCheckpoint
    \/ MakeSafe \/ RestoreFiles \/ RestoreHead \/ ApplyStaged \/ ApplyUnstaged
    \/ SweepUntracked \/ Quarantined \/ Restored \/ Fails
    \/ \E p \in Path : CopyFile(p) \/ Quarantine(p) \/ CopyBack(p)

RecoveryNext ==
    \/ \E p \in Path : EditFile(p) \/ RemoveFile(p)
    \/ StageFiles \/ CommitIndex
    \/ Tars

RecoverySpec == RecoveryInit /\ [][RecoveryNext]_recoveryVars

-----------------------------------------------------------------------------
(* Property *)

InPatch(patch) == IF patch = NoPatch THEN {} ELSE {patch[2][p] : p \in Tracked}
InFiles(files) == {files[p] : p \in DOMAIN files} \ {NoFile}

\* what can still be had, from the repository or a checkpoint.  The quarantine
\* does not count: a second rollback to a checkpoint moves other files over those
\* that the first left there.
Kept ==
    committed \union InFiles(index) \union InFiles(work)
    \union UNION {InPatch(checkpoints[c].staged) \union InPatch(checkpoints[c].unstaged)
                  \union InFiles(checkpoints[c].files) : c \in DOMAIN checkpoints}

\* Whatever a rollback overwrites, moves or fails at half way, the work it found
\* can still be had; only what the user writes or stages while it runs may be
\* lost (docs/WORKSPACE_RECOVERY.md:5 "A safety checkpoint of the current state
\* is created before restore").
RollbackLosesNothing ==
    [][Kept \subseteq Kept' \union late \/ ~Tars]_recoveryVars
=============================================================================
