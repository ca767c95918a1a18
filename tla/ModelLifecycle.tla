--------------------------- MODULE ModelLifecycle ---------------------------
(***************************************************************************)
(* Acquisition, verification, binding and removal of models                *)
(* (model_lifecycle.py, registry.py, bind_model of roles.py).  Artifacts   *)
(* are kept by digest and shared by aliases; they are copied before the    *)
(* transaction that registers an alias, and deleted inside the one that    *)
(* removes the last.  Downloads append to a partial file that all pulls of *)
(* an alias share.                                                         *)
(*                                                                         *)
(* A digest stands for a content; Mixed is the content of a partial file   *)
(* two downloads wrote into, and of an artifact copied from it.            *)
(***************************************************************************)
EXTENDS Naturals, FiniteSets

CONSTANTS
    Alias, Digest, Mixed,
    Pulled,         \* aliases that are downloaded as well as imported
    Shipped,        \* aliases registered at first, with a file of their own
    Keeper,         \* processes that change models
    Pullers,        \* those of them that download and verify (bound)
    Bearer,         \* roles a model can be bound to
    NoModel

\* what the registry says of an alias
Entry == [digest : Digest \union {Mixed}, ours : BOOLEAN, verified : BOOLEAN]

ASSUME LifecycleAssumption ==
    /\ Digest # {}
    /\ Pulled \subseteq Alias
    /\ NoModel \notin Keeper
    /\ NoModel \notin Entry

VARIABLES
    models,         \* registry: digest, whether the artifact is ours, integrity flag
    artifacts,      \* digests that have a file
    calibrated,     \* digests that have a calibration record
    partial,        \* what the partial file of each alias holds
    bound,          \* the model of each role
    guard,          \* holder of the transaction of the registries
    keeping         \* what each process is doing

lifecycleVars == <<models, artifacts, calibrated, partial, bound, guard, keeping>>

Resting == [does |-> "nothing", at |-> "start", alias |-> NoModel, digest |-> NoModel]
Registered == {a \in Alias : models[a] # NoModel}
Names(d) == {a \in Registered : models[a].digest = d}
Ours(d) == {a \in Names(d) : models[a].ours}

Begin(k, does, a, d) ==
    keeping[k] = Resting /\ keeping' = [keeping EXCEPT ![k] = [does |-> does, at |-> "start", alias |-> a, digest |-> d]]
Moved(k, at) == keeping' = [keeping EXCEPT ![k].at = at]
Ends(k) == keeping' = [keeping EXCEPT ![k] = Resting]
Doing(k, does, at) == keeping[k].does = does /\ keeping[k].at = at
TakesGuard(k) == guard = NoModel /\ guard' = k
HasGuard(k) == guard = k

-----------------------------------------------------------------------------
(* Import and pull *)

\* the source is copied to a private file and its digest taken
ImportModel(k) ==
    /\ \E a \in Alias, d \in Digest :
         Begin(k, "add", a, d)
    /\ UNCHANGED <<models, artifacts, calibrated, partial, bound, guard>>

PullModel(k) ==
    /\ k \in Pullers
    /\ \E a \in Pulled, d \in Digest : Begin(k, "pull", a, d)
    /\ UNCHANGED <<models, artifacts, calibrated, partial, bound, guard>>

\* A download continues what the partial file holds when the source can, which
\* may be of another source or of a pull at the same time, and starts it again
\* when not; it may end in the middle.
Download(k) ==
    LET a == keeping[k].alias
    IN  /\ Doing(k, "pull", "start")
        /\ \E c \in {keeping[k].digest} \union (IF partial[a] = NoModel THEN {} ELSE {Mixed}) :
             partial' = [partial EXCEPT ![a] = c]
        /\ Moved(k, "downloaded") \/ Ends(k)
        /\ UNCHANGED <<models, artifacts, calibrated, bound, guard>>

\* a digest that is not the expected one, or is no model, ends the pull here
SnapshotPartial(k) ==
    /\ Doing(k, "pull", "downloaded")
    /\ \/ /\ partial[keeping[k].alias] # NoModel
          /\ keeping' = [keeping EXCEPT ![k].does = "add", ![k].digest = partial[keeping[k].alias]]
       \/ Ends(k)
    /\ UNCHANGED <<models, artifacts, calibrated, partial, bound, guard>>

\* an artifact that is there is only hashed
CommitArtifact(k) ==
    /\ keeping[k].does = "add" /\ keeping[k].at \in {"start", "downloaded"}
    /\ artifacts' = artifacts \union {keeping[k].digest}
    /\ Moved(k, IF keeping[k].at = "start" THEN "copied" ELSE "copied, partial")
    /\ UNCHANGED <<models, calibrated, partial, bound, guard>>

Register(k) ==
    LET a == keeping[k].alias
    IN  /\ keeping[k].does = "add" /\ keeping[k].at \in {"copied", "copied, partial"} /\ guard = NoModel
        /\ IF models[a] = NoModel
           THEN /\ models' = [models EXCEPT ![a] = [digest |-> keeping[k].digest, ours |-> TRUE, verified |-> TRUE]]
                /\ IF keeping[k].at = "copied, partial" THEN Moved(k, "registered") ELSE Ends(k)
           ELSE Ends(k) /\ UNCHANGED models
        /\ UNCHANGED <<artifacts, calibrated, partial, bound, guard>>

UnlinkPartial(k) ==
    /\ Doing(k, "add", "registered")
    /\ partial' = [partial EXCEPT ![keeping[k].alias] = NoModel]
    /\ Ends(k)
    /\ UNCHANGED <<models, artifacts, calibrated, bound, guard>>
-----------------------------------------------------------------------------
(* Verification, binding *)

\* the file of the entry is hashed; its bytes may have been replaced on the disk
VerifyModel(k) ==
    /\ k \in Pullers
    /\ \E a \in Registered :
         /\ models[a].ours => models[a].digest \in artifacts
         /\ Begin(k, "verify", a, models[a].digest)
    /\ UNCHANGED <<models, artifacts, calibrated, partial, bound, guard>>

\* an entry that is not the one that was read is left alone
RecordVerification(k) ==
    LET a == keeping[k].alias
    IN  /\ Doing(k, "verify", "start") /\ guard = NoModel
        /\ IF a \in Registered /\ models[a].digest = keeping[k].digest
           THEN \E same \in BOOLEAN : models' = [models EXCEPT ![a].verified = same]
           ELSE UNCHANGED models
        /\ Ends(k)
        /\ UNCHANGED <<artifacts, calibrated, partial, bound, guard>>

BindBegin(k) ==
    /\ TakesGuard(k)
    /\ \E a \in Registered : Begin(k, "bind", a, NoModel)
    /\ UNCHANGED <<models, artifacts, calibrated, partial, bound>>

\* the saved registry is validated against the models
BindSave(k) ==
    /\ Doing(k, "bind", "start") /\ HasGuard(k)
    /\ \E r \in Bearer : bound' = [bound EXCEPT ![r] = keeping[k].alias]
    /\ guard' = NoModel /\ Ends(k)
    /\ UNCHANGED <<models, artifacts, calibrated, partial>>

Unbind(r) ==
    /\ guard = NoModel
    /\ bound' = [bound EXCEPT ![r] = NoModel]
    /\ UNCHANGED <<models, artifacts, calibrated, partial, guard, keeping>>

\* A calibration ends with a record for the digest it was started with, which no
\* alias need have any more: it is any that a model can have.
Calibrated ==
    /\ \E d \in Digest \union {Mixed} : calibrated' = calibrated \union {d}
    /\ UNCHANGED <<models, artifacts, partial, bound, guard, keeping>>

-----------------------------------------------------------------------------
(* Removal, all of it in one transaction *)

\* mutant: the roles are looked at before the lock is taken
RemoveBeginEarly(k) ==
    /\ \E a \in {x \in Registered : \A r \in Bearer : bound[r] # x} : Begin(k, "remove", a, models[a].digest)
    /\ UNCHANGED <<models, artifacts, calibrated, partial, bound, guard>>

RemoveBegin(k) ==
    /\ TakesGuard(k)
    /\ \E a \in {x \in Registered : \A r \in Bearer : bound[r] # x} : Begin(k, "remove", a, models[a].digest)
    /\ UNCHANGED <<models, artifacts, calibrated, partial, bound>>

RemoveEntry(k) ==
    /\ Doing(k, "remove", "start") /\ models[keeping[k].alias] # NoModel
    /\ models' = [models EXCEPT ![keeping[k].alias] = NoModel]
    /\ Moved(k, IF models[keeping[k].alias].ours THEN "entry gone" ELSE "entry of a foreign file gone")
    /\ UNCHANGED <<artifacts, calibrated, partial, bound, guard>>

DeleteCalibration(k) ==
    /\ keeping[k].does = "remove" /\ keeping[k].at \in {"entry gone", "entry of a foreign file gone"}
    /\ calibrated' = IF Names(keeping[k].digest) = {} THEN calibrated \ {keeping[k].digest} ELSE calibrated
    /\ Moved(k, IF keeping[k].at = "entry gone" THEN "artifact" ELSE "end")
    /\ UNCHANGED <<models, artifacts, partial, bound, guard>>

DeleteArtifact(k) ==
    /\ keeping[k].does = "remove" /\ keeping[k].at \in {"artifact", "end"}
    /\ artifacts' = IF keeping[k].at = "artifact" /\ Ours(keeping[k].digest) = {}
                    THEN artifacts \ {keeping[k].digest} ELSE artifacts
    /\ guard' = NoModel /\ Ends(k)
    /\ UNCHANGED <<models, calibrated, partial, bound>>

KeeperDies(k) ==
    /\ keeping[k] # Resting
    /\ guard' = IF HasGuard(k) THEN NoModel ELSE guard
    /\ Ends(k)
    /\ UNCHANGED <<models, artifacts, calibrated, partial, bound>>

LifecycleInit ==
    /\ models = [a \in Alias |-> IF a \in Shipped THEN [digest |-> CHOOSE d \in Digest : TRUE, ours |-> FALSE, verified |-> FALSE]
                                 ELSE NoModel]
    /\ artifacts = {} /\ calibrated = {}
    /\ partial = [a \in Pulled |-> NoModel]
    /\ bound = [r \in Bearer |-> NoModel]
    /\ guard = NoModel
    /\ keeping = [k \in Keeper |-> Resting]

LifecycleNext ==
    \/ \E k \in Keeper :
         \/ ImportModel(k) \/ PullModel(k) \/ Download(k) \/ SnapshotPartial(k) \/ CommitArtifact(k) \/ Register(k)
         \/ UnlinkPartial(k) \/ VerifyModel(k) \/ RecordVerification(k) \/ BindBegin(k) \/ BindSave(k)
         \/ RemoveBegin(k) \/ RemoveEntry(k) \/ DeleteCalibration(k) \/ DeleteArtifact(k) \/ KeeperDies(k)
    \/ \E r \in Bearer : Unbind(r)
    \/ Calibrated

LifecycleSpec == LifecycleInit /\ [][LifecycleNext]_lifecycleVars

-----------------------------------------------------------------------------
(* Properties *)

\* A role is never bound to a model that is not registered, and no removal takes
\* the artifact or the calibration of another entry, whatever else is imported,
\* bound or removed at the same time (docs/MODELS.md:22 "Model removal and Role
\* binding use the same transaction boundary, preventing dangling bindings").
NothingDangles ==
    /\ [](\A r \in Bearer : bound[r] # NoModel => bound[r] \in Registered)
    /\ [][/\ \A d \in artifacts \ artifacts' : Ours(d) = {}
          /\ \A d \in calibrated \ calibrated' : Names(d) = {}]_lifecycleVars
=============================================================================
