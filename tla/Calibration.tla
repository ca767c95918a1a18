---------------------------- MODULE Calibration ----------------------------
(***************************************************************************)
(* The calibration of a model (calibration_engine.py, calibration.py): the *)
(* stages of a depth are measured in order, each kept in a file with the   *)
(* digest of what it was measured from, and the last of them is promoted   *)
(* to the record of the model.  A run may raise or die after any stage and *)
(* the next one takes over what it can.                                    *)
(*                                                                         *)
(* A run resolves its alias, waits for the slot of the models, which one   *)
(* has at a time (ModelSlot), and resolves the alias again to find the     *)
(* record that it would replace.  A reading stands for all the numbers of  *)
(* a stage; what it was measured on is kept with it as history.            *)
(***************************************************************************)
EXTENDS Naturals, Sequences

CONSTANTS
    Sha,            \* contents the alias of a model can have
    Hardware,       \* fingerprints of machine and runtime
    Depths,         \* the depths of a calibration, from shallow to deep
    StagesOf,       \* the stages of each depth; the last one is zero_idle
    Reading,        \* results of a measurement
    IdleReading,    \* results of a zero_idle that passed
    Failed,         \* the reading of a zero_idle that did not pass
    NoRecord

ASSUME DepthsHaveStages ==
    /\ Depths \in Seq(DOMAIN StagesOf) /\ Depths # <<>>
    /\ \A d \in DOMAIN StagesOf : StagesOf[d] \in Seq(STRING) /\ StagesOf[d] # <<>>
ASSUME SomethingToMeasure == Sha # {} /\ Hardware # {} /\ NoRecord \notin Sha \union Hardware

VARIABLES
    model,          \* the content of the alias
    hardware,       \* the present fingerprint
    stageFile,      \* the file of a stage, for each fingerprint
    record,         \* the calibration of each content
    calibration,    \* the run in the slot
    seeding         \* ensure_seed_calibrations: the content found without a record

calibrationVars == <<model, hardware, stageFile, record, calibration, seeding>>

NoRun == [depth |-> NoRecord]
Running == calibration # NoRun
StageNames == UNION {{StagesOf[d][i] : i \in DOMAIN StagesOf[d]} : d \in DOMAIN StagesOf}
Rank(d) == CHOOSE i \in DOMAIN Depths : Depths[i] = d
Values(results) == [i \in DOMAIN results |-> results[i].value]
StageNow == StagesOf[calibration.depth][Len(calibration.results) + 1]
StagesLeft == Len(calibration.results) < Len(StagesOf[calibration.depth])
Seed == [depth |-> Depths[Len(Depths)], hardware |-> NoRecord, results |-> <<>>]

\* mutant: the digest forgets the stages before
DigestWithoutPrior(stage, prior) == <<stage, calibration.sha, calibration.depth, <<>>>>
InputDigest(stage, prior) == <<stage, calibration.sha, calibration.depth, prior>>

\* a record that is as deep, made of the same content on the same machine, is
\* returned as it is; a deeper one even to a fresh run
Spares(old, d, fresh) ==
    /\ old # NoRecord /\ old.hardware = hardware
    /\ Rank(old.depth) > Rank(d) \/ (old.depth = d /\ ~fresh)

\* The record that may spare a run is that of what the alias is by then, and it
\* only counts if it is of the content the run is for.
FindsRecord(sha) == IF model = sha THEN record[model] ELSE NoRecord

\* The alias was sha when the run was asked for.  Any number of runs may have
\* waited for the slot since, each for as long as it liked, so sha is any content
\* the alias has had; "looked" is history.
Calibrate(sha, d, fresh) ==
    /\ ~Running /\ ~Spares(FindsRecord(sha), d, fresh)
    /\ calibration' = [depth |-> d, fresh |-> fresh, sha |-> sha, hardware |-> hardware,
                       looked |-> model, results |-> <<>>]
    /\ UNCHANGED <<model, hardware, stageFile, record, seeding>>

Cached == stageFile[calibration.hardware][StageNow]
Usable == /\ ~calibration.fresh /\ Cached # NoRecord
          /\ Cached.digest = InputDigest(StageNow, Values(calibration.results))

ResumeStage ==
    /\ Running /\ StagesLeft /\ Usable
    /\ calibration' = [calibration EXCEPT !.results = Append(@, Cached.output)]
    /\ UNCHANGED <<model, hardware, stageFile, record, seeding>>

\* the output of a stage is kept before it is judged
RunStage ==
    /\ Running /\ StagesLeft /\ ~Usable
    /\ \E value \in (IF Len(calibration.results) + 1 = Len(StagesOf[calibration.depth]) THEN IdleReading \union {Failed}
                     ELSE Reading) :
         LET output == [value |-> value,
                        on |-> <<calibration.sha, calibration.hardware, Values(calibration.results)>>]
         IN  /\ stageFile' = [stageFile EXCEPT ![calibration.hardware][StageNow] =
                                [digest |-> InputDigest(StageNow, Values(calibration.results)), output |-> output]]
             /\ calibration' = [calibration EXCEPT !.results = Append(@, output)]
    /\ UNCHANGED <<model, hardware, record, seeding>>

Promote ==
    /\ Running /\ ~StagesLeft
    /\ IF calibration.results[Len(calibration.results)].value = Failed THEN UNCHANGED record
       ELSE record' = [record EXCEPT ![calibration.sha] =
                         [depth |-> calibration.depth, hardware |-> calibration.hardware, results |-> calibration.results]]
    /\ calibration' = NoRun
    /\ UNCHANGED <<model, hardware, stageFile, seeding>>

\* a stage raises, or the process dies
CalibrationStops ==
    /\ Running
    /\ calibration' = NoRun
    /\ UNCHANGED <<model, hardware, stageFile, record, seeding>>

-----------------------------------------------------------------------------
(* The records that come with the program, written outside of the slot: what   *)
(* is missing is found first and written after the runtime has been hashed     *)

FindSeedless(s) ==
    /\ seeding = NoRecord /\ record[s] = NoRecord
    /\ seeding' = s
    /\ UNCHANGED <<model, hardware, stageFile, record, calibration>>
WriteSeed ==
    /\ seeding # NoRecord
    /\ record' = [record EXCEPT ![seeding] = Seed]
    /\ seeding' = NoRecord
    /\ UNCHANGED <<model, hardware, stageFile, calibration>>

\* the alias is registered anew, the model removed, the machine or runtime changed
Reregister(s) ==
    /\ model' = s
    /\ record' \in {record, [record EXCEPT ![model] = NoRecord]}
    /\ UNCHANGED <<hardware, stageFile, calibration, seeding>>
ChangeHardware(h) ==
    /\ hardware' = h
    /\ UNCHANGED <<model, stageFile, record, calibration, seeding>>

CalibrationInit ==
    /\ model \in Sha /\ hardware \in Hardware
    /\ stageFile = [h \in Hardware |-> [s \in StageNames |-> NoRecord]]
    /\ record = [s \in Sha |-> NoRecord]
    /\ calibration = NoRun /\ seeding = NoRecord

CalibrationNext ==
    \/ \E sha \in Sha, i \in DOMAIN Depths, fresh \in BOOLEAN : Calibrate(sha, Depths[i], fresh)
    \/ ResumeStage \/ RunStage \/ Promote \/ CalibrationStops
    \/ \E s \in Sha : FindSeedless(s) \/ Reregister(s)
    \/ WriteSeed
    \/ \E h \in Hardware : ChangeHardware(h)

CalibrationSpec == CalibrationInit /\ [][CalibrationNext]_calibrationVars

-----------------------------------------------------------------------------
(* Properties *)

\* every stage of the results was measured on the content, the machine and the
\* readings that stand before it
OnOneChain(r, sha) ==
    \A i \in DOMAIN r.results :
        r.results[i].on = <<sha, r.hardware, Values(SubSeq(r.results, 1, i - 1))>>

\* A record that is promoted is one chain of measurements, however many runs it
\* was pieced together from.  No run replaces the deeper record of the same
\* content and machine, unless its alias had been given another content by the
\* time it looked for the record (docs/CALIBRATION.md:15 has no exception: "A
\* ready higher-depth result is never replaced by a shallower run").
PromotionIsSound ==
    /\ [](\A s \in Sha : record[s] # NoRecord => OnOneChain(record[s], s))
    /\ [][\A s \in Sha :
             /\ record[s] # NoRecord /\ record'[s] # NoRecord
             /\ record'[s].hardware = record[s].hardware
             => \/ Rank(record'[s].depth) >= Rank(record[s].depth)
                \/ calibration.sha = s /\ calibration.looked # s]_calibrationVars
=============================================================================
