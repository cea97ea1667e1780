---------------------------- MODULE RollbackDrill ----------------------------
(***************************************************************************)
(* The rollback drill: stages run in order, each recorded in a checkpoint  *)
(* file that is written beside it and renamed over it, so that a run that  *)
(* stops is resumed by the next with the same inputs.  Nothing keeps two   *)
(* runs apart; the bundles and the checkpoint are files that change.       *)
(***************************************************************************)
EXTENDS Integers, Sequences, SequencesExt

CONSTANTS
    DrillStages,    \* the stages in their order
    CheckedStage,   \* stages whose evidence is checked
    BundleStage,    \* stages that read the bundle of the release to return to
    Bundle,         \* what that file may hold
    ChangeId,       \* approved changes
    Drill,          \* runs that can be under way at once
    NoDrillFile,
    MaxDrillRuns, MaxDrillFaults \* runs and faults in one behaviour (bounds)

\* What a checkpoint and a report hold.
DrillInput == Bundle \X ChangeId
DrillEvidence == Bundle \cup {"done", "negative", "altered"}
DrillFile ==
    [input : DrillInput, stages : Seq([evidence : DrillEvidence, hash : DrillEvidence])]

ASSUME DrillAssumption ==
    /\ DrillStages \in Seq(STRING) /\ DrillStages # <<>> /\ IsInjective(DrillStages)
    /\ CheckedStage \cup BundleStage \subseteq Range(DrillStages)
    /\ NoDrillFile \notin DrillFile
    /\ MaxDrillRuns \in Nat /\ MaxDrillFaults \in Nat

VARIABLES
    bundle,      \* the bundle of the release to return to
    checkpoint,  \* the checkpoint file: absent, torn, or what a run kept
    temporary,   \* the file beside it
    drillReport, \* the report
    drills,      \* runs
    produced,    \* evidence that stages gave: input, stage, evidence
    drillRuns, drillFaults

drillVars ==
    <<bundle, checkpoint, temporary, drillReport, drills, produced, drillRuns, drillFaults>>

Torn == [torn |-> TRUE]
Legible(file) == file # NoDrillFile /\ file # Torn

-----------------------------------------------------------------------------
(* Runs.  A run keeps the checkpoint in memory: the inputs it is for and   *)
(* the evidence of each stage with its hash; the events of the audit that  *)
(* are written with them are left out.                                     *)

NoRun == [pc |-> "idle", next |-> "none", input |-> <<>>, alone |-> TRUE, memory |-> NoDrillFile]

DrillInit ==
    /\ bundle \in Bundle
    /\ checkpoint = NoDrillFile /\ temporary = NoDrillFile /\ drillReport = NoDrillFile
    /\ drills = [r \in Drill |-> NoRun]
    /\ produced = {}
    /\ drillRuns = 0 /\ drillFaults = 0

NewCheckpoint(input) == [input |-> input, stages |-> <<>>]

\* Mutant: a checkpoint serves whatever the inputs are.
MutSameInputs(file, input) == TRUE

SameInputs(file, input) == file.input = input

\* Mutant: a run begins with the first stage.
MutRecorded(file) == <<>>

Recorded(file) == file.stages

Others(r) == {q \in Drill \ {r} : drills[q].pc # "idle"}

\* A checkpoint that is torn or for other inputs refuses the run, which is no
\* step.
StartDrill(r, change) ==
    LET input == <<bundle, change>>
        Opens(pc, memory) ==
            drills' = [q \in Drill |->
                IF q = r THEN [pc |-> pc, next |-> "check", input |-> input,
                               alone |-> Others(r) = {}, memory |-> memory]
                ELSE [drills[q] EXCEPT !.alone = q \notin Others(r) /\ @]]
    IN /\ drills[r].pc = "idle" /\ drillRuns < MaxDrillRuns
       /\ \/ checkpoint = NoDrillFile /\ Opens("write", NewCheckpoint(input))
          \/ /\ Legible(checkpoint) /\ SameInputs(checkpoint, input)
             /\ IF checkpoint.stages = <<>> THEN Opens("check", checkpoint)
                ELSE Opens("write", [checkpoint EXCEPT !.stages = Recorded(checkpoint)])
       /\ drillRuns' = drillRuns + 1
       /\ UNCHANGED <<bundle, checkpoint, temporary, drillReport, produced, drillFaults>>

RunGoes(r, run) == drills' = [drills EXCEPT ![r] = run]

WriteTemporary(r) ==
    /\ drills[r].pc = "write"
    /\ temporary' = drills[r].memory
    /\ RunGoes(r, [drills[r] EXCEPT !.pc = "replace"])
    /\ UNCHANGED <<bundle, checkpoint, drillReport, produced, drillRuns, drillFaults>>

\* A stage that failed: what the run has is written before it ends.
Raising(run) == [run EXCEPT !.pc = "write", !.next = "raise"]

\* The file beside it may be gone, renamed by another run.
ReplaceCheckpoint(r) ==
    /\ drills[r].pc = "replace"
    /\ IF temporary = NoDrillFile
       THEN /\ RunGoes(r, IF drills[r].next \in {"stage", "report"} THEN Raising(drills[r]) ELSE NoRun)
            /\ UNCHANGED <<checkpoint, temporary>>
       ELSE /\ checkpoint' = temporary
            /\ temporary' = NoDrillFile
            /\ RunGoes(r, IF drills[r].next = "raise" THEN NoRun
                          ELSE [drills[r] EXCEPT !.pc = drills[r].next])
    /\ UNCHANGED <<bundle, drillReport, produced, drillRuns, drillFaults>>

\* Mutant: evidence is taken as it stands in the file.
MutIntact(stages) == TRUE

Intact(stages) == \A i \in DOMAIN stages : stages[i].evidence = stages[i].hash

NextStage(stages) == IF Len(stages) = Len(DrillStages) THEN "report" ELSE "stage"

CheckRecorded(r) ==
    /\ drills[r].pc = "check"
    /\ RunGoes(r, IF Intact(drills[r].memory.stages)
                  THEN [drills[r] EXCEPT !.pc = NextStage(drills[r].memory.stages)] ELSE NoRun)
    /\ UNCHANGED <<bundle, checkpoint, temporary, drillReport, produced, drillRuns, drillFaults>>

-----------------------------------------------------------------------------
(* A stage.                                                                *)

\* Mutant: the stage after the one to run is run.
MutStageOf(stages) ==
    DrillStages[IF Len(stages) + 1 < Len(DrillStages) THEN Len(stages) + 2 ELSE Len(stages) + 1]

StageOf(stages) == DrillStages[Len(stages) + 1]

\* Mutant: any evidence will do.
MutAccepted(stage, evidence) == TRUE

Accepted(stage, evidence) == stage \in CheckedStage => evidence # "negative"

\* What a stage may give: the release its bundle names, or that it is done, or a
\* negative answer.
Evidence(stage) == {IF stage \in BundleStage THEN bundle ELSE "done", "negative"}

DrillFault == drillFaults < MaxDrillFaults /\ drillFaults' = drillFaults + 1

\* The command fails, its evidence is refused, or the stage is recorded; when the
\* ledger then refuses the event, it stays recorded in a run that failed.
ExecuteStage(r) ==
    LET run   == drills[r]
        stage == StageOf(run.memory.stages)
    IN /\ run.pc = "stage"
       /\ \/ /\ DrillFault
             /\ RunGoes(r, Raising(run))
             /\ UNCHANGED produced
          \/ \E evidence \in Evidence(stage) :
                 LET kept == [run EXCEPT !.memory.stages =
                                 Append(@, [evidence |-> evidence, hash |-> evidence])]
                     done == [kept EXCEPT !.pc = "write", !.next = NextStage(kept.memory.stages)]
                 IN /\ produced' = produced \cup
                           {[input |-> run.input, stage |-> stage, evidence |-> evidence]}
                    /\ \/ /\ Accepted(stage, evidence)
                          /\ RunGoes(r, done)
                          /\ UNCHANGED drillFaults
                       \/ /\ Accepted(stage, evidence)
                          /\ DrillFault
                          /\ RunGoes(r, Raising(kept))
                       \/ /\ ~Accepted(stage, evidence)
                          /\ RunGoes(r, Raising(run))
                          /\ UNCHANGED drillFaults
       /\ UNCHANGED <<bundle, checkpoint, temporary, drillReport, drillRuns>>

WriteReport(r) ==
    /\ drills[r].pc = "report"
    /\ drillReport' = drills[r].memory
    /\ RunGoes(r, NoRun)
    /\ UNCHANGED <<bundle, checkpoint, temporary, produced, drillRuns, drillFaults>>

-----------------------------------------------------------------------------
(* Faults and changes from outside.                                        *)

\* Mutant: the checkpoint is written in place.
MutLeavesTorn == checkpoint' = Torn /\ UNCHANGED temporary

LeavesTorn == temporary' = Torn /\ UNCHANGED checkpoint

StopDrill(r) ==
    /\ drills[r].pc # "idle"
    /\ DrillFault
    /\ \/ UNCHANGED <<checkpoint, temporary>>
       \/ drills[r].pc = "write" /\ LeavesTorn
    /\ RunGoes(r, NoRun)
    /\ UNCHANGED <<bundle, drillReport, produced, drillRuns>>

AlterCheckpoint(i) ==
    /\ DrillFault
    /\ checkpoint' = [checkpoint EXCEPT !.stages[i].evidence = "altered"]
    /\ UNCHANGED <<bundle, temporary, drillReport, drills, produced, drillRuns>>

ReplaceBundle(b) ==
    /\ b # bundle
    /\ DrillFault
    /\ bundle' = b
    /\ UNCHANGED <<checkpoint, temporary, drillReport, drills, produced, drillRuns>>

DrillNext ==
    \/ \E r \in Drill, change \in ChangeId : StartDrill(r, change)
    \/ \E r \in Drill : WriteTemporary(r) \/ ReplaceCheckpoint(r) \/ CheckRecorded(r)
    \/ \E r \in Drill : ExecuteStage(r) \/ WriteReport(r) \/ StopDrill(r)
    \/ Legible(checkpoint) /\ \E i \in DOMAIN checkpoint.stages : AlterCheckpoint(i)
    \/ \E b \in Bundle : ReplaceBundle(b)

DrillSpec == DrillInit /\ [][DrillNext]_drillVars

-----------------------------------------------------------------------------

\* What a file says was done under its inputs was done under them, stage after
\* stage, and no stage that is checked gave a negative answer.
Backed(file) ==
    \A i \in DOMAIN file.stages :
        /\ [input |-> file.input, stage |-> DrillStages[i], evidence |-> file.stages[i].hash]
               \in produced
        /\ DrillStages[i] \in CheckedStage => file.stages[i].hash # "negative"

\* A checkpoint is backed however many runs write it (rollback.py:355).
CheckpointBacked == Legible(checkpoint) => Backed(checkpoint)

\* A report has every stage, each with the evidence it gave under the report's
\* inputs, whatever was done to the checkpoint meanwhile (rollback.py:362).
ReportBacked ==
    drillReport # NoDrillFile =>
        /\ Backed(drillReport)
        /\ Len(drillReport.stages) = Len(DrillStages)
        /\ \A i \in DOMAIN drillReport.stages :
               drillReport.stages[i].evidence = drillReport.stages[i].hash

\* A stage gives evidence only when all before it have, under the same inputs
\* (rollback.py:355).
StagesInOrder ==
    \A p \in produced : \A i \in DOMAIN DrillStages : DrillStages[i] = p.stage =>
        \A j \in 1 .. i - 1 :
            \E q \in produced : q.input = p.input /\ q.stage = DrillStages[j]

\* A run that was alone never runs a stage again that the checkpoint has
\* (rollback.py:356).
RecordedNotRepeated ==
    [][\A r \in Drill :
        (drills[r].pc = "stage" /\ drills'[r].pc = "write" /\ drills[r].alone
         /\ Legible(checkpoint)) =>
            Len(checkpoint.stages) <= Len(drills[r].memory.stages)]_drillVars

\* No stop costs what is recorded: unless runs overlapped a checkpoint that can be
\* read can be read afterwards, is for the same inputs and has lost no stage
\* (rollback.py:506).
RecordedStays ==
    [][(checkpoint' # checkpoint /\ Legible(checkpoint)
        /\ \A r \in Drill : drills[r].pc # "idle" => drills[r].alone) =>
            /\ Legible(checkpoint')
            /\ checkpoint'.input = checkpoint.input
            /\ Len(checkpoint'.stages) >= Len(checkpoint.stages)]_drillVars

DrillSound == [](CheckpointBacked /\ ReportBacked /\ StagesInOrder) /\ RecordedNotRepeated /\ RecordedStays
=============================================================================
