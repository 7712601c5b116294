------------------------------ MODULE AnchorRun ------------------------------
(* The anchor experiment of methods/reviewer_validation/scripts: cases are   *)
(* generated from the source anchors (generate_challenges.py), a formal run  *)
(* is let through by the freeze check (verify_freeze.py), run over the cases *)
(* (run_anchor.py) and scored (score_anchor.py).  Each command writes        *)
(* several files one after the other and may die in between; people edit the *)
(* inputs at any time.  One command runs at a time.                          *)
EXTENDS Integers, FiniteSets

CONSTANTS MissingFile,    \* a file or a command that does not exist
          MaxEdits,   \* bound: edits of the inputs
          MaxRuns     \* bound: commands started

TextVersions == 0..MaxEdits

CaseFiles == [made : TextVersions, edited : TextVersions]

ASSUME AnchorAssumption ==
    MaxEdits \in Nat /\ MaxRuns \in Nat /\ MissingFile \notin CaseFiles

VARIABLES sources,    \* the version of the source anchors
          cases,      \* the cases file: [made, edited], of which sources, edited since
          texts,      \* the directory of transformed texts, made from these sources
          generated,  \* the generation manifest: the sources it was made from
          freeze,     \* what the freeze manifest binds: MissingFile, or [cases, open]
          command,    \* the command in progress
          predictions, metrics, manifest,   \* the outputs of the formal run
          scores,     \* metrics written by score_anchor.py
          edits, runs

anchorVars == <<sources, cases, texts, generated, freeze, command, predictions, metrics,
                manifest, scores, edits, runs>>

outputs == <<predictions, metrics, manifest, scores>>

AnchorInit ==
    /\ sources = 0 /\ cases = MissingFile /\ texts = MissingFile /\ generated = MissingFile
    /\ freeze = MissingFile /\ command = MissingFile
    /\ predictions = MissingFile /\ metrics = MissingFile /\ manifest = MissingFile /\ scores = MissingFile
    /\ edits = 0 /\ runs = 0

-----------------------------------------------------------------------------
(* People: the sources or the cases are edited; the freeze manifest is       *)
(* written with the hashes of the files as they are, and opens formal runs   *)
(* or not.                                                                   *)
EditSources ==
    /\ edits < MaxEdits
    /\ sources' = sources + 1 /\ edits' = edits + 1
    /\ UNCHANGED <<cases, texts, generated, freeze, command, outputs, runs>>

EditCases ==
    /\ edits < MaxEdits /\ cases # MissingFile
    /\ cases' = [cases EXCEPT !.edited = edits + 1] /\ edits' = edits + 1
    /\ UNCHANGED <<sources, texts, generated, freeze, command, outputs, runs>>

Freeze(open) ==
    /\ generated # MissingFile /\ cases # MissingFile
    /\ freeze' = [cases |-> cases, generated |-> generated, open |-> open]
    /\ freeze' # freeze
    /\ UNCHANGED <<sources, cases, texts, generated, command, outputs, edits, runs>>

Begin(what) ==
    /\ command = MissingFile /\ runs < MaxRuns
    /\ command' = what /\ runs' = runs + 1

Dies ==
    /\ command # MissingFile /\ command' = MissingFile
    /\ UNCHANGED <<sources, cases, texts, generated, freeze, outputs, edits, runs>>

-----------------------------------------------------------------------------
(* generate_anchor_challenges: no target may exist; the sources are read     *)
(* once, then the texts, the cases and the manifest are written.             *)
MayGenerate == texts = MissingFile /\ cases = MissingFile /\ generated = MissingFile

Generate ==
    /\ MayGenerate
    /\ Begin([step |-> "texts", from |-> sources])
    /\ UNCHANGED <<sources, cases, texts, generated, freeze, outputs, edits>>

WriteTexts ==
    /\ command # MissingFile /\ command.step = "texts"
    /\ texts' = command.from /\ command' = [command EXCEPT !.step = "cases"]
    /\ UNCHANGED <<sources, cases, generated, freeze, outputs, edits, runs>>

WriteCases ==
    /\ command # MissingFile /\ command.step = "cases"
    /\ cases' = [made |-> command.from, edited |-> 0]
    /\ command' = [command EXCEPT !.step = "generated"]
    /\ UNCHANGED <<sources, texts, generated, freeze, outputs, edits, runs>>

WriteGenerated ==
    /\ command # MissingFile /\ command.step = "generated"
    /\ generated' = command.from /\ command' = MissingFile
    /\ UNCHANGED <<sources, cases, texts, freeze, outputs, edits, runs>>

-----------------------------------------------------------------------------
(* verify_repository(allow_draft=False): every artifact is there with the    *)
(* hash the manifest binds, and protocol and manifest authorise the run.     *)
Verified ==
    /\ freeze # MissingFile /\ freeze.open
    /\ cases = freeze.cases /\ generated = freeze.generated

Strict ==
    /\ Verified
    /\ Begin([step |-> "targets", frozen |-> freeze])
    /\ UNCHANGED <<sources, cases, texts, generated, freeze, outputs, edits>>

(* Mutant: only the manifest, the last file of a run, is looked for.         *)
NoManifest == manifest = MissingFile

(* No output of an earlier run may be there, whole or not.                   *)
NoOutput == predictions = MissingFile /\ metrics = MissingFile /\ manifest = MissingFile

(* The cases are read and checked against their texts (a case carries the    *)
(* hash of its text).                                                        *)
ReadCases ==
    /\ command # MissingFile /\ command.step = "targets"
    /\ command' = IF NoOutput /\ cases.made = texts
                  THEN [step |-> "run", frozen |-> command.frozen, input |-> cases]
                  ELSE MissingFile
    /\ UNCHANGED <<sources, cases, texts, generated, freeze, outputs, edits, runs>>

(* After the last case every input is read again and must have its hash.     *)
ReadAgain ==
    /\ command # MissingFile /\ command.step = "run"
    /\ command' = IF cases = command.input THEN [command EXCEPT !.step = "predictions"] ELSE MissingFile
    /\ UNCHANGED <<sources, cases, texts, generated, freeze, outputs, edits, runs>>

(* Mutant: the manifest is written with the predictions.                     *)
ManifestEarly ==
    /\ command # MissingFile /\ command.step = "predictions"
    /\ predictions' = command.input /\ command' = [command EXCEPT !.step = "metrics"]
    /\ manifest' = [input |-> command.input, frozen |-> command.frozen]
    /\ UNCHANGED <<sources, cases, texts, generated, freeze, metrics, scores, edits, runs>>

WritePredictions ==
    /\ command # MissingFile /\ command.step = "predictions"
    /\ predictions' = command.input /\ command' = [command EXCEPT !.step = "metrics"]
    /\ UNCHANGED <<sources, cases, texts, generated, freeze, metrics, manifest, scores, edits, runs>>

WriteMetrics ==
    /\ command # MissingFile /\ command.step = "metrics"
    /\ metrics' = command.input /\ command' = [command EXCEPT !.step = "manifest"]
    /\ UNCHANGED <<sources, cases, texts, generated, freeze, predictions, manifest, scores, edits, runs>>

WriteManifest ==
    /\ command # MissingFile /\ command.step = "manifest"
    /\ manifest' = [input |-> command.input, frozen |-> command.frozen] /\ command' = MissingFile
    /\ UNCHANGED <<sources, cases, texts, generated, freeze, predictions, metrics, scores, edits, runs>>

-----------------------------------------------------------------------------
(* score_files: the predictions must be of these very cases (their input     *)
(* hashes are compared case by case), and the target must not exist.         *)
CasePairs(case, prediction) == case = prediction

Score ==
    /\ command = MissingFile /\ runs < MaxRuns /\ runs' = runs + 1
    /\ scores = MissingFile /\ cases # MissingFile /\ predictions # MissingFile
    /\ scores' = IF CasePairs(cases, predictions)
                 THEN [cases |-> cases, predictions |-> predictions] ELSE scores
    /\ UNCHANGED <<sources, cases, texts, generated, freeze, command, predictions, metrics,
                   manifest, edits>>

AnchorNext ==
    \/ EditSources \/ EditCases \/ (\E open \in BOOLEAN : Freeze(open)) \/ Dies
    \/ Generate \/ WriteTexts \/ WriteCases \/ WriteGenerated
    \/ Strict \/ ReadCases \/ ReadAgain \/ WritePredictions \/ WriteMetrics \/ WriteManifest
    \/ Score

AnchorSpec == AnchorInit /\ [][AnchorNext]_anchorVars

-----------------------------------------------------------------------------
(* Every variable stays in its range.                                        *)
AnchorTypeOK ==
    /\ sources \in TextVersions /\ edits \in TextVersions /\ runs \in 0..MaxRuns
    /\ \A f \in {cases, predictions, metrics} : f = MissingFile \/ f \in CaseFiles
    /\ texts = MissingFile \/ texts \in TextVersions
    /\ generated = MissingFile \/ generated \in TextVersions
    /\ freeze = MissingFile \/ freeze.cases \in CaseFiles

(* A file that vouches for others is written last: the generation manifest   *)
(* stands for texts and cases of one version of the sources, the run         *)
(* manifest for predictions and metrics over the same cases, let through by  *)
(* an open freeze, and scores only pair predictions with their own cases.    *)
RunsAreWhole ==
    /\ generated # MissingFile => texts = generated /\ cases # MissingFile /\ cases.made = generated
    /\ manifest # MissingFile =>
           predictions = manifest.input /\ metrics = manifest.input /\ manifest.frozen.open
    /\ scores # MissingFile => scores.cases = scores.predictions

(* A result once written is never replaced: a run that died half way blocks  *)
(* the next one instead of mixing with it.                                   *)
ResultsStand ==
    [][/\ predictions # MissingFile => predictions' = predictions
       /\ metrics # MissingFile => metrics' = metrics
       /\ texts # MissingFile => texts' = texts]_anchorVars

(* The evidence of the anchor experiment can be relied on.                   *)
AnchorEvidence == []RunsAreWhole /\ ResultsStand
=============================================================================
