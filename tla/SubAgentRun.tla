----------------------------- MODULE SubAgentRun -----------------------------
(* run_sub_agent: one call of the model on behalf of a tool call, with a   *)
(* session file of its own that records how it ended.  The answer, the     *)
(* timeout, the cancellation of the parent's turn, failing saves and the   *)
(* death of the server may meet in any order.                              *)
EXTENDS Naturals

CONSTANTS
  Runs,    \* the sub-agent runs of one parent session
  NoFile   \* nothing on disk

ASSUME SubAgentAssumption == NoFile \notin {"RUNNING", "COMPLETE", "FAILED", "ABORTED"}

Outcomes == {"RUNNING", "COMPLETE", "FAILED", "ABORTED"}
RunEnded == Outcomes \ {"RUNNING"}

VARIABLES
  run,   \* run -> how far the tool call is and what its session says in memory
  file,  \* run -> the outcome in the run's session file
  told   \* run -> what the parent's turn was told: nothing yet, a result, an error

subVars == <<run, file, told>>

SubInit ==
  /\ run = [r \in Runs |-> [at |-> "idle", outcome |-> "RUNNING", saves |-> FALSE]]
  /\ file = [r \in Runs |-> NoFile]
  /\ told = [r \in Runs |-> "nothing"]

(* A run that is refused: no content, a request to execute a process, an   *)
(* unknown preset or no provider.                                          *)
Refuse(r) ==
  /\ run[r].at = "idle"
  /\ run' = [run EXCEPT ![r].at = "over"]
  /\ told' = [told EXCEPT ![r] = "error"]
  /\ UNCHANGED file

(* The session is saved as RUNNING before the model is asked, when the     *)
(* parent's session has a file; a failing save is the tool's error.        *)
StartSub(r, saves) ==
  /\ run[r].at = "idle"
  /\ run' = [run EXCEPT ![r] = [at |-> "asked", outcome |-> "RUNNING", saves |-> saves]]
  /\ file' = IF saves THEN [file EXCEPT ![r] = "RUNNING"] ELSE file
  /\ UNCHANGED told

StartSaveFails(r) ==
  /\ run[r].at = "idle"
  /\ run' = [run EXCEPT ![r].at = "over"]
  /\ told' = [told EXCEPT ![r] = "error"]
  /\ UNCHANGED file

(* What ends the wait, and the outcome set for it: an answer with text, an *)
(* empty one, the timeout, an error of the provider, the parent's          *)
(* cancellation.  The outcome is saved in the next step.                   *)
OutcomeOf(end) ==
  CASE end = "text" -> "COMPLETE" [] end = "cancelled" -> "ABORTED" [] OTHER -> "FAILED"

StepAfter(end) ==
  CASE end \in {"text", "empty"} -> "answered" [] end = "cancelled" -> "aborting"
    [] OTHER -> "handling"

EndWait(r, end) ==
  /\ run[r].at = "asked"
  /\ run' = [run EXCEPT ![r].at = StepAfter(end), ![r].outcome = OutcomeOf(end)]
  /\ UNCHANGED <<file, told>>

Message(r) ==
  CASE run[r].at = "aborting" -> "cancelled"
    [] run[r].at = "answered" /\ run[r].outcome = "COMPLETE" -> "result"
    [] OTHER -> "error"

(* Mutant: the parent hears of the outcome, the file does not.             *)
ToldFirst(r) == told' = [told EXCEPT ![r] = Message(r)] /\ UNCHANGED file

(* The outcome is stored, if anywhere, before the parent hears of it.      *)
Stored(r) ==
  /\ told' = [told EXCEPT ![r] = Message(r)]
  /\ file' = IF run[r].saves THEN [file EXCEPT ![r] = run[r].outcome] ELSE file

Saving == {"answered", "handling", "aborting"}

Persist(r) ==
  /\ run[r].at \in Saving
  /\ Stored(r)
  /\ run' = [run EXCEPT ![r].at = "over"]

(* Mutant: an outcome survives the save of it that fails.                  *)
StillComplete(outcome) == outcome

(* A save that fails while an answer or an empty one is recorded is caught *)
(* like an error of the provider: the outcome becomes FAILED and is saved  *)
(* once more.                                                              *)
Relabelled(outcome) == "FAILED"

PersistFails(r) ==
  /\ run[r].at = "answered" /\ run[r].saves
  /\ run' = [run EXCEPT ![r].at = "handling", ![r].outcome = Relabelled(@)]
  /\ UNCHANGED <<file, told>>

(* The save of an exception's outcome fails: the exception leaves the tool *)
(* and the file keeps what it said.                                        *)
GiveUp(r) ==
  /\ run[r].at \in {"handling", "aborting"} /\ run[r].saves
  /\ run' = [run EXCEPT ![r].at = "over"]
  /\ told' = [told EXCEPT ![r] = "error"]
  /\ UNCHANGED file

(* A death may hit a save that has just replaced the file.                 *)
ServerDies ==
  /\ \E r \in Runs : run[r].at \notin {"idle", "over"}
  /\ run' = [r \in Runs |-> [run[r] EXCEPT !.at = "over"]]
  /\ file' \in {file} \cup {[file EXCEPT ![r] = run[r].outcome] :
                  r \in {q \in Runs : run[q].saves /\ run[q].at \in Saving}}
  /\ UNCHANGED told

SubNext ==
  \/ \E r \in Runs :
       \/ Refuse(r) \/ StartSaveFails(r)
       \/ \E saves \in BOOLEAN : StartSub(r, saves)
       \/ \E end \in {"text", "empty", "timeout", "error", "cancelled"} : EndWait(r, end)
       \/ Persist(r) \/ PersistFails(r) \/ GiveUp(r)
  \/ ServerDies

SubSpec == SubInit /\ [][SubNext]_subVars

(***************************************************************************)
(* Properties                                                              *)
(***************************************************************************)
(* The runs, their files and what the parent was told have their types.    *)
SubTypeOK ==
  /\ run \in [Runs -> [at : {"idle", "asked", "answered", "handling", "aborting", "over"},
                       outcome : Outcomes, saves : BOOLEAN]]
  /\ file \in [Runs -> Outcomes \cup {NoFile}]
  /\ told \in [Runs -> {"nothing", "result", "error", "cancelled"}]

(* The parent's turn and the run's session file never contradict each      *)
(* other (run_sub_agent): the parent has a result only when the file, if   *)
(* there is one, says COMPLETE, and an error only when it does not.        *)
SubRunsRecorded ==
  \A r \in Runs :
    /\ told[r] = "result" => file[r] \in {"COMPLETE", NoFile}
    /\ told[r] \in {"error", "cancelled"} => file[r] # "COMPLETE"
=============================================================================
