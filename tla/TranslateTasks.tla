---------------------------- MODULE TranslateTasks ----------------------------
(***************************************************************************)
(* The translation tasks of python/routers/translate.py: a document is     *)
(* uploaded as a pending task, the client connects to the task's event     *)
(* stream and the stream drives the pipeline; one slot is shared by all    *)
(* tasks.  Tasks that hold the slot for too long are expired, finished     *)
(* ones are dropped beyond a limit, failed ones may be connected to again. *)
(*                                                                         *)
(* Every handler is a coroutine of one event loop: an action is what runs  *)
(* between two awaits.  A document, its blocks and their translations are  *)
(* left out: what matters here is which task has a result.                 *)
(***************************************************************************)
EXTENDS Naturals, Sequences, FiniteSets, ListFilter

CONSTANTS
  Tasks,      \* task ids
  MaxTasks,   \* translate.max_tasks of the configuration
  MaxRuns,    \* bound: connections to a task's stream that get the slot
  MaxAge      \* bound: the age classes tasks reach (2 is the oldest)

ASSUME TasksAssumption == /\ MaxTasks \in Nat /\ MaxRuns \in Nat
                          /\ MaxAge \in 0..2

VARIABLES
  listed,     \* the ids in the tasks dict, oldest first
  status,     \* the status of each task: "none" when it is not in the dict
  age,        \* since _created_at: 0, 1 (more than 30 s), 2 (more than 30 min)
  output,     \* the tasks that have a translated file
  runs,       \* for each task, the connections that got the slot
  pipe,       \* for each task and run, where its pipeline is
  expired,    \* history: tasks that were expired under a live pipeline
  restarted   \* history: tasks that were connected to under a live pipeline

vars == <<listed, status, age, output, runs, pipe, expired, restarted>>

Statuses == {"none", "pending", "running", "error", "done"}
Holding  == {"pending", "running"}
Finished == {"done", "error"}
Run      == 1..MaxRuns

(* The request has been answered and its event stream, which is the        *)
(* pipeline, has not begun; it works; it has set the status, and its last  *)
(* event and its finally clause are still to come.                         *)
Stages == {"off", "opened", "working", "ending"}

Alive(t) == \E r \in Run : pipe[t][r] # "off"

Init ==
  /\ listed = <<>>
  /\ status = [t \in Tasks |-> "none"]
  /\ age = [t \in Tasks |-> 0]
  /\ output = {}
  /\ runs = [t \in Tasks |-> 0]
  /\ pipe = [t \in Tasks |-> [r \in Run |-> "off"]]
  /\ expired = {} /\ restarted = {}

-----------------------------------------------------------------------------
(* Mutant: only a running task keeps others from being uploaded.           *)
FreeOfRunning == \A t \in Tasks : status[t] # "running"

(* No task is running or pending: the uploads' condition.                  *)
SlotFree == \A t \in Tasks : status[t] \notin Holding

(* A document is uploaded, or named by its path.                           *)
Upload(t) ==
  /\ \A i \in DOMAIN listed : listed[i] # t
  /\ runs[t] = 0 /\ age[t] = 0 /\ status[t] = "none" \* an id never used before
  /\ SlotFree
  /\ listed' = Append(listed, t)
  /\ status' = [status EXCEPT ![t] = "pending"]
  /\ UNCHANGED <<age, output, runs, pipe, expired, restarted>>

(* Mutant: a task that was never connected to does not expire.             *)
StaleRunning(t) == status[t] = "running" /\ age[t] >= 2

Stale(t) == \/ status[t] = "running" /\ age[t] >= 2
            \/ status[t] = "pending" /\ age[t] >= 1

(* Mutant: a running task is expired whatever its age.                     *)
ExpiredEarly(t) ==
  [u \in Tasks |-> IF u # t /\ (Stale(u) \/ status[u] = "running") THEN "error" ELSE status[u]]

Expired(t) == [u \in Tasks |-> IF u # t /\ Stale(u) THEN "error" ELSE status[u]]

(* A client connects to a task's stream.  Other tasks that are stale are   *)
(* expired; if another still holds the slot the request is refused.        *)
Connect(t) ==
  /\ status[t] \in {"pending", "error"} /\ runs[t] < MaxRuns
  /\ IF \E u \in Tasks \ {t} : Expired(t)[u] \in Holding
     THEN status' = Expired(t) /\ UNCHANGED <<runs, pipe>>
     ELSE /\ status' = [Expired(t) EXCEPT ![t] = "running"]
          /\ runs' = [runs EXCEPT ![t] = @ + 1]
          /\ pipe' = [pipe EXCEPT ![t][runs'[t]] = "opened"]
  /\ expired' = expired \cup {u \in Tasks \ {t} : Alive(u) /\ Stale(u)}
  /\ restarted' = restarted \cup {u \in {t} : Alive(u)}
  /\ UNCHANGED <<listed, age, output>>

-----------------------------------------------------------------------------
(* Mutant: a dropped task comes back.                                      *)
SetAnyway(t, s) == status' = [status EXCEPT ![t] = s]

(* The pipeline r of task t.  It keeps hold of its task also when the task *)
(* has been dropped from the dict.                                         *)
SetStatus(t, s) ==
  status' = [status EXCEPT ![t] = IF @ = "none" THEN "none" ELSE s]

(* The event stream begins; the status is set once more, without the lock. *)
(* A task that is no longer in the dict raises a KeyError.                 *)
Start(t, r) ==
  /\ pipe[t][r] = "opened"
  /\ pipe' = [pipe EXCEPT ![t][r] = IF status[t] = "none" THEN "off" ELSE "working"]
  /\ SetStatus(t, "running")
  /\ UNCHANGED <<listed, age, output, runs, expired, restarted>>

(* The client is gone before its first event: no finally clause runs.      *)
NeverStarts(t, r) ==
  /\ pipe[t][r] = "opened"
  /\ pipe' = [pipe EXCEPT ![t][r] = "off"]
  /\ UNCHANGED <<listed, status, age, output, runs, expired, restarted>>

(* The file is written, the task is done (or done_with_warnings).          *)
Complete(t, r) ==
  /\ pipe[t][r] = "working"
  /\ pipe' = [pipe EXCEPT ![t][r] = "ending"]
  /\ SetStatus(t, "done")
  /\ output' = output \cup {t}
  /\ UNCHANGED <<listed, age, runs, expired, restarted>>

(* An exception: the task is in error.                                     *)
Fail(t, r) ==
  /\ pipe[t][r] = "working"
  /\ pipe' = [pipe EXCEPT ![t][r] = "ending"]
  /\ SetStatus(t, "error")
  /\ UNCHANGED <<listed, age, output, runs, expired, restarted>>

(* _cleanup_tasks, when the statuses are s: of the tasks that are done or  *)
(* in error the oldest are dropped, with their files: those that MaxTasks  *)
(* others were listed after.                                               *)
DoneAfter(s, i) == {j \in DOMAIN listed : j > i /\ s[listed[j]] \in Finished}
Excess(s) ==
  {t \in Tasks : s[t] \in Finished /\ \E i \in DOMAIN listed :
                   listed[i] = t /\ Cardinality(DoneAfter(s, i)) >= MaxTasks}

(* Mutant: the files are removed, the tasks stay.                          *)
FilesCleaned(s) == status' = s /\ listed' = listed /\ output' = output \ Excess(s)

Cleaned(s) ==
  /\ status' = [t \in Tasks |-> IF t \in Excess(s) THEN "none" ELSE s[t]]
  /\ listed' = Kept(listed, {i \in DOMAIN listed : listed[i] \notin Excess(s)})
  /\ output' = output \ Excess(s)

(* Mutant: a task whose pipeline was cut off stays as it is.               *)
LeftRunning(t) == status

(* The finally clause: a task that is still running is marked.             *)
Released(t) == [status EXCEPT ![t] = IF @ = "running" THEN "error" ELSE @]

(* The pipeline ends, or its client disconnects while it works.            *)
Finish(t, r) ==
  /\ pipe[t][r] \in {"working", "ending"}
  /\ pipe' = [pipe EXCEPT ![t][r] = "off"]
  /\ Cleaned(Released(t))
  /\ UNCHANGED <<age, runs, expired, restarted>>

-----------------------------------------------------------------------------
(* Time passes: a task that was listed earlier is the older one.           *)
Tick(t) ==
  /\ age[t] < MaxAge
  /\ \E i \in DOMAIN listed :
       listed[i] = t /\ \A j \in 1..(i - 1) : age[listed[j]] > age[t]
  /\ age' = [age EXCEPT ![t] = @ + 1]
  /\ UNCHANGED <<listed, status, output, runs, pipe, expired, restarted>>

Pipeline == \E t \in Tasks, r \in Run :
  Start(t, r) \/ NeverStarts(t, r) \/ Complete(t, r) \/ Fail(t, r) \/ Finish(t, r)

Next == \/ \E t \in Tasks : Upload(t) \/ Connect(t) \/ Tick(t)
        \/ Pipeline

Spec == Init /\ [][Next]_vars

(* The event loop lets every pipeline go on, and the clients' requests to  *)
(* the models time out; time passes; and the user of a failed task tries   *)
(* again.  Nobody need connect to an upload, nor wait for a first event.   *)
FairSpec == /\ Spec
            /\ \A t \in Tasks : /\ WF_vars(Tick(t))
                                /\ WF_vars(status[t] = "error" /\ Connect(t) /\ runs' # runs)
                                /\ \A r \in Run : WF_vars(Finish(t, r))

-----------------------------------------------------------------------------
(***************************************************************************)
(* Properties.                                                             *)
(***************************************************************************)

(* The dict's ids are the tasks with a status, each listed once.           *)
DictOK == /\ listed \in Seq(Tasks)
          /\ {listed[i] : i \in DOMAIN listed} = {t \in Tasks : status[t] # "none"}
          /\ \A i, j \in DOMAIN listed : listed[i] = listed[j] => i = j

(* Types of the other variables.                                           *)
StateOK ==
  /\ status \in [Tasks -> Statuses]
  /\ age \in [Tasks -> 0..2]
  /\ output \subseteq Tasks
  /\ runs \in [Tasks -> 0..MaxRuns]
  /\ pipe \in [Tasks -> [Run -> Stages]]
  /\ expired \subseteq Tasks /\ restarted \subseteq Tasks

(* The dict and the pipelines have their form.                             *)
TypeOK == DictOK /\ StateOK

(* The tasks with one pipeline at a time that was not expired.             *)
Orderly == Tasks \ (expired \cup restarted)

(* The slot belongs to one task, pending or running: through uploads,      *)
(* restarts of failed tasks, expiries and streams that never began.        *)
SlotExclusive ==
  \A t, u \in Orderly : status[t] \in Holding /\ status[u] \in Holding => t = u

(* As long as no task is expired or restarted under its live pipeline, a   *)
(* pipeline that works holds the slot, and so is the only one.             *)
PipelinesAlone ==
  \A t \in Orderly : \A r \in Run : pipe[t][r] = "working" =>
    /\ status[t] = "running"
    /\ \A q \in Run : pipe[t][q] # "off" => q = r
    /\ \A u \in Orderly : \A q \in Run : pipe[u][q] = "working" => u = t

(* The slot is orderly: one task holds it, and the only pipeline at work   *)
(* is that task's.                                                         *)
SlotIsOrderly == SlotExclusive /\ PipelinesAlone

(* A task that is done has its file for download: also after other tasks'  *)
(* clean-ups, and after a second pipeline of the same task.                *)
DoneHasOutput == \A t \in Tasks : status[t] = "done" => t \in output

(* A pipeline that has begun gives the slot back, whether it completes,    *)
(* fails or is cut off.                                                    *)
SlotReleased ==
  \A t \in Tasks : \A r \in Run :
    (status[t] = "running" /\ pipe[t][r] = "working") ~> status[t] # "running"

(* A failed task that its user tries again gets the slot, whatever became  *)
(* of the task that holds it: an upload never connected to, a stream gone  *)
(* before its first event.                                                 *)
RetryGetsSlot ==
  \A t \in Tasks : (status[t] = "error" /\ runs[t] < MaxRuns) ~> status[t] # "error"

(***************************************************************************)
(* What the comments say and the code does not keep.                       *)
(***************************************************************************)

(* "Only one running task at a time."  A pipeline that takes more than 30  *)
(* minutes goes on when its task is expired and another gets the slot.     *)
OneTaskRuns ==
  [][\A t \in Tasks : runs'[t] # runs[t] =>
       \A u \in Tasks \ (restarted \cup {t}) : \A r \in Run : pipe[u][r] # "working"]_vars

=============================================================================
