------------------------------- MODULE AgentTurn -------------------------------
(***************************************************************************)
(* One session's turns: ConversationRuntime.turn, _llm_turn, _execute_tool *)
(* and _finalize_stopped_turn of conversation.py, with the parts of        *)
(* session.py they keep the turn's outcome in (set_outcome, pending        *)
(* actions, save, load).                                                   *)
(*                                                                         *)
(* The model, the tools and the hooks are the environment: any answer, any *)
(* tool result.  Whether a tool's report is new to the turn is its choice  *)
(* too: the code keeps the signature of every report, without a bound.     *)
(* Time is counted in ticks of the execution lease, one for every awaited  *)
(* operation.                                                              *)
(* Turns that edit a selection (edit_scope) are not modelled.              *)
(***************************************************************************)
EXTENDS Integers, SequencesExt, ListFilter

CONSTANTS
  MutatingTools, \* the tools that leave pending actions
  Targets,       \* the files they are about
  NoTarget,      \* a pending action's file is unknown
  MaxErrors,     \* _DEFAULT_MAX_TOOL_ERRORS
  MaxStalled,    \* _DEFAULT_MAX_STALLED_TOOL_CALLS
  MaxAttempts,   \* attempts at one model response
  PendingCap,    \* pending actions a session keeps
  Lease,         \* the execution lease, in ticks
  MaxBatch,      \* bound: tool calls in one response
  MaxTurns       \* bound: turns on the session

ASSUME LimitsAssumption ==
  {MaxErrors, MaxStalled, MaxAttempts, PendingCap, Lease, MaxBatch, MaxTurns} \subseteq Nat \ {0}
ASSUME ToolsAssumption == MutatingTools \subseteq {"write_file", "str_replace"}

VARIABLES
  phase,     \* what turn() is waiting for; see Phases
  mem,       \* the session in memory
  saved,     \* the session's JSONL file
  turn,      \* number of turns started
  left,      \* calls of the current response without a result
  attempt,   \* the retry loop's counter
  errors,    \* _tool_errors_this_turn
  stalled,   \* _stalled_tool_calls_this_turn
  ticks,     \* _active_seconds_this_turn
  stop,      \* _tool_stop_reason is set
  denied,    \* _approval_denied
  aborted,   \* _aborted
  changed,   \* _changed_files_this_turn is not empty
  minding,   \* pending actions count: _pending_created_this_turn or resumed
  answer,    \* decision posted for the pending approval
  \* history variables: what the properties talk about, read by no guard
  owed,      \* pending actions of this turn that no success has resolved
  inherited, \* unanswered calls the turn started with
  late,      \* tools started after the abort
  news,      \* flips with every report that is new to its turn
  prior      \* the state reported before the turn

turnVars == <<left, attempt, errors, stalled, news, ticks, stop, denied, changed, minding,
              owed, answer>>
histVars == <<inherited, late, prior>>
vars == <<phase, mem, saved, turn, turnVars, aborted, histVars>>

(* "top": between steps.  "model": a response is awaited.  "call": the     *)
(* next call's hook and checks.  "asking": an approval is awaited.         *)
(* "running": the tool.  "after": its result is reported.  "verdict": the  *)
(* step has ended early.  "final": the report of a stopped turn.           *)
Phases == {"none", "top", "model", "call", "asking", "running", "after", "verdict", "final"}

Working  == {"RUNNING", "RECOVERING", "FINALIZING"}
Outcomes == {"COMPLETE", "PARTIAL", "FAILED", "ABORTED"}

(* A pending action: the tool, and the file if it is known.                *)
Obligations == MutatingTools \X (Targets \cup {NoTarget})

(* open: calls since the last user message without a result.  orphaned:    *)
(* there are such calls further back.                                      *)
Sessions == [state : {"IDLE"} \cup Working \cup Outcomes,
             open : Nat, orphaned : BOOLEAN, pending : Seq(Obligations)]

Empty == [state |-> "IDLE", open |-> 0, orphaned |-> FALSE, pending |-> <<>>]

Init ==
  /\ phase = "none" /\ mem = Empty /\ saved = Empty /\ turn = 0
  /\ left = 0 /\ attempt = 0 /\ errors = 0 /\ stalled = 0 /\ news = FALSE /\ ticks = 0
  /\ stop = FALSE /\ denied = FALSE /\ aborted = FALSE /\ changed = FALSE /\ minding = FALSE
  /\ answer = "none" /\ owed = {}
  /\ inherited = 0 /\ late = 0 /\ prior = "IDLE"

-----------------------------------------------------------------------------
(***************************************************************************)
(* The session.                                                            *)
(***************************************************************************)

(* _auto_save: an error is logged and the old file stays.                  *)
Save == saved' \in {saved, mem'}

(* Mutant: a state of work is read back as it is.                          *)
LoadedAsIs == saved

(* Session.load: a turn that was cut off has become PARTIAL.               *)
Loaded == [saved EXCEPT !.state = IF @ \in Working THEN "PARTIAL" ELSE @]

(* record_pending_action: once per tool and file, the oldest give way.     *)
Owing(s, o) ==
  LET t == Append(s, o)
  IN  IF o \in ToSet(s) THEN s
      ELSE IF Len(t) > PendingCap THEN Tail(t) ELSE t

(* resolve_pending_action: a success on the file resolves what any tool    *)
(* owes on it, and what this tool owes on a file not known.                *)
Settles(o, a) == IF a[2] = NoTarget THEN a[1] = o[1] ELSE a[2] = o[2]

(* Mutant: the tool's success resolves all it owes, on any file.           *)
ResolvedAll(s, o) == SelectSeq(s, LAMBDA a : a[1] # o[1])

Resolved(s, o) == Kept(s, {i \in DOMAIN s : ~Settles(o, s[i])})

Pending == IF minding THEN ToSet(mem.pending) ELSE {}

-----------------------------------------------------------------------------
(***************************************************************************)
(* The turn.                                                               *)
(***************************************************************************)

(* turn() on a runtime fresh from the file.  A new message ends the run of *)
(* calls that may still get results; a repeated one removes what followed  *)
(* it; resume adds none, and minds what is pending.                        *)
StartTurn(kind) ==
  /\ phase = "none" /\ turn < MaxTurns
  /\ turn' = turn + 1
  /\ phase' = "top"
  /\ mem' = CASE kind = "new"      -> [Loaded EXCEPT !.state = "RUNNING", !.open = 0,
                                               !.orphaned = (@ \/ Loaded.open > 0)]
              [] kind = "repeated" -> [Loaded EXCEPT !.state = "RUNNING", !.open = 0]
              [] kind = "resume"   -> [Loaded EXCEPT !.state = "RUNNING"]
  /\ inherited' = mem'.open
  /\ IF kind = "new" THEN Save ELSE UNCHANGED saved
  /\ minding' \in {kind = "resume", TRUE}      \* the message may ask to continue
  /\ owed' = IF minding' THEN ToSet(mem'.pending) ELSE {}
  /\ prior' = Loaded.state
  /\ left' = 0 /\ attempt' = 0 /\ errors' = 0 /\ stalled' = 0 /\ ticks' = 0
  /\ stop' = FALSE /\ denied' = FALSE /\ aborted' = FALSE /\ changed' = FALSE
  /\ answer' = "none" /\ late' = 0 /\ UNCHANGED news

(* The turn is over with this outcome.                                     *)
EndWith(state) ==
  /\ mem' = [mem EXCEPT !.state = state]
  /\ Save
  /\ phase' = "none"
  /\ UNCHANGED <<turn, turnVars, aborted, histVars>>

(* The loop's head: an abort ends the turn; otherwise a response is asked  *)
(* for, with a reminder of what is pending.                                *)
NextStep ==
  /\ phase = "top" /\ ~aborted
  /\ phase' = "model" /\ attempt' = 0
  /\ IF Pending # {} THEN mem' = [mem EXCEPT !.state = "RECOVERING"] /\ Save
     ELSE UNCHANGED <<mem, saved>>
  /\ UNCHANGED <<turn, left, errors, stalled, news, ticks, stop, denied, changed, minding, owed,
                 answer, aborted, histVars>>

AbortSeen == phase = "top" /\ aborted /\ EndWith("ABORTED")

(* An awaited operation takes a tick of the lease.                         *)
Tick == ticks < Lease /\ ticks' = ticks + 1

(* The model wants tools.                                                  *)
ToolCalls(n) ==
  /\ phase = "model" /\ Tick
  /\ mem' = [mem EXCEPT !.open = @ + n]
  /\ Save
  /\ left' = n /\ phase' = "call"
  /\ UNCHANGED <<turn, attempt, errors, stalled, news, stop, denied, changed, minding, owed, answer,
                 aborted, histVars>>

(* The model's final answer; what is still pending makes it a partial one. *)
Answered ==
  /\ phase = "model" /\ ticks < Lease
  /\ EndWith(IF Pending # {} THEN "PARTIAL" ELSE "COMPLETE")

(* No answer, a rate limit or a broken connection: tried again.            *)
Retry ==
  /\ phase = "model" /\ Tick /\ attempt < MaxAttempts - 1
  /\ attempt' = attempt + 1
  /\ UNCHANGED <<phase, mem, saved, turn, left, errors, stalled, news, stop, denied, changed,
                 minding, owed, answer, aborted, histVars>>

(* The last attempt failed, or any other error.                            *)
ModelFails == phase = "model" /\ EndWith("FAILED")

(* abort cancelled the request.                                            *)
ModelCancelled == phase = "model" /\ aborted /\ EndWith("ABORTED")

(* The report of a stopped turn is started; an expired lease leaves no     *)
(* attempt for the model to write it.                                      *)
Finalize(attempts) ==
  /\ mem' = [mem EXCEPT !.state = "FINALIZING"]
  /\ Save
  /\ phase' = "final" /\ attempt' = attempts
  /\ UNCHANGED <<turn, left, errors, stalled, news, ticks, denied, changed, minding, owed, answer,
                 aborted, histVars>>

LeaseExpires == phase = "model" /\ stop' = TRUE /\ Finalize(2)

(* The model's report contained tool protocol: one more try.               *)
FinalRetry ==
  /\ phase = "final" /\ attempt = 0 /\ Tick
  /\ attempt' = 1
  /\ UNCHANGED <<phase, mem, saved, turn, left, errors, stalled, news, stop, denied, changed,
                 minding, owed, answer, aborted, histVars>>

(* A report, the model's or the runtime's own.                             *)
Reported == phase = "final" /\ EndWith("PARTIAL")

-----------------------------------------------------------------------------
(***************************************************************************)
(* One tool call.                                                          *)
(***************************************************************************)

(* A result is appended; the pending actions become p.                     *)
Result(p) ==
  /\ mem' = [mem EXCEPT !.open = @ - 1, !.pending = p]
  /\ Save
  /\ left' = left - 1
  /\ phase' = "after"
  /\ answer' = "none"

(* _record_tool_error and _record_tool_progress.                           *)
CountError   == errors' = errors + 1
CountStall   == stalled' = stalled + 1
LimitReached == errors' >= MaxErrors \/ stalled' >= MaxStalled

(* Mutant: a failed mutation is minded, but not noted.                      *)
OweQuietly(o) == /\ Result(mem.pending)
                 /\ minding' = TRUE
                 /\ owed' = owed \cup {o}

Owe(o) == /\ Result(Owing(mem.pending, o))
          /\ minding' = TRUE
          /\ owed' = owed \cup {o}
Pay(o) == /\ Result(Resolved(mem.pending, o))
          /\ owed' = {a \in owed : ~Settles(o, a)}
          /\ UNCHANGED minding
Plain  == Result(mem.pending) /\ UNCHANGED <<minding, owed>>

(* The outcomes of a call on a file mutation, or on any other tool.        *)
Fruitless == Plain \/ \E o \in Obligations : Owe(o)
Fruitful  == Fruitless \/ \E o \in Obligations : Pay(o)

(* Unusable input, a hook's denial, a failed preflight: an error.  For a   *)
(* file mutation the obligation is noted.                                  *)
Refuse ==
  /\ phase = "call"
  /\ Fruitless
  /\ CountError
  /\ stop' = (stop \/ errors' >= MaxErrors)
  /\ UNCHANGED <<turn, attempt, stalled, news, ticks, denied, changed, aborted, histVars>>

(* A conflict with the editor stops the turn.                              *)
Conflict ==
  /\ phase = "call"
  /\ \E o \in Obligations : Owe(o)
  /\ CountError
  /\ stop' = TRUE
  /\ UNCHANGED <<turn, attempt, stalled, news, ticks, denied, changed, aborted, histVars>>

(* The permission policy's denial passes as a failed call.                 *)
PolicyDenies ==
  /\ phase = "call" /\ Plain
  /\ CountError /\ CountStall
  /\ stop' = (stop \/ LimitReached)
  /\ UNCHANGED <<turn, attempt, news, ticks, denied, changed, aborted, histVars>>

(* The very mutation was applied before: no change.                        *)
Duplicate ==
  /\ phase = "call"
  /\ \E o \in Obligations : Owe(o) \/ Pay(o)
  /\ errors' = 0 /\ CountStall
  /\ stop' = (stop \/ LimitReached)
  /\ UNCHANGED <<turn, attempt, news, ticks, denied, changed, aborted, histVars>>

Asks ==
  /\ phase = "call" /\ phase' = "asking"
  /\ UNCHANGED <<mem, saved, turn, turnVars, aborted, histVars>>

Starts ==
  /\ phase' = "running"
  /\ late' = IF aborted THEN late + 1 ELSE late
  /\ UNCHANGED <<mem, saved, turn, left, attempt, errors, stalled, news, ticks, stop, denied,
                 changed, minding, owed, aborted, inherited, prior>>

StartTool == phase = "call" /\ Starts /\ UNCHANGED answer

(* approve(): may be repeated until the waiter wakes up.                   *)
Approve(d) ==
  /\ phase = "asking" /\ ~aborted
  /\ answer' = d
  /\ UNCHANGED <<phase, mem, saved, turn, left, attempt, errors, stalled, news, ticks, stop,
                 denied, changed, minding, owed, aborted, histVars>>

Allowed == phase = "asking" /\ answer = "allow" /\ Starts /\ answer' = "none"

(* Denied, timed out, or released by abort.                                *)
NotAllowed ==
  /\ phase = "asking" /\ Plain
  /\ denied' = ~aborted
  /\ UNCHANGED <<turn, attempt, errors, stalled, news, ticks, stop, changed, aborted, histVars>>

(* abort cancelled the hook or the tool, or the lease expired: skipped.    *)
Skip ==
  /\ phase \in {"call", "running"} /\ Plain
  /\ stop' \in {TRUE} \cup (IF aborted THEN {stop} ELSE {})
  /\ UNCHANGED <<turn, attempt, errors, stalled, news, ticks, denied, changed, aborted, histVars>>

(* The tool succeeds with a report whose signature is not among those of    *)
(* the turn, and renews the lease.                                         *)
Succeeds ==
  /\ phase = "running" /\ ticks < Lease
  /\ news' = ~news /\ ticks' = 0 /\ stalled' = 0 /\ errors' = 0
  /\ changed' \in {changed, TRUE}
  /\ Fruitful
  /\ stop' \in {stop, TRUE}                    \* the lease may end in the post hook
  /\ UNCHANGED <<turn, attempt, denied, aborted, histVars>>

(* Mutant: a repeated report renews the lease like a new one.              *)
RepeatsAsNew ==
  /\ phase = "running" /\ ticks < Lease
  /\ ticks' = 0 /\ stalled' = 0 /\ errors' = 0
  /\ Fruitful
  /\ stop' \in {stop, TRUE}
  /\ UNCHANGED <<turn, attempt, news, denied, changed, aborted, histVars>>

(* The tool reports nothing new: a repetition, or no change.               *)
Repeats ==
  /\ phase = "running" /\ Tick
  /\ Fruitful
  /\ errors' = 0 /\ CountStall
  /\ stop' \in {stop \/ LimitReached, TRUE}
  /\ UNCHANGED <<turn, attempt, news, denied, changed, aborted, histVars>>

(* The tool fails.                                                         *)
Fails ==
  /\ phase = "running" /\ Tick
  /\ Fruitless
  /\ CountError /\ CountStall
  /\ stop' \in {stop \/ LimitReached, TRUE}
  /\ UNCHANGED <<turn, attempt, news, denied, changed, aborted, histVars>>

(* An exception leaves _execute_tool (a file that cannot be compared, say) *)
(* with the calls at hand unanswered.                                      *)
Raises == phase = "call" /\ EndWith("FAILED")

(* Mutant: what is left of the response is not answered.                   *)
CallDoneSilently ==
  /\ phase = "after"
  /\ IF denied \/ aborted \/ stop THEN left' = 0 /\ phase' = "verdict"
     ELSE left' = left /\ phase' = IF left > 0 THEN "call" ELSE "top"
  /\ UNCHANGED <<mem, saved, turn, attempt, errors, stalled, news, ticks, stop, denied, changed,
                 minding, owed, answer, aborted, histVars>>

(* Mutant: the call that stopped the tools is answered again.              *)
CallDoneTwice ==
  /\ phase = "after"
  /\ IF denied \/ aborted \/ stop
     THEN /\ mem' = [mem EXCEPT !.open = @ - left - 1] /\ Save
          /\ left' = 0 /\ phase' = "verdict"
     ELSE /\ phase' = IF left > 0 THEN "call" ELSE "top"
          /\ UNCHANGED <<mem, saved, left>>
  /\ UNCHANGED <<turn, attempt, errors, stalled, news, ticks, stop, denied, changed, minding, owed,
                 answer, aborted, histVars>>

(* Mutant: a denial does not end the response's other calls.               *)
CallDoneDenied ==
  /\ phase = "after"
  /\ IF aborted \/ stop
     THEN /\ mem' = [mem EXCEPT !.open = @ - left] /\ Save
          /\ left' = 0 /\ phase' = "verdict"
     ELSE /\ phase' = IF left > 0 THEN "call" ELSE IF denied THEN "verdict" ELSE "top"
          /\ UNCHANGED <<mem, saved, left>>
  /\ UNCHANGED <<turn, attempt, errors, stalled, news, ticks, stop, denied, changed, minding, owed,
                 answer, aborted, histVars>>

(* The result is out: on with the next call, or the step ends and what is  *)
(* left of the response is answered as skipped.                            *)
CallDone ==
  /\ phase = "after"
  /\ IF denied \/ aborted \/ stop
     THEN /\ mem' = [mem EXCEPT !.open = @ - left] /\ Save
          /\ left' = 0 /\ phase' = "verdict"
     ELSE /\ phase' = IF left > 0 THEN "call" ELSE "top"
          /\ UNCHANGED <<mem, saved, left>>
  /\ UNCHANGED <<turn, attempt, errors, stalled, news, ticks, stop, denied, changed, minding, owed,
                 answer, aborted, histVars>>

(* turn() after a step that ended early.                                   *)
Verdict ==
  /\ phase = "verdict"
  /\ \/ aborted /\ EndWith("ABORTED")
     \/ ~aborted /\ denied /\ EndWith(IF changed THEN "PARTIAL" ELSE "ABORTED")
     \/ ~aborted /\ ~denied /\ Finalize(0) /\ UNCHANGED stop

-----------------------------------------------------------------------------
(* abort(): at any time in the turn.                                       *)
Abort ==
  /\ phase # "none" /\ ~aborted
  /\ aborted' = TRUE
  /\ UNCHANGED <<phase, mem, saved, turn, turnVars, histVars>>

(* The client disconnects: the generator is closed.  Only a report being   *)
(* drawn up is still recorded.                                             *)
Disconnect ==
  /\ phase # "none"
  /\ phase' = "none"
  /\ IF phase = "final" THEN mem' = [mem EXCEPT !.state = "PARTIAL"] /\ Save
     ELSE UNCHANGED <<mem, saved>>
  /\ UNCHANGED <<turn, turnVars, aborted, histVars>>

(* The server process dies.                                                *)
Crash ==
  /\ phase # "none"
  /\ phase' = "none"
  /\ UNCHANGED <<mem, saved, turn, turnVars, aborted, histVars>>

Model ==
  \/ \E n \in 1..MaxBatch : ToolCalls(n)
  \/ Answered \/ Retry \/ ModelFails \/ ModelCancelled \/ LeaseExpires

Call == Refuse \/ Conflict \/ PolicyDenies \/ Duplicate \/ Asks \/ StartTool \/ Raises

Tool == Succeeds \/ Repeats \/ Fails \/ Skip

(* What the runtime does of itself.                                        *)
Runtime ==
  \/ NextStep \/ AbortSeen \/ Model \/ Call \/ Allowed \/ NotAllowed \/ Tool
  \/ CallDone \/ Verdict \/ FinalRetry \/ Reported

Next ==
  \/ \E kind \in {"new", "repeated", "resume"} : StartTurn(kind)
  \/ Runtime
  \/ \E d \in {"allow", "deny"} : Approve(d)
  \/ Abort \/ Disconnect \/ Crash

Spec == Init /\ [][Next]_vars

(* The event loop runs a turn that can go on; a wait for an approval ends  *)
(* by itself after _APPROVAL_TIMEOUT.                                      *)
FairSpec == Spec /\ WF_vars(Runtime)

-----------------------------------------------------------------------------
(***************************************************************************)
(* Properties.                                                             *)
(***************************************************************************)

(* Types of the state. *)
TypeOK ==
  /\ phase \in Phases
  /\ mem \in Sessions /\ saved \in Sessions
  /\ {turn, left, attempt, errors, stalled, ticks, inherited, late} \subseteq Nat
  /\ {news, stop, denied, aborted, changed, minding} \subseteq BOOLEAN
  /\ owed \subseteq Obligations
  /\ answer \in {"none", "allow", "deny"}
  /\ prior \in {"IDLE"} \cup Outcomes

(* Between steps, while a response is awaited and during the final report, *)
(* each call the turn received has its one result, whichever way the step  *)
(* before ended: errors, limits, denials, aborts, leases.  (What the model *)
(* then reads is at most what an earlier turn left open.)                  *)
NewCallsAnswered ==
  phase \in {"top", "model", "final"} => mem.open = inherited

(* A turn that reports COMPLETE has delivered every file mutation that it  *)
(* failed at, or was asked to resume, unless a later success made up for   *)
(* it: no path around _active_pending_actions.                             *)
CompleteMeansDelivered ==
  [][Answered /\ mem'.state = "COMPLETE" => owed = {}]_vars

(* What the turn failed at, or was asked to resume, is in the list the     *)
(* model is reminded of and the outcome is decided by, until a success     *)
(* settles it: across retries, skipped calls, denials and aborts.          *)
ObligationsKept == phase # "none" => owed \subseteq Pending

(* Once a limit, a conflict or a denial has stopped the tools, no other    *)
(* call of the response and no later step starts one; after an abort, in   *)
(* whatever await it falls, at most the call at hand does.                 *)
StopMeansStop ==
  [][(phase # "running" /\ phase' = "running") => ~stop /\ ~denied /\ late' <= 1]_vars

(* A turn ends unless the tools report something new for ever: the model   *)
(* may repeat its calls, fail, be denied and try again in any mixture, the *)
(* lease and the limits see to it.                                         *)
TurnEnds == []<><<news' # news>>_vars \/ (phase # "none" ~> phase = "none")

(* The state a session reports: the running turn's, or, between turns,     *)
(* what is read back from its file.                                        *)
Reports == IF phase = "none" THEN Loaded.state ELSE mem.state

Lifecycle == INSTANCE TurnLifecycle
             WITH state <- Reports, working <- phase # "none", before <- prior

(* The reported state goes through the life cycle: also after failed       *)
(* saves, a crash or a disconnect a session reports an outcome that its    *)
(* turn reached, PARTIAL, or the one before.                               *)
LifecycleSpec == Lifecycle!Spec

(***************************************************************************)
(* What the documentation says and the code does not keep.                 *)
(***************************************************************************)

(* "ToolUse/ToolResult are always paired one to one": a history sent to    *)
(* the model has a result for every call.  A turn that was cut off leaves  *)
(* calls open, and the next one sends them.                                *)
PairedHistory == phase = "model" => mem.open = 0 /\ ~mem.orphaned
=============================================================================
