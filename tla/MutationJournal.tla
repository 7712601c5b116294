---------------------------- MODULE MutationJournal ----------------------------
(***************************************************************************)
(* The Agent's file mutations, their journal and Undo, for one session:    *)
(* conversation.py (_execute_tool, _editor_conflict,                       *)
(* _advance_editor_snapshot), session.py (the journal, save, load,         *)
(* undo_last_turn) and router.py (v2_chat, v2_abort, v2_undo).             *)
(*                                                                         *)
(* Three parties touch the same files.  The runtime writes them on behalf  *)
(* of the model; the user saves them from the editor (or any other         *)
(* program) whenever he likes; the undo endpoint puts old contents back.   *)
(* Every await of the runtime between two of its reads or writes is a      *)
(* step boundary here.  Undo runs without an await.                        *)
(*                                                                         *)
(* A file's text is a member of Content, and a hash is the text itself.    *)
(***************************************************************************)
EXTENDS Integers, Sequences, FiniteSets

CONSTANTS
  Paths,       \* files of the workspace
  Content,     \* contents a file may have
  Undecodable, \* those that are not UTF-8 text
  Tools,       \* the mutating tools the model calls
  Absent,      \* "there is no such file"
  Dirty,       \* editor state: the tab has unsaved changes
  Unopened,    \* editor state: the request names no snapshot of the file
  Rotates,     \* session files reach _ROTATE_AFTER_BYTES
  MaxTurns,    \* bound: turns started on the session
  MaxRecords,  \* bound: mutations recorded in the journal
  MaxEdits     \* bound: changes the user makes to files

ASSUME ContentAssumption == /\ {Absent, Dirty, Unopened} \cap Content = {}
                            /\ Undecodable \subseteq Content
                            /\ Dirty # Unopened
ASSUME ToolsAssumption   == Tools \subseteq {"write_file", "str_replace", "export_document"}
ASSUME RotatesAssumption == Rotates \in BOOLEAN
ASSUME BoundsAssumption  == {MaxTurns, MaxRecords, MaxEdits} \subseteq Nat

VARIABLES
  disk,      \* what each file holds
  snap,      \* _editor_files: the editor's hash of each file, or Dirty/Unopened
  journal,   \* Session._mutations of the runtime in memory
  saved,     \* the mutation lines of the session's JSONL file
  turn,      \* number of the current (or latest) turn: _turn_id
  alive,     \* a runtime is executing turn()
  pooled,    \* _SESSION_POOL holds that runtime
  aborted,   \* its _aborted flag
  stopped,   \* the tool loop of the turn has ended
  tool,      \* the file mutation in flight
  threads,   \* writes left to worker threads whose await was cancelled
  edits,     \* number of changes the user made
  \* history variables: what the properties talk about, read by no guard
  base,      \* last text of each file the Agent was told of or wrote this turn
  wrote,     \* <<turn, file, text>>: the texts the tools put into files
  pre,       \* <<turn, file, text>>: what a turn's first write of a file replaced
  raced      \* <<turn, file>>: somebody else wrote it during a mutation of it

runVars  == <<turn, alive, pooled, aborted>>
memVars  == <<snap, journal, stopped>>      \* the rest of the runtime's memory
histVars == <<base, wrote, pre, raced>>
vars == <<disk, memVars, saved, runVars, tool, threads, edits, histVars>>

Text      == Content \ Undecodable
FileState == Content \cup {Absent}

Operations == Tools \X Text

(* A journal entry.  op stands for operation_key: the tool and its         *)
(* arguments.                                                              *)
Record == [turn : Nat, path : Paths, before : FileState, after : Content,
           op : Operations, undone : BOOLEAN]

(* One mutation in flight.  "asked": past the conflict check, waiting for  *)
(* the approval.  "approved".  "ready": pre-image captured, the tool's     *)
(* task scheduled.  "written": the tool has written.  "recorded": in the   *)
(* journal.  "reported": saved and reported, the snapshot not advanced.    *)
Idle == [ph |-> "idle"]
Phases == {"asked", "approved", "ready", "written", "recorded", "reported"}
InFlight == [ph : Phases, op : Operations, path : Paths,
             before : FileState, text : FileState]

Kind == tool.op[1]

Nothing == [p \in Paths |-> Absent]

Init ==
  /\ disk \in [Paths -> FileState]
  /\ snap = [p \in Paths |-> Unopened]
  /\ journal = <<>> /\ saved = <<>>
  /\ turn = 0
  /\ alive = FALSE /\ pooled = FALSE /\ aborted = FALSE /\ stopped = FALSE
  /\ tool = Idle
  /\ threads = {} /\ edits = 0
  /\ base = Nothing
  /\ wrote = {} /\ pre = {} /\ raced = {}

-----------------------------------------------------------------------------
(***************************************************************************)
(* The turn.                                                               *)
(***************************************************************************)

(* v2_chat on the session: a fresh runtime loads the JSONL file and starts *)
(* a turn.  The editor sends, per open file, a clean hash, which the disk  *)
(* may have outrun, or the dirty flag.  (Two runtimes on one session are   *)
(* the subject of SessionPool.)                                            *)
StartTurn ==
  /\ ~alive /\ ~pooled
  /\ turn < MaxTurns
  /\ turn' = turn + 1
  /\ journal' = saved
  /\ snap' \in [Paths -> Text \cup {Dirty, Unopened}]
  /\ base' = [p \in Paths |-> IF snap'[p] \in Text THEN snap'[p] ELSE disk[p]]
  /\ alive' = TRUE /\ pooled' = TRUE
  /\ UNCHANGED <<disk, saved, aborted, stopped, tool, threads, edits, wrote, pre, raced>>

(* Mutant: only the mutations of the turn are written.                     *)
SavesTurnOnly == saved' \in {saved, SelectSeq(journal, LAMBDA r : r.turn = turn)}

(* _auto_save: the whole session replaces the JSONL file; an error is      *)
(* logged and the old file stays.                                          *)
AutoSave == saved' \in {saved, journal}

(* The runtime is gone, and its memory with it.                            *)
Forget ==
  /\ alive' = FALSE /\ pooled' = FALSE /\ aborted' = FALSE /\ stopped' = FALSE
  /\ snap' = [p \in Paths |-> Unopened]
  /\ journal' = <<>>
  /\ base' = Nothing

(* turn() reaches a terminal outcome, saves it, and the stream's finally   *)
(* clause pops the session from the pool.                                  *)
EndTurn ==
  /\ alive /\ tool = Idle
  /\ AutoSave
  /\ Forget
  /\ UNCHANGED <<disk, turn, tool, threads, edits, wrote, pre, raced>>

(* v2_abort: the session leaves the pool at once and _aborted is set; the  *)
(* runtime notices at its next check.                                      *)
Abort ==
  /\ pooled
  /\ pooled' = FALSE /\ aborted' = TRUE
  /\ UNCHANGED <<disk, memVars, saved, turn, alive, tool, threads, edits, histVars>>

-----------------------------------------------------------------------------
(***************************************************************************)
(* One file mutation.                                                      *)
(***************************************************************************)

(* Mutant: the hash of a clean tab is not compared.                        *)
ConflictIfDirty(p) == snap[p] = Dirty

(* _editor_conflict: a dirty tab, or a clean tab whose hash is not the     *)
(* hash of the file on disk.  A file that is missing, or that is not text, *)
(* is no conflict.                                                         *)
EditorConflict(p) ==
  \/ snap[p] = Dirty
  \/ snap[p] \in Content /\ disk[p] \in Text /\ disk[p] # snap[p]

(* applied_mutation: the latest live record of the same operation whose    *)
(* result is still what the file holds.  Comparing raises when the file is *)
(* no longer text.                                                         *)
SameOp(op, p) == {i \in DOMAIN journal : /\ journal[i].path = p /\ journal[i].op = op
                                         /\ ~journal[i].undone}
AlreadyApplied(op, p) ==
  \E i \in SameOp(op, p) : /\ \A j \in SameOp(op, p) : j <= i
                           /\ disk[p] = journal[i].after
CompareRaises(op, p) == SameOp(op, p) # {} /\ disk[p] \in Undecodable

Exports(op) == op[1] = "export_document"

MayCallTool == alive /\ ~stopped /\ tool = Idle

(* A tool call is over: the loop checks for an abort before the next one.  *)
Finished(stop) ==
  /\ tool' = Idle
  /\ stopped' = (stopped \/ aborted \/ stop)

(* The pre-image, read just before the tool's task is scheduled.  A file   *)
(* that cannot be decoded counts as missing; exports are read as bytes.    *)
BeforeImage(p, op) == IF disk[p] \in Text \/ Exports(op) THEN disk[p] ELSE Absent

Call(ph, op, p, before) ==
  tool' = [ph |-> ph, op |-> op, path |-> p, before |-> before, text |-> Absent]

(* The checks made before the user is asked.  What the session has already *)
(* approved goes on without an await to the pre-image.                     *)
Propose(op, p) ==
  /\ MayCallTool /\ Len(journal) < MaxRecords
  /\ Exports(op) \/ ~(AlreadyApplied(op, p) \/ CompareRaises(op, p) \/ EditorConflict(p))
  /\ Call("asked", op, p, Absent) \/ Call("ready", op, p, BeforeImage(p, op))
  /\ UNCHANGED <<disk, memVars, saved, runVars, threads, edits, histVars>>

(* A repeated operation is answered "no change".                           *)
SkipDuplicate(op, p) ==
  /\ MayCallTool /\ ~Exports(op) /\ AlreadyApplied(op, p)
  /\ Finished(FALSE)
  /\ AutoSave
  /\ UNCHANGED <<disk, snap, journal, runVars, threads, edits, histVars>>

(* A conflict stops the tool loop, for only the user can resolve it; so    *)
(* does the exception of a failed comparison.                              *)
RefuseConflict(op, p) ==
  /\ MayCallTool /\ ~Exports(op) /\ ~AlreadyApplied(op, p)
  /\ CompareRaises(op, p) \/ EditorConflict(p)
  /\ Finished(TRUE)
  /\ AutoSave
  /\ UNCHANGED <<disk, snap, journal, runVars, threads, edits, histVars>>

(* v2_approve finds the runtime through the pool.                          *)
Approve ==
  /\ tool.ph = "asked" /\ pooled
  /\ tool' = [tool EXCEPT !.ph = "approved"]
  /\ UNCHANGED <<disk, memVars, saved, runVars, threads, edits, histVars>>

(* Denied, timed out, or released by abort: nothing is written.            *)
Deny ==
  /\ tool.ph = "asked"
  /\ Finished(TRUE)
  /\ AutoSave
  /\ UNCHANGED <<disk, snap, journal, runVars, threads, edits, histVars>>

(* The waiter resumes: pre-image, then the tool's task.                    *)
Capture ==
  /\ tool.ph = "approved"
  /\ tool' = [tool EXCEPT !.ph = "ready", !.before = BeforeImage(tool.path, tool.op)]
  /\ UNCHANGED <<disk, memVars, saved, runVars, threads, edits, histVars>>

(* What the tool makes of the file: str_replace and a write_file in append *)
(* mode edit the text they find.                                           *)
Product(c) ==
  \/ Kind # "str_replace" /\ c = tool.op[2]
  \/ Kind # "export_document" /\ disk[tool.path] \in Text \ {c}

Execute ==
  /\ tool.ph = "ready"
  /\ \E c \in Text :
       /\ Product(c)
       /\ disk' = [disk EXCEPT ![tool.path] = c]
       /\ tool' = [tool EXCEPT !.ph = "written", !.text = c]
       /\ base' = [base EXCEPT ![tool.path] = c]
       /\ wrote' = wrote \cup {<<turn, tool.path, c>>}
       /\ pre' = IF \E w \in wrote : w[1] = turn /\ w[2] = tool.path THEN pre
                 ELSE pre \cup {<<turn, tool.path, disk[tool.path]>>}
  /\ UNCHANGED <<memVars, saved, runVars, threads, edits, raced>>

(* The tool fails, or abort cancels its task before it ran: no write.      *)
ExecuteFails ==
  /\ tool.ph = "ready"
  /\ Finished(FALSE)
  /\ AutoSave
  /\ UNCHANGED <<disk, snap, journal, runVars, threads, edits, histVars>>

(* abort, or the execution lease, cancels the await of an export whose     *)
(* write already runs in a worker thread: the call is reported "skipped",  *)
(* the thread goes on.                                                     *)
Detach ==
  /\ tool.ph = "ready" /\ Exports(tool.op)
  /\ threads' = threads \cup {<<tool.path, tool.op[2]>>}
  /\ Finished(TRUE)
  /\ AutoSave
  /\ UNCHANGED <<disk, snap, journal, runVars, edits, histVars>>

(* Somebody other than the tool in flight changes files.                   *)
Foreign(new) ==
  /\ disk' = new
  /\ raced' = raced \cup {<<turn, p>> : p \in {q \in Paths : /\ new[q] # disk[q]
                                                             /\ tool # Idle /\ tool.path = q}}
  /\ UNCHANGED <<wrote, pre>>

ThreadWrite ==
  \E w \in threads :
    /\ Foreign([disk EXCEPT ![w[1]] = w[2]])
    /\ threads' = threads \ {w}
    /\ UNCHANGED <<memVars, saved, runVars, tool, edits, base>>

(* Mutant: files the tool created are not taken.                           *)
ReadBackEdits(p, op) == disk[p] \in Text /\ tool.before # Absent

(* What the tool left can be read, exports as bytes.                       *)
ReadBack(p, op) == disk[p] \in IF Exports(op) THEN Content ELSE Text

(* The file is read back and the mutation enters the journal.  A file that *)
(* cannot be read back is only warned about.                               *)
RecordMutation ==
  /\ tool.ph = "written"
  /\ journal' = IF ReadBack(tool.path, tool.op)
                THEN Append(journal, [turn |-> turn, path |-> tool.path,
                                      before |-> tool.before, after |-> disk[tool.path],
                                      op |-> tool.op, undone |-> FALSE])
                ELSE journal
  /\ tool' = [tool EXCEPT !.ph = "recorded"]
  /\ UNCHANGED <<disk, snap, stopped, saved, runVars, threads, edits, histVars>>

(* The tool result is appended to the session, which is saved.             *)
Report ==
  /\ tool.ph = "recorded"
  /\ AutoSave
  /\ tool' = [tool EXCEPT !.ph = "reported"]
  /\ UNCHANGED <<disk, memVars, runVars, threads, edits, histVars>>

(* Mutant: that the file may be gone is forgotten.                         *)
AdvanceAnyway ==
  /\ tool.ph = "reported"
  /\ snap' = IF snap[tool.path] \in Content
             THEN [snap EXCEPT ![tool.path] = disk[tool.path]]
             ELSE snap
  /\ Finished(FALSE)
  /\ UNCHANGED <<disk, journal, saved, runVars, threads, edits, histVars>>

(* _advance_editor_snapshot: the file, read once more, is the new clean    *)
(* base of the editor tab.                                                 *)
Advance ==
  /\ tool.ph = "reported"
  /\ snap' = IF snap[tool.path] \in Content /\ disk[tool.path] # Absent
             THEN [snap EXCEPT ![tool.path] = disk[tool.path]]
             ELSE snap
  /\ Finished(FALSE)
  /\ UNCHANGED <<disk, journal, saved, runVars, threads, edits, histVars>>

-----------------------------------------------------------------------------
(***************************************************************************)
(* Undo: v2_undo loads the session from disk, undo_last_turn, save.        *)
(***************************************************************************)

LiveRecords == {i \in DOMAIN saved : ~saved[i].undone}

LastOf(S)  == CHOOSE i \in S : \A j \in S : j <= i
FirstOf(S) == CHOOSE i \in S : \A j \in S : i <= j

(* The turn of the last live record, and its live records.                 *)
UndoTurn == saved[LastOf(LiveRecords)].turn

(* Mutant: the last mutation instead of the last turn.                     *)
UndoLast == {LastOf(LiveRecords)}

UndoSet  == {i \in LiveRecords : saved[i].turn = UndoTurn}

OnPath(R, p) == {i \in R : saved[i].path = p}

(* Mutant: the latest pre-image instead of the first.                      *)
RestoredOnce(R) ==
  [p \in Paths |-> IF OnPath(R, p) = {} THEN disk[p]
                   ELSE saved[LastOf(OnPath(R, p))].before]

(* The files once the records of R, the last ones of the turn, are undone. *)
Restored(R) ==
  [p \in Paths |-> IF OnPath(R, p) = {} THEN disk[p]
                   ELSE saved[FirstOf(OnPath(R, p))].before]

(* The first pass: every file still holds the turn's last result.          *)
Validated == \A p \in {saved[i].path : i \in UndoSet} :
                disk[p] = saved[LastOf(OnPath(UndoSet, p))].after

(* The second pass walks backwards and stops at a record whose result is   *)
(* not what undoing the later ones has left in the file.                   *)
Diverged == {i \in UndoSet :
               Restored({j \in UndoSet : j > i})[saved[i].path] # saved[i].after}
Restorable == {i \in UndoSet : \A d \in Diverged : d < i}

(* Mutant: the session may be active.                                      *)
UndoAnyTime == LiveRecords # {} /\ Validated

UndoStarts == ~pooled /\ LiveRecords # {} /\ Validated

(* Mutant: what the files hold is not compared with the journal.           *)
UndoBlindly ==
  /\ ~pooled /\ LiveRecords # {}
  /\ Foreign(Restored(UndoSet))
  /\ saved' = [i \in DOMAIN saved |->
                 IF i \in UndoSet THEN [saved[i] EXCEPT !.undone = TRUE] ELSE saved[i]]
  /\ UNCHANGED <<memVars, runVars, tool, threads, edits, base>>

(* Every record restored: the journal is marked and saved.                 *)
UndoSucceeds ==
  /\ UndoStarts /\ Diverged = {}
  /\ Foreign(Restored(UndoSet))
  /\ saved' = [i \in DOMAIN saved |->
                 IF i \in UndoSet THEN [saved[i] EXCEPT !.undone = TRUE] ELSE saved[i]]
  /\ UNCHANGED <<memVars, runVars, tool, threads, edits, base>>

(* "mutation chain diverged": raised after later records were restored,    *)
(* and the handler answers 409 without saving.                             *)
UndoDiverges ==
  /\ UndoStarts /\ Diverged # {}
  /\ Foreign(Restored(Restorable))
  /\ UNCHANGED <<memVars, saved, runVars, tool, threads, edits, base>>

(* Undo is cut short: the records from n on are restored, none is marked.  *)
(* After the last of them the file of the session may be missing as well:  *)
(* save_with_rotate moves a large one out of the way before it writes the  *)
(* new one, and only delete and cleanup look for it there.                 *)
CutShort ==
  /\ UndoStarts
  /\ \E n \in Restorable :
       /\ Foreign(Restored({i \in Restorable : i >= n}))
       /\ \/ saved' = saved
          \/ Rotates /\ (\A i \in UndoSet : n <= i) /\ saved' = <<>>

(* Writing a file, or the session after all of them, fails.                *)
UndoFails ==
  /\ CutShort
  /\ UNCHANGED <<memVars, runVars, tool, threads, edits, base>>

-----------------------------------------------------------------------------
(***************************************************************************)
(* The world.                                                              *)
(***************************************************************************)

(* The user saves, creates or deletes a file.                              *)
UserEdit(p, c) ==
  /\ edits < MaxEdits /\ c # disk[p]
  /\ edits' = edits + 1
  /\ Foreign([disk EXCEPT ![p] = c])
  /\ UNCHANGED <<memVars, saved, runVars, tool, threads, base>>

(* The process dies and is restarted; worker threads die with it.          *)
Die ==
  /\ Forget
  /\ tool' = Idle /\ threads' = {}
  /\ UNCHANGED <<turn, edits>>

Crash ==
  /\ alive \/ threads # {}
  /\ Die
  /\ UNCHANGED <<disk, saved, wrote, pre, raced>>

(* The process dies inside undo.                                           *)
UndoCrashes == CutShort /\ Die

ToolStep ==
  \/ Approve \/ Deny \/ Capture \/ Execute \/ ExecuteFails \/ Detach
  \/ RecordMutation \/ Report \/ Advance

ToolCall(op, p) == Propose(op, p) \/ SkipDuplicate(op, p) \/ RefuseConflict(op, p)

Undo == UndoSucceeds \/ UndoDiverges \/ UndoFails \/ UndoCrashes

Next ==
  \/ StartTurn \/ EndTurn \/ Abort
  \/ \E op \in Operations, p \in Paths : ToolCall(op, p)
  \/ ToolStep
  \/ ThreadWrite
  \/ Undo
  \/ \E p \in Paths, c \in FileState : UserEdit(p, c)
  \/ Crash

Spec == Init /\ [][Next]_vars

-----------------------------------------------------------------------------
(***************************************************************************)
(* Properties.                                                             *)
(***************************************************************************)

(* Types of the state. *)
TypeOK ==
  /\ disk \in [Paths -> FileState]
  /\ snap \in [Paths -> Content \cup {Dirty, Unopened}]
  /\ journal \in Seq(Record) /\ saved \in Seq(Record)
  /\ turn \in Nat
  /\ alive \in BOOLEAN /\ pooled \in BOOLEAN
  /\ aborted \in BOOLEAN /\ stopped \in BOOLEAN
  /\ tool \in InFlight \cup {Idle}
  /\ threads \subseteq Paths \X Text
  /\ edits \in Nat
  /\ base \in [Paths -> FileState]
  /\ wrote \subseteq Nat \X Paths \X Text
  /\ pre \subseteq Nat \X Paths \X FileState
  /\ raced \subseteq Nat \X Paths

(* A turn is undone as a whole or not at all, in memory and on disk: undo  *)
(* marks every record of the turn it reverts, a save of the runtime never  *)
(* mixes marked and unmarked ones, and no record joins an undone turn.     *)
UndoneTogether ==
  \A J \in {journal, saved} : \A i, j \in DOMAIN J :
    J[i].turn = J[j].turn => J[i].undone = J[j].undone

(* The journal on disk only grows: whatever saves interleave with undo,    *)
(* crashes and failed saves, no record is lost, altered or reordered (but  *)
(* for its mark).  An undo that is cut short between the rotation of the   *)
(* session file and its rewrite leaves no file where load looks for it.    *)
Lost == CutShort /\ saved' = <<>>
JournalOnlyGrows ==
  [][Lost \/ /\ Len(saved) <= Len(saved')
             /\ \A i \in DOMAIN saved :
                  [saved[i] EXCEPT !.undone = TRUE] = [saved'[i] EXCEPT !.undone = TRUE]]_vars

(* An undo mark is only ever taken back by the save of a runtime that was  *)
(* aborted and had not wound down when its session was undone.             *)
UndoMarksLast ==
  [][~Lost /\ (\E i \in DOMAIN saved : saved[i].undone /\ ~saved'[i].undone) => aborted]_vars

(* While the runtime lives, a file that holds what its tool last put there *)
(* can be undone: the latest record of it says so.  The exception is a     *)
(* file somebody else wrote during a mutation of it.                       *)
WrittenIsJournaled ==
  \A p \in Paths :
    (/\ alive /\ <<turn, p, disk[p]>> \in wrote /\ disk[p] = base[p]
     /\ <<turn, p>> \notin raced
     /\ ~(tool # Idle /\ tool.ph = "written" /\ tool.path = p))
    => \E i \in DOMAIN journal :
         /\ journal[i].turn = turn /\ journal[i].path = p /\ journal[i].after = disk[p]
         /\ ~journal[i].undone
         /\ \A j \in DOMAIN journal : j > i => journal[j].path # p

(* The step in which a tool writes. *)
ToolWrites == tool.ph = "ready" /\ tool'.ph = "written"

(* A write to a file open in a clean tab replaces the text the editor      *)
(* showed, or the Agent's own, and not one that came from elsewhere since: *)
(* the conflict check and the advancing snapshot see to it.  Exempt are    *)
(* files written by somebody else during a mutation of them, and files     *)
(* that are not text.                                                      *)
NoBlindOverwrite ==
  [][(/\ ToolWrites /\ ~Exports(tool.op)
      /\ snap[tool.path] \in Content /\ <<turn, tool.path>> \notin raced)
     => disk[tool.path] \in {base[tool.path], Absent} \cup Undecodable]_vars

(* Undo, whole, cut short by divergence, a failed write or a crash, or run *)
(* while an aborted turn winds down, replaces only text that a tool put in *)
(* the file in the turn being undone; exempt are files somebody else wrote *)
(* during a mutation of that turn.                                         *)
UndoSparesUserText ==
  [][Undo => \A p \in Paths :
       disk'[p] # disk[p] => \/ <<UndoTurn, p, disk[p]>> \in wrote
                             \/ <<UndoTurn, p>> \in raced]_vars

(* The files of the turn that is undone hold what it first replaced.  *)
RestoresPreTurn ==
  \A i \in UndoSet :
    \E w \in pre : /\ w[1] = UndoTurn /\ w[2] = saved[i].path
                  /\ \/ disk'[w[2]] = w[3]
                     \/ <<w[1], w[2]>> \in raced
                     \/ w[3] \in Undecodable

(* A successful undo gives each file back the content it had when the turn *)
(* first wrote it, however often the turn wrote it and whoever wrote in    *)
(* between.  Exempt are files somebody else wrote during a mutation of     *)
(* that turn, and files that were not text.                                *)
UndoRestoresPreTurn == [][UndoSucceeds => RestoresPreTurn]_vars

-----------------------------------------------------------------------------
(***************************************************************************)
(* What the documentation says and the code does not keep.                 *)
(***************************************************************************)

(* "Never ... bypass a hash conflict": no write to a file that, at that    *)
(* moment, is in conflict with the editor.                                 *)
NoConflictAtWrite == [][ToolWrites /\ ~Exports(tool.op) => ~EditorConflict(tool.path)]_vars

=============================================================================
