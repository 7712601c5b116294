---------------------------- MODULE EditorAssist ----------------------------
(* The editor's help with the text: an edit of the selection, streamed by  *)
(* /api/edit and put into the editor when it is complete, while the user   *)
(* and the agent go on writing; and the Word exports, which are served for *)
(* half an hour and removed by a reaper.  A text is a sequence of cells.   *)
EXTENDS Integers, FiniteSets, SequencesExt

CONSTANTS
  Tabs,          \* open files
  Output, Notice,\* what an edit puts into the text: the model's, a message
  NoEdit,
  MaxCells,      \* bound: cells of one text
  MaxTokens,     \* bound: tokens of one answer
  MaxEdits,      \* bound: edits
  Exports,       \* names of Word exports
  NoExport,
  Expiry,        \* minutes an export is kept (30), in wakes of the reaper
  Period,        \* minutes between two wakes (5), likewise
  MaxAge         \* bound: the age an export is told apart to

ASSUME EditorAssumption ==
  /\ {MaxCells, MaxTokens, MaxEdits, Expiry, Period, MaxAge} \subseteq Nat
  /\ Tabs # {} /\ MaxCells >= 2 /\ Notice \notin 0 .. MaxTokens
  /\ Period > 0 /\ Expiry + Period < MaxAge

VARIABLES
  opened,    \* tab -> its text
  shownTab,  \* the tab in the editor
  edit,      \* the edit that runs
  struck,    \* what the last of the edits removed, and what had been selected
  wordFiles, \* name -> age of the file, or NoExport
  reaper     \* whether the server is up, whether the reaper has swept since
             \* its last failure, time since its wake, files it could not remove

assistVars == <<opened, shownTab, edit, struck>>
exportVars == <<wordFiles, reaper>>

Cell == (1 .. MaxCells) \cup {Output, Notice}

AssistInit ==
  /\ opened = [t \in Tabs |-> <<1, 2>>]
  /\ shownTab = CHOOSE t \in Tabs : TRUE
  /\ edit = NoEdit /\ struck = [gone |-> {}, selected |-> {}, touched |-> FALSE, edits |-> 0]

ExportInit ==
  /\ wordFiles = [f \in Exports |-> NoExport]
  /\ reaper = [up |-> TRUE, swept |-> FALSE, since |-> 0, stuck |-> {}]

EditorInit == AssistInit /\ ExportInit

(***************************************************************************)
(* Writing, meanwhile                                                      *)
(***************************************************************************)
Touched == IF edit = NoEdit THEN NoEdit ELSE [edit EXCEPT !.touched = TRUE]

NewCell(text) == CHOOSE c \in 1 .. MaxCells : c \notin ToSet(text)

(* The user types, or the agent's write arrives (applyExternalFileUpdate). *)
WriteText(at) ==
  LET text == opened[shownTab]
  IN  /\ Len(text) < MaxCells /\ at \in 1 .. Len(text) + 1
      /\ opened' = [opened EXCEPT ![shownTab] = InsertAt(text, at, NewCell(text))]
      /\ edit' = Touched
      /\ UNCHANGED <<shownTab, struck>>

SwitchTab(tab) ==
  /\ tab # shownTab
  /\ shownTab' = tab /\ edit' = Touched
  /\ UNCHANGED <<opened, struck>>

(***************************************************************************)
(* An edit of the selection                                                *)
(***************************************************************************)
(* The page takes the range and its text; without a cloud key the server   *)
(* answers with a message in the place of the text.                        *)
SubmitEdit(from, to, configured) ==
  LET text == opened[shownTab]
  IN  /\ edit = NoEdit /\ struck.edits < MaxEdits
      /\ from \in DOMAIN text /\ to \in DOMAIN text /\ from <= to
      /\ edit' = [from |-> from, to |-> to, selected |-> ToSet(SubSeq(text, from, to)),
                  full |-> 0, deltas |-> IF configured THEN <<>> ELSE <<Notice>>,
                  shown |-> 0, ended |-> IF configured THEN "no" ELSE "done", touched |-> FALSE]
      /\ UNCHANGED <<opened, shownTab, struck>>

Streaming == edit # NoEdit /\ edit.ended = "no"

TokenOnly(full) == IF full = 0 THEN 0 ELSE 1

(* Every delta holds all that has come so far.                             *)
DeltaOf(full) == full

Token ==
  /\ Streaming /\ edit.full < MaxTokens
  /\ edit' = [edit EXCEPT !.full = @ + 1, !.deltas = Append(@, DeltaOf(edit.full + 1))]
  /\ UNCHANGED <<opened, shownTab, struck>>

StreamEnds ==
  /\ Streaming
  /\ edit' = [edit EXCEPT !.ended = "done", !.deltas = Append(@, DeltaOf(edit.full))]
  /\ UNCHANGED <<opened, shownTab, struck>>

(* The error event has no content: the page passes over it.                *)
StreamBreaks ==
  /\ Streaming
  /\ edit' = [edit EXCEPT !.ended = "broken"]
  /\ UNCHANGED <<opened, shownTab, struck>>

ReadDelta ==
  /\ edit # NoEdit /\ edit.deltas # <<>>
  /\ edit' = [edit EXCEPT !.deltas = Tail(@),
                          !.shown = IF Head(edit.deltas) = 0 THEN @ ELSE Head(edit.deltas)]
  /\ UNCHANGED <<opened, shownTab, struck>>

RequestFails ==
  /\ edit # NoEdit
  /\ edit' = [edit EXCEPT !.ended = "broken", !.deltas = <<>>, !.shown = Notice]
  /\ UNCHANGED <<opened, shownTab, struck>>

EditOver == edit # NoEdit /\ edit.ended # "no" /\ edit.deltas = <<>>

(* What goes into the text: the answer, whole or not, or a message.        *)
Replacement == IF edit.shown \in {0, Notice} THEN Notice ELSE Output

ToItsEnd(text) == {i \in DOMAIN text : edit.from <= i}

RangeOf(text) == {i \in DOMAIN text : edit.from <= i /\ i <= edit.to}

(* The range of the submit, in the text the editor now shows.              *)
PutBack ==
  LET text == opened[shownTab]
      gone == RangeOf(text)
      cut  == IF edit.from <= Len(text) THEN edit.from ELSE Len(text) + 1
  IN  /\ EditOver
      /\ opened' = [opened EXCEPT ![shownTab] =
           SubSeq(text, 1, cut - 1) \o <<Replacement>> \o
           SubSeq(text, cut + Cardinality(gone), Len(text))]
      /\ struck' = [gone |-> {text[i] : i \in gone}, selected |-> edit.selected,
                    touched |-> edit.touched, edits |-> struck.edits + 1]
      /\ edit' = NoEdit
      /\ UNCHANGED shownTab

AssistNext ==
  \/ \E at \in 1 .. MaxCells : WriteText(at)
  \/ \E tab \in Tabs : SwitchTab(tab)
  \/ \E from, to \in 1 .. MaxCells, configured \in BOOLEAN : SubmitEdit(from, to, configured)
  \/ Token \/ StreamEnds \/ StreamBreaks \/ ReadDelta \/ RequestFails \/ PutBack

(***************************************************************************)
(* Word exports                                                            *)
(***************************************************************************)
Older(age) == IF age = NoExport \/ age = MaxAge THEN age ELSE age + 1
Expired == {f \in Exports : wordFiles[f] # NoExport /\ wordFiles[f] > Expiry}

ExportWord(f) ==
  /\ reaper.up /\ wordFiles[f] = NoExport
  /\ wordFiles' = [wordFiles EXCEPT ![f] = 0]
  /\ UNCHANGED reaper

(* An expired export is removed when it is asked for, and not served.      *)
DownloadWord(f) ==
  /\ reaper.up /\ f \in Expired
  /\ wordFiles' = [wordFiles EXCEPT ![f] = NoExport]
  /\ reaper' = [reaper EXCEPT !.stuck = @ \ {f}]

(* Time passes; the reaper's wake is not put off.                          *)
Minutes ==
  /\ reaper.up => reaper.since < Period
  /\ wordFiles' = [f \in Exports |-> Older(wordFiles[f])]
  /\ reaper' = [reaper EXCEPT !.since = IF reaper.up THEN @ + 1 ELSE 0]

StopsAtStuck(stuck) == IF stuck = {} THEN Expired ELSE {}

(* A file that cannot be removed does not keep the others.                 *)
SweptFiles(stuck) == Expired \ stuck

Sweep(stuck) ==
  /\ reaper.up /\ reaper.since = Period
  /\ wordFiles' = [f \in Exports |-> IF f \in SweptFiles(stuck) THEN NoExport ELSE wordFiles[f]]
  /\ reaper' = [reaper EXCEPT !.swept = TRUE, !.since = 0, !.stuck = stuck]

SweepFails ==
  /\ reaper.up /\ reaper.since = Period
  /\ reaper' = [reaper EXCEPT !.swept = FALSE, !.since = 0]
  /\ UNCHANGED wordFiles

StopOrStart ==
  /\ reaper' = [up |-> ~reaper.up, swept |-> FALSE, since |-> 0, stuck |-> {}]
  /\ UNCHANGED wordFiles

ExportNext ==
  \/ \E f \in Exports : ExportWord(f) \/ DownloadWord(f)
  \/ Minutes
  \/ \E stuck \in SUBSET Expired : Sweep(stuck)
  \/ SweepFails \/ StopOrStart

EditorNext ==
  \/ AssistNext /\ UNCHANGED exportVars
  \/ ExportNext /\ UNCHANGED assistVars

EditorSpec == EditorInit /\ [][EditorNext]_<<assistVars, exportVars>>

(***************************************************************************)
(* Properties                                                              *)
(***************************************************************************)
(* Texts, edits and exports have their types.                              *)
EditorTypeOK ==
  /\ \A t \in Tabs : ToSet(opened[t]) \subseteq Cell
  /\ shownTab \in Tabs
  /\ edit # NoEdit =>
       /\ edit.from \in 1 .. MaxCells /\ edit.to \in 1 .. MaxCells
       /\ edit.ended \in {"no", "done", "broken"}
  /\ wordFiles \in [Exports -> (0 .. MaxAge) \cup {NoExport}]
  /\ reaper.since \in 0 .. Period /\ reaper.stuck \subseteq Exports

(* An edit that is read to its good end (_stream_llm, aiEdit) gives the    *)
(* page every token that came, and one whose text nobody touched meanwhile *)
(* removes what was selected and nothing else; and once the reaper has     *)
(* swept, no export but one it could not remove outlives its half hour by  *)
(* more than the time since the sweep.                                     *)
EditorKept ==
  /\ EditOver /\ edit.ended = "done" /\ edit.shown # Notice => edit.shown = edit.full
  /\ ~struck.touched => struck.gone = struck.selected
  /\ reaper.up /\ reaper.swept =>
       \A f \in Exports \ reaper.stuck :
         wordFiles[f] = NoExport \/ wordFiles[f] <= Expiry + reaper.since

(* An edit is one "for the current selection": it removes nothing else.    *)
EditKeepsTheRest == struck.gone \subseteq struck.selected
=============================================================================
