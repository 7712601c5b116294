------------------------- MODULE MutationJournalProofs -------------------------
(***************************************************************************)
(* Proofs about MutationJournal, for all files, texts, tools and bounds.   *)
(*                                                                         *)
(* The journal exists twice: in the runtime's memory and on disk, and undo *)
(* works on the second behind the back of a runtime that was aborted.      *)
(* What makes the whole consistent is that the copy in memory is the one   *)
(* on disk, perhaps longer, and but for marks (MemoryCoversDisk); that     *)
(* only an aborted runtime can miss a mark (MarksKnown); and that a turn's *)
(* number is new when it starts (TurnsPast, CurrentTurnLive).  That undo   *)
(* and the tools write over no one's text rests on what the records say of *)
(* the files (RInv) and on what a call in flight has checked (CInv).       *)
(***************************************************************************)
EXTENDS MutationJournal, WellFoundedInduction, TLAPS

TurnsPast == \A J \in {journal, saved} : \A i \in DOMAIN J : J[i].turn <= turn

CurrentTurnLive ==
  alive => \A i \in DOMAIN journal : journal[i].turn = turn => ~journal[i].undone

(* The runtime's state goes with the runtime. *)
RuntimeOwnsTool ==
  /\ tool # Idle => alive
  /\ ~alive => journal = <<>>
  /\ alive /\ ~aborted => pooled

SameButForMark(r, s) == [r EXCEPT !.undone = TRUE] = [s EXCEPT !.undone = TRUE]

MemoryCoversDisk ==
  alive => /\ Len(saved) <= Len(journal)
           /\ \A i \in DOMAIN saved : SameButForMark(saved[i], journal[i])

MarksKnown ==
  alive /\ ~aborted => \A i \in DOMAIN saved : saved[i].undone => journal[i].undone

IInv ==
  /\ TypeOK
  /\ RuntimeOwnsTool
  /\ TurnsPast /\ CurrentTurnLive
  /\ UndoneTogether
  /\ MemoryCoversDisk /\ MarksKnown

-----------------------------------------------------------------------------
(* The first of some records is one of them, and none comes before it. *)
LEMMA FirstIsLeast ==
  ASSUME NEW S, S \subseteq Nat, S # {}
  PROVE  FirstOf(S) \in S /\ \A j \in S : FirstOf(S) <= j
<1>1. PICK i \in S : \A j \in S : <<j, i>> \notin OpToRel(<, Nat)
  BY WFMin, NatLessThanWellFounded, Zenon
<1>2. \A j \in S : ~(j < i)
  BY <1>1, Zenon DEF OpToRel
<1>3. \A j \in S : i <= j
  BY <1>2
<1> QED
  BY <1>3 DEF FirstOf

(* Putting pre-images back gives every file a state it may have. *)
LEMMA RestoredType ==
  ASSUME TypeOK, NEW R, R \subseteq DOMAIN saved
  PROVE  Restored(R) \in [Paths -> FileState]
<1>1. ASSUME NEW p \in Paths, OnPath(R, p) # {}
      PROVE  saved[FirstOf(OnPath(R, p))].before \in FileState
  <2>1. OnPath(R, p) \subseteq DOMAIN saved /\ DOMAIN saved \subseteq Nat
    BY DEF OnPath, TypeOK
  <2>2. FirstOf(OnPath(R, p)) \in DOMAIN saved
    BY <1>1, <2>1, FirstIsLeast
  <2>3. saved[FirstOf(OnPath(R, p))] \in Record
    BY <2>2 DEF TypeOK
  <2> QED
    BY <2>3 DEF Record
<1> QED
  BY <1>1 DEF Restored, TypeOK

(* Another's write changes files and the history of such writes. *)
LEMMA ForeignType ==
  ASSUME TypeOK, NEW new \in [Paths -> FileState], Foreign(new)
  PROVE  /\ disk' \in [Paths -> FileState]
         /\ raced' \subseteq Nat \X Paths
         /\ wrote' \subseteq Nat \X Paths \X Text
         /\ pre' \subseteq Nat \X Paths \X FileState
BY DEF Foreign, TypeOK

(* A save puts a journal on disk. *)
LEMMA AutoSaveType == TypeOK /\ AutoSave => saved' \in Seq(Record)
BY DEF TypeOK, AutoSave

(* The parts of the session that a restored turn consists of. *)
LEMMA UndoSets ==
  ASSUME TypeOK
  PROVE  /\ UndoSet \subseteq DOMAIN saved
         /\ Restorable \subseteq DOMAIN saved
         /\ \A n : {i \in Restorable : i >= n} \subseteq DOMAIN saved
BY DEF UndoSet, LiveRecords, Restorable

-----------------------------------------------------------------------------
(***************************************************************************)
(* Type correctness.                                                       *)
(***************************************************************************)

(* The initial state is of the declared types. *)
LEMMA InitType == Init => TypeOK
<1> SUFFICES ASSUME Init PROVE TypeOK
  OBVIOUS
<1>1. journal \in Seq(Record) /\ saved \in Seq(Record)
  BY DEF Init
<1>2. base \in [Paths -> FileState] /\ snap \in [Paths -> Content \cup {Dirty, Unopened}]
  BY DEF Init, Nothing, FileState
<1> QED
  BY <1>1, <1>2 DEF Init, TypeOK

(* Starting, ending and aborting a turn keep the types. *)
LEMMA TurnType == TypeOK /\ (StartTurn \/ EndTurn \/ Abort) => TypeOK'
<1> SUFFICES ASSUME TypeOK PROVE StartTurn \/ EndTurn \/ Abort => TypeOK'
  OBVIOUS
<1>1. CASE StartTurn
  BY <1>1 DEF StartTurn, TypeOK, Text, FileState
<1>2. CASE EndTurn
  <2>1. journal' \in Seq(Record) /\ saved' \in Seq(Record)
    BY <1>2, AutoSaveType DEF EndTurn, Forget
  <2>2. base' \in [Paths -> FileState] /\ snap' \in [Paths -> Content \cup {Dirty, Unopened}]
    BY <1>2 DEF EndTurn, Forget, Nothing, FileState
  <2> QED
    BY <1>2, <2>1, <2>2 DEF EndTurn, Forget, TypeOK
<1>3. CASE Abort
  BY <1>3 DEF Abort, TypeOK, memVars, histVars
<1> QED
  BY <1>1, <1>2, <1>3

(* The checks of a tool call keep the types. *)
LEMMA ToolCallType ==
  ASSUME TypeOK, NEW op \in Operations, NEW p \in Paths, ToolCall(op, p)
  PROVE  TypeOK'
<1>1. CASE Propose(op, p)
  <2>1. BeforeImage(p, op) \in FileState /\ Absent \in FileState
    BY DEF BeforeImage, FileState, TypeOK
  <2>2. tool' \in InFlight
    BY <1>1, <2>1 DEF Propose, Call, InFlight, Phases
  <2> QED
    BY <1>1, <2>2 DEF Propose, TypeOK, memVars, runVars, histVars
<1>2. CASE SkipDuplicate(op, p)
  BY <1>2, AutoSaveType DEF SkipDuplicate, Finished, TypeOK, runVars, histVars
<1>3. CASE RefuseConflict(op, p)
  BY <1>3, AutoSaveType DEF RefuseConflict, Finished, TypeOK, runVars, histVars
<1> QED
  BY <1>1, <1>2, <1>3 DEF ToolCall

(* A mutation past its proposal has an operation, a file and two texts. *)
LEMMA InFlightFields ==
  ASSUME TypeOK, tool.ph \in Phases
  PROVE  /\ tool \in InFlight
         /\ tool.op \in Operations /\ tool.path \in Paths
         /\ tool.before \in FileState /\ tool.text \in FileState
BY DEF TypeOK, InFlight, Idle, Phases

(* A tool's write keeps the types. *)
LEMMA ExecuteType == TypeOK /\ Execute => TypeOK'
<1> SUFFICES ASSUME TypeOK, Execute PROVE TypeOK'
  OBVIOUS
<1>1. tool \in InFlight /\ tool.path \in Paths
  BY InFlightFields DEF Execute, Phases
<1>2. PICK c \in Text :
        /\ disk' = [disk EXCEPT ![tool.path] = c]
        /\ tool' = [tool EXCEPT !.ph = "written", !.text = c]
        /\ base' = [base EXCEPT ![tool.path] = c]
        /\ wrote' = wrote \cup {<<turn, tool.path, c>>}
        /\ pre' = IF \E w \in wrote : w[1] = turn /\ w[2] = tool.path THEN pre
                  ELSE pre \cup {<<turn, tool.path, disk[tool.path]>>}
  BY DEF Execute
<1>3. c \in FileState
  BY DEF Text, FileState
<1>4. tool' \in InFlight
  BY <1>1, <1>2, <1>3 DEF InFlight, Phases
<1>5. disk' \in [Paths -> FileState] /\ base' \in [Paths -> FileState]
  BY <1>2, <1>3 DEF TypeOK
<1>6. wrote' \subseteq Nat \X Paths \X Text /\ pre' \subseteq Nat \X Paths \X FileState
  BY <1>1, <1>2 DEF TypeOK
<1> QED
  BY <1>4, <1>5, <1>6 DEF Execute, TypeOK, memVars, runVars

(* A record of the journal is one. *)
LEMMA RecordType == TypeOK /\ RecordMutation => TypeOK'
<1> SUFFICES ASSUME TypeOK, RecordMutation PROVE TypeOK'
  OBVIOUS
<1>1. /\ tool \in InFlight
      /\ tool.op \in Operations /\ tool.path \in Paths /\ tool.before \in FileState
  BY InFlightFields DEF RecordMutation, Phases
<1>2. tool' \in InFlight
  BY <1>1 DEF RecordMutation, InFlight, Phases
<1>3. journal' \in Seq(Record)
  <2>1. CASE UNCHANGED journal
    BY <2>1 DEF TypeOK
  <2>2. CASE /\ disk[tool.path] \in Content
             /\ journal' = Append(journal, [turn |-> turn, path |-> tool.path,
                                            before |-> tool.before, after |-> disk[tool.path],
                                            op |-> tool.op, undone |-> FALSE])
    <3>1. [turn |-> turn, path |-> tool.path, before |-> tool.before,
           after |-> disk[tool.path], op |-> tool.op, undone |-> FALSE] \in Record
      BY <1>1, <2>2 DEF Record, TypeOK
    <3> QED
      BY <2>2, <3>1 DEF TypeOK
  <2> QED
    BY <2>1, <2>2 DEF RecordMutation, ReadBack, Text
<1> QED
  BY <1>2, <1>3 DEF RecordMutation, TypeOK, runVars, histVars

(* Every later step of a tool call keeps the types. *)
LEMMA ToolStepType == TypeOK /\ ToolStep => TypeOK'
<1> SUFFICES ASSUME TypeOK, ToolStep PROVE TypeOK'
  OBVIOUS
<1>1. CASE Approve
  <2>1. tool' \in InFlight
    BY <1>1, InFlightFields DEF Approve, InFlight, Phases
  <2> QED
    BY <1>1, <2>1 DEF Approve, TypeOK, memVars, runVars, histVars
<1>2. CASE Deny
  BY <1>2, AutoSaveType DEF Deny, Finished, TypeOK, runVars, histVars
<1>3. CASE Capture
  <2>1. tool \in InFlight /\ tool.path \in Paths
    BY <1>3, InFlightFields DEF Capture, Phases
  <2>2. BeforeImage(tool.path, tool.op) \in FileState
    BY <2>1 DEF BeforeImage, FileState, TypeOK
  <2>3. tool' \in InFlight
    BY <1>3, <2>1, <2>2 DEF Capture, InFlight, Phases
  <2> QED
    BY <1>3, <2>3 DEF Capture, TypeOK, memVars, runVars, histVars
<1>4. CASE Execute
  BY <1>4, ExecuteType
<1>5. CASE ExecuteFails
  BY <1>5, AutoSaveType DEF ExecuteFails, Finished, TypeOK, runVars, histVars
<1>6. CASE Detach
  <2>1. tool.path \in Paths /\ tool.op[2] \in Text
    BY <1>6, InFlightFields DEF Detach, Phases, Operations
  <2> QED
    BY <1>6, <2>1, AutoSaveType DEF Detach, Finished, TypeOK, runVars, histVars
<1>7. CASE RecordMutation
  BY <1>7, RecordType
<1>8. CASE Report
  <2>1. tool' \in InFlight
    BY <1>8, InFlightFields DEF Report, InFlight, Phases
  <2> QED
    BY <1>8, <2>1, AutoSaveType DEF Report, TypeOK, memVars, runVars, histVars
<1>9. CASE Advance
  <2>1. tool.path \in Paths
    BY <1>9, InFlightFields DEF Advance, Phases
  <2>2. snap' \in [Paths -> Content \cup {Dirty, Unopened}]
    BY <1>9, <2>1 DEF Advance, TypeOK, FileState
  <2> QED
    BY <1>9, <2>2 DEF Advance, Finished, TypeOK, runVars, histVars
<1> QED
  BY <1>1, <1>2, <1>3, <1>4, <1>5, <1>6, <1>7, <1>8, <1>9 DEF ToolStep

(* Marking records leaves them records. *)
LEMMA MarkedType ==
  ASSUME TypeOK, UndoSucceeds
  PROVE  saved' \in Seq(Record)
<1>1. DOMAIN saved = 1..Len(saved) /\ Len(saved) \in Nat
  BY DEF TypeOK
<1>2. ASSUME NEW i \in DOMAIN saved
      PROVE  saved[i] \in Record /\ [saved[i] EXCEPT !.undone = TRUE] \in Record
  <2>1. saved[i] \in Record
    BY <1>2 DEF TypeOK
  <2> QED
    BY <2>1 DEF Record
<1>3. saved' \in [1..Len(saved) -> Record]
  BY <1>1, <1>2 DEF UndoSucceeds
<1> QED
  BY <1>1, <1>3

(* A runtime that is gone leaves well-typed defaults. *)
LEMMA ForgetType ==
  TypeOK /\ Forget =>
    /\ alive' \in BOOLEAN /\ pooled' \in BOOLEAN /\ aborted' \in BOOLEAN /\ stopped' \in BOOLEAN
    /\ snap' \in [Paths -> Content \cup {Dirty, Unopened}]
    /\ journal' \in Seq(Record)
    /\ base' \in [Paths -> FileState]
<1> SUFFICES ASSUME Forget
             PROVE  /\ snap' \in [Paths -> Content \cup {Dirty, Unopened}]
                    /\ journal' \in Seq(Record)
                    /\ base' \in [Paths -> FileState]
  BY DEF Forget
<1>1. snap' \in [Paths -> Content \cup {Dirty, Unopened}] /\ base' \in [Paths -> FileState]
  BY DEF Forget, Nothing, FileState
<1> QED
  BY <1>1 DEF Forget

(* Undo keeps the types, however it ends. *)
LEMMA UndoType == TypeOK /\ Undo => TypeOK'
<1> SUFFICES ASSUME TypeOK, Undo PROVE TypeOK'
  OBVIOUS
<1>1. CASE UndoSucceeds
  <2>1. Restored(UndoSet) \in [Paths -> FileState]
    BY UndoSets, RestoredType
  <2> QED
    BY <1>1, <2>1, MarkedType, ForeignType DEF UndoSucceeds, TypeOK, memVars, runVars
<1>2. CASE UndoDiverges
  <2>1. Restored(Restorable) \in [Paths -> FileState]
    BY UndoSets, RestoredType
  <2> QED
    BY <1>2, <2>1, ForeignType DEF UndoDiverges, TypeOK, memVars, runVars
<1>3. ASSUME CutShort
      PROVE  /\ saved' \in Seq(Record)
             /\ disk' \in [Paths -> FileState] /\ raced' \subseteq Nat \X Paths
             /\ wrote' \subseteq Nat \X Paths \X Text /\ pre' \subseteq Nat \X Paths \X FileState
  <2>1. PICK n \in Restorable : Foreign(Restored({i \in Restorable : i >= n}))
    BY <1>3 DEF CutShort
  <2>2. Restored({i \in Restorable : i >= n}) \in [Paths -> FileState]
    BY UndoSets, RestoredType
  <2>3. saved' = saved \/ saved' = <<>>
    BY <1>3 DEF CutShort
  <2>4. saved' \in Seq(Record)
    <3>1. saved \in Seq(Record) /\ <<>> \in Seq(Record)
      BY DEF TypeOK
    <3> QED
      BY <2>3, <3>1, Zenon
  <2> QED
    BY <2>1, <2>2, <2>4, ForeignType
<1>4. CASE UndoFails
  BY <1>3, <1>4 DEF UndoFails, TypeOK, memVars, runVars
<1>5. CASE UndoCrashes
  BY <1>3, <1>5, ForgetType DEF UndoCrashes, Die, TypeOK
<1> QED
  BY <1>1, <1>2, <1>4, <1>5 DEF Undo

(* The user, worker threads and crashes keep the types. *)
LEMMA WorldType ==
  TypeOK /\ (ThreadWrite \/ (\E p \in Paths, c \in FileState : UserEdit(p, c)) \/ Crash) => TypeOK'
<1> SUFFICES ASSUME TypeOK
             PROVE  ThreadWrite \/ (\E p \in Paths, c \in FileState : UserEdit(p, c)) \/ Crash
                    => TypeOK'
  OBVIOUS
<1>1. CASE ThreadWrite
  <2>1. PICK w \in threads : /\ Foreign([disk EXCEPT ![w[1]] = w[2]])
                             /\ threads' = threads \ {w}
    BY <1>1 DEF ThreadWrite
  <2>2. [disk EXCEPT ![w[1]] = w[2]] \in [Paths -> FileState]
    BY <2>1 DEF TypeOK, Text, FileState
  <2> QED
    BY <1>1, <2>1, <2>2, ForeignType DEF ThreadWrite, TypeOK, memVars, runVars
<1>2. ASSUME NEW p \in Paths, NEW c \in FileState, UserEdit(p, c) PROVE TypeOK'
  <2>1. [disk EXCEPT ![p] = c] \in [Paths -> FileState]
    BY DEF TypeOK
  <2>2. Foreign([disk EXCEPT ![p] = c]) /\ edits' = edits + 1
    BY <1>2 DEF UserEdit
  <2>3. /\ disk' \in [Paths -> FileState] /\ raced' \subseteq Nat \X Paths
        /\ wrote' \subseteq Nat \X Paths \X Text /\ pre' \subseteq Nat \X Paths \X FileState
    BY <2>1, <2>2, ForeignType
  <2> QED
    BY <1>2, <2>2, <2>3 DEF UserEdit, TypeOK, memVars, runVars
<1>3. CASE Crash
  BY <1>3, ForgetType DEF Crash, Die, TypeOK
<1> QED
  BY <1>1, <1>2, <1>3

(* Every step keeps the types. *)
LEMMA TypeStep == TypeOK /\ [Next]_vars => TypeOK'
<1> SUFFICES ASSUME TypeOK, [Next]_vars PROVE TypeOK'
  OBVIOUS
<1>1. CASE UNCHANGED vars
  BY <1>1 DEF vars, memVars, runVars, histVars, TypeOK
<1>2. CASE Next
  BY <1>2, TurnType, ToolCallType, ToolStepType, UndoType, WorldType DEF Next
<1> QED
  BY <1>1, <1>2

(* Every variable keeps its type, whatever the files, tools and bounds. *)
THEOREM JournalTypes == Spec => []TypeOK
BY InitType, TypeStep, PTL DEF Spec

-----------------------------------------------------------------------------
(***************************************************************************)
(* The inductive invariant.  The steps fall into a few kinds, by what they *)
(* do to the two copies of the journal.                                    *)
(***************************************************************************)

(* The invariant holds of empty journals. *)
LEMMA InitIInv == Init => IInv
<1> SUFFICES ASSUME Init PROVE IInv
  OBVIOUS
<1>1. TypeOK
  BY InitType
<1>2. /\ journal = <<>> /\ saved = <<>> /\ DOMAIN journal = {} /\ DOMAIN saved = {}
      /\ alive = FALSE /\ tool = Idle
  BY DEF Init
<1> QED
  BY <1>1, <1>2
     DEF IInv, RuntimeOwnsTool, TurnsPast, CurrentTurnLive, UndoneTogether,
         MemoryCoversDisk, MarksKnown

(* Both copies stay. *)
LEMMA NeutralStep ==
  ASSUME IInv, TypeOK', UNCHANGED <<journal, saved, runVars, tool>>
  PROVE  IInv'
BY DEF IInv, RuntimeOwnsTool, TurnsPast, CurrentTurnLive, UndoneTogether, MemoryCoversDisk,
       MarksKnown, SameButForMark, runVars

(* The living runtime saves, or not. *)
LEMMA SaveStep ==
  ASSUME IInv, TypeOK', alive, UNCHANGED <<journal, runVars>>, saved' \in {saved, journal}
  PROVE  IInv'
<1> USE DEF runVars
<1>1. RuntimeOwnsTool'
  BY DEF IInv, RuntimeOwnsTool
<1>2. TurnsPast' /\ CurrentTurnLive' /\ UndoneTogether'
  BY DEF IInv, TurnsPast, CurrentTurnLive, UndoneTogether
<1>3. CASE saved' = saved
  <2>1. MemoryCoversDisk' /\ MarksKnown'
    BY <1>3 DEF IInv, MemoryCoversDisk, MarksKnown, SameButForMark
  <2> QED
    BY <1>1, <1>2, <2>1 DEF IInv
<1>4. CASE saved' = journal
  <2>1. Len(journal) \in Nat
    BY DEF IInv, TypeOK
  <2>2. MemoryCoversDisk' /\ MarksKnown'
    BY <1>4, <2>1 DEF MemoryCoversDisk, MarksKnown, SameButForMark
  <2> QED
    BY <1>1, <1>2, <2>2 DEF IInv
<1> QED
  BY <1>3, <1>4

(* The runtime ends, after a last save or without, or with the file gone.  *)
LEMMA ForgetStep ==
  ASSUME IInv, TypeOK', Forget, tool' = Idle, turn' = turn,
         saved' \in {saved, journal, <<>>}
  PROVE  IInv'
<1>1. alive' = FALSE /\ journal' = <<>> /\ DOMAIN journal' = {}
  BY DEF Forget
<1>2. RuntimeOwnsTool' /\ CurrentTurnLive' /\ MemoryCoversDisk' /\ MarksKnown'
  BY <1>1 DEF RuntimeOwnsTool, CurrentTurnLive, MemoryCoversDisk, MarksKnown
<1>3. TurnsPast' /\ UndoneTogether'
  BY <1>1 DEF IInv, TurnsPast, UndoneTogether
<1> QED
  BY <1>2, <1>3 DEF IInv

(* The file is gone, the runtime's memory is not. *)
LEMMA LostStep ==
  ASSUME IInv, TypeOK', UNCHANGED <<journal, runVars, tool>>, saved' = <<>>
  PROVE  IInv'
<1>1. Len(saved') = 0 /\ DOMAIN saved' = {} /\ Len(journal) \in Nat
  BY DEF IInv, TypeOK
<1> QED
  BY <1>1 DEF IInv, RuntimeOwnsTool, TurnsPast, CurrentTurnLive, UndoneTogether,
              MemoryCoversDisk, MarksKnown, runVars

(* A fresh runtime reads the journal; its turn is a new one. *)
LEMMA StartStep == IInv /\ TypeOK' /\ StartTurn => IInv'
<1> SUFFICES ASSUME IInv, TypeOK', StartTurn PROVE IInv'
  OBVIOUS
<1>1. /\ journal' = saved /\ saved' = saved /\ turn' = turn + 1
      /\ alive' = TRUE /\ pooled' = TRUE /\ turn \in Nat /\ Len(saved) \in Nat
  BY DEF StartTurn, IInv, TypeOK
<1>2. \A i \in DOMAIN saved : saved[i].turn \in Nat /\ saved[i].turn <= turn
  <2>1. \A i \in DOMAIN saved : saved[i] \in Record
    BY DEF IInv, TypeOK
  <2> QED
    BY <2>1 DEF IInv, TurnsPast, Record
<1>3. TurnsPast' /\ CurrentTurnLive'
  BY <1>1, <1>2 DEF TurnsPast, CurrentTurnLive
<1>4. RuntimeOwnsTool' /\ UndoneTogether' /\ MemoryCoversDisk' /\ MarksKnown'
  BY <1>1 DEF IInv, RuntimeOwnsTool, UndoneTogether, MemoryCoversDisk, MarksKnown, SameButForMark
<1> QED
  BY <1>3, <1>4 DEF IInv

(* An abort leaves the journals alone. *)
LEMMA AbortStep == IInv /\ TypeOK' /\ Abort => IInv'
BY DEF IInv, Abort, memVars, RuntimeOwnsTool, TurnsPast, CurrentTurnLive, UndoneTogether,
       MemoryCoversDisk, MarksKnown, SameButForMark

(* A mutation joins the journal in memory. *)
LEMMA RecordStep == IInv /\ TypeOK' /\ RecordMutation => IInv'
<1> SUFFICES ASSUME IInv, TypeOK', RecordMutation PROVE IInv'
  OBVIOUS
<1>1. alive /\ UNCHANGED <<saved, runVars>>
  BY DEF RecordMutation, IInv, RuntimeOwnsTool, Idle
<1>2. CASE journal' = journal
  BY <1>1, <1>2, SaveStep DEF runVars
<1>3. ASSUME NEW r, journal' = Append(journal, r), r.turn = turn, r.undone = FALSE
      PROVE  IInv'
  <2>1. /\ Len(journal) \in Nat /\ Len(saved) \in Nat /\ turn \in Nat
        /\ DOMAIN journal = 1..Len(journal) /\ DOMAIN saved = 1..Len(saved)
        /\ DOMAIN journal' = 1..(Len(journal) + 1) /\ Len(journal') = Len(journal) + 1
        /\ journal'[Len(journal) + 1] = r
        /\ \A i \in DOMAIN journal : journal'[i] = journal[i]
    BY <1>3 DEF IInv, TypeOK
  <2>2. RuntimeOwnsTool'
    BY <1>1 DEF IInv, RuntimeOwnsTool, runVars
  <2>3. \A i \in DOMAIN journal' : journal'[i].turn <= turn
    BY <1>3, <2>1 DEF IInv, TurnsPast
  <2>4. TurnsPast'
    BY <1>1, <2>3 DEF IInv, TurnsPast, runVars
  <2>5. \A i \in DOMAIN journal' : journal'[i].turn = turn => ~journal'[i].undone
    BY <1>1, <1>3, <2>1 DEF IInv, CurrentTurnLive
  <2>6. CurrentTurnLive'
    BY <1>1, <2>5 DEF CurrentTurnLive, runVars
  <2>7. ASSUME NEW i \in DOMAIN journal', NEW j \in DOMAIN journal',
               journal'[i].turn = journal'[j].turn
        PROVE  journal'[i].undone = journal'[j].undone
    <3>1. CASE i \in DOMAIN journal /\ j \in DOMAIN journal
      BY <2>1, <2>7, <3>1 DEF IInv, UndoneTogether
    <3>2. CASE journal'[i].turn = turn
      <4>1. \A k \in DOMAIN journal' : journal'[k].undone \in BOOLEAN
        <5>1. \A k \in DOMAIN journal' : journal'[k] \in Record
          BY DEF TypeOK
        <5> QED
          BY <5>1 DEF Record
      <4> QED
        BY <2>5, <2>7, <3>2, <4>1
    <3> QED
      BY <1>3, <2>1, <2>7, <3>1, <3>2
  <2>8. UndoneTogether'
    BY <1>1, <2>7 DEF IInv, UndoneTogether
  <2>9. MemoryCoversDisk' /\ MarksKnown'
    BY <1>1, <2>1 DEF IInv, MemoryCoversDisk, MarksKnown, SameButForMark, runVars
  <2> QED
    BY <2>2, <2>4, <2>6, <2>8, <2>9 DEF IInv
<1> QED
  BY <1>2, <1>3 DEF RecordMutation

(* What a completed undo does to the journal on disk. *)
LEMMA MarksOnly ==
  ASSUME TypeOK, UndoSucceeds
  PROVE  /\ DOMAIN saved' = DOMAIN saved /\ Len(saved') = Len(saved)
         /\ \A i \in DOMAIN saved :
              /\ saved'[i].turn = saved[i].turn
              /\ SameButForMark(saved[i], saved'[i])
              /\ saved[i].undone => saved'[i].undone
              /\ saved'[i].undone = (saved[i].undone \/ saved[i].turn = UndoTurn)
<1>1. DOMAIN saved = 1..Len(saved) /\ Len(saved) \in Nat /\ saved' \in Seq(Record)
  BY MarkedType DEF TypeOK
<1>2. /\ DOMAIN saved' = DOMAIN saved
      /\ \A i \in DOMAIN saved :
           saved'[i] = IF i \in UndoSet THEN [saved[i] EXCEPT !.undone = TRUE] ELSE saved[i]
  BY DEF UndoSucceeds
<1>3. Len(saved') = Len(saved)
  BY <1>1, <1>2
<1>4. ASSUME NEW i \in DOMAIN saved
      PROVE  /\ saved'[i].turn = saved[i].turn
             /\ SameButForMark(saved[i], saved'[i])
             /\ saved[i].undone => saved'[i].undone
             /\ saved'[i].undone = (saved[i].undone \/ saved[i].turn = UndoTurn)
  <2>1. saved[i] \in Record
    BY <1>4 DEF TypeOK
  <2>2. i \in UndoSet <=> ~saved[i].undone /\ saved[i].turn = UndoTurn
    BY <1>4 DEF UndoSet, LiveRecords
  <2>3. CASE i \in UndoSet
    <3>1. saved'[i] = [saved[i] EXCEPT !.undone = TRUE]
      BY <1>2, <1>4, <2>3
    <3> QED
      BY <2>1, <2>2, <2>3, <3>1 DEF Record, SameButForMark
  <2>4. CASE i \notin UndoSet
    <3>1. saved'[i] = saved[i]
      BY <1>2, <1>4, <2>4
    <3>2. saved[i].undone \in BOOLEAN
      BY <2>1 DEF Record
    <3> QED
      BY <2>2, <2>4, <3>1, <3>2 DEF SameButForMark
  <2> QED
    BY <2>3, <2>4
<1> QED
  BY <1>2, <1>3, <1>4

(* A completed undo marks a turn on disk; only an aborted runtime is alive. *)
LEMMA UndoSucceedsStep == IInv /\ TypeOK' /\ UndoSucceeds => IInv'
<1> SUFFICES ASSUME IInv, TypeOK', UndoSucceeds PROVE IInv'
  OBVIOUS
<1>1. /\ UNCHANGED <<journal, turn, alive, pooled, aborted, tool>>
      /\ alive => aborted
  BY DEF UndoSucceeds, UndoStarts, IInv, RuntimeOwnsTool, memVars, runVars, TypeOK
<1>2. /\ DOMAIN saved' = DOMAIN saved /\ Len(saved') = Len(saved)
      /\ \A i \in DOMAIN saved :
           /\ saved'[i].turn = saved[i].turn
           /\ SameButForMark(saved[i], saved'[i])
           /\ saved'[i].undone = (saved[i].undone \/ saved[i].turn = UndoTurn)
  BY MarksOnly DEF IInv
<1>3. RuntimeOwnsTool' /\ CurrentTurnLive' /\ MarksKnown'
  BY <1>1 DEF IInv, RuntimeOwnsTool, CurrentTurnLive, MarksKnown
<1>4. TurnsPast'
  BY <1>1, <1>2 DEF IInv, TurnsPast
<1>5. MemoryCoversDisk'
  BY <1>1, <1>2 DEF IInv, MemoryCoversDisk, SameButForMark
<1>6. UndoneTogether'
  <2>1. ASSUME NEW i \in DOMAIN saved', NEW j \in DOMAIN saved', saved'[i].turn = saved'[j].turn
        PROVE  saved'[i].undone = saved'[j].undone
    <3>1. saved[i].turn = saved[j].turn
      BY <1>2, <2>1
    <3>2. saved[i].undone = saved[j].undone
      BY <1>2, <2>1, <3>1 DEF IInv, UndoneTogether
    <3> QED
      BY <1>2, <2>1, <3>1, <3>2
  <2> QED
    BY <1>1, <2>1 DEF IInv, UndoneTogether
<1> QED
  BY <1>3, <1>4, <1>5, <1>6 DEF IInv

(* Steps of a tool call, but for the one that records the mutation. *)
LEMMA QuietToolStep ==
  ASSUME TypeOK, RuntimeOwnsTool,
         \/ \E op \in Operations, p \in Paths : ToolCall(op, p)
         \/ ToolStep /\ ~RecordMutation
  PROVE  alive /\ UNCHANGED <<journal, runVars>> /\ saved' \in {saved, journal}
<1>1. ASSUME NEW op \in Operations, NEW p \in Paths, ToolCall(op, p)
      PROVE  alive /\ UNCHANGED <<journal, runVars>> /\ saved' \in {saved, journal}
  BY <1>1 DEF ToolCall, Propose, SkipDuplicate, RefuseConflict, MayCallTool, AutoSave, memVars
<1>2. CASE ToolStep /\ ~RecordMutation
  <2>1. tool # Idle
    <3>1. tool.ph \in Phases
      <4>1. CASE Approve \/ Deny \/ Capture
        BY <4>1 DEF Approve, Deny, Capture, Phases
      <4>2. CASE Execute
        BY <4>2 DEF Execute, Phases
      <4>3. CASE ExecuteFails \/ Detach \/ Report \/ Advance
        BY <4>3 DEF ExecuteFails, Detach, Report, Advance, Phases
      <4> QED
        BY <1>2, <4>1, <4>2, <4>3 DEF ToolStep
    <3> QED
      BY <3>1 DEF Idle, Phases
  <2>2. alive
    BY <2>1 DEF RuntimeOwnsTool
  <2> QED
    BY <1>2, <2>2
       DEF ToolStep, Approve, Deny, Capture, Execute, ExecuteFails, Detach, Report, Advance,
           AutoSave, memVars
<1> QED
  BY <1>1, <1>2

(* Every step keeps the invariant. *)
LEMMA JournalStep == IInv /\ [Next]_vars => IInv'
<1> SUFFICES ASSUME IInv, [Next]_vars PROVE IInv'
  OBVIOUS
<1>t. TypeOK /\ TypeOK' /\ RuntimeOwnsTool
  BY TypeStep DEF IInv
<1>1. CASE UNCHANGED vars
  BY <1>1, <1>t, NeutralStep DEF vars, memVars
<1>2. CASE StartTurn
  BY <1>2, <1>t, StartStep
<1>3. CASE EndTurn
  BY <1>3, <1>t, ForgetStep DEF EndTurn, AutoSave
<1>4. CASE Abort
  BY <1>4, <1>t, AbortStep
<1>5. CASE (\E op \in Operations, p \in Paths : ToolCall(op, p)) \/ (ToolStep /\ ~RecordMutation)
  BY <1>5, <1>t, QuietToolStep, SaveStep
<1>6. CASE RecordMutation
  BY <1>6, <1>t, RecordStep
<1>7. CASE UndoSucceeds
  BY <1>7, <1>t, UndoSucceedsStep
<1>8. CASE UndoDiverges \/ UndoFails
  BY <1>8, <1>t, NeutralStep, LostStep DEF UndoDiverges, UndoFails, CutShort, memVars
<1>9. CASE UndoCrashes \/ Crash
  BY <1>9, <1>t, ForgetStep DEF UndoCrashes, CutShort, Crash, Die
<1>10. CASE ThreadWrite \/ \E p \in Paths, c \in FileState : UserEdit(p, c)
  BY <1>10, <1>t, NeutralStep DEF ThreadWrite, UserEdit, memVars
<1> QED
  BY <1>1, <1>2, <1>3, <1>4, <1>5, <1>6, <1>7, <1>8, <1>9, <1>10 DEF Next, Undo

(* The two copies of the journal stay consistent in every execution. *)
LEMMA Invariance == Spec => []IInv
BY InitIInv, JournalStep, PTL DEF Spec

-----------------------------------------------------------------------------
(* Whatever undo, saves, crashes and aborts do, in memory and on disk each *)
(* turn is undone as a whole or not at all.                                *)
THEOREM TurnsUndoneTogether == Spec => []UndoneTogether
BY Invariance, PTL DEF IInv

(* The ways in which the journal on disk changes. *)
LEMMA SavedChanges ==
  IInv /\ [Next]_vars => \/ saved' = saved
                         \/ alive /\ saved' = journal
                         \/ UndoSucceeds
                         \/ Lost
<1> SUFFICES ASSUME IInv, [Next]_vars
             PROVE  saved' = saved \/ (alive /\ saved' = journal) \/ UndoSucceeds \/ Lost
  OBVIOUS
<1>1. CASE UNCHANGED vars
  BY <1>1 DEF vars
<1>2. CASE StartTurn \/ Abort \/ RecordMutation \/ ThreadWrite
           \/ \E p \in Paths, c \in FileState : UserEdit(p, c)
  BY <1>2 DEF StartTurn, Abort, RecordMutation, ThreadWrite, UserEdit
<1>3. CASE EndTurn
  BY <1>3 DEF EndTurn, AutoSave
<1>4. CASE (\E op \in Operations, p \in Paths : ToolCall(op, p)) \/ (ToolStep /\ ~RecordMutation)
  BY <1>4, QuietToolStep DEF IInv
<1>5. CASE Undo \/ Crash
  BY <1>5 DEF Undo, UndoDiverges, UndoFails, UndoCrashes, CutShort, Lost, Crash
<1> QED
  BY <1>1, <1>2, <1>3, <1>4, <1>5 DEF Next

(* The journal on disk loses no record, and keeps what it says of it. *)
THEOREM JournalGrows == Spec => JournalOnlyGrows
<1>1. ASSUME IInv, [Next]_vars
      PROVE  Lost \/ /\ Len(saved) <= Len(saved')
                     /\ \A i \in DOMAIN saved :
                          [saved[i] EXCEPT !.undone = TRUE] = [saved'[i] EXCEPT !.undone = TRUE]
  <2>1. TypeOK /\ Len(saved) \in Nat
    BY <1>1 DEF IInv, TypeOK
  <2>2. CASE saved' = saved
    BY <2>1, <2>2
  <2>3. CASE alive /\ saved' = journal
    BY <1>1, <2>3 DEF IInv, MemoryCoversDisk, SameButForMark
  <2>4. CASE UndoSucceeds
    BY <2>1, <2>4, MarksOnly DEF SameButForMark
  <2> QED
    BY <1>1, <2>2, <2>3, <2>4, SavedChanges
<1> QED
  BY <1>1, Invariance, PTL DEF JournalOnlyGrows, Spec

(* Only a runtime that was aborted can take an undo mark back. *)
THEOREM MarksLast == Spec => UndoMarksLast
<1>1. ASSUME IInv, [Next]_vars
      PROVE  ~Lost /\ (\E i \in DOMAIN saved : saved[i].undone /\ ~saved'[i].undone) => aborted
  <2> SUFFICES ASSUME ~Lost, NEW i \in DOMAIN saved, saved[i].undone, ~saved'[i].undone
               PROVE  aborted
    OBVIOUS
  <2>1. TypeOK
    BY <1>1 DEF IInv
  <2>2. CASE saved' = saved
    BY <2>2
  <2>3. CASE alive /\ saved' = journal
    BY <1>1, <2>3 DEF IInv, MarksKnown
  <2>4. CASE UndoSucceeds
    BY <2>1, <2>4, MarksOnly
  <2> QED
    BY <1>1, <2>2, <2>3, <2>4, SavedChanges
<1> QED
  BY <1>1, Invariance, PTL DEF UndoMarksLast, Spec

-----------------------------------------------------------------------------
(* What a tool wrote is journaled.  What files hold is left out of the     *)
(* inductive part: the last record of a file the turn has written names    *)
(* the text the Agent knows last (Journaled), and while a write waits to   *)
(* be recorded, the file holds it unless somebody else wrote (Held).       *)
Wrote(p)   == \E w \in wrote : w[1] = turn /\ w[2] = p
Writing(p) == tool # Idle /\ tool.ph = "written" /\ tool.path = p

LastIs(p, i) ==
  /\ journal[i].turn = turn /\ journal[i].path = p /\ journal[i].after = base[p]
  /\ ~journal[i].undone
  /\ \A j \in DOMAIN journal : j > i => journal[j].path # p

Journaled ==
  \A p \in Paths :
    alive /\ Wrote(p) /\ <<turn, p>> \notin raced /\ ~Writing(p)
      => \E i \in DOMAIN journal : LastIs(p, i)

Held ==
  \A p \in Paths :
    Writing(p) /\ <<turn, p>> \notin raced => disk[p] = base[p] /\ disk[p] \in Text

WroteBefore == \A w \in wrote : w[1] <= turn

WInv == IInv /\ Journaled /\ Held /\ WroteBefore

(* Steps that touch neither the journal nor what the Agent knows.          *)
LEMMA QuietKeepsJournaled ==
  ASSUME WInv, UNCHANGED <<journal, turn, base, wrote>>, alive' => alive,
         raced \subseteq raced', \A p \in Paths : Writing(p) => Writing(p)'
  PROVE  Journaled' /\ WroteBefore'
<1>1. WroteBefore'
  BY DEF WInv, WroteBefore
<1>2. Journaled'
  <2> SUFFICES ASSUME NEW p \in Paths, alive', Wrote(p)', <<turn', p>> \notin raced', ~Writing(p)'
               PROVE  \E i \in DOMAIN journal' : LastIs(p, i)'
    BY DEF Journaled
  <2>1. alive /\ Wrote(p) /\ <<turn, p>> \notin raced /\ ~Writing(p)
    BY DEF Wrote
  <2>2. PICK i \in DOMAIN journal : LastIs(p, i)
    BY <2>1 DEF WInv, Journaled
  <2> QED
    BY <2>2 DEF LastIs
<1> QED
  BY <1>1, <1>2

(* Somebody else writes while the tool call stays where it is.             *)
LEMMA ForeignKeepsHeld ==
  ASSUME WInv, NEW new, Foreign(new), UNCHANGED <<tool, turn, base>>
  PROVE  Held' /\ raced \subseteq raced' /\ UNCHANGED wrote
<1>1. raced \subseteq raced' /\ UNCHANGED wrote
  BY DEF Foreign
<1>2. ASSUME NEW p \in Paths, Writing(p)', <<turn', p>> \notin raced'
      PROVE  disk'[p] = base'[p] /\ disk'[p] \in Text
  <2>1. Writing(p) /\ <<turn, p>> \notin raced
    BY <1>1, <1>2 DEF Writing
  <2>2. disk'[p] = disk[p]
    <3> SUFFICES ASSUME new[p] # disk[p] PROVE FALSE
      BY DEF Foreign
    <3>1. p \in {q \in Paths : new[q] # disk[q] /\ tool # Idle /\ tool.path = q}
      BY <2>1 DEF Writing
    <3>2. <<turn, p>> \in raced'
      BY <3>1 DEF Foreign
    <3> QED
      BY <1>2, <3>2
  <2> QED
    BY <2>1, <2>2 DEF WInv, Held
<1> QED
  BY <1>1, <1>2 DEF Held

(* A tool's write makes the text known and the call one that writes.       *)
LEMMA ExecuteKeepsWritten == WInv /\ Execute => Journaled' /\ Held' /\ WroteBefore'
<1> SUFFICES ASSUME WInv, Execute PROVE Journaled' /\ Held' /\ WroteBefore'
  OBVIOUS
<1>t. TypeOK
  BY DEF WInv, IInv
<1>1. tool \in InFlight /\ tool.path \in Paths
  BY <1>t, InFlightFields DEF Execute, Phases
<1>2. PICK c \in Text :
        /\ disk' = [disk EXCEPT ![tool.path] = c]
        /\ tool' = [tool EXCEPT !.ph = "written", !.text = c]
        /\ base' = [base EXCEPT ![tool.path] = c]
        /\ wrote' = wrote \cup {<<turn, tool.path, c>>}
  BY DEF Execute
<1>3. tool'.ph = "written" /\ tool'.path = tool.path /\ tool' # Idle
  BY <1>1, <1>2 DEF InFlight, Idle
<1>4. UNCHANGED <<journal, turn, raced, alive>> /\ tool.ph = "ready"
  BY DEF Execute, memVars, runVars
<1>5. \A p \in Paths : Writing(p)' <=> p = tool.path
  BY <1>3 DEF Writing
<1>6. Held'
  BY <1>1, <1>2, <1>5, <1>t DEF Held, TypeOK
<1>7. WroteBefore'
  BY <1>2, <1>4, <1>t DEF WInv, WroteBefore, TypeOK
<1>8. Journaled'
  <2> SUFFICES ASSUME NEW p \in Paths, alive', Wrote(p)', <<turn', p>> \notin raced', ~Writing(p)'
               PROVE  \E i \in DOMAIN journal' : LastIs(p, i)'
    BY DEF Journaled
  <2>1. p # tool.path /\ base'[p] = base[p]
    BY <1>1, <1>2, <1>5, <1>t DEF TypeOK
  <2>2. alive /\ Wrote(p) /\ <<turn, p>> \notin raced /\ ~Writing(p)
    BY <1>2, <1>4, <2>1 DEF Wrote, Writing
  <2>3. PICK i \in DOMAIN journal : LastIs(p, i)
    BY <2>2 DEF WInv, Journaled
  <2> QED
    BY <1>4, <2>1, <2>3 DEF LastIs
<1> QED
  BY <1>6, <1>7, <1>8

(* The record of a write is the last of its file.                          *)
LEMMA RecordKeepsWritten == WInv /\ RecordMutation => Journaled' /\ Held' /\ WroteBefore'
<1> SUFFICES ASSUME WInv, RecordMutation PROVE Journaled' /\ Held' /\ WroteBefore'
  OBVIOUS
<1>t. TypeOK
  BY DEF WInv, IInv
<1>1. tool \in InFlight /\ tool.path \in Paths
  BY <1>t, InFlightFields DEF RecordMutation, Phases
<1>2. tool' = [tool EXCEPT !.ph = "recorded"] /\ tool.ph = "written" /\ tool # Idle
  BY DEF RecordMutation, Idle
<1>3. UNCHANGED <<disk, turn, alive, base, wrote, raced>>
  BY DEF RecordMutation, runVars, histVars
<1>4. \A p \in Paths : ~Writing(p)' /\ (Writing(p) <=> p = tool.path)
  BY <1>1, <1>2 DEF Writing, InFlight
<1>5. Held' /\ WroteBefore'
  BY <1>3, <1>4 DEF WInv, Held, WroteBefore
<1>6. Journaled'
  <2> SUFFICES ASSUME NEW p \in Paths, alive', Wrote(p)', <<turn', p>> \notin raced'
               PROVE  \E i \in DOMAIN journal' : LastIs(p, i)'
    BY DEF Journaled
  <2> DEFINE r == [turn |-> turn, path |-> tool.path, before |-> tool.before,
                   after |-> disk[tool.path], op |-> tool.op, undone |-> FALSE]
  <2>1. journal \in Seq(Record) /\ (journal' = journal \/ journal' = Append(journal, r))
    BY <1>t DEF RecordMutation, TypeOK
  <2>2. alive /\ Wrote(p) /\ <<turn, p>> \notin raced
    BY <1>3 DEF Wrote
  <2>3. CASE p = tool.path
    <3>1. disk[p] = base[p] /\ disk[p] \in Text
      BY <1>4, <2>2, <2>3 DEF WInv, Held
    <3>2. ReadBack(tool.path, tool.op)
      BY <2>3, <3>1 DEF ReadBack, Text
    <3>3. journal' = Append(journal, r)
      BY <3>2 DEF RecordMutation
    <3>4. PICK n \in Nat : n = Len(journal) + 1 /\ DOMAIN journal' = 1..n
      BY <2>1, <3>3
    <3>5. n \in DOMAIN journal' /\ \A j \in DOMAIN journal' : ~(j > n)
      BY <2>1, <3>4
    <3>6. journal'[n] = r
      BY <2>1, <3>3, <3>4
    <3>7. r.turn = turn' /\ r.path = p /\ r.after = base'[p] /\ ~r.undone
      BY <1>3, <2>3, <3>1
    <3> HIDE DEF r
    <3>8. LastIs(p, n)'
      BY <3>5, <3>6, <3>7 DEF LastIs
    <3> QED
      BY <3>5, <3>8
  <2>4. CASE p # tool.path
    <3>1. PICK i \in DOMAIN journal : LastIs(p, i)
      BY <1>4, <2>2, <2>4 DEF WInv, Journaled
    <3>2. CASE journal' = journal
      BY <1>3, <3>1, <3>2 DEF LastIs
    <3>3. CASE journal' = Append(journal, r)
      <4>1. DOMAIN journal = 1..Len(journal) /\ DOMAIN journal' = 1..(Len(journal) + 1)
            /\ Len(journal) \in Nat
        BY <2>1, <3>3
      <4>2. \A j \in DOMAIN journal : journal'[j] = journal[j]
        BY <2>1, <3>3, <4>1
      <4>3. journal'[Len(journal) + 1].path # p
        BY <2>1, <2>4, <3>3
      <4>4. i \in DOMAIN journal' /\ LastIs(p, i)'
        BY <1>3, <3>1, <4>1, <4>2, <4>3 DEF LastIs
      <4> QED
        BY <4>4
    <3> QED
      BY <2>1, <3>2, <3>3
  <2> QED
    BY <2>3, <2>4
<1> QED
  BY <1>5, <1>6

(* The other steps of a tool call begin and end with none that writes.     *)
LEMMA ToolCallQuiet ==
  ASSUME WInv, \/ \E op \in Operations, p \in Paths : ToolCall(op, p)
               \/ ToolStep /\ ~RecordMutation /\ ~Execute
  PROVE  Journaled' /\ Held' /\ WroteBefore'
<1>t. TypeOK
  BY DEF WInv, IInv
<1>1. ASSUME NEW op \in Operations, NEW p \in Paths, ToolCall(op, p)
      PROVE  /\ UNCHANGED <<journal, turn, base, wrote, alive, raced>>
             /\ \A q \in Paths : ~Writing(q) /\ ~Writing(q)'
  <2>1. UNCHANGED <<journal, turn, base, wrote, alive, raced>> /\ tool = Idle
    BY <1>1 DEF ToolCall, Propose, SkipDuplicate, RefuseConflict, MayCallTool, memVars,
                runVars, histVars
  <2>2. tool' = Idle \/ tool'.ph \in {"asked", "ready"}
    BY <1>1 DEF ToolCall, Propose, SkipDuplicate, RefuseConflict, Call, Finished
  <2> QED
    BY <2>1, <2>2 DEF Writing
<1>2. ASSUME ToolStep, ~RecordMutation, ~Execute
      PROVE  /\ UNCHANGED <<journal, turn, base, wrote, alive, raced>>
             /\ \A q \in Paths : ~Writing(q) /\ ~Writing(q)'
  <2>1. CASE Approve \/ Capture \/ Report
    <3>1. tool \in InFlight
      BY <1>t, <2>1, InFlightFields DEF Approve, Capture, Report, Phases
    <3>2. tool.ph # "written" /\ tool'.ph # "written"
      BY <2>1, <3>1 DEF Approve, Capture, Report, InFlight
    <3> QED
      BY <2>1, <3>2 DEF Approve, Capture, Report, Writing, memVars, runVars, histVars
  <2>2. CASE Deny \/ ExecuteFails \/ Detach \/ Advance
    BY <2>2 DEF Deny, ExecuteFails, Detach, Advance, Finished, Writing, runVars, histVars
  <2> QED
    BY <1>2, <2>1, <2>2 DEF ToolStep
<1>3. /\ UNCHANGED <<journal, turn, base, wrote, alive, raced>>
      /\ \A q \in Paths : ~Writing(q) /\ ~Writing(q)'
  BY <1>1, <1>2
<1>4. Held'
  BY <1>3 DEF Held
<1> QED
  BY <1>3, <1>4, QuietKeepsJournaled

(* Without a runtime there is nothing to journal.                          *)
LEMMA ForgetKeepsJournaled ==
  ASSUME WInv, Forget, tool' = Idle, UNCHANGED <<turn, wrote>>
  PROVE  Journaled' /\ Held' /\ WroteBefore'
BY DEF WInv, Forget, Journaled, Held, WroteBefore, Writing

(* A turn starts with nothing written under its number.                    *)
LEMMA StartKeepsJournaled == WInv /\ StartTurn => Journaled' /\ Held' /\ WroteBefore'
<1> SUFFICES ASSUME WInv, StartTurn PROVE Journaled' /\ Held' /\ WroteBefore'
  OBVIOUS
<1>1. turn' = turn + 1 /\ wrote' = wrote /\ tool' = tool /\ tool = Idle
  BY DEF StartTurn, WInv, IInv, RuntimeOwnsTool
<1>2. turn \in Nat /\ \A w \in wrote : w[1] \in Nat /\ w[1] <= turn
  BY DEF WInv, WroteBefore, IInv, TypeOK
<1>3. \A p \in Paths : ~Wrote(p)' /\ ~Writing(p)'
  BY <1>1, <1>2 DEF Wrote, Writing
<1>4. WroteBefore'
  BY <1>1, <1>2 DEF WroteBefore
<1> QED
  BY <1>3, <1>4 DEF Journaled, Held

(* Every step keeps it.                                                    *)
LEMMA WrittenStep == WInv /\ [Next]_vars => WInv'
<1> SUFFICES ASSUME WInv, [Next]_vars PROVE Journaled' /\ Held' /\ WroteBefore'
  BY JournalStep DEF WInv
<1>1. CASE UNCHANGED vars
  BY <1>1 DEF vars, memVars, runVars, histVars, WInv, Journaled, Held, WroteBefore, Wrote,
              Writing, LastIs
<1>2. CASE StartTurn
  BY <1>2, StartKeepsJournaled
<1>3. CASE EndTurn
  BY <1>3, ForgetKeepsJournaled DEF EndTurn
<1>4. CASE Abort
  <2>1. UNCHANGED <<disk, journal, turn, base, wrote, alive, raced, tool>>
    BY <1>4 DEF Abort, memVars, histVars
  <2>2. \A p \in Paths : Writing(p)' <=> Writing(p)
    BY <2>1 DEF Writing
  <2>3. Held'
    BY <2>1, <2>2 DEF WInv, Held
  <2> QED
    BY <2>1, <2>2, <2>3, QuietKeepsJournaled
<1>5. CASE (\E op \in Operations, p \in Paths : ToolCall(op, p)) \/ ToolStep
  BY <1>5, ToolCallQuiet, ExecuteKeepsWritten, RecordKeepsWritten
<1>6. CASE UndoCrashes \/ Crash
  BY <1>6, ForgetKeepsJournaled DEF UndoCrashes, CutShort, Crash, Die, Foreign
<1>7. CASE ThreadWrite \/ UndoSucceeds \/ UndoDiverges \/ UndoFails
           \/ \E p \in Paths, c \in FileState : UserEdit(p, c)
  <2>1. /\ \E new : Foreign(new)
        /\ UNCHANGED <<journal, turn, base, alive, tool>>
    BY <1>7 DEF ThreadWrite, UndoSucceeds, UndoDiverges, UndoFails, CutShort, UserEdit,
                memVars, runVars
  <2>2. Held' /\ raced \subseteq raced' /\ UNCHANGED wrote
    BY <2>1, ForeignKeepsHeld
  <2>3. \A p \in Paths : Writing(p) => Writing(p)'
    BY <2>1 DEF Writing
  <2> QED
    BY <2>1, <2>2, <2>3, QuietKeepsJournaled
<1> QED
  BY <1>1, <1>2, <1>3, <1>4, <1>5, <1>6, <1>7 DEF Next, Undo

(* While the runtime lives, a file that holds what its tool last put there *)
(* can be undone.                                                          *)
THEOREM WritesAreJournaled == Spec => []WrittenIsJournaled
<1>1. Init => WInv
  BY InitIInv DEF Init, WInv, Journaled, Held, WroteBefore, Wrote, Writing
<1>2. WInv => WrittenIsJournaled
  <2> SUFFICES ASSUME WInv, NEW p \in Paths,
                      alive, <<turn, p, disk[p]>> \in wrote, disk[p] = base[p],
                      <<turn, p>> \notin raced,
                      ~(tool # Idle /\ tool.ph = "written" /\ tool.path = p)
               PROVE  \E i \in DOMAIN journal : LastIs(p, i)
    BY DEF WrittenIsJournaled, LastIs
  <2>1. Wrote(p)
    BY DEF Wrote
  <2> QED
    BY <2>1 DEF WInv, Journaled, Writing
<1> QED
  BY <1>1, <1>2, WrittenStep, PTL DEF Spec

-----------------------------------------------------------------------------
(***************************************************************************)
(* What undo and the tools write over.  A record is true: its tool put its *)
(* text in the file (RecordsTrue), and the first of a turn and file holds  *)
(* what the turn found there (FirstsKnown).  To be kept when a record is   *)
(* made, this needs what is known of the call in flight, from the conflict *)
(* check to the snapshot that advances.  Files somebody else wrote during  *)
(* a mutation of them are exempt throughout.                               *)
(***************************************************************************)
Raced(p) == <<turn, p>> \in raced

(* The phases of a call on the file, before its write and after it.        *)
Checking(p) == tool # Idle /\ tool.ph \in {"asked", "approved", "ready"} /\ tool.path = p
WoundUp(p)  == tool # Idle /\ tool.ph \in {"written", "recorded", "reported"} /\ tool.path = p

RecordsTrue ==
  \A J \in {journal, saved} : \A i \in DOMAIN J :
    \/ <<J[i].turn, J[i].path, J[i].after>> \in wrote
    \/ <<J[i].turn, J[i].path>> \in raced

FirstOfTurn(J, i) ==
  \A j \in DOMAIN J : j < i => ~(J[j].turn = J[i].turn /\ J[j].path = J[i].path)

(* The turn's first write of the file replaced c, or may as well have.     *)
Replaced(t, p, c) ==
  \E w \in pre : /\ w[1] = t /\ w[2] = p
                 /\ w[3] = c \/ <<t, p>> \in raced \/ w[3] \in Undecodable

FirstsKnown ==
  \A J \in {journal, saved} : \A i \in DOMAIN J :
    FirstOfTurn(J, i) => Replaced(J[i].turn, J[i].path, J[i].before)

RInv == RecordsTrue /\ FirstsKnown

KnownIsWritten == \A p \in Paths : Writing(p) => <<turn, p, base[p]>> \in wrote

SnapKnown ==
  \A p \in Paths : ~Raced(p) =>
    /\ WoundUp(p) => disk[p] = base[p] /\ disk[p] \in Text
    /\ ~WoundUp(p) /\ snap[p] \in Content => snap[p] = base[p]

Checked ==
  \A p \in Paths :
    Checking(p) /\ ~Exports(tool.op) /\ snap[p] \in Content /\ ~Raced(p)
      => disk[p] \in {snap[p], Absent} \cup Undecodable

ReadyBefore ==
  tool # Idle /\ tool.ph = "ready" /\ ~Raced(tool.path)
    => tool.before = BeforeImage(tool.path, tool.op)

PreOfWrites == \A p \in Paths : Wrote(p) => \E w \in pre : w[1] = turn /\ w[2] = p

WrittenBefore ==
  \A p \in Paths :
    Writing(p) => \/ Replaced(turn, p, tool.before)
                  \/ \E i \in DOMAIN journal : journal[i].turn = turn /\ journal[i].path = p

CInv == KnownIsWritten /\ SnapKnown /\ Checked /\ ReadyBefore /\ PreOfWrites /\ WrittenBefore

OInv == WInv /\ RInv /\ CInv

HistoryGrows == wrote \subseteq wrote' /\ pre \subseteq pre' /\ raced \subseteq raced'

(* A record that is true stays so, for the history only grows.             *)
LEMMA HistoryKeepsRecords ==
  ASSUME RInv, HistoryGrows,
         NEW J \in {journal', saved'}, NEW K \in {journal, saved}, DOMAIN J = DOMAIN K,
         \A i \in DOMAIN K : /\ J[i].turn = K[i].turn /\ J[i].path = K[i].path
                             /\ J[i].after = K[i].after /\ J[i].before = K[i].before
  PROVE  \A i \in DOMAIN J :
           /\ <<J[i].turn, J[i].path, J[i].after>> \in wrote'
                \/ <<J[i].turn, J[i].path>> \in raced'
           /\ FirstOfTurn(J, i) => Replaced(J[i].turn, J[i].path, J[i].before)'
<1> SUFFICES ASSUME NEW i \in DOMAIN J
             PROVE  /\ <<J[i].turn, J[i].path, J[i].after>> \in wrote'
                         \/ <<J[i].turn, J[i].path>> \in raced'
                    /\ FirstOfTurn(J, i) => Replaced(J[i].turn, J[i].path, J[i].before)'
  OBVIOUS
<1>1. /\ J[i].turn = K[i].turn /\ J[i].path = K[i].path
      /\ J[i].after = K[i].after /\ J[i].before = K[i].before
  OBVIOUS
<1>2. <<K[i].turn, K[i].path, K[i].after>> \in wrote \/ <<K[i].turn, K[i].path>> \in raced
  BY DEF RInv, RecordsTrue
<1>3. ASSUME FirstOfTurn(J, i) PROVE Replaced(J[i].turn, J[i].path, J[i].before)'
  <2>1. FirstOfTurn(K, i)
    BY <1>3 DEF FirstOfTurn
  <2>2. Replaced(K[i].turn, K[i].path, K[i].before)
    BY <2>1 DEF RInv, FirstsKnown
  <2> QED
    BY <1>1, <2>2 DEF Replaced, HistoryGrows
<1> QED
  BY <1>1, <1>2, <1>3 DEF HistoryGrows

(* So do all of them when each journal is one there was, or empty.         *)
LEMMA OldRecordsStand ==
  ASSUME RInv, HistoryGrows,
         journal' \in {journal, saved, <<>>}, saved' \in {journal, saved, <<>>}
  PROVE  RInv'
<1>1. ASSUME NEW J \in {journal', saved'}, NEW i \in DOMAIN J
      PROVE  /\ <<J[i].turn, J[i].path, J[i].after>> \in wrote'
                  \/ <<J[i].turn, J[i].path>> \in raced'
             /\ FirstOfTurn(J, i) => Replaced(J[i].turn, J[i].path, J[i].before)'
  <2>1. J # <<>>
    BY <1>1
  <2>2. PICK K \in {journal, saved} : J = K
    BY <2>1
  <2> QED
    BY <1>1, <2>2, HistoryKeepsRecords
<1> QED
  BY <1>1 DEF RInv, RecordsTrue, FirstsKnown, FirstOfTurn

(* Marking a turn as undone changes nothing else of its records.           *)
LEMMA MarkedRecordsStand == TypeOK /\ RInv /\ UndoSucceeds => RInv'
<1> SUFFICES ASSUME TypeOK, RInv, UndoSucceeds PROVE RInv'
  OBVIOUS
<1>1. HistoryGrows /\ journal' = journal
  BY DEF UndoSucceeds, Foreign, HistoryGrows, memVars
<1>2. /\ DOMAIN saved' = DOMAIN saved
      /\ \A i \in DOMAIN saved :
           /\ saved'[i].turn = saved[i].turn /\ saved'[i].path = saved[i].path
           /\ saved'[i].after = saved[i].after /\ saved'[i].before = saved[i].before
  <2>1. \A i \in DOMAIN saved : saved[i] \in Record
    BY DEF TypeOK
  <2>2. /\ DOMAIN saved' = DOMAIN saved
        /\ \A i \in DOMAIN saved :
             saved'[i] = IF i \in UndoSet THEN [saved[i] EXCEPT !.undone = TRUE] ELSE saved[i]
    BY DEF UndoSucceeds
  <2> QED
    BY <2>1, <2>2 DEF Record
<1>3. ASSUME NEW J \in {journal', saved'}, NEW i \in DOMAIN J
      PROVE  /\ <<J[i].turn, J[i].path, J[i].after>> \in wrote'
                  \/ <<J[i].turn, J[i].path>> \in raced'
             /\ FirstOfTurn(J, i) => Replaced(J[i].turn, J[i].path, J[i].before)'
  <2>1. CASE J = saved'
    <3>1. \A k \in DOMAIN saved :
            /\ J[k].turn = saved[k].turn /\ J[k].path = saved[k].path
            /\ J[k].after = saved[k].after /\ J[k].before = saved[k].before
      BY <1>2, <2>1
    <3>2. DOMAIN J = DOMAIN saved
      BY <1>2, <2>1
    <3> QED
      BY <1>1, <1>3, <3>1, <3>2, HistoryKeepsRecords
  <2>2. CASE J = journal'
    <3>1. \A k \in DOMAIN journal :
            /\ J[k].turn = journal[k].turn /\ J[k].path = journal[k].path
            /\ J[k].after = journal[k].after /\ J[k].before = journal[k].before
      BY <1>1, <2>2
    <3>2. DOMAIN J = DOMAIN journal
      BY <1>1, <2>2
    <3> QED
      BY <1>1, <1>3, <3>1, <3>2, HistoryKeepsRecords
  <2> QED
    BY <1>3, <2>1, <2>2
<1> QED
  BY <1>3 DEF RInv, RecordsTrue, FirstsKnown, FirstOfTurn

(* The record of a write is true, and so is what it says was there before. *)
LEMMA NewRecordStands == OInv /\ RecordMutation => RInv'
<1> SUFFICES ASSUME OInv, RecordMutation PROVE RInv'
  OBVIOUS
<1>t. TypeOK /\ journal \in Seq(Record) /\ Len(journal) \in Nat
  BY DEF OInv, WInv, IInv, TypeOK
<1>1. tool.path \in Paths /\ Writing(tool.path)
  BY <1>t, InFlightFields DEF RecordMutation, Writing, Phases, Idle
<1>2. saved' = saved /\ turn' = turn /\ UNCHANGED <<wrote, pre, raced>> /\ HistoryGrows
  BY DEF RecordMutation, runVars, histVars, HistoryGrows
<1> DEFINE r == [turn |-> turn, path |-> tool.path, before |-> tool.before,
                 after |-> disk[tool.path], op |-> tool.op, undone |-> FALSE]
<1>3. CASE journal' = journal
  BY <1>2, <1>3, OldRecordsStand DEF OInv
<1>4. CASE journal' = Append(journal, r)
  <2>1. PICK n \in Nat : /\ n = Len(journal) + 1 /\ DOMAIN journal' = 1..n
                         /\ DOMAIN journal = 1..(n - 1)
    BY <1>t, <1>4
  <2>2. journal'[n] = r /\ \A i \in DOMAIN journal : journal'[i] = journal[i]
    BY <1>t, <1>4, <2>1
  <2>3. r.turn = turn /\ r.path = tool.path /\ r.before = tool.before /\ r.after = disk[tool.path]
    OBVIOUS
  <2> HIDE DEF r
  <2>4. <<turn, tool.path, disk[tool.path]>> \in wrote \/ <<turn, tool.path>> \in raced
    BY <1>1 DEF OInv, CInv, KnownIsWritten, WInv, Held
  <2>5. ASSUME FirstOfTurn(journal', n) PROVE Replaced(turn, tool.path, tool.before)
    <3>1. ASSUME NEW i \in DOMAIN journal
          PROVE  ~(journal[i].turn = turn /\ journal[i].path = tool.path)
      <4>1. i \in DOMAIN journal' /\ i < n
        BY <2>1, <3>1
      <4> QED
        BY <2>2, <2>3, <2>5, <3>1, <4>1 DEF FirstOfTurn
    <3> QED
      BY <1>1, <3>1 DEF OInv, CInv, WrittenBefore
  <2>6. ASSUME NEW J, J = journal', NEW i \in DOMAIN J
        PROVE  /\ <<J[i].turn, J[i].path, J[i].after>> \in wrote
                    \/ <<J[i].turn, J[i].path>> \in raced
               /\ FirstOfTurn(J, i) => Replaced(J[i].turn, J[i].path, J[i].before)
    <3>1. CASE i = n
      BY <2>2, <2>3, <2>4, <2>5, <2>6, <3>1
    <3>2. CASE i \in DOMAIN journal
      <4>1. <<journal[i].turn, journal[i].path, journal[i].after>> \in wrote
              \/ <<journal[i].turn, journal[i].path>> \in raced
        BY <3>2 DEF OInv, RInv, RecordsTrue
      <4>2. ASSUME FirstOfTurn(J, i)
            PROVE  Replaced(journal[i].turn, journal[i].path, journal[i].before)
        <5>1. ASSUME NEW j \in DOMAIN journal, j < i
              PROVE  ~(journal[j].turn = journal[i].turn /\ journal[j].path = journal[i].path)
          <6>1. j \in DOMAIN J /\ J[j] = journal[j] /\ J[i] = journal[i]
            BY <2>1, <2>2, <2>6, <3>2, <5>1
          <6> QED
            BY <4>2, <5>1, <6>1 DEF FirstOfTurn
        <5>2. FirstOfTurn(journal, i)
          BY <5>1 DEF FirstOfTurn
        <5> QED
          BY <3>2, <5>2 DEF OInv, RInv, FirstsKnown
      <4>3. J[i] = journal[i]
        BY <2>2, <2>6, <3>2
      <4> QED
        BY <4>1, <4>2, <4>3
    <3> QED
      BY <2>1, <2>6, <3>1, <3>2
  <2>7. ASSUME NEW J, J = saved', NEW i \in DOMAIN J
        PROVE  /\ <<J[i].turn, J[i].path, J[i].after>> \in wrote
                    \/ <<J[i].turn, J[i].path>> \in raced
               /\ FirstOfTurn(J, i) => Replaced(J[i].turn, J[i].path, J[i].before)
    <3>1. J = saved
      BY <1>2, <2>7
    <3> QED
      BY <2>7, <3>1 DEF OInv, RInv, RecordsTrue, FirstsKnown
  <2>8. ASSUME NEW J \in {journal', saved'}, NEW i \in DOMAIN J
        PROVE  /\ <<J[i].turn, J[i].path, J[i].after>> \in wrote'
                    \/ <<J[i].turn, J[i].path>> \in raced'
               /\ FirstOfTurn(J, i) => Replaced(J[i].turn, J[i].path, J[i].before)'
    BY <1>2, <2>6, <2>7, <2>8 DEF Replaced
  <2> QED
    BY <2>8 DEF RInv, RecordsTrue, FirstsKnown, FirstOfTurn
<1> QED
  BY <1>3, <1>4 DEF RecordMutation

(* Every step keeps the records true.                                      *)
LEMMA RecordsStand == OInv /\ [Next]_vars => RInv'
<1> SUFFICES ASSUME OInv, [Next]_vars PROVE RInv'
  OBVIOUS
<1>t. TypeOK /\ IInv /\ RInv /\ RuntimeOwnsTool
  BY DEF OInv, WInv, IInv
<1>1. CASE UNCHANGED vars
  BY <1>1, <1>t, OldRecordsStand DEF vars, memVars, histVars, HistoryGrows
<1>2. CASE StartTurn \/ Abort \/ ThreadWrite \/ \E p \in Paths, c \in FileState : UserEdit(p, c)
  BY <1>2, <1>t, OldRecordsStand
     DEF StartTurn, Abort, ThreadWrite, UserEdit, Foreign, memVars, histVars, HistoryGrows
<1>3. CASE EndTurn \/ UndoCrashes \/ Crash
  BY <1>3, <1>t, OldRecordsStand
     DEF EndTurn, AutoSave, Forget, UndoCrashes, CutShort, Crash, Die, Foreign, HistoryGrows
<1>4. CASE UndoDiverges \/ UndoFails
  BY <1>4, <1>t, OldRecordsStand DEF UndoDiverges, UndoFails, CutShort, Foreign, memVars, HistoryGrows
<1>5. CASE UndoSucceeds
  BY <1>5, <1>t, MarkedRecordsStand
<1>6. CASE (\E op \in Operations, p \in Paths : ToolCall(op, p)) \/ (ToolStep /\ ~RecordMutation)
  <2>1. journal' = journal /\ saved' \in {saved, journal}
    BY <1>6, <1>t, QuietToolStep
  <2>2. HistoryGrows
    <3>1. CASE Execute
      BY <3>1 DEF Execute, HistoryGrows
    <3>2. CASE ToolStep /\ ~RecordMutation /\ ~Execute
      BY <3>2 DEF ToolStep, Approve, Deny, Capture, ExecuteFails, Detach, Report, Advance,
                  histVars, HistoryGrows
    <3>3. CASE \E op \in Operations, p \in Paths : ToolCall(op, p)
      BY <3>3 DEF ToolCall, Propose, SkipDuplicate, RefuseConflict, histVars, HistoryGrows
    <3> QED
      BY <1>6, <3>1, <3>2, <3>3
  <2> QED
    BY <1>t, <2>1, <2>2, OldRecordsStand
<1>7. CASE RecordMutation
  BY <1>7, NewRecordStands
<1> QED
  BY <1>1, <1>2, <1>3, <1>4, <1>5, <1>6, <1>7 DEF Next, Undo, ToolStep

(* What was replaced stays known, for the history only grows.              *)
LEMMA ReplacedStays ==
  ASSUME HistoryGrows, NEW t, NEW p, NEW c, Replaced(t, p, c)
  PROVE  Replaced(t, p, c)'
BY DEF HistoryGrows, Replaced

(* Between turns there is no call, and no snapshot of a file.              *)
LEMMA ForgetKeepsCall ==
  ASSUME OInv, Forget, tool' = Idle, UNCHANGED <<turn, wrote, pre>>
  PROVE  CInv'
<1>1. \A p \in Paths : snap'[p] \notin Content
  BY ContentAssumption DEF Forget
<1>2. PreOfWrites'
  BY DEF OInv, CInv, PreOfWrites, Wrote
<1> QED
  BY <1>1, <1>2 DEF CInv, KnownIsWritten, SnapKnown, Checked, ReadyBefore, WrittenBefore,
                    Writing, WoundUp, Checking

(* A turn starts with what the editor shows.                               *)
LEMMA StartKeepsCall == OInv /\ StartTurn => CInv'
<1> SUFFICES ASSUME OInv, StartTurn PROVE CInv'
  OBVIOUS
<1>1. turn' = turn + 1 /\ wrote' = wrote /\ tool' = Idle
  BY DEF StartTurn, OInv, WInv, IInv, RuntimeOwnsTool
<1>2. \A p \in Paths : ~Wrote(p)'
  <2>1. turn \in Nat /\ \A w \in wrote : w[1] \in Nat /\ w[1] <= turn
    BY DEF OInv, WInv, WroteBefore, IInv, TypeOK
  <2> QED
    BY <1>1, <2>1 DEF Wrote
<1>3. \A p \in Paths : snap'[p] \in Content => snap'[p] = base'[p]
  BY ContentAssumption DEF StartTurn, Text
<1> QED
  BY <1>1, <1>2, <1>3 DEF CInv, KnownIsWritten, SnapKnown, Checked, ReadyBefore, PreOfWrites,
                          WrittenBefore, Writing, WoundUp, Checking

(* Somebody else's write of a file in a call makes the file an exempt one. *)
LEMMA ForeignKeepsCall ==
  ASSUME OInv, NEW new, Foreign(new), UNCHANGED <<tool, turn, base, snap, journal>>
  PROVE  CInv'
<1>1. HistoryGrows /\ UNCHANGED <<wrote, pre>>
  BY DEF Foreign, HistoryGrows
<1>2. ASSUME NEW p \in Paths, tool # Idle, tool.path = p, ~Raced(p)'
      PROVE  disk'[p] = disk[p] /\ ~Raced(p)
  <2>1. ~Raced(p)
    BY <1>1, <1>2 DEF Raced, HistoryGrows
  <2>2. SUFFICES ASSUME new[p] # disk[p] PROVE FALSE
    BY <2>1 DEF Foreign
  <2>3. p \in {q \in Paths : new[q] # disk[q] /\ tool # Idle /\ tool.path = q}
    BY <1>2, <2>2
  <2> QED
    BY <1>2, <2>3 DEF Foreign, Raced
<1>3. KnownIsWritten' /\ PreOfWrites'
  BY <1>1 DEF OInv, CInv, KnownIsWritten, PreOfWrites, Writing, Wrote
<1>4. SnapKnown'
  <2> SUFFICES ASSUME NEW p \in Paths, ~Raced(p)'
               PROVE  /\ WoundUp(p)' => disk'[p] = base'[p] /\ disk'[p] \in Text
                      /\ ~WoundUp(p)' /\ snap'[p] \in Content => snap'[p] = base'[p]
    BY DEF SnapKnown
  <2>1. ~Raced(p) /\ (WoundUp(p)' <=> WoundUp(p))
    BY <1>1 DEF Raced, HistoryGrows, WoundUp
  <2>2. WoundUp(p) => disk'[p] = disk[p]
    BY <1>2 DEF WoundUp
  <2> QED
    BY <2>1, <2>2 DEF OInv, CInv, SnapKnown
<1>5. Checked'
  <2> SUFFICES ASSUME NEW p \in Paths, Checking(p)', ~Exports(tool'.op), snap'[p] \in Content, ~Raced(p)'
               PROVE  disk'[p] \in {snap'[p], Absent} \cup Undecodable
    BY DEF Checked
  <2>1. Checking(p) /\ disk'[p] = disk[p] /\ ~Raced(p)
    BY <1>2 DEF Checking
  <2> QED
    BY <2>1 DEF OInv, CInv, Checked
<1>6. ReadyBefore'
  <2> SUFFICES ASSUME tool' # Idle, tool'.ph = "ready", ~Raced(tool.path)'
               PROVE  tool'.before = BeforeImage(tool.path, tool.op)'
    BY DEF ReadyBefore, BeforeImage, Raced
  <2>1. tool.path \in Paths
    BY InFlightFields DEF OInv, WInv, IInv, Phases
  <2>2. disk'[tool.path] = disk[tool.path] /\ ~Raced(tool.path)
    BY <1>2, <2>1
  <2> QED
    BY <2>2 DEF OInv, CInv, ReadyBefore, BeforeImage
<1>7. WrittenBefore'
  <2> SUFFICES ASSUME NEW p \in Paths, Writing(p)'
               PROVE  \/ Replaced(turn, p, tool.before)'
                      \/ \E i \in DOMAIN journal' : journal'[i].turn = turn' /\ journal'[i].path = p
    BY DEF WrittenBefore, Replaced
  <2>1. \/ Replaced(turn, p, tool.before)
        \/ \E i \in DOMAIN journal : journal[i].turn = turn /\ journal[i].path = p
    BY DEF OInv, CInv, WrittenBefore, Writing
  <2> QED
    BY <1>1, <2>1 DEF Replaced, HistoryGrows
<1> QED
  BY <1>3, <1>4, <1>5, <1>6, <1>7 DEF CInv

(* A call that has ended, or another step that changes neither files nor   *)
(* what is known of them.                                                  *)
LEMMA IdleKeepsCall ==
  ASSUME OInv, tool' = Idle,
         UNCHANGED <<disk, turn, base, wrote, pre, raced>>,
         \A p \in Paths : ~Raced(p) /\ snap'[p] \in Content => snap'[p] = base[p]
  PROVE  CInv'
<1>1. PreOfWrites'
  BY DEF OInv, CInv, PreOfWrites, Wrote
<1>2. SnapKnown'
  BY DEF SnapKnown, Raced, WoundUp
<1> QED
  BY <1>1, <1>2 DEF CInv, KnownIsWritten, Checked, ReadyBefore, WrittenBefore, Writing, Checking

(* The checks of a call: what passes them has not been changed from        *)
(* elsewhere.                                                              *)
LEMMA ToolCallKeepsCall ==
  ASSUME OInv, NEW op \in Operations, NEW p \in Paths, ToolCall(op, p)
  PROVE  CInv'
<1>1. UNCHANGED <<disk, snap, turn, base, wrote, pre, raced, journal>> /\ tool = Idle
  BY DEF ToolCall, Propose, SkipDuplicate, RefuseConflict, MayCallTool, memVars, runVars, histVars
<1>2. \A q \in Paths : ~Raced(q) /\ snap[q] \in Content => snap[q] = base[q]
  BY <1>1 DEF OInv, CInv, SnapKnown, WoundUp
<1>3. CASE SkipDuplicate(op, p) \/ RefuseConflict(op, p)
  BY <1>1, <1>2, <1>3, IdleKeepsCall DEF SkipDuplicate, RefuseConflict, Finished
<1>4. CASE Propose(op, p)
  <2>1. /\ tool' # Idle /\ tool'.path = p /\ tool'.op = op /\ tool'.ph \in {"asked", "ready"}
        /\ tool'.ph = "ready" => tool'.before = BeforeImage(p, op)
    BY <1>4 DEF Propose, Call, Idle
  <2>2. \A q \in Paths : ~Writing(q)' /\ ~WoundUp(q)'
    BY <2>1 DEF Writing, WoundUp
  <2>3. KnownIsWritten' /\ WrittenBefore'
    BY <2>2 DEF KnownIsWritten, WrittenBefore
  <2>4. PreOfWrites'
    BY <1>1 DEF OInv, CInv, PreOfWrites, Wrote
  <2>5. SnapKnown'
    BY <1>1, <1>2, <2>2 DEF SnapKnown, Raced
  <2>6. ReadyBefore'
    BY <1>1, <2>1 DEF ReadyBefore, BeforeImage
  <2>7. Checked'
    <3> SUFFICES ASSUME ~Exports(op), snap[p] \in Content
                 PROVE  disk[p] \in {snap[p], Absent} \cup Undecodable
      BY <1>1, <2>1 DEF Checked, Checking
    <3>1. ~EditorConflict(p)
      BY <1>4 DEF Propose
    <3>2. disk[p] \in Content \cup {Absent}
      BY DEF OInv, WInv, IInv, TypeOK, FileState
    <3> QED
      BY <3>1, <3>2 DEF EditorConflict, Text
  <2> QED
    BY <2>3, <2>4, <2>5, <2>6, <2>7 DEF CInv
<1> QED
  BY <1>3, <1>4 DEF ToolCall

(* The way from the question to the tool's task.                           *)
LEMMA ApproveKeepsCall == OInv /\ (Approve \/ Capture) => CInv'
<1> SUFFICES ASSUME OInv, Approve \/ Capture PROVE CInv'
  OBVIOUS
<1>1. tool \in InFlight /\ tool.path \in Paths /\ tool # Idle
  BY InFlightFields DEF OInv, WInv, IInv, Approve, Capture, Phases, Idle
<1>2. /\ tool'.path = tool.path /\ tool'.op = tool.op
      /\ tool.ph \in {"asked", "approved"} /\ tool'.ph \in {"approved", "ready"} /\ tool' # Idle
      /\ tool'.ph = "ready" => tool'.before = BeforeImage(tool.path, tool.op)
  BY <1>1 DEF Approve, Capture, InFlight, Idle
<1>3. UNCHANGED <<disk, snap, turn, base, wrote, pre, raced, journal>>
  BY DEF Approve, Capture, memVars, runVars, histVars
<1>4. \A q \in Paths : ~Writing(q)' /\ ~WoundUp(q)' /\ ~WoundUp(q) /\ (Checking(q)' => Checking(q))
  BY <1>1, <1>2 DEF Writing, WoundUp, Checking
<1>5. KnownIsWritten' /\ WrittenBefore'
  BY <1>4 DEF KnownIsWritten, WrittenBefore
<1>6. PreOfWrites' /\ SnapKnown'
  BY <1>3, <1>4 DEF OInv, CInv, PreOfWrites, Wrote, SnapKnown, Raced
<1>7. ReadyBefore'
  BY <1>2, <1>3 DEF ReadyBefore, BeforeImage
<1>8. Checked'
  BY <1>2, <1>3, <1>4 DEF OInv, CInv, Checked, Raced
<1> QED
  BY <1>5, <1>6, <1>7, <1>8 DEF CInv

(* A tool's write: if it is the turn's first of the file, what it replaces *)
(* is what the call noted.                                                 *)
LEMMA ExecuteKeepsCall == OInv /\ Execute => CInv'
<1> SUFFICES ASSUME OInv, Execute PROVE CInv'
  OBVIOUS
<1>t. TypeOK
  BY DEF OInv, WInv, IInv
<1>1. /\ tool \in InFlight /\ tool.path \in Paths /\ tool # Idle /\ tool.ph = "ready"
      /\ alive
  BY <1>t, InFlightFields DEF OInv, WInv, IInv, RuntimeOwnsTool, Execute, Phases, Idle
<1>2. PICK c \in Text :
        /\ disk' = [disk EXCEPT ![tool.path] = c]
        /\ tool' = [tool EXCEPT !.ph = "written", !.text = c]
        /\ base' = [base EXCEPT ![tool.path] = c]
        /\ wrote' = wrote \cup {<<turn, tool.path, c>>}
        /\ pre' = IF Wrote(tool.path) THEN pre
                  ELSE pre \cup {<<turn, tool.path, disk[tool.path]>>}
  BY DEF Execute, Wrote
<1>3. /\ tool'.ph = "written" /\ tool'.path = tool.path /\ tool' # Idle
      /\ tool'.before = tool.before
  BY <1>1, <1>2 DEF InFlight, Idle
<1>4. UNCHANGED <<snap, journal, turn, raced>>
  BY DEF Execute, memVars, runVars
<1>5. \A p \in Paths : /\ Writing(p)' <=> p = tool.path
                       /\ WoundUp(p)' <=> p = tool.path
                       /\ ~Checking(p)' /\ ~WoundUp(p) /\ ~Writing(p)
  BY <1>1, <1>3 DEF Writing, WoundUp, Checking
<1>6. /\ disk'[tool.path] = c /\ base'[tool.path] = c
      /\ \A p \in Paths : p # tool.path => base'[p] = base[p]
  BY <1>1, <1>2, <1>t DEF TypeOK
<1>7. KnownIsWritten'
  BY <1>2, <1>4, <1>5, <1>6 DEF KnownIsWritten
<1>8. SnapKnown'
  BY <1>4, <1>5, <1>6 DEF OInv, CInv, SnapKnown, Raced
<1>9. Checked' /\ ReadyBefore'
  BY <1>3, <1>5 DEF Checked, ReadyBefore
<1>10. PreOfWrites'
  <2> SUFFICES ASSUME NEW p \in Paths, Wrote(p)'
               PROVE  \E w \in pre' : w[1] = turn' /\ w[2] = p
    BY DEF PreOfWrites
  <2>1. CASE Wrote(p)
    <3>1. \E w \in pre : w[1] = turn /\ w[2] = p
      BY <2>1 DEF OInv, CInv, PreOfWrites
    <3> QED
      BY <1>2, <1>4, <3>1
  <2>2. CASE ~Wrote(p)
    <3>1. p = tool.path
      BY <1>2, <1>4, <2>2 DEF Wrote
    <3>2. <<turn, p, disk[p]>> \in pre'
      BY <1>2, <2>2, <3>1
    <3> QED
      BY <1>4, <3>2
  <2> QED
    BY <2>1, <2>2
<1>11. WrittenBefore'
  <2> PICK p \in Paths : p = tool.path
    BY <1>1
  <2> SUFFICES \/ \E w \in pre' : /\ w[1] = turn /\ w[2] = p
                                  /\ \/ w[3] = tool.before \/ <<turn, p>> \in raced
                                     \/ w[3] \in Undecodable
               \/ \E i \in DOMAIN journal : journal[i].turn = turn /\ journal[i].path = p
    BY <1>3, <1>4, <1>5 DEF WrittenBefore, Replaced
  <2>1. CASE Wrote(p) /\ ~Raced(p)
    <3>1. \E i \in DOMAIN journal : LastIs(p, i)
      BY <1>1, <1>5, <2>1 DEF OInv, WInv, Journaled, Raced
    <3> QED
      BY <3>1 DEF LastIs
  <2>2. CASE Raced(p)
    <3>1. \E w \in pre' : w[1] = turn /\ w[2] = p
      <4>1. Wrote(p)'
        <5>1. <<turn', p, c>> \in wrote'
          BY <1>2, <1>4
        <5> QED
          BY <5>1 DEF Wrote
      <4> QED
        BY <1>1, <1>4, <1>10, <4>1 DEF PreOfWrites
    <3> QED
      BY <2>2, <3>1 DEF Raced
  <2>3. CASE ~Wrote(p) /\ ~Raced(p)
    <3>1. tool.before = BeforeImage(p, tool.op)
      BY <1>1, <2>3 DEF OInv, CInv, ReadyBefore
    <3>2. disk[p] \in Content \cup {Absent}
      BY <1>1, <1>t DEF TypeOK, FileState
    <3>3. tool.before = disk[p] \/ disk[p] \in Undecodable
      BY <3>1, <3>2 DEF BeforeImage, Text
    <3>4. <<turn, p, disk[p]>> \in pre'
      BY <1>2, <2>3
    <3> QED
      BY <3>3, <3>4
  <2> QED
    BY <2>1, <2>2, <2>3
<1> QED
  BY <1>7, <1>8, <1>9, <1>10, <1>11 DEF CInv

(* From the write to the report of the call.                               *)
LEMMA RecordKeepsCall == OInv /\ (RecordMutation \/ Report) => CInv'
<1> SUFFICES ASSUME OInv, RecordMutation \/ Report PROVE CInv'
  OBVIOUS
<1>1. tool \in InFlight /\ tool.path \in Paths /\ tool # Idle
  BY InFlightFields DEF OInv, WInv, IInv, RecordMutation, Report, Phases, Idle
<1>2. /\ tool'.path = tool.path /\ tool' # Idle
      /\ tool.ph \in {"written", "recorded"} /\ tool'.ph \in {"recorded", "reported"}
  BY <1>1 DEF RecordMutation, Report, InFlight, Idle
<1>3. UNCHANGED <<disk, snap, turn, base, wrote, pre, raced>>
  BY DEF RecordMutation, Report, memVars, runVars, histVars
<1>4. \A q \in Paths : ~Writing(q)' /\ ~Checking(q)' /\ (WoundUp(q)' <=> WoundUp(q))
  BY <1>1, <1>2 DEF Writing, WoundUp, Checking
<1>5. KnownIsWritten' /\ WrittenBefore' /\ Checked' /\ ReadyBefore'
  BY <1>2, <1>4 DEF KnownIsWritten, WrittenBefore, Checked, ReadyBefore
<1>6. PreOfWrites' /\ SnapKnown'
  BY <1>3, <1>4 DEF OInv, CInv, PreOfWrites, Wrote, SnapKnown, Raced
<1> QED
  BY <1>5, <1>6 DEF CInv

(* The call ends; the snapshot advances to what the tool left.             *)
LEMMA EndKeepsCall == OInv /\ (Deny \/ ExecuteFails \/ Detach \/ Advance) => CInv'
<1> SUFFICES ASSUME OInv, Deny \/ ExecuteFails \/ Detach \/ Advance PROVE CInv'
  OBVIOUS
<1>1. /\ tool' = Idle /\ tool # Idle /\ tool.path \in Paths
      /\ UNCHANGED <<disk, turn, base, wrote, pre, raced>>
  BY InFlightFields DEF OInv, WInv, IInv, Deny, ExecuteFails, Detach, Advance, Finished, Phases,
                        Idle, runVars, histVars
<1>2. ASSUME NEW p \in Paths, ~Raced(p), snap'[p] \in Content
      PROVE  snap'[p] = base[p]
  <2>1. CASE Deny \/ ExecuteFails \/ Detach
    <3>1. snap' = snap /\ ~WoundUp(p)
      BY <2>1 DEF Deny, ExecuteFails, Detach, WoundUp
    <3> QED
      BY <1>2, <3>1 DEF OInv, CInv, SnapKnown
  <2>2. CASE Advance /\ p = tool.path
    <3>1. WoundUp(p)
      BY <1>1, <2>2 DEF Advance, WoundUp
    <3>2. disk[p] = base[p] /\ disk[p] \in Text
      BY <1>2, <3>1 DEF OInv, CInv, SnapKnown
    <3>3. disk[p] # Absent
      BY <3>2, ContentAssumption DEF Text
    <3>4. snap \in [Paths -> Content \cup {Dirty, Unopened}]
      BY DEF OInv, WInv, IInv, TypeOK
    <3>5. CASE snap[p] \in Content
      BY <2>2, <3>2, <3>3, <3>4, <3>5 DEF Advance
    <3>6. CASE snap[p] \notin Content
      BY <1>2, <2>2, <3>6 DEF Advance
    <3> QED
      BY <3>5, <3>6
  <2>3. CASE Advance /\ p # tool.path
    <3>1. snap'[p] = snap[p] /\ ~WoundUp(p)
      BY <1>1, <2>3 DEF Advance, WoundUp, OInv, WInv, IInv, TypeOK
    <3> QED
      BY <1>2, <3>1 DEF OInv, CInv, SnapKnown
  <2> QED
    BY <1>2, <2>1, <2>2, <2>3
<1> QED
  BY <1>1, <1>2, IdleKeepsCall

(* Every step keeps it.                                                    *)
LEMMA CallStays == OInv /\ [Next]_vars => CInv'
<1> SUFFICES ASSUME OInv, [Next]_vars PROVE CInv'
  OBVIOUS
<1>1. CASE UNCHANGED vars \/ Abort
  <2>1. UNCHANGED <<disk, snap, turn, base, wrote, pre, raced, journal, tool>>
    BY <1>1 DEF vars, memVars, runVars, histVars, Abort
  <2>2. Foreign(disk)
    BY <2>1 DEF Foreign
  <2> QED
    BY <2>1, <2>2, ForeignKeepsCall
<1>2. CASE StartTurn
  BY <1>2, StartKeepsCall
<1>3. CASE EndTurn \/ UndoCrashes \/ Crash
  BY <1>3, ForgetKeepsCall DEF EndTurn, UndoCrashes, CutShort, Crash, Die, Foreign
<1>4. CASE ThreadWrite \/ UndoSucceeds \/ UndoDiverges \/ UndoFails
           \/ \E p \in Paths, c \in FileState : UserEdit(p, c)
  <2>1. (\E new : Foreign(new)) /\ UNCHANGED <<tool, turn, base, snap, journal>>
    BY <1>4 DEF ThreadWrite, UndoSucceeds, UndoDiverges, UndoFails, CutShort, UserEdit,
                memVars, runVars
  <2> QED
    BY <2>1, ForeignKeepsCall
<1>5. CASE \E op \in Operations, p \in Paths : ToolCall(op, p)
  BY <1>5, ToolCallKeepsCall
<1>6. CASE ToolStep
  BY <1>6, ApproveKeepsCall, ExecuteKeepsCall, RecordKeepsCall, EndKeepsCall DEF ToolStep
<1> QED
  BY <1>1, <1>2, <1>3, <1>4, <1>5, <1>6 DEF Next, Undo

(* Every step keeps the whole invariant.                                  *)
LEMMA OverwriteStep == OInv /\ [Next]_vars => OInv'
BY WrittenStep, RecordsStand, CallStays DEF OInv

(* It holds before the first turn.                                         *)
LEMMA OverwriteInit == Init => OInv
<1> SUFFICES ASSUME Init PROVE OInv
  OBVIOUS
<1>1. IInv
  BY InitIInv
<1>2. /\ journal = <<>> /\ saved = <<>> /\ DOMAIN journal = {} /\ DOMAIN saved = {}
      /\ wrote = {} /\ tool = Idle
      /\ \A p \in Paths : snap[p] \notin Content
  BY ContentAssumption DEF Init
<1>3. WInv
  BY <1>1, <1>2 DEF Init, WInv, Journaled, Held, WroteBefore, Wrote, Writing
<1>4. RInv
  BY <1>2 DEF RInv, RecordsTrue, FirstsKnown
<1>5. CInv
  BY <1>2 DEF CInv, KnownIsWritten, SnapKnown, Checked, ReadyBefore, PreOfWrites, WrittenBefore,
              Wrote, Writing, WoundUp, Checking
<1> QED
  BY <1>3, <1>4, <1>5 DEF OInv

(* It holds throughout.                                                    *)
LEMMA OverwriteInvariance == Spec => []OInv
BY OverwriteInit, OverwriteStep, PTL DEF Spec

-----------------------------------------------------------------------------
(* A write to a file in a clean tab replaces what the editor showed, or    *)
(* the Agent's own text.                                                   *)
THEOREM WritesAreSighted == Spec => NoBlindOverwrite
<1>1. ASSUME OInv, [Next]_vars,
             ToolWrites, ~Exports(tool.op), snap[tool.path] \in Content,
             <<turn, tool.path>> \notin raced
      PROVE  disk[tool.path] \in {base[tool.path], Absent} \cup Undecodable
  <2>1. tool.path \in Paths /\ Checking(tool.path) /\ ~WoundUp(tool.path) /\ ~Raced(tool.path)
    BY <1>1, InFlightFields
       DEF OInv, WInv, IInv, ToolWrites, Phases, Checking, WoundUp, Raced, Idle
  <2>2. disk[tool.path] \in {snap[tool.path], Absent} \cup Undecodable
    BY <1>1, <2>1 DEF OInv, CInv, Checked
  <2>3. snap[tool.path] = base[tool.path]
    BY <1>1, <2>1 DEF OInv, CInv, SnapKnown
  <2> QED
    BY <2>2, <2>3
<1> QED
  BY <1>1, OverwriteInvariance, PTL DEF NoBlindOverwrite, Spec

(* Undo changes a file only if the records it undoes name it.              *)
LEMMA UndoneFiles ==
  ASSUME TypeOK, Undo
  PROVE  \A p \in Paths : disk'[p] # disk[p] => OnPath(UndoSet, p) # {}
<1>1. PICK R \in SUBSET UndoSet : disk' = Restored(R)
  <2>1. UndoSet \in SUBSET UndoSet /\ Restorable \in SUBSET UndoSet
        /\ \A n : {i \in Restorable : i >= n} \in SUBSET UndoSet
    BY DEF Restorable
  <2>2. CASE UndoSucceeds \/ UndoDiverges
    BY <2>1, <2>2 DEF UndoSucceeds, UndoDiverges, Foreign
  <2>3. CASE CutShort
    BY <2>1, <2>3 DEF CutShort, Foreign
  <2> QED
    BY <2>2, <2>3 DEF Undo, UndoFails, UndoCrashes
<1> QED
  BY <1>1 DEF Restored, OnPath

(* The last of some records is one of them.                                *)
LEMMA LastIsMember ==
  ASSUME NEW n \in Nat, NEW S, S \subseteq 1..n, S # {}
  PROVE  LastOf(S) \in S /\ \A j \in S : j <= LastOf(S)
<1> DEFINE T == {n - i : i \in S}
<1>1. T \subseteq Nat /\ T # {}
  <2>1. \A i \in S : n - i \in Nat
    OBVIOUS
  <2> QED
    BY <2>1
<1>2. PICK t \in T : \A u \in T : <<u, t>> \notin OpToRel(<, Nat)
  BY <1>1, WFMin, NatLessThanWellFounded, Zenon
<1>3. \A u \in T : ~(u < t)
  BY <1>1, <1>2, Zenon DEF OpToRel
<1>4. PICK i \in S : t = n - i
  OBVIOUS
<1>5. \A j \in S : j <= i
  BY <1>3, <1>4
<1> QED
  BY <1>5 DEF LastOf

(* Undo, however it ends, replaces only what a tool of the turn it undoes  *)
(* has put in the file.                                                    *)
THEOREM UserTextSurvivesUndo == Spec => UndoSparesUserText
<1>1. ASSUME OInv, [Next]_vars
      PROVE  Undo => \A p \in Paths :
               disk'[p] # disk[p] => \/ <<UndoTurn, p, disk[p]>> \in wrote
                                     \/ <<UndoTurn, p>> \in raced
  <2> SUFFICES ASSUME Undo, NEW p \in Paths, disk'[p] # disk[p]
               PROVE  <<UndoTurn, p, disk[p]>> \in wrote \/ <<UndoTurn, p>> \in raced
    OBVIOUS
  <2>1. TypeOK /\ saved \in Seq(Record)
    BY <1>1 DEF OInv, WInv, IInv, TypeOK
  <2>2. OnPath(UndoSet, p) # {}
    BY <1>1, <2>1, UndoneFiles
  <2>3. OnPath(UndoSet, p) \subseteq 1..Len(saved) /\ Len(saved) \in Nat
    BY <2>1, UndoSets DEF OnPath
  <2>4. PICK i \in OnPath(UndoSet, p) : i = LastOf(OnPath(UndoSet, p))
    BY <2>2, <2>3, LastIsMember
  <2>5. i \in UndoSet /\ saved[i].path = p /\ saved[i].turn = UndoTurn /\ i \in DOMAIN saved
    BY DEF OnPath, UndoSet, LiveRecords
  <2>6. Validated
    BY <1>1 DEF Undo, UndoSucceeds, UndoDiverges, UndoFails, UndoCrashes, CutShort, UndoStarts
  <2>7. disk[p] = saved[i].after
    BY <2>4, <2>5, <2>6 DEF Validated
  <2> QED
    BY <1>1, <2>5, <2>7 DEF OInv, RInv, RecordsTrue
<1> QED
  BY <1>1, OverwriteInvariance, PTL DEF UndoSparesUserText, Spec

(* A successful undo gives each file back what the turn found in it.       *)
THEOREM UndoGivesBack == Spec => UndoRestoresPreTurn
<1>1. ASSUME OInv, [Next]_vars
      PROVE  UndoSucceeds => RestoresPreTurn
  <2> SUFFICES ASSUME UndoSucceeds, NEW i \in UndoSet
               PROVE  \E w \in pre : /\ w[1] = UndoTurn /\ w[2] = saved[i].path
                                     /\ \/ disk'[w[2]] = w[3]
                                        \/ <<w[1], w[2]>> \in raced
                                        \/ w[3] \in Undecodable
    BY DEF RestoresPreTurn
  <2> DEFINE p == saved[i].path
             S == OnPath(UndoSet, p)
             n == FirstOf(S)
  <2>1. TypeOK /\ saved \in Seq(Record) /\ UndoSet \subseteq DOMAIN saved
    BY <1>1, UndoSets DEF OInv, WInv, IInv, TypeOK
  <2>2. i \in S /\ S \subseteq Nat
    BY <1>1, <2>1 DEF OnPath
  <2>3. p \in Paths
    <3>1. saved[i] \in Record
      BY <1>1, <2>1
    <3> QED
      BY <3>1 DEF Record
  <2>4. n \in S /\ \A j \in S : n <= j
    BY <2>2, FirstIsLeast
  <2>5. n \in UndoSet /\ saved[n].path = p /\ saved[n].turn = UndoTurn /\ ~saved[n].undone
        /\ n \in DOMAIN saved
    BY <2>4 DEF OnPath, UndoSet, LiveRecords
  <2>6. ASSUME NEW j \in DOMAIN saved, j < n, saved[j].turn = UndoTurn, saved[j].path = p
        PROVE  FALSE
    <3>1. ~saved[j].undone
      BY <1>1, <2>5, <2>6 DEF OInv, WInv, IInv, UndoneTogether
    <3>2. j \in S
      BY <2>6, <3>1 DEF OnPath, UndoSet, LiveRecords
    <3>3. n <= j /\ j \in Nat /\ n \in Nat
      BY <2>2, <2>4, <3>2
    <3> QED
      BY <2>6, <3>3
  <2>7. FirstOfTurn(saved, n)
    BY <2>5, <2>6 DEF FirstOfTurn
  <2>8. Replaced(UndoTurn, p, saved[n].before)
    BY <1>1, <2>5, <2>7 DEF OInv, RInv, FirstsKnown
  <2>9. disk'[p] = saved[n].before
    BY <1>1, <2>2, <2>3 DEF UndoSucceeds, Foreign, Restored
  <2> QED
    BY <2>8, <2>9 DEF Replaced
<1> QED
  BY <1>1, OverwriteInvariance, PTL DEF UndoRestoresPreTurn, Spec
=============================================================================
