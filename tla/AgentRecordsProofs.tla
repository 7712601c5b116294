-------------------------- MODULE AgentRecordsProofs --------------------------
(***************************************************************************)
(* Proofs about what the agent's parts keep on disk: a session's rotation  *)
(* chain, the records of sub-agent runs, skills and their proposals, the   *)
(* configuration's two files, the results of the anchor study.  For any    *)
(* number of saves, runs, reviews, savers and edits, failures and crashes. *)
(***************************************************************************)
EXTENDS MCAgentParts, FiniteSetTheorems, WellFoundedInduction, TLAPS

(* If there is a file, one of them is the first of the chain.              *)
LEMMA FirstFile ==
  ASSUME NEW c \in [Position -> Nat], \E p \in Position : c[p] # 0
  PROVE  \E p \in Position : c[p] # 0 /\ \A q \in 0..(p - 1) : c[q] = 0
  <1> DEFINE R == OpToRel(<, Nat)
             T == {p \in Position : c[p] # 0}
  <1>1. T \subseteq Nat /\ T # {}
    BY StoreAssumption DEF Position
  <1>2. PICK p \in T : \A q \in T : ~(<<q, p>> \in R)
    <2> HIDE DEF R, T
    <2> QED BY <1>1, NatLessThanWellFounded, WFMin DEF R
  <1>3. \A q \in T : ~(q < p)
    BY <1>1, <1>2 DEF OpToRel
  <1>4. \A q \in 0..(p - 1) : q \in Position /\ q < p
    BY <1>1, StoreAssumption DEF Position
  <1> QED BY <1>3, <1>4

(* So the representative is a file before which there is none.             *)
LEMMA Represents ==
  ASSUME StoreTypeOK, NEW p \in Position, Exists(p)
  PROVE  \E r \in Position : /\ Exists(r) /\ Representative = chain[r]
                             /\ \A q \in 0..(r - 1) : ~Exists(q)
  <1>1. chain \in [Position -> Nat]
    BY StoreAssumption DEF StoreTypeOK, Version
  <1>2. \E r \in Position : Exists(r) /\ \A q \in 0..(r - 1) : ~Exists(q)
    BY <1>1, FirstFile DEF Exists
  <1> QED BY <1>2 DEF Representative

-----------------------------------------------------------------------------
(* Steps keep the types.                                                   *)
LEMMA StoreTypesKept ==
  ASSUME StoreTypeOK, [StoreNext]_storeVars PROVE StoreTypeOK'
  <1> USE StoreAssumption DEF StoreTypeOK, Position, Version
  <1>1. CASE BeginSave
    BY <1>1 DEF BeginSave
  <1>2. CASE Rotate
    <2>1. chain' \in [0..MaxRotated -> 0..MaxSaves]
      BY <1>2 DEF Rotate, Exists
    <2>2. pos' \in 0..MaxRotated
      BY <1>2 DEF Rotate
    <2> QED BY <1>2, <2>1, <2>2 DEF Rotate
  <1>3. CASE WriteTemp
    BY <1>3 DEF WriteTemp
  <1>4. CASE SaveFails
    BY <1>4 DEF SaveFails
  <1>5. CASE Replace
    BY <1>5 DEF Replace
  <1>6. CASE Unlink
    <2>1. chain' \in [0..MaxRotated -> 0..MaxSaves]
      BY <1>6 DEF Unlink
    <2>2. pos' \in 0..MaxRotated
      BY <1>6 DEF Unlink
    <2> QED BY <1>6, <2>1, <2>2 DEF Unlink
  <1>7. CASE BeginDelete
    BY <1>7 DEF BeginDelete
  <1>8. CASE DeleteFails
    BY <1>8 DEF DeleteFails
  <1>9. CASE StoreCrash
    BY <1>9 DEF StoreCrash
  <1>10. CASE UNCHANGED storeVars
    BY <1>10 DEF storeVars
  <1> QED BY <1>1, <1>2, <1>3, <1>4, <1>5, <1>6, <1>7, <1>8, <1>9, <1>10 DEF StoreNext

(* What makes the order inductive.  No file is newer than the last save    *)
(* begun, nor, unless it was to be deleted, than the last that succeeded;  *)
(* the save under way is in no file yet.  A rotation has freed the place   *)
(* it moves to next, but for the last; a delete has emptied those before   *)
(* its own.                                                                *)
Bounded ==
  /\ \A p \in Position : chain[p] <= made /\ (newest # 0 => chain[p] <= newest)
  /\ at \in {"rotate", "write", "replace"} => \A p \in Position : chain[p] < made
  /\ newest <= made

Shifted ==
  /\ at = "rotate" => pos < MaxRotated /\ (pos + 1 # MaxRotated => ~Exists(pos + 1))
  /\ at = "delete" => newest = 0 /\ \A q \in 0..(pos - 1) : ~Exists(q)
  /\ answer = "deleted" => at # "delete" /\ \A q \in Position : ~Exists(q)
  /\ answer # "none" => at = "idle"

StoreInv == StoreTypeOK /\ NewestFirst /\ NewestKept /\ Bounded /\ Shifted

(* The chain is empty at first.                                            *)
LEMMA InitStore == StoreInit => StoreInv
  BY StoreAssumption DEF StoreInit, StoreInv, StoreTypeOK, NewestFirst, NewestKept, Bounded,
    Shifted, Exists, Position, Version

(* A rotation shifts one file.                                             *)
LEMMA RotateKeeps == ASSUME StoreInv, Rotate PROVE StoreInv'
  <1> USE StoreAssumption DEF StoreInv
  <1>t. StoreTypeOK'
    BY StoreTypesKept DEF StoreNext
  <1>1. pos \in Position /\ pos + 1 \in Position /\ (pos + 1 # MaxRotated => chain[pos + 1] = 0)
    BY DEF Rotate, Shifted, StoreTypeOK, Position, Exists
  <1>2. \A p \in Position : chain[p] \in Nat
    BY DEF StoreTypeOK, Version
  <1>3. CASE ~Exists(pos)
    <2>1. chain' = chain /\ UNCHANGED <<made, newest, answer>> /\ answer = "none"
      BY <1>3 DEF Rotate, Shifted
    <2>2. NewestFirst' /\ NewestKept' /\ Bounded'
      BY <2>1, <1>2 DEF NewestFirst, NewestKept, Bounded, Rotate, Exists
    <2>3. Shifted'
      BY <1>1, <1>3, <2>1 DEF Shifted, Rotate, Exists, Position
    <2> QED BY <1>t, <2>2, <2>3
  <1>4. CASE Exists(pos)
    <2>1. \A p \in Position : chain'[p] = IF p = pos THEN 0
                                          ELSE IF p = pos + 1 THEN chain[pos] ELSE chain[p]
      BY <1>1, <1>4 DEF Rotate, StoreTypeOK, Position
    <2>2. UNCHANGED <<made, newest, answer>> /\ answer = "none"
      BY DEF Rotate, Shifted
    <2>3. Bounded'
      <3>1. made \in Nat /\ newest \in Nat
        BY DEF StoreTypeOK, Version
      <3>2. \A p \in Position : chain[p] < made /\ (newest # 0 => chain[p] <= newest)
        BY DEF Bounded, Rotate
      <3>3. \A p \in Position : chain'[p] \in Nat /\ chain'[p] <= made
                               /\ (made # 0 => chain'[p] < made)
                               /\ (newest # 0 => chain'[p] <= newest)
        BY <1>1, <1>2, <2>1, <3>1, <3>2
      <3> QED BY <1>1, <1>2, <2>2, <3>1, <3>2, <3>3 DEF Bounded
    <2>4. NewestFirst'
      BY <1>1, <1>2, <1>4, <2>1 DEF NewestFirst, Exists, Position
    <2>5. NewestKept'
      <3>1. newest # 0 => chain[pos + 1] # newest
        BY <1>1, <1>2, <1>4 DEF NewestFirst, Bounded, Exists, Position
      <3> QED BY <1>1, <2>1, <2>2, <3>1 DEF NewestKept
    <2>6. Shifted'
      <3>1. CASE pos = 0
        BY <2>2, <3>1 DEF Shifted, Rotate
      <3>2. CASE pos # 0
        <4>1. at' = "rotate" /\ pos' + 1 = pos /\ pos < MaxRotated
          BY <1>1, <3>2 DEF Rotate, Shifted, Position
        <4>2. chain'[pos' + 1] = 0
          BY <1>1, <2>1, <4>1
        <4>3. pos' < MaxRotated
          <5>1. pos' = pos - 1 /\ pos \in Nat
            BY <1>1, <3>2 DEF Rotate, Position
          <5> QED BY <4>1, <5>1
        <4> QED BY <2>2, <4>1, <4>2, <4>3 DEF Shifted, Exists
      <3> QED BY <3>1, <3>2
    <2> QED BY <1>t, <2>3, <2>4, <2>5, <2>6
  <1> QED BY <1>3, <1>4

(* The steps of a save but the rotation.                                   *)
LEMMA SaveKeeps ==
  ASSUME StoreInv, BeginSave \/ WriteTemp \/ Replace \/ SaveFails PROVE StoreInv'
  <1> USE StoreAssumption DEF StoreInv
  <1>t. StoreTypeOK'
    BY StoreTypesKept DEF StoreNext
  <1>1. CASE BeginSave \/ WriteTemp \/ SaveFails
    <2>1. chain' = chain /\ newest' = newest /\ made' >= made
      BY <1>1 DEF BeginSave, WriteTemp, SaveFails, StoreTypeOK, Version
    <2>2. NewestFirst' /\ NewestKept'
      BY <2>1 DEF NewestFirst, NewestKept, Exists
    <2>3. \A p \in Position : chain[p] \in Nat
      BY DEF StoreTypeOK, Version
    <2>4. made \in Nat /\ newest \in Nat
      BY DEF StoreTypeOK, Version
    <2>5. ASSUME made' = made + 1 PROVE Bounded'
      BY <2>1, <2>3, <2>4, <2>5 DEF Bounded
    <2>6. ASSUME made' = made, at' = "idle" \/ at = "write" PROVE Bounded'
      BY <2>1, <2>3, <2>4, <2>6 DEF Bounded
    <2>7. Bounded'
      BY <1>1, <2>5, <2>6 DEF BeginSave, WriteTemp, SaveFails
    <2>8. Shifted'
      BY <1>1, <2>1 DEF BeginSave, WriteTemp, SaveFails, Shifted, Exists
    <2> QED BY <1>t, <2>2, <2>7, <2>8
  <1>2. CASE Replace
    <2>1. \A p \in Position : chain'[p] = IF p = 0 THEN made ELSE chain[p]
      BY <1>2 DEF Replace, StoreTypeOK, Position
    <2>2. \A p \in Position : chain[p] \in Nat /\ chain[p] < made
      BY <1>2 DEF Replace, Bounded, StoreTypeOK, Version
    <2>3. NewestFirst'
      BY <2>1, <2>2 DEF NewestFirst, Exists, Position
    <2>6. made' = made /\ newest' = made /\ at' = "idle" /\ made \in Nat
      BY <1>2 DEF Replace, StoreTypeOK, Version
    <2>7. 0 \in Position
      BY DEF Position
    <2>8. NewestKept' /\ Bounded'
      BY <2>1, <2>2, <2>6, <2>7 DEF NewestKept, Bounded
    <2>4. answer' = "none" /\ at' = "idle"
      BY <1>2 DEF Replace, Shifted
    <2>5. Shifted'
      BY <2>4 DEF Shifted
    <2> QED BY <1>t, <2>3, <2>5, <2>8
  <1> QED BY <1>1, <1>2

(* The steps of a delete, and a crash.                                     *)
LEMMA DeleteKeeps ==
  ASSUME StoreInv, BeginDelete \/ Unlink \/ DeleteFails \/ StoreCrash PROVE StoreInv'
  <1> USE StoreAssumption DEF StoreInv
  <1>t. StoreTypeOK'
    BY StoreTypesKept DEF StoreNext
  <1>1. CASE BeginDelete \/ DeleteFails \/ StoreCrash
    <2>1. chain' = chain /\ made' = made /\ newest' \in {0, newest}
      BY <1>1 DEF BeginDelete, DeleteFails, StoreCrash
    <2>2. NewestFirst' /\ NewestKept'
      BY <2>1 DEF NewestFirst, NewestKept, Exists
    <2>3. Bounded'
      BY <1>1, <2>1 DEF BeginDelete, DeleteFails, StoreCrash, Bounded, StoreTypeOK, Version
    <2>4. Shifted'
      BY <1>1, <2>1 DEF BeginDelete, DeleteFails, StoreCrash, Shifted, Exists
    <2> QED BY <1>t, <2>2, <2>3, <2>4
  <1>2. CASE Unlink
    <2>1. \A p \in Position : chain'[p] = IF p = pos THEN 0 ELSE chain[p]
      BY <1>2 DEF Unlink, StoreTypeOK
    <2>2. \A p \in Position : chain[p] \in Nat
      BY DEF StoreTypeOK, Version
    <2>3. newest = 0 /\ UNCHANGED <<made, newest>>
      BY <1>2 DEF Unlink, Shifted
    <2>4. NewestFirst' /\ NewestKept'
      BY <2>1, <2>2, <2>3 DEF NewestFirst, NewestKept, Exists
    <2>6. at' \in {"idle", "delete"} /\ made \in Nat
      BY <1>2 DEF Unlink, StoreTypeOK, Version
    <2>7. Bounded'
      BY <2>1, <2>2, <2>3, <2>6 DEF Bounded
    <2>5. Shifted'
      BY <1>2, <2>1, <2>3 DEF Unlink, Shifted, Exists, StoreTypeOK, Position
    <2> QED BY <1>t, <2>4, <2>5, <2>7
  <1> QED BY <1>1, <1>2

(* Every step keeps the invariant.                                         *)
LEMMA StoreKept == StoreInv /\ [StoreNext]_storeVars => StoreInv'
  <1> SUFFICES ASSUME StoreInv, [StoreNext]_storeVars PROVE StoreInv'
    OBVIOUS
  <1>1. CASE UNCHANGED storeVars
    BY <1>1 DEF storeVars, StoreInv, StoreTypeOK, NewestFirst, NewestKept, Bounded, Shifted, Exists
  <1> QED BY <1>1, RotateKeeps, SaveKeeps, DeleteKeeps DEF StoreNext

LEMMA StoreInvariance == StoreSpec => []StoreInv
  BY InitStore, StoreKept, PTL DEF StoreSpec

-----------------------------------------------------------------------------
(* The chain keeps its types, for any length of it.                        *)
THEOREM StoreTypes == StoreSpec => []StoreTypeOK
  BY StoreInvariance, PTL DEF StoreInv

(* The files of the chain are in the order of the saves.                   *)
THEOREM ChainIsOrdered == StoreSpec => []NewestFirst
  BY StoreInvariance, PTL DEF StoreInv

(* The last save is in the chain until it is deleted, whatever fails.      *)
THEOREM LastSaveIsKept == StoreSpec => []NewestKept
  BY StoreInvariance, PTL DEF StoreInv

(* A delete reported as done has left no file.                             *)
THEOREM DeletedStaysGone == StoreSpec => []DeletedIsGone
  <1>1. StoreInv => DeletedIsGone
    <2> SUFFICES ASSUME StoreInv, answer = "deleted" PROVE Representative = 0
      BY DEF DeletedIsGone
    <2>1. \A p \in Position : ~Exists(p)
      BY DEF StoreInv, Shifted
    <2> QED BY <2>1 DEF Representative
  <1> QED BY <1>1, StoreInvariance, PTL

(* A rotation drops only the file in the last place.                       *)
THEOREM RotationDropsOldest == StoreSpec => OnlyOldestDropped
  <1> DEFINE Carried == \A p \in Position \ {MaxRotated} :
                       Exists(p) => \E q \in Position : chain'[q] = chain[p]
  <1>1. StoreInv /\ [StoreNext]_storeVars => [at = "rotate" => Carried]_storeVars
    <2> SUFFICES ASSUME StoreInv, StoreNext, at = "rotate",
                        NEW p \in Position \ {MaxRotated}, Exists(p)
                 PROVE  \E q \in Position : chain'[q] = chain[p]
      OBVIOUS
    <2>1. Rotate \/ chain' = chain
      BY DEF StoreNext, BeginSave, WriteTemp, Replace, SaveFails, BeginDelete, Unlink,
        DeleteFails, StoreCrash
    <2>2. CASE chain' = chain
      BY <2>2
    <2>3. CASE Rotate /\ Exists(pos)
      <3>1. /\ pos \in Position /\ pos + 1 \in Position
            /\ p # pos + 1
        BY StoreAssumption DEF StoreInv, StoreTypeOK, Shifted, Position
      <3>2. chain' = [chain EXCEPT ![pos + 1] = chain[pos], ![pos] = 0]
        BY <2>3 DEF Rotate
      <3>3. p = pos => chain'[pos + 1] = chain[p]
        BY <3>1, <3>2, StoreAssumption DEF StoreInv, StoreTypeOK, Position
      <3>4. p # pos => chain'[p] = chain[p]
        BY <3>1, <3>2 DEF StoreInv, StoreTypeOK
      <3> QED BY <3>1, <3>3, <3>4
    <2>4. CASE Rotate /\ ~Exists(pos)
      BY <2>4 DEF Rotate
    <2> QED BY <2>1, <2>2, <2>3, <2>4
  <1> QED BY <1>1, StoreInvariance, PTL DEF StoreSpec, OnlyOldestDropped

-----------------------------------------------------------------------------
(* In an ordered chain the representative is the newest file, so it is     *)
(* enough for it not to go back that the newest version stays in the       *)
(* chain.                                                                  *)
Leads == Representative \in Nat /\ \A p \in Position : chain[p] <= Representative

LEMMA NewestRepresents == StoreInv => Leads
  <1> SUFFICES ASSUME StoreInv, NEW p \in Position
               PROVE  Representative \in Nat /\ chain[p] <= Representative
    BY StoreAssumption DEF Leads, Position
  <1>1. \A q \in Position : chain[q] \in Nat
    BY StoreAssumption DEF StoreInv, StoreTypeOK, Version
  <1>2. CASE Exists(p)
    <2>1. PICK r \in Position : /\ Exists(r) /\ Representative = chain[r]
                                /\ \A q \in 0..(r - 1) : ~Exists(q)
      BY <1>2, Represents DEF StoreInv
    <2>2. r <= p
      BY <1>2, <2>1, StoreAssumption DEF Position
    <2> QED BY <1>1, <1>2, <2>1, <2>2, StoreAssumption DEF StoreInv, NewestFirst, Position
  <1>3. CASE ~Exists(p) /\ \E q \in Position : Exists(q)
    <2>1. PICK r \in Position : Representative = chain[r]
      BY <1>3, Represents DEF StoreInv
    <2> QED BY <1>1, <1>3, <2>1 DEF Exists
  <1>4. CASE \A q \in Position : ~Exists(q)
    BY <1>1, <1>4 DEF Representative, Exists
  <1> QED BY <1>2, <1>3, <1>4

(* A step that is none of a delete leaves the representative in the chain, *)
(* or puts a newer version there.                                          *)
LEMMA RepresentativeStays ==
  ASSUME StoreInv, StoreNext, at # "delete", NEW r \in Position, Exists(r),
         \A q \in Position : chain[q] <= chain[r]
  PROVE  \E q \in Position : chain'[q] >= chain[r]
  <1>1. \A q \in Position : chain[q] \in Nat
    BY StoreAssumption DEF StoreInv, StoreTypeOK, Version
  <1>2. CASE Rotate /\ Exists(pos)
    <2>1. pos \in Position /\ pos + 1 \in Position
      BY <1>2, StoreAssumption DEF Rotate, StoreInv, StoreTypeOK, Shifted, Position
    <2>2. chain' = [chain EXCEPT ![pos + 1] = chain[pos], ![pos] = 0]
      BY <1>2 DEF Rotate
    <2>3. r # pos + 1
      BY <1>1, <1>2, <2>1, StoreAssumption DEF StoreInv, NewestFirst, Exists, Position
    <2>4. r = pos => chain'[pos + 1] = chain[r]
      BY <2>1, <2>2, StoreAssumption DEF StoreInv, StoreTypeOK, Position
    <2>5. r # pos => chain'[r] = chain[r]
      BY <2>1, <2>2, <2>3 DEF StoreInv, StoreTypeOK
    <2> QED BY <1>1, <2>1, <2>4, <2>5
  <1>3. CASE Replace
    <2>1. 0 \in Position /\ chain'[0] = made
      BY <1>3, StoreAssumption DEF Replace, StoreInv, StoreTypeOK, Position
    <2>2. chain[r] < made /\ made \in Nat
      BY <1>3, StoreAssumption DEF Replace, StoreInv, Bounded, StoreTypeOK, Version
    <2> QED BY <1>1, <2>1, <2>2
  <1>4. CASE chain' = chain
    BY <1>1, <1>4
  <1> QED BY <1>2, <1>3, <1>4 DEF StoreNext, BeginSave, Rotate, WriteTemp, SaveFails,
        BeginDelete, Unlink, DeleteFails, StoreCrash

(* No crash and no failure brings an old version to the front.             *)
THEOREM RepresentativeNeverRollsBack == StoreSpec => NeverRollsBack
  <1> DEFINE Forward == (\E p \in Position : Exists(p)) /\ at # "delete"
                          => Representative' >= Representative
  <1>1. StoreInv /\ Leads /\ Leads' /\ [StoreNext]_storeVars => [Forward]_storeVars
    <2> SUFFICES ASSUME StoreInv, Leads, Leads', StoreNext, at # "delete",
                        NEW p \in Position, Exists(p)
                 PROVE  Representative' >= Representative
      OBVIOUS
    <2>1. PICK r \in Position : Exists(r) /\ Representative = chain[r]
      BY Represents DEF StoreInv
    <2>2. PICK q \in Position : chain'[q] >= Representative
      BY <2>1, RepresentativeStays DEF Leads
    <2>3. /\ chain'[q] \in Int
          /\ chain'[q] <= Representative'
          /\ Representative \in Int /\ Representative' \in Int
      <3>1. StoreTypeOK'
        BY StoreTypesKept DEF StoreInv
      <3> QED BY <3>1, SMTT(30) DEF Leads, StoreTypeOK, Version, Position
    <2> QED BY <2>2, <2>3
  <1> QED BY <1>1, NewestRepresents, StoreInvariance, PTL DEF StoreSpec, NeverRollsBack

-----------------------------------------------------------------------------
(***************************************************************************)
(* Sub-agent runs.                                                         *)
(***************************************************************************)
(* What makes the records of the runs inductive: nobody is told before the *)
(* run is over; until then the file says RUNNING or is not there, and it   *)
(* is not there when the run keeps no file.                                *)
RunInv(r) ==
  /\ told[r] # "nothing" => run[r].at = "over"
  /\ run[r].at # "over" =>
       /\ file[r] \in {NoFile, "RUNNING"}
       /\ ~run[r].saves \/ run[r].at = "idle" => file[r] = NoFile
  /\ run[r].at = "handling" => run[r].outcome = "FAILED"
  /\ run[r].at = "aborting" => run[r].outcome = "ABORTED"
  /\ told[r] = "result" => file[r] \in {"COMPLETE", NoFile}
  /\ told[r] \in {"error", "cancelled"} => file[r] # "COMPLETE"

SubInv == SubTypeOK /\ \A r \in Runs : RunInv(r)

LEMMA InitSub == SubInit => SubInv
  BY SubAgentAssumption DEF SubInit, SubInv, SubTypeOK, RunInv, Outcomes

LEMMA OneRun ==
  ASSUME SubInv, NEW r \in Runs,
         \/ Refuse(r) \/ StartSaveFails(r)
         \/ \E saves \in BOOLEAN : StartSub(r, saves)
         \/ \E end \in {"text", "empty", "timeout", "error", "cancelled"} : EndWait(r, end)
         \/ Persist(r) \/ PersistFails(r) \/ GiveUp(r)
  PROVE  SubInv'
  <1> USE DEF SubInv
  <1>1. CASE Refuse(r) \/ StartSaveFails(r)
    <2>1. /\ run[r].at = "idle" /\ run' = [run EXCEPT ![r].at = "over"]
          /\ told' = [told EXCEPT ![r] = "error"] /\ file' = file
      BY <1>1 DEF Refuse, StartSaveFails
    <2>2. SubTypeOK'
      BY <2>1 DEF SubTypeOK
    <2>3. RunInv(r)'
      BY <2>1, SubAgentAssumption DEF SubTypeOK, RunInv
    <2>4. ASSUME NEW q \in Runs, q # r PROVE RunInv(q)'
      BY <2>1, <2>4 DEF SubTypeOK, RunInv
    <2> QED BY <2>2, <2>3, <2>4
  <1>2. ASSUME NEW saves \in BOOLEAN, StartSub(r, saves) PROVE SubInv'
    <2>1. /\ run[r].at = "idle" /\ told' = told
          /\ run' = [run EXCEPT ![r] = [at |-> "asked", outcome |-> "RUNNING", saves |-> saves]]
          /\ file' = IF saves THEN [file EXCEPT ![r] = "RUNNING"] ELSE file
      BY <1>2 DEF StartSub
    <2>2. SubTypeOK'
      BY <2>1 DEF SubTypeOK, Outcomes
    <2>3. RunInv(r)'
      <3>1. told[r] = "nothing"
        BY <2>1 DEF RunInv, SubTypeOK
      <3> QED BY <2>1, <3>1, SubAgentAssumption DEF SubTypeOK, RunInv
    <2>4. ASSUME NEW q \in Runs, q # r PROVE RunInv(q)'
      BY <2>1, <2>4 DEF SubTypeOK, RunInv
    <2> QED BY <2>2, <2>3, <2>4
  <1>3. ASSUME NEW end \in {"text", "empty", "timeout", "error", "cancelled"}, EndWait(r, end)
        PROVE  SubInv'
    <2>1. /\ StepAfter(end) \in {"answered", "aborting", "handling"} /\ OutcomeOf(end) \in Outcomes
          /\ StepAfter(end) = "handling" => OutcomeOf(end) = "FAILED"
          /\ StepAfter(end) = "aborting" => OutcomeOf(end) = "ABORTED"
      BY DEF StepAfter, OutcomeOf, Outcomes
    <2> QED BY <1>3, <2>1, SubAgentAssumption DEF EndWait, SubTypeOK, RunInv
  <1>4. CASE Persist(r)
    <2>1. /\ run[r].at \in Saving /\ run' = [run EXCEPT ![r].at = "over"]
          /\ told' = [told EXCEPT ![r] = Message(r)]
          /\ file' = IF run[r].saves THEN [file EXCEPT ![r] = run[r].outcome] ELSE file
      BY <1>4 DEF Persist, Stored
    <2>2. /\ Message(r) \in {"cancelled", "result", "error"}
          /\ Message(r) = "result" => run[r].outcome = "COMPLETE"
          /\ Message(r) # "result" => run[r].outcome # "COMPLETE"
      BY <2>1 DEF Message, Saving, RunInv
    <2>3. SubTypeOK'
      BY <2>1, <2>2 DEF SubTypeOK
    <2>4. ~run[r].saves => file[r] = NoFile
      BY <2>1 DEF RunInv, Saving
    <2>5. RunInv(r)'
      BY <2>1, <2>2, <2>4, SubAgentAssumption DEF SubTypeOK, RunInv
    <2>6. ASSUME NEW q \in Runs, q # r PROVE RunInv(q)'
      BY <2>1, <2>6 DEF SubTypeOK, RunInv
    <2> QED BY <2>3, <2>5, <2>6
  <1>5. CASE PersistFails(r)
    <2>1. /\ run[r].at = "answered" /\ UNCHANGED <<file, told>>
          /\ run' = [run EXCEPT ![r].at = "handling", ![r].outcome = "FAILED"]
      BY <1>5 DEF PersistFails, Relabelled
    <2>2. SubTypeOK'
      BY <2>1, ZenonT(40) DEF SubTypeOK, Outcomes
    <2>3. RunInv(r)'
      BY <2>1, SubAgentAssumption DEF SubTypeOK, RunInv
    <2>4. ASSUME NEW q \in Runs, q # r PROVE RunInv(q)'
      BY <2>1, <2>4 DEF SubTypeOK, RunInv
    <2> QED BY <2>2, <2>3, <2>4
  <1>6. CASE GiveUp(r)
    <2>1. /\ run[r].at \in {"handling", "aborting"} /\ run' = [run EXCEPT ![r].at = "over"]
          /\ told' = [told EXCEPT ![r] = "error"] /\ file' = file
      BY <1>6 DEF GiveUp
    <2>2. SubTypeOK'
      BY <2>1 DEF SubTypeOK
    <2>3. RunInv(r)'
      BY <2>1, SubAgentAssumption DEF SubTypeOK, RunInv
    <2>4. ASSUME NEW q \in Runs, q # r PROVE RunInv(q)'
      BY <2>1, <2>4 DEF SubTypeOK, RunInv
    <2> QED BY <2>2, <2>3, <2>4
  <1> QED BY <1>1, <1>2, <1>3, <1>4, <1>5, <1>6

LEMMA DeathKeeps == SubInv /\ ServerDies => SubInv'
  <1> SUFFICES ASSUME SubInv, ServerDies PROVE SubInv'
    OBVIOUS
  <1>1. /\ run' = [r \in Runs |-> [run[r] EXCEPT !.at = "over"]] /\ UNCHANGED told
        /\ file' \in [Runs -> Outcomes \cup {NoFile}]
        /\ \A r \in Runs : file'[r] = file[r] \/ run[r].at \in Saving
    BY DEF ServerDies, SubInv, SubTypeOK
  <1>2. SubTypeOK'
    BY <1>1 DEF SubInv, SubTypeOK
  <1>3. ASSUME NEW r \in Runs PROVE RunInv(r)'
    <2>1. run'[r].at = "over" /\ told'[r] = told[r]
      BY <1>1 DEF SubInv, SubTypeOK
    <2>2. told[r] # "nothing" => file'[r] = file[r]
      BY <1>1 DEF SubInv, RunInv, Saving
    <2> QED BY <2>1, <2>2 DEF SubInv, RunInv
  <1> QED BY <1>2, <1>3 DEF SubInv

LEMMA SubInvariance == SubSpec => []SubInv
  <1>1. SubInv /\ [SubNext]_subVars => SubInv'
    <2>1. SubInv /\ UNCHANGED subVars => SubInv'
      BY DEF SubInv, subVars, SubTypeOK, RunInv
    <2> QED BY <2>1, OneRun, DeathKeeps DEF SubNext
  <1> QED BY <1>1, InitSub, PTL DEF SubSpec

(* Types                                                                   *)
THEOREM SubTypes == SubSpec => []SubTypeOK
  BY SubInvariance, PTL DEF SubInv

(* The parent's turn and the run's file tell the same story.               *)
THEOREM RunsRecorded == SubSpec => []SubRunsRecorded
  <1>1. SubInv => SubRunsRecorded
    BY DEF SubInv, RunInv, SubRunsRecorded
  <1> QED BY <1>1, SubInvariance, PTL

-----------------------------------------------------------------------------
(***************************************************************************)
(* Skills and their proposals.                                             *)
(***************************************************************************)
(* A decision in hand is about a proposal that waits for it.  The file is  *)
(* as it was checked, unless the user saved it since; once it is written,  *)
(* it has been on disk.                                                    *)
InHand ==
  /\ hand.at # "free" => hand.p.status = "pending"
  /\ hand.at \in {"checked", "written"} =>
       hand.number \in DOMAIN proposals /\ proposals[hand.number] = hand.p
  /\ hand.at = "checked" /\ ~raced =>
       document[hand.p.skill] = IF hand.p.action = "create" THEN NoDocument ELSE hand.p.base
  /\ hand.at = "written" => <<hand.p.skill, hand.p.content>> \in installed

SkillInv == SkillTypeOK /\ SkillDecisions /\ InHand

LEMMA InitSkills == SkillInit => SkillInv
  <1> SUFFICES ASSUME SkillInit PROVE SkillInv
    OBVIOUS
  <1>1. SkillTypeOK
    <2>1. hand \in {EmptyHand} \cup Stretch /\ raced \in BOOLEAN /\ installed \subseteq Skills \X Documents
      BY DEF SkillInit
    <2>2. document \in [Skills -> Documents \cup {NoDocument}] /\ proposals \in Seq(Proposal)
      BY DEF SkillInit
    <2>3. userEdits \in 0..MaxUserEdits
      BY SkillsAssumption DEF SkillInit
    <2> QED BY <2>1, <2>2, <2>3 DEF SkillTypeOK
  <1>2. SkillDecisions
    BY DEF SkillInit, SkillDecisions, NoDoubleProposal, ApprovedWasInstalled
  <1>3. hand.at = "free"
    BY DEF SkillInit, EmptyHand
  <1>4. InHand
    BY <1>3 DEF InHand
  <1> QED BY <1>1, <1>2, <1>4 DEF SkillInv

LEMMA ProposalTypes ==
  ASSUME SkillTypeOK
  PROVE  /\ DOMAIN proposals = 1..Len(proposals) /\ Len(proposals) \in Nat
         /\ \A i \in DOMAIN proposals : proposals[i] \in Proposal
  BY DEF SkillTypeOK

(* What is in hand, if anything, is a stretch.                             *)
LEMMA HandTypes ==
  ASSUME SkillTypeOK, hand.at # "free"
  PROVE  hand \in Stretch /\ hand.p \in Proposal /\ hand.p.skill \in Skills /\ hand.p.content \in Documents
         /\ hand.number \in Nat
  BY DEF SkillTypeOK, EmptyHand, Stretch, Proposal

(* The decisions so far stand when neither proposals nor documents change, *)
(* or only documents are added.                                            *)
LEMMA DecisionsStand ==
  ASSUME SkillDecisions, proposals' = proposals, installed \subseteq installed'
  PROVE  SkillDecisions'
  BY DEF SkillDecisions, NoDoubleProposal, ApprovedWasInstalled

LEMMA ReviewKeeps ==
  ASSUME SkillInv, NEW s \in Sessions, NEW k \in Skills, NEW act \in {"create", "update"},
         NEW d \in Documents, ReviewAnswers(s, k, act, d)
  PROVE  SkillInv'
  <1> DEFINE new == [session |-> s, skill |-> k, action |-> act, content |-> d,
                     base |-> NoDocument, status |-> "pending"]
  <1>1. new \in Proposal /\ new.status = "pending"
    BY DEF Proposal
  <1>2. hand' \in {EmptyHand, [at |-> "looked", number |-> 0, p |-> new]}
    BY DEF ReviewAnswers
  <1> HIDE DEF new
  <1>3. hand' \in {EmptyHand} \cup Stretch
    BY <1>1, <1>2 DEF Stretch
  <1>4. SkillTypeOK'
    BY <1>3 DEF ReviewAnswers, SkillInv, SkillTypeOK
  <1>5. InHand'
    BY <1>1, <1>2 DEF InHand, EmptyHand
  <1> QED BY <1>4, <1>5, DecisionsStand DEF ReviewAnswers, SkillInv

LEMMA CompareKeeps == ASSUME SkillInv, CompareSkill PROVE SkillInv'
  <1>1. hand.at = "looked" /\ hand' \in {EmptyHand, [hand EXCEPT !.at = "compared"]}
    BY DEF CompareSkill
  <1>2. hand \in Stretch /\ hand.p.status = "pending"
    BY <1>1, HandTypes DEF SkillInv, InHand
  <1>3. hand' \in {EmptyHand} \cup Stretch /\ InHand'
    BY <1>1, <1>2 DEF Stretch, InHand, EmptyHand
  <1>4. SkillTypeOK'
    BY <1>3 DEF CompareSkill, SkillInv, SkillTypeOK
  <1> QED BY <1>3, <1>4, DecisionsStand DEF CompareSkill, SkillInv

LEMMA ProposalKeeps == ASSUME SkillInv, StoreProposal PROVE SkillInv'
  <1> DEFINE new == Based(hand.p)
  <1>1. hand.at = "compared" /\ hand' = EmptyHand /\ UNCHANGED <<document, userEdits, installed, raced>>
    BY DEF StoreProposal
  <1>2. /\ hand.p \in Proposal /\ hand.p.status = "pending"
        /\ document \in [Skills -> Documents \cup {NoDocument}]
    BY <1>1, HandTypes DEF SkillInv, InHand, SkillTypeOK
  <1>3. /\ new \in Proposal /\ new.status = "pending" /\ new.session = hand.p.session
        /\ new.skill = hand.p.skill /\ new.content = hand.p.content
    BY <1>2 DEF Based, Proposal
  <1>4. InHand'
    BY <1>1 DEF InHand, EmptyHand
  <1>5. CASE proposals' = proposals
    <2>1. SkillTypeOK'
      BY <1>1, <1>5 DEF SkillInv, SkillTypeOK
    <2> QED BY <1>1, <1>4, <1>5, <2>1, DecisionsStand DEF SkillInv
  <1>6. CASE /\ proposals' = Append(proposals, new)
             /\ ~\E i \in DOMAIN proposals : SameCandidate(proposals[i], hand.p)
    <2> HIDE DEF new
    <2>1. proposals' \in Seq(Proposal)
      BY <1>3, <1>6 DEF SkillInv, SkillTypeOK
    <2>2. SkillTypeOK'
      BY <1>1, <2>1 DEF SkillInv, SkillTypeOK
    <2>3. /\ DOMAIN proposals' = DOMAIN proposals \cup {Len(proposals) + 1}
          /\ proposals'[Len(proposals) + 1] = new
          /\ \A i \in DOMAIN proposals : proposals'[i] = proposals[i]
          /\ Len(proposals) + 1 \notin DOMAIN proposals
      BY <1>6 DEF SkillInv, SkillTypeOK
    <2>4. \A i \in DOMAIN proposals :
            proposals[i].status = "pending" /\ WorkspaceOf[proposals[i].session] = WorkspaceOf[new.session]
            => ~(proposals[i].skill = new.skill /\ proposals[i].content = new.content)
      BY <1>3, <1>6 DEF SameCandidate
    <2>5. NoDoubleProposal'
      BY <1>3, <2>3, <2>4 DEF SkillInv, SkillDecisions, NoDoubleProposal
    <2>6. ApprovedWasInstalled'
      BY <1>1, <1>3, <2>3 DEF SkillInv, SkillDecisions, ApprovedWasInstalled
    <2> QED BY <1>4, <2>2, <2>5, <2>6 DEF SkillInv, SkillDecisions
  <1> QED BY <1>5, <1>6 DEF StoreProposal

LEMMA CheckKeeps == ASSUME SkillInv, NEW i \in DOMAIN proposals, CheckSkill(i) PROVE SkillInv'
  <1> DEFINE p == proposals[i]
             there == p.action = "create" /\ document[p.skill] # NoDocument
  <1>1. /\ p \in Proposal /\ p.skill \in Skills /\ p.content \in Documents /\ i \in Nat
        /\ p.action \in {"create", "update"}
    BY ProposalTypes DEF SkillInv, Proposal
  <1>2. /\ p.status = "pending" /\ MayInstall(p)
        /\ UNCHANGED <<document, proposals, userEdits, raced>>
    BY DEF CheckSkill
  <1>3. /\ hand' = [at |-> IF there THEN "written" ELSE "checked", p |-> p, number |-> i]
        /\ there => installed' = installed \cup {<<p.skill, p.content>>}
        /\ ~there => installed' = installed
    <2>1. hand' = [at |-> IF there THEN "written" ELSE "checked", p |-> p, number |-> i]
      BY Zenon DEF CheckSkill
    <2>2. IF there THEN Installed(p) ELSE installed' = installed
      BY Zenon DEF CheckSkill
    <2> QED BY <2>1, <2>2, Zenon DEF Installed
  <1>4. ~there => document[p.skill] = IF p.action = "create" THEN NoDocument ELSE p.base
    BY <1>1, <1>2 DEF MayInstall
  <1> HIDE DEF p
  <1>5. hand' \in Stretch /\ hand'.p = p /\ hand'.number = i
        /\ hand'.at = IF there THEN "written" ELSE "checked"
    BY <1>1, <1>3 DEF Stretch
  <1>6. installed \subseteq installed' /\ installed' \subseteq Skills \X Documents
    BY <1>1, <1>3 DEF SkillInv, SkillTypeOK
  <1>7. SkillTypeOK'
    BY <1>2, <1>5, <1>6 DEF SkillInv, SkillTypeOK
  <1>8. InHand'
    BY <1>2, <1>3, <1>4, <1>5 DEF InHand, p
  <1> QED BY <1>2, <1>6, <1>7, <1>8, DecisionsStand DEF SkillInv

LEMMA WriteKeeps == ASSUME SkillInv, WriteSkill PROVE SkillInv'
  <1> DEFINE p == hand.p
  <1>1. /\ hand \in Stretch /\ p \in Proposal /\ p.skill \in Skills /\ p.content \in Documents
        /\ hand.at = "checked" /\ p.status = "pending"
        /\ hand.number \in DOMAIN proposals /\ proposals[hand.number] = p
    BY HandTypes DEF WriteSkill, SkillInv, InHand
  <1>2. /\ hand' = [hand EXCEPT !.at = "written"] /\ raced' = FALSE /\ UNCHANGED <<proposals, userEdits>>
        /\ document' = [document EXCEPT ![p.skill] = p.content]
        /\ installed' = installed \cup {<<p.skill, p.content>>}
    BY DEF WriteSkill, Installed
  <1>3. hand' \in Stretch /\ hand'.at = "written" /\ hand'.number = hand.number /\ hand'.p = p
    <2>1. hand \in Stretch /\ hand' = [hand EXCEPT !.at = "written"]
      BY <1>1, <1>2
    <2> QED BY <2>1 DEF Stretch
  <1> HIDE DEF p
  <1>4. SkillTypeOK'
    <2>1. document' \in [Skills -> Documents \cup {NoDocument}] /\ installed' \subseteq Skills \X Documents
      BY <1>1, <1>2 DEF SkillInv, SkillTypeOK
    <2> QED BY <1>2, <1>3, <2>1 DEF SkillInv, SkillTypeOK
  <1>5. InHand'
    BY <1>1, <1>2, <1>3 DEF InHand
  <1> QED BY <1>2, <1>4, <1>5, DecisionsStand DEF SkillInv

(* A proposal that waits gets status t.                                    *)
LEMMA StatusKeeps ==
  ASSUME SkillInv, NEW i \in DOMAIN proposals, NEW t \in {"approved", "rejected"},
         proposals' = [proposals EXCEPT ![i].status = t], hand' = EmptyHand,
         UNCHANGED <<document, userEdits, installed>>, raced' \in BOOLEAN,
         t = "approved" => <<proposals[i].skill, proposals[i].content>> \in installed
  PROVE  SkillInv'
  <1> DEFINE p == proposals[i]
  <1>1. p \in Proposal /\ proposals \in Seq(Proposal)
    BY ProposalTypes DEF SkillInv, SkillTypeOK
  <1>2. [p EXCEPT !.status = t] \in Proposal
    BY <1>1 DEF Proposal
  <1>3. proposals' \in Seq(Proposal)
    BY <1>1, <1>2
  <1>4. /\ DOMAIN proposals' = DOMAIN proposals
        /\ proposals'[i].status = t /\ proposals'[i].skill = p.skill /\ proposals'[i].content = p.content
        /\ \A j \in DOMAIN proposals : j # i => proposals'[j] = proposals[j]
    BY <1>1 DEF Proposal
  <1>5. SkillTypeOK'
    BY <1>3 DEF SkillInv, SkillTypeOK
  <1>6. NoDoubleProposal'
    BY <1>4 DEF SkillInv, SkillDecisions, NoDoubleProposal
  <1>7. ApprovedWasInstalled'
    BY <1>4 DEF SkillInv, SkillDecisions, ApprovedWasInstalled
  <1>8. InHand'
    BY DEF InHand, EmptyHand
  <1> QED BY <1>5, <1>6, <1>7, <1>8 DEF SkillInv, SkillDecisions

LEMMA EditKeeps ==
  ASSUME SkillInv, NEW k \in Skills, NEW d \in Documents \cup {NoDocument}, EditSkill(k, d)
  PROVE  SkillInv'
  <1>1. userEdits' \in 0..MaxUserEdits
    BY SkillsAssumption DEF EditSkill, SkillInv, SkillTypeOK
  <1>2. SkillTypeOK'
    BY <1>1 DEF EditSkill, SkillInv, SkillTypeOK
  <1>3. hand.at = "checked" /\ ~raced' => ~raced /\ document'[hand.p.skill] = document[hand.p.skill]
    BY HandTypes DEF EditSkill, SkillInv, SkillTypeOK
  <1>4. InHand'
    BY <1>3 DEF EditSkill, SkillInv, InHand
  <1> QED BY <1>2, <1>4, DecisionsStand DEF EditSkill, SkillInv

LEMMA SkillInvariance == SkillSpec => []SkillInv
  <1>1. SkillInv /\ [SkillNext]_skillVars => SkillInv'
    <2> SUFFICES ASSUME SkillInv, [SkillNext]_skillVars PROVE SkillInv'
      OBVIOUS
    <2>1. ASSUME MarkApproved PROVE SkillInv'
      <3>1. /\ hand.number \in DOMAIN proposals /\ proposals[hand.number] = hand.p
            /\ <<hand.p.skill, hand.p.content>> \in installed
        BY <2>1 DEF MarkApproved, SkillInv, InHand
      <3>2. raced' \in BOOLEAN
        BY <2>1 DEF MarkApproved, SkillInv, SkillTypeOK
      <3> QED BY <2>1, <3>1, <3>2, StatusKeeps DEF MarkApproved
    <2>2. ASSUME NEW i \in DOMAIN proposals, Reject(i) PROVE SkillInv'
      <3>1. raced' \in BOOLEAN /\ hand' = EmptyHand
        BY <2>2 DEF Reject, SkillInv, SkillTypeOK
      <3> QED BY <2>2, <3>1, StatusKeeps DEF Reject
    <2>3. ASSUME FailInHand PROVE SkillInv'
      <3>1. SkillTypeOK' /\ InHand'
        BY <2>3 DEF FailInHand, SkillInv, SkillTypeOK, InHand, EmptyHand
      <3> QED BY <2>3, <3>1, DecisionsStand DEF FailInHand, SkillInv
    <2>4. CASE UNCHANGED skillVars
      BY <2>4 DEF skillVars, SkillInv, SkillTypeOK, SkillDecisions, NoDoubleProposal,
                  ApprovedWasInstalled, InHand
    <2> QED BY <2>1, <2>2, <2>3, <2>4, ReviewKeeps, CompareKeeps, ProposalKeeps, CheckKeeps, WriteKeeps,
               EditKeeps DEF SkillNext
  <1> QED BY <1>1, InitSkills, PTL DEF SkillSpec

(* Two reviews of a workspace leave no two open proposals of a document,   *)
(* and no proposal is approved whose document was not on disk.             *)
THEOREM SkillsDecided == SkillSpec => []SkillDecisions
  BY SkillInvariance, PTL DEF SkillInv

(* A decision replaces the document its update was stored against, or      *)
(* none: what the user wrote is lost only between check and write.         *)
THEOREM EditsSpared == SkillSpec => ApprovalSparesEdits
  <1> DEFINE Spares == \A k \in Skills :
         document[k] # document'[k] /\ userEdits' = userEdits =>
           \/ raced
           \/ document[k] = NoDocument
           \/ \E i \in DOMAIN proposals :
                 /\ proposals[i].skill = k /\ proposals[i].status = "pending"
                 /\ proposals[i].base = document[k]
                 /\ proposals[i].content = document'[k]
  <1>1. SkillInv /\ [SkillNext]_skillVars => [Spares]_skillVars
    <2> SUFFICES ASSUME SkillInv, SkillNext, NEW k \in Skills,
                        document[k] # document'[k], userEdits' = userEdits, ~raced
                 PROVE  \/ document[k] = NoDocument
                        \/ \E i \in DOMAIN proposals :
                             /\ proposals[i].skill = k /\ proposals[i].status = "pending"
                             /\ proposals[i].base = document[k]
                             /\ proposals[i].content = document'[k]
      OBVIOUS
    <2>1. userEdits \in Nat
      BY SkillsAssumption DEF SkillInv, SkillTypeOK
    <2>2. WriteSkill
      <3>1. document' # document /\ userEdits' # userEdits + 1
        BY <2>1
      <3> QED BY <3>1 DEF SkillNext, ReviewAnswers, CompareSkill, StoreProposal, MarkApproved,
                          FailInHand, CheckSkill, Reject, EditSkill
    <2>3. /\ hand.at = "checked" /\ hand.p.status = "pending"
          /\ hand.number \in DOMAIN proposals /\ proposals[hand.number] = hand.p
          /\ document[hand.p.skill] = IF hand.p.action = "create" THEN NoDocument ELSE hand.p.base
          /\ document' = [document EXCEPT ![hand.p.skill] = hand.p.content]
      BY <2>2 DEF WriteSkill, SkillInv, InHand
    <2>4. hand.p.skill = k /\ document'[k] = hand.p.content
      BY <2>3 DEF SkillInv, SkillTypeOK
    <2> QED BY <2>3, <2>4
  <1> HIDE DEF Spares
  <1>2. SkillSpec => [][Spares]_skillVars
    BY <1>1, SkillInvariance, PTL DEF SkillSpec
  <1> QED BY <1>2 DEF ApprovalSparesEdits, Spares

-----------------------------------------------------------------------------
(***************************************************************************)
(* The configuration's two files and their cache.                          *)
(***************************************************************************)
(* A saver is idle, or a record with these fields.                         *)
Busy == [at : {"looking", "read", "filled", "copied", "merged", "replaced", "stored"},
         kind : {"get", "put"}, sent : Sent, config : Config \cup {NoConfig}, mtime : 0..MaxTemplates]

FilesOK ==
  /\ template \in [config : Config, mtime : 1..MaxTemplates]
  /\ template.config.key = Blank
  /\ localKey \in ApiKeys \cup {Blank}
  /\ cached \in Config \cup {NoConfig} /\ cachedAt \in 0..MaxTemplates /\ cachedAt <= template.mtime
  /\ lastSaved \in Config \cup {NoConfig}
  /\ saver \in [Savers -> Busy \cup {Free}]

(* The cache's time is the template's only when its setting is; its        *)
(* credential is the local file's, or none.                                *)
CacheOK ==
  cached # NoConfig /\ cachedAt = template.mtime =>
    /\ cached.setting = template.config.setting
    /\ \/ cached.key = Blank
       \/ cached.key = localKey /\ \A s \in Savers : saver[s].at # "replaced"

OneWriter == \A s, t \in Writers : s = t

SavedOK ==
  Writers = {} /\ lastSaved # NoConfig =>
    lastSaved = [setting |-> template.config.setting, key |-> localKey]

SaverOK(s) ==
  /\ saver[s].mtime <= template.mtime
  /\ saver[s].at \in {"read", "copied", "merged", "replaced", "stored"} => saver[s].config \in Config
  /\ saver[s].at = "filled" => cached \in Config
  /\ saver[s].at = "read" /\ saver[s].mtime = template.mtime => saver[s].config = template.config
  /\ saver[s].at \in {"replaced", "stored"} =>
       template.config = [setting |-> saver[s].config.setting, key |-> Blank]
  /\ saver[s].at = "stored" => localKey = saver[s].config.key

ConfigInv == FilesOK /\ CacheOK /\ OneWriter /\ SavedOK /\ \A s \in Savers : SaverOK(s)

LEMMA InitConfig == ConfigInit => ConfigInv
  <1> SUFFICES ASSUME ConfigInit PROVE ConfigInv
    OBVIOUS
  <1> DEFINE first == CHOOSE s \in Settings \ BadSettings : TRUE
  <1>1. first \in Settings
    BY ConfigAssumption
  <1> HIDE DEF first
  <1>2. /\ template = [config |-> [setting |-> first, key |-> Blank], mtime |-> 1]
        /\ localKey = Blank /\ cached = NoConfig /\ cachedAt = 0
        /\ saver = [s \in Savers |-> Free] /\ lastSaved = [setting |-> first, key |-> Blank]
    BY DEF ConfigInit, first
  <1>3. FilesOK
    BY <1>1, <1>2, ConfigAssumption DEF FilesOK, Config
  <1>4. \A s \in Savers : saver[s] = Free /\ saver[s].at = "idle" /\ saver[s].mtime = 0
    BY <1>2 DEF Free
  <1>5. CacheOK /\ OneWriter /\ SavedOK
    BY <1>2, <1>4 DEF CacheOK, OneWriter, SavedOK, Writers
  <1>6. \A s \in Savers : SaverOK(s)
    <2> SUFFICES ASSUME NEW s \in Savers PROVE SaverOK(s)
      OBVIOUS
    <2>1. template.mtime = 1 /\ saver[s].at = "idle" /\ saver[s].mtime = 0
      BY <1>2, <1>4
    <2> QED BY <2>1 DEF SaverOK
  <1> QED BY <1>3, <1>5, <1>6 DEF ConfigInv

(* A saver that is not idle has all its fields.                            *)
LEMMA BusySaver ==
  ASSUME FilesOK, NEW s \in Savers
  PROVE  /\ saver[s].at # "idle" => saver[s] \in Busy
         /\ saver[s].mtime \in 0..MaxTemplates
         /\ template.mtime \in Nat /\ template.config \in Config /\ MaxTemplates \in Nat
  BY ConfigAssumption DEF FilesOK, Busy, Free

(* A saver steps and becomes v: what is left to show of it, and of the     *)
(* others, when the files and the cache stay as they are.                  *)
LEMMA OneSteps ==
  ASSUME ConfigInv, NEW s \in Savers, NEW v \in Busy \cup {Free},
         saver' = [saver EXCEPT ![s] = v],
         UNCHANGED <<template, localKey, cached, cachedAt, lastSaved>>,
         saver[s].at \notin {"replaced", "stored"}, v.at \notin {"replaced", "stored"},
         v.mtime <= template.mtime,
         v.at \in {"read", "copied", "merged"} => v.config \in Config,
         v.at = "filled" => cached \in Config,
         v.at = "read" /\ v.mtime = template.mtime => v.config = template.config
  PROVE  ConfigInv'
  <1> USE DEF ConfigInv
  <1>1. saver' \in [Savers -> Busy \cup {Free}] /\ saver'[s] = v /\ \A q \in Savers : q # s => saver'[q] = saver[q]
    BY DEF FilesOK
  <1>2. FilesOK'
    BY <1>1 DEF FilesOK
  <1>3. Writers' = Writers
    BY <1>1 DEF Writers
  <1>4. CacheOK' /\ OneWriter' /\ SavedOK'
    BY <1>1, <1>3 DEF CacheOK, OneWriter, SavedOK
  <1>5. \A q \in Savers : SaverOK(q)'
    BY <1>1 DEF SaverOK
  <1> QED BY <1>2, <1>4, <1>5

LEMMA LoadKeeps ==
  ASSUME ConfigInv, NEW s \in Savers,
         \/ StartLoad(s, "get", Reading)
         \/ \E asks \in Sent : StartLoad(s, "put", asks)
         \/ Hit(s) \/ ReadTemplate(s) \/ CopyCache(s) \/ EndLoad(s) \/ ReplaceFails(s)
  PROVE  ConfigInv'
  <1>t. /\ saver[s].at # "idle" => saver[s] \in Busy
        /\ saver[s].mtime \in 0..MaxTemplates /\ saver[s].mtime <= template.mtime
        /\ template.mtime \in 0..MaxTemplates /\ template.config \in Config
        /\ cached \in Config \cup {NoConfig}
        /\ MaxTemplates \in Nat /\ template.mtime \in Nat /\ saver[s].mtime \in Nat
        /\ 0 <= template.mtime /\ saver \in [Savers -> Busy \cup {Free}]
    BY BusySaver DEF ConfigInv, FilesOK, SaverOK
  <1>f. Free.at = "idle" /\ Free.mtime = 0 /\ Free \in Busy \cup {Free}
    BY DEF Free
  <1>1. ASSUME NEW kind \in {"get", "put"}, NEW asks \in Sent, StartLoad(s, kind, asks) PROVE ConfigInv'
    <2> DEFINE v == [at |-> "looking", kind |-> kind, sent |-> asks,
                     config |-> NoConfig, mtime |-> template.mtime]
    <2>1. v \in Busy /\ v.at = "looking" /\ v.mtime <= template.mtime
      BY <1>t DEF Busy
    <2>2. saver' = [saver EXCEPT ![s] = v] /\ saver[s].at = "idle"
      BY <1>1 DEF StartLoad
    <2>3. UNCHANGED <<template, localKey, cached, cachedAt, lastSaved>>
      BY <1>1 DEF StartLoad
    <2> HIDE DEF v
    <2> QED BY <1>t, <2>1, <2>2, <2>3, OneSteps
  <1>2. CASE Hit(s)
    <2> DEFINE v == [saver[s] EXCEPT !.at = "copied", !.config = cached, !.mtime = 0]
    <2>0. saver[s] \in Busy /\ cached \in Config /\ 0 \in 0..MaxTemplates
      <3>1. saver[s].at = "looking" /\ cached # NoConfig
        BY <1>2 DEF Hit, CacheFits
      <3> QED BY <1>t, <3>1
    <2>1. v \in Busy /\ v.at = "copied" /\ v.mtime = 0 /\ v.config = cached
      BY <2>0 DEF Busy
    <2>2. saver' = [saver EXCEPT ![s] = v] /\ saver[s].at = "looking"
      BY <1>2 DEF Hit
    <2>3. UNCHANGED <<template, localKey, cached, cachedAt, lastSaved>>
      BY <1>2 DEF Hit
    <2> HIDE DEF v
    <2> QED BY <1>t, <2>0, <2>1, <2>2, <2>3, OneSteps
  <1>3. CASE ReadTemplate(s)
    <2> DEFINE v == IF template.config.setting \in BadSettings THEN Free
                    ELSE [saver[s] EXCEPT !.at = "read", !.config = template.config]
    <2>1. /\ v \in Busy \cup {Free} /\ v.at \in {"idle", "read"} /\ v.mtime <= template.mtime
          /\ v.at = "read" => v.config = template.config
      BY <1>t, <1>f, <1>3 DEF Busy, ReadTemplate
    <2>2. saver' = [saver EXCEPT ![s] = v] /\ saver[s].at = "looking"
      BY <1>t, <1>3 DEF ReadTemplate
    <2>3. UNCHANGED <<template, localKey, cached, cachedAt, lastSaved>>
      BY <1>3 DEF ReadTemplate
    <2> HIDE DEF v
    <2> QED BY <1>t, <2>1, <2>2, <2>3, OneSteps
  <1>4. CASE CopyCache(s)
    <2> DEFINE v == [saver[s] EXCEPT !.at = "copied", !.config = cached]
    <2>1. /\ v \in Busy /\ v.at = "copied" /\ v.mtime = saver[s].mtime /\ v.config = cached
          /\ cached \in Config
      BY <1>t, <1>4 DEF Busy, CopyCache, ConfigInv, SaverOK
    <2>2. saver' = [saver EXCEPT ![s] = v] /\ saver[s].at = "filled"
      BY <1>t, <1>4 DEF CopyCache
    <2>3. UNCHANGED <<template, localKey, cached, cachedAt, lastSaved>>
      BY <1>4 DEF CopyCache
    <2> HIDE DEF v
    <2> QED BY <1>t, <2>1, <2>2, <2>3, OneSteps
  <1>5. CASE EndLoad(s)
    <2>1. saver[s] \in Busy /\ saver[s].at = "copied" /\ saver[s].config \in Config /\ saver[s].sent \in Sent
      BY <1>t, <1>5 DEF EndLoad, ConfigInv, SaverOK, Busy
    <2> DEFINE merged == MergedWith(Overridden(saver[s].config), saver[s].sent)
               v == IF saver[s].kind = "get" THEN Free
                    ELSE [saver[s] EXCEPT !.at = "merged", !.sent = Reading, !.config = merged]
    <2>2. merged \in Config
      <3>1. Overridden(saver[s].config) \in Config
        BY <2>1, ConfigAssumption DEF Overridden, Config, ConfigInv, FilesOK
      <3>2. \A c \in Config, m \in Sent : MergedWith(c, m) \in Config
        BY ConfigAssumption DEF MergedWith, SentKey, Sent, Config
      <3> QED BY <2>1, <3>1, <3>2
    <2>3. saver' = [saver EXCEPT ![s] = v]
      BY <1>5, Zenon DEF EndLoad
    <2> HIDE DEF merged
    <2>4. Reading \in Sent
      BY DEF Reading, Sent
    <2>5. v \in Busy \cup {Free} /\ v.at \in {"idle", "merged"} /\ v.mtime <= template.mtime
          /\ (v.at = "merged" => v.config \in Config)
      BY <1>t, <1>f, <2>1, <2>2, <2>4 DEF Busy
    <2>6. UNCHANGED <<template, localKey, cached, cachedAt, lastSaved>>
      BY <1>5 DEF EndLoad
    <2> HIDE DEF v
    <2> QED BY <1>t, <2>1, <2>3, <2>5, <2>6, OneSteps
  <1>6. CASE ReplaceFails(s)
    <2>1. /\ saver' = [saver EXCEPT ![s] = Free] /\ saver[s].at = "merged"
          /\ UNCHANGED <<template, localKey, cached, cachedAt, lastSaved>>
      BY <1>6 DEF ReplaceFails
    <2> QED BY <1>t, <1>f, <2>1, OneSteps
  <1> QED
    <2>1. Reading \in Sent
      BY DEF Reading, Sent
    <2> QED BY <1>1, <1>2, <1>3, <1>4, <1>5, <1>6, <2>1

(* A saver that fills the cache has read the template with the time that   *)
(* goes with the cache, or one that is past.                               *)
LEMMA FillKeeps == ASSUME ConfigInv, NEW s \in Savers, FillCache(s) PROVE ConfigInv'
  <1> DEFINE v == [saver[s] EXCEPT !.at = "filled", !.mtime = 0]
  <1>1. /\ saver[s].at = "read" /\ cached' = saver[s].config /\ cachedAt' = saver[s].mtime
        /\ saver' = [saver EXCEPT ![s] = v] /\ UNCHANGED <<template, localKey, lastSaved>>
    BY DEF FillCache, CacheTime
  <1>2. saver[s] \in Busy /\ saver \in [Savers -> Busy \cup {Free}] /\ MaxTemplates \in Nat
        /\ saver[s].mtime \in 0..MaxTemplates /\ template.mtime \in Nat
    BY <1>1, BusySaver DEF ConfigInv, FilesOK
  <1>3. /\ saver[s].config \in Config /\ saver[s].mtime <= template.mtime
        /\ saver[s].mtime = template.mtime => saver[s].config = template.config
    BY <1>1 DEF ConfigInv, SaverOK
  <1>4. v \in Busy /\ v.at = "filled" /\ v.mtime = 0
    <2>1. 0 \in 0..MaxTemplates
      BY <1>2
    <2> QED BY <1>2, <2>1 DEF Busy
  <1> HIDE DEF v
  <1>5. saver' \in [Savers -> Busy \cup {Free}] /\ saver'[s] = v /\ \A q \in Savers : q # s => saver'[q] = saver[q]
    BY <1>1, <1>2, <1>4
  <1>6. FilesOK'
    BY <1>1, <1>2, <1>3, <1>5 DEF ConfigInv, FilesOK
  <1>7. Writers' = Writers
    BY <1>1, <1>4, <1>5 DEF Writers
  <1>8. OneWriter' /\ SavedOK'
    BY <1>1, <1>7 DEF ConfigInv, OneWriter, SavedOK
  <1>9. CacheOK'
    <2>1. template.config.key = Blank
      BY DEF ConfigInv, FilesOK
    <2> QED BY <1>1, <1>3, <2>1 DEF CacheOK
  <1>10. \A q \in Savers : SaverOK(q)'
    BY <1>1, <1>2, <1>3, <1>4, <1>5 DEF ConfigInv, SaverOK
  <1> QED BY <1>6, <1>8, <1>9, <1>10 DEF ConfigInv

(* The first of a save's two files: nobody else is between the two.        *)
LEMMA ReplaceKeeps == ASSUME ConfigInv, NEW s \in Savers, ReplaceTemplate(s) PROVE ConfigInv'
  <1> DEFINE v == [saver[s] EXCEPT !.at = "replaced"]
             new == [saver[s].config EXCEPT !.key = Blank]
  <1>1. /\ saver[s].at = "merged" /\ Writers = {} /\ template.mtime < MaxTemplates
        /\ template' = [config |-> new, mtime |-> template.mtime + 1]
        /\ saver' = [saver EXCEPT ![s] = v] /\ UNCHANGED <<localKey, cached, cachedAt, lastSaved>>
    BY DEF ReplaceTemplate, MayWrite
  <1>2. saver[s] \in Busy /\ saver \in [Savers -> Busy \cup {Free}] /\ MaxTemplates \in Nat
        /\ saver[s].mtime \in 0..MaxTemplates /\ template.mtime \in Nat /\ template.mtime \in 1..MaxTemplates
        /\ cachedAt \in 0..MaxTemplates /\ cachedAt <= template.mtime
        /\ \A q \in Savers : saver[q].mtime \in 0..MaxTemplates
    BY <1>1, BusySaver DEF ConfigInv, FilesOK
  <1>3. saver[s].config \in Config /\ \A q \in Savers : saver[q].mtime <= template.mtime
    BY <1>1 DEF ConfigInv, SaverOK
  <1>4. v \in Busy /\ v.at = "replaced" /\ v.mtime = saver[s].mtime /\ v.config = saver[s].config
    BY <1>2 DEF Busy
  <1>5. new \in Config /\ new = [setting |-> v.config.setting, key |-> Blank] /\ new.key = Blank
    BY <1>3, <1>4 DEF Config
  <1> HIDE DEF v, new
  <1>6. saver' \in [Savers -> Busy \cup {Free}] /\ saver'[s] = v /\ \A q \in Savers : q # s => saver'[q] = saver[q]
    BY <1>1, <1>2, <1>4
  <1>7. template'.mtime = template.mtime + 1 /\ template'.config = new
        /\ template' \in [config : Config, mtime : 1..MaxTemplates]
    BY <1>1, <1>2, <1>5
  <1>8. FilesOK'
    BY <1>1, <1>2, <1>5, <1>6, <1>7 DEF ConfigInv, FilesOK
  <1>9. Writers' = {s}
    BY <1>1, <1>4, <1>6 DEF Writers
  <1>10. OneWriter' /\ SavedOK'
    BY <1>9 DEF OneWriter, SavedOK
  <1>11. CacheOK'
    BY <1>1, <1>2, <1>7 DEF CacheOK
  <1>12. \A q \in Savers : SaverOK(q)'
    <2> SUFFICES ASSUME NEW q \in Savers PROVE SaverOK(q)'
      OBVIOUS
    <2>1. saver'[q].mtime \in Nat /\ saver'[q].mtime < template'.mtime
      BY <1>2, <1>3, <1>4, <1>6, <1>7
    <2>2. CASE q = s
      BY <1>3, <1>4, <1>5, <1>6, <1>7, <2>1, <2>2 DEF SaverOK
    <2>3. CASE q # s
      <3>1. saver[q].at \notin {"replaced", "stored"}
        BY <1>1 DEF Writers
      <3>2. saver'[q] = saver[q] /\ SaverOK(q) /\ cached' = cached
        BY <1>1, <1>6, <2>3 DEF ConfigInv
      <3>3. saver'[q].mtime <= template'.mtime /\ saver'[q].mtime # template'.mtime
        BY <1>2, <1>7, <2>1
      <3> QED BY <3>1, <3>2, <3>3 DEF SaverOK
    <2> QED BY <2>2, <2>3
  <1> QED BY <1>8, <1>10, <1>11, <1>12 DEF ConfigInv

(* The second, and the two ways in which a save ends.                      *)
LEMMA StoreKeeps ==
  ASSUME ConfigInv, NEW s \in Savers, StoreKey(s) \/ StoreFails(s) \/ Remember(s)
  PROVE  ConfigInv'
  <1>1. saver[s].at \in {"replaced", "stored"} /\ UNCHANGED template
    BY DEF StoreKey, StoreFails, Remember
  <1>2. saver[s] \in Busy /\ saver \in [Savers -> Busy \cup {Free}] /\ MaxTemplates \in Nat
        /\ saver[s].mtime \in 0..MaxTemplates /\ template.mtime \in Nat /\ template.mtime \in 1..MaxTemplates
    BY <1>1, BusySaver DEF ConfigInv, FilesOK
  <1>3. /\ saver[s].config \in Config /\ saver[s].mtime <= template.mtime
        /\ template.config = [setting |-> saver[s].config.setting, key |-> Blank]
        /\ saver[s].at = "stored" => localKey = saver[s].config.key
    BY <1>1 DEF ConfigInv, SaverOK
  <1>4. \A q \in Savers : q # s => saver[q].at \notin {"replaced", "stored"}
    BY <1>1 DEF ConfigInv, OneWriter, Writers
  <1>5. saver[s].config.key \in ApiKeys \cup {Blank}
    BY <1>3 DEF Config
  <1>f. Free.at = "idle" /\ Free.mtime = 0
    BY DEF Free
  <1>6. CASE StoreKey(s)
    <2> DEFINE v == [saver[s] EXCEPT !.at = "stored"]
    <2>1. /\ saver[s].at = "replaced" /\ localKey' = saver[s].config.key
          /\ saver' = [saver EXCEPT ![s] = v] /\ UNCHANGED <<cached, cachedAt, lastSaved>>
      BY <1>6 DEF StoreKey, StoredKey
    <2>2. v \in Busy /\ v.at = "stored" /\ v.mtime = saver[s].mtime /\ v.config = saver[s].config
      BY <1>2 DEF Busy
    <2> HIDE DEF v
    <2>3. saver' \in [Savers -> Busy \cup {Free}] /\ saver'[s] = v /\ \A q \in Savers : q # s => saver'[q] = saver[q]
      BY <1>2, <2>1, <2>2
    <2>4. FilesOK'
      BY <1>1, <1>5, <2>1, <2>3 DEF ConfigInv, FilesOK
    <2>5. Writers' = {s}
      BY <1>4, <2>2, <2>3 DEF Writers
    <2>6. OneWriter' /\ SavedOK'
      BY <2>5 DEF OneWriter, SavedOK
    <2>7. CacheOK'
      BY <1>1, <2>1 DEF ConfigInv, CacheOK
    <2>8. \A q \in Savers : SaverOK(q)'
      BY <1>1, <1>3, <1>4, <2>1, <2>2, <2>3 DEF ConfigInv, SaverOK
    <2> QED BY <2>4, <2>6, <2>7, <2>8 DEF ConfigInv
  <1>7. CASE StoreFails(s) \/ Remember(s)
    <2>1. /\ saver' = [saver EXCEPT ![s] = Free] /\ localKey' = localKey
          /\ \/ lastSaved' = NoConfig /\ UNCHANGED <<cached, cachedAt>>
             \/ /\ saver[s].at = "stored" /\ lastSaved' = saver[s].config
                /\ cached' = saver[s].config /\ cachedAt' = template.mtime
      BY <1>7 DEF StoreFails, Remember
    <2>2. saver' \in [Savers -> Busy \cup {Free}] /\ saver'[s] = Free /\ \A q \in Savers : q # s => saver'[q] = saver[q]
      BY <1>2, <2>1
    <2>3. Writers' = {} /\ \A q \in Savers : saver'[q].at \notin {"replaced", "stored"}
      BY <1>4, <1>f, <2>2 DEF Writers
    <2>4. FilesOK'
      BY <1>1, <1>2, <1>3, <2>1, <2>2 DEF ConfigInv, FilesOK
    <2>5. OneWriter' /\ SavedOK'
      <3>1. lastSaved' # NoConfig => lastSaved' = [setting |-> template.config.setting, key |-> localKey]
        BY <1>3, <2>1 DEF Config
      <3> QED BY <1>1, <2>1, <2>3, <3>1 DEF OneWriter, SavedOK
    <2>6. CacheOK'
      BY <1>1, <1>3, <2>1, <2>3 DEF ConfigInv, CacheOK
    <2>7. \A q \in Savers : SaverOK(q)'
      <3> SUFFICES ASSUME NEW q \in Savers PROVE SaverOK(q)'
        OBVIOUS
      <3>1. CASE q = s
        BY <1>1, <1>2, <1>f, <2>2, <3>1 DEF SaverOK
      <3>2. CASE q # s
        <4>1. cached \in Config => cached' \in Config
          BY <1>3, <2>1
        <4>2. SaverOK(q) /\ saver'[q] = saver[q] /\ saver[q].at \notin {"replaced", "stored"}
          BY <1>4, <2>2, <3>2 DEF ConfigInv
        <4> QED BY <1>1, <4>1, <4>2 DEF SaverOK
      <3> QED BY <3>1, <3>2
    <2> QED BY <2>4, <2>5, <2>6, <2>7 DEF ConfigInv
  <1> QED BY <1>6, <1>7

LEMMA RestartKeeps == ConfigInv /\ Restart => ConfigInv'
  <1> SUFFICES ASSUME ConfigInv, Restart PROVE ConfigInv'
    OBVIOUS
  <1>1. /\ saver' = [s \in Savers |-> Free] /\ cached' = NoConfig /\ cachedAt' = 0
        /\ lastSaved' = IF Writers = {} THEN lastSaved ELSE NoConfig
        /\ UNCHANGED <<template, localKey>>
    BY DEF Restart
  <1>2. template.mtime \in 1..MaxTemplates /\ MaxTemplates \in Nat
    BY ConfigAssumption DEF ConfigInv, FilesOK
  <1>3. \A s \in Savers : saver'[s] = Free /\ saver'[s].at = "idle" /\ saver'[s].mtime = 0
    BY <1>1 DEF Free
  <1>4. FilesOK'
    BY <1>1, <1>2 DEF ConfigInv, FilesOK
  <1>5. CacheOK' /\ OneWriter' /\ SavedOK'
    BY <1>1, <1>3 DEF ConfigInv, CacheOK, OneWriter, SavedOK, Writers
  <1>6. \A s \in Savers : SaverOK(s)'
    BY <1>1, <1>2, <1>3 DEF SaverOK
  <1> QED BY <1>4, <1>5, <1>6 DEF ConfigInv

LEMMA ConfigInvariance == ConfigSpec => []ConfigInv
  <1>1. ConfigInv /\ [ConfigNext]_configVars => ConfigInv'
    <2>1. ConfigInv /\ UNCHANGED configVars => ConfigInv'
      BY DEF ConfigInv, configVars, FilesOK, CacheOK, OneWriter, SavedOK, SaverOK, Writers
    <2> QED BY <2>1, LoadKeeps, FillKeeps, ReplaceKeeps, StoreKeeps, RestartKeeps DEF ConfigNext
  <1> QED BY <1>1, InitConfig, PTL DEF ConfigSpec

(* Types                                                                   *)
THEOREM ConfigTypes == ConfigSpec => []ConfigTypeOK
  <1>1. ConfigInv => ConfigTypeOK
    BY DEF ConfigInv, FilesOK, ConfigTypeOK, Busy, Free
  <1> QED BY <1>1, ConfigInvariance, PTL

(* A load from the cache ...                                               *)
THEOREM ConfigKept == ConfigSpec => []ConfigIsWhole
  <1>1. ConfigInv => ConfigIsWhole
    <2> SUFFICES ASSUME ConfigInv, Writers = {} PROVE ConfigIsWhole
      BY DEF ConfigIsWhole
    <2>1. /\ template.config \in Config /\ template.config.key = Blank
          /\ cached # NoConfig => cached \in Config
      BY DEF ConfigInv, FilesOK
    <2>2. /\ cached # NoConfig /\ cachedAt = template.mtime
             => Overridden(cached) = Overridden(template.config)
      BY <2>1 DEF ConfigInv, CacheOK, Overridden, Config
    <2>3. lastSaved # NoConfig =>
            Overridden(template.config) = [lastSaved EXCEPT !.key = IF EnvKey = Blank THEN @ ELSE EnvKey]
      BY <2>1 DEF ConfigInv, SavedOK, Overridden, Config
    <2> QED BY <2>2, <2>3 DEF ConfigIsWhole
  <1> QED BY <1>1, ConfigInvariance, PTL

-----------------------------------------------------------------------------
(***************************************************************************)
(* The anchor study.                                                       *)
(***************************************************************************)
Frozen == [cases : CaseFiles, generated : TextVersions \cup {MissingFile}, open : BOOLEAN]

Generating == [step : {"texts", "cases", "generated"}, from : TextVersions]
Starting   == [step : {"targets"}, frozen : Frozen]
Running    == [step : {"run", "predictions", "metrics", "manifest"}, frozen : Frozen, input : CaseFiles]

AnchorTypes ==
  /\ sources \in TextVersions /\ edits \in TextVersions /\ sources <= edits /\ runs \in 0..MaxRuns
  /\ cases = MissingFile \/ cases \in CaseFiles
  /\ predictions = MissingFile \/ predictions \in CaseFiles
  /\ metrics = MissingFile \/ metrics \in CaseFiles
  /\ texts = MissingFile \/ texts \in TextVersions
  /\ generated = MissingFile \/ generated \in TextVersions
  /\ freeze = MissingFile \/ freeze \in Frozen
  /\ command = MissingFile \/ command \in Generating \cup Starting \cup Running

NoGeneration == texts = MissingFile /\ cases = MissingFile /\ generated = MissingFile

CommandInv ==
  command # MissingFile =>
    /\ command.step = "texts" => texts = MissingFile /\ cases = MissingFile /\ generated = MissingFile
    /\ command.step = "cases" =>
         texts = command.from /\ cases = MissingFile /\ generated = MissingFile
    /\ command.step = "generated" =>
         texts = command.from /\ cases # MissingFile /\ cases.made = command.from /\ generated = MissingFile
    /\ command.step \in {"targets", "run", "predictions", "metrics", "manifest"} =>
         command.frozen.open /\ cases # MissingFile
    /\ command.step \in {"run", "predictions"} =>
         predictions = MissingFile /\ metrics = MissingFile /\ manifest = MissingFile
    /\ command.step = "metrics" =>
         predictions = command.input /\ metrics = MissingFile /\ manifest = MissingFile
    /\ command.step = "manifest" =>
         predictions = command.input /\ metrics = command.input /\ manifest = MissingFile

AnchorInv == AnchorTypes /\ CommandInv /\ RunsAreWhole

LEMMA InitAnchor == AnchorInit => AnchorInv
  BY AnchorAssumption DEF AnchorInit, AnchorInv, AnchorTypes, TextVersions, CommandInv, RunsAreWhole

LEMMA AnchorKept == AnchorInv /\ [AnchorNext]_anchorVars => AnchorInv'
  <1> SUFFICES ASSUME AnchorInv, [AnchorNext]_anchorVars PROVE AnchorInv'
    OBVIOUS
  <1> USE DEF AnchorInv
  <1>1. CASE EditSources
    <2>1. AnchorTypes'
      BY <1>1, AnchorAssumption DEF EditSources, outputs, AnchorTypes, TextVersions
    <2> QED BY <1>1, <2>1 DEF EditSources, outputs, CommandInv, RunsAreWhole
  <1>2. CASE EditCases
    <2>1. /\ cases \in CaseFiles /\ cases' = [cases EXCEPT !.edited = edits + 1] /\ edits' = edits + 1
          /\ edits' \in TextVersions
          /\ UNCHANGED <<sources, texts, generated, freeze, command, predictions, metrics, manifest, scores, runs>>
      BY <1>2, AnchorAssumption DEF EditCases, outputs, AnchorTypes, TextVersions
    <2>2. cases' \in CaseFiles /\ cases'.made = cases.made
      BY <2>1 DEF CaseFiles
    <2>3. AnchorTypes'
      BY <2>1, <2>2, AnchorAssumption DEF AnchorTypes, TextVersions
    <2>4. cases' # MissingFile /\ cases # MissingFile
      BY <2>1, <2>2, AnchorAssumption
    <2> QED BY <2>1, <2>2, <2>3, <2>4 DEF CommandInv, RunsAreWhole
  <1>3. ASSUME NEW open \in BOOLEAN, Freeze(open) PROVE AnchorInv'
    <2>1. freeze' \in Frozen
      BY <1>3 DEF Freeze, Frozen, AnchorTypes
    <2>2. AnchorTypes'
      BY <1>3, <2>1 DEF Freeze, outputs, AnchorTypes
    <2> QED BY <1>3, <2>2 DEF Freeze, outputs, CommandInv, RunsAreWhole
  <1>4. CASE Dies
    BY <1>4 DEF Dies, outputs, AnchorTypes, CommandInv, RunsAreWhole
  <1>5. CASE Generate
    <2>1. /\ command' = [step |-> "texts", from |-> sources] /\ runs' \in 0..MaxRuns
          /\ MayGenerate
          /\ UNCHANGED <<sources, cases, texts, generated, freeze, predictions, metrics, manifest, scores, edits>>
      BY <1>5, AnchorAssumption DEF Generate, Begin, outputs, AnchorTypes
    <2>2. command' \in Generating /\ command'.step = "texts"
      BY <2>1 DEF Generating, AnchorTypes
    <2>3. AnchorTypes'
      BY <2>1, <2>2 DEF AnchorTypes
    <2> QED BY <2>1, <2>2, <2>3 DEF MayGenerate, CommandInv, RunsAreWhole
  <1>6. CASE WriteTexts \/ WriteCases \/ WriteGenerated
    <2>1. command # MissingFile /\ command \in Generating
      BY <1>6 DEF WriteTexts, WriteCases, WriteGenerated, AnchorTypes, Starting, Running
    <2>2. command.from \in TextVersions
      BY <2>1 DEF Generating
    <2>3. CASE WriteTexts
      <3>1. command' \in Generating /\ command'.step = "cases" /\ command'.from = command.from
        BY <2>1, <2>3 DEF WriteTexts, Generating
      <3>2. AnchorTypes'
        BY <2>2, <2>3, <3>1 DEF WriteTexts, outputs, AnchorTypes
      <3> QED BY <2>1, <2>3, <3>1, <3>2 DEF WriteTexts, outputs, CommandInv, RunsAreWhole
    <2>4. CASE WriteCases
      <3>1. command' \in Generating /\ command'.step = "generated" /\ command'.from = command.from
        BY <2>1, <2>4 DEF WriteCases, Generating
      <3>2. cases' \in CaseFiles /\ cases'.made = command.from
        BY <2>2, <2>4, AnchorAssumption DEF WriteCases, CaseFiles, TextVersions
      <3>3. AnchorTypes' /\ cases' # MissingFile
        BY <2>4, <3>1, <3>2, AnchorAssumption DEF WriteCases, outputs, AnchorTypes
      <3> QED BY <2>1, <2>4, <3>1, <3>2, <3>3 DEF WriteCases, outputs, CommandInv, RunsAreWhole
    <2>5. CASE WriteGenerated
      <3>1. AnchorTypes'
        BY <2>2, <2>5 DEF WriteGenerated, outputs, AnchorTypes
      <3> QED BY <2>1, <2>5, <3>1 DEF WriteGenerated, outputs, CommandInv, RunsAreWhole
    <2> QED BY <1>6, <2>3, <2>4, <2>5
  <1>7. CASE Strict
    <2>1. /\ freeze \in Frozen /\ freeze.open /\ cases = freeze.cases
          /\ command' = [step |-> "targets", frozen |-> freeze] /\ runs' \in 0..MaxRuns
          /\ UNCHANGED <<sources, cases, texts, generated, freeze, predictions, metrics, manifest, scores, edits>>
      BY <1>7, AnchorAssumption DEF Strict, Verified, Begin, outputs, AnchorTypes
    <2>2. command' \in Starting /\ command'.step = "targets" /\ command'.frozen.open
      BY <2>1 DEF Starting
    <2>3. AnchorTypes'
      BY <2>1, <2>2 DEF AnchorTypes
    <2>4. cases # MissingFile
      BY <2>1, AnchorAssumption DEF Frozen
    <2> QED BY <2>1, <2>2, <2>3, <2>4 DEF CommandInv, RunsAreWhole
  <1>8. CASE ReadCases
    <2>1. /\ command # MissingFile /\ command.step = "targets" /\ command \in Starting
          /\ UNCHANGED <<sources, cases, texts, generated, freeze, predictions, metrics, manifest, scores, edits, runs>>
      BY <1>8 DEF ReadCases, outputs, AnchorTypes, Generating, Running
    <2>2. cases \in CaseFiles /\ command.frozen.open /\ command.frozen \in Frozen
      BY <2>1 DEF CommandInv, AnchorTypes, Starting
    <2>3. CASE command' = MissingFile
      BY <2>1, <2>3 DEF AnchorTypes, CommandInv, RunsAreWhole
    <2>4. CASE NoOutput /\ command' = [step |-> "run", frozen |-> command.frozen, input |-> cases]
      <3>1. command' \in Running /\ command'.step = "run" /\ command'.frozen.open
        BY <2>2, <2>4 DEF Running
      <3>2. AnchorTypes' /\ cases # MissingFile
        BY <2>1, <2>2, <3>1, AnchorAssumption DEF AnchorTypes
      <3> QED BY <2>1, <2>4, <3>1, <3>2 DEF NoOutput, CommandInv, RunsAreWhole
    <2> QED BY <1>8, <2>3, <2>4 DEF ReadCases
  <1>9. CASE ReadAgain \/ WritePredictions \/ WriteMetrics \/ WriteManifest
    <2>1. command # MissingFile /\ command \in Running
      BY <1>9 DEF ReadAgain, WritePredictions, WriteMetrics, WriteManifest, AnchorTypes, Generating, Starting
    <2>2. command.input \in CaseFiles
      BY <2>1 DEF Running
    <2>3. \A s \in {"predictions", "metrics", "manifest"} :
            LET next == [command EXCEPT !.step = s] IN
            next \in Running /\ next.step = s /\ next.input = command.input /\ next.frozen = command.frozen
      BY <2>1 DEF Running
    <2>4. CASE ReadAgain
      BY <2>1, <2>3, <2>4 DEF ReadAgain, outputs, AnchorTypes, CommandInv, RunsAreWhole
    <2>5. CASE WritePredictions
      <3>1. AnchorTypes'
        BY <2>2, <2>3, <2>5 DEF WritePredictions, AnchorTypes
      <3> QED BY <2>1, <2>3, <2>5, <3>1 DEF WritePredictions, CommandInv, RunsAreWhole
    <2>6. CASE WriteMetrics
      <3>1. AnchorTypes'
        BY <2>2, <2>3, <2>6 DEF WriteMetrics, AnchorTypes
      <3> QED BY <2>1, <2>3, <2>6, <3>1 DEF WriteMetrics, CommandInv, RunsAreWhole
    <2>7. CASE WriteManifest
      <3>1. AnchorTypes'
        BY <2>7 DEF WriteManifest, AnchorTypes
      <3> QED BY <2>1, <2>7, <3>1 DEF WriteManifest, CommandInv, RunsAreWhole
    <2> QED BY <1>9, <2>4, <2>5, <2>6, <2>7
  <1>10. CASE Score
    <2>1. AnchorTypes'
      BY <1>10, AnchorAssumption DEF Score, AnchorTypes
    <2>2. scores' # MissingFile => scores'.cases = scores'.predictions
      BY <1>10 DEF Score, CasePairs
    <2> QED BY <1>10, <2>1, <2>2 DEF Score, CommandInv, RunsAreWhole
  <1>11. CASE UNCHANGED anchorVars
    BY <1>11 DEF anchorVars, AnchorTypes, CommandInv, RunsAreWhole
  <1> QED BY <1>1, <1>2, <1>3, <1>4, <1>5, <1>6, <1>7, <1>8, <1>9, <1>10, <1>11 DEF AnchorNext

LEMMA AnchorInvariance == AnchorSpec => []AnchorInv
  BY InitAnchor, AnchorKept, PTL DEF AnchorSpec

THEOREM ResultsKept == AnchorSpec => ResultsStand
  <1> DEFINE Stand == /\ predictions # MissingFile => predictions' = predictions
                      /\ metrics # MissingFile => metrics' = metrics
                      /\ texts # MissingFile => texts' = texts
  <1>1. AnchorInv /\ [AnchorNext]_anchorVars => [Stand]_anchorVars
    <2> SUFFICES ASSUME AnchorInv, AnchorNext PROVE Stand
      OBVIOUS
    <2>1. CASE WriteTexts
      BY <2>1 DEF WriteTexts, outputs, AnchorInv, CommandInv
    <2>2. CASE WritePredictions
      BY <2>2 DEF WritePredictions, AnchorInv, CommandInv
    <2>3. CASE WriteMetrics
      BY <2>3 DEF WriteMetrics, AnchorInv, CommandInv
    <2>4. CASE ~(WriteTexts \/ WritePredictions \/ WriteMetrics)
      BY <2>4 DEF AnchorNext, EditSources, EditCases, Freeze, Dies, Generate, WriteCases, WriteGenerated, Strict,
                  ReadCases, ReadAgain, WriteManifest, Score, outputs
    <2> QED BY <2>1, <2>2, <2>3, <2>4
  <1> HIDE DEF Stand
  <1>2. AnchorSpec => [][Stand]_anchorVars
    BY <1>1, AnchorInvariance, PTL DEF AnchorSpec
  <1> QED BY <1>2 DEF ResultsStand, Stand

-----------------------------------------------------------------------------
(***************************************************************************)
(* The selection rests on the locked forms, and follows the rule.          *)
(***************************************************************************)
(* There are two labels: this is the other one.                          *)
OtherLabel(l) == CHOOSE m \in Labels : m # l

LEMMA TwoLabels ==
  ASSUME NEW l \in Labels
  PROVE  /\ OtherLabel(l) \in Labels /\ OtherLabel(l) # l /\ Labels = {l, OtherLabel(l)}
         /\ OtherLabel(OtherLabel(l)) = l
  <1>1. PICK ra \in Labels, rb \in Labels : ra # rb /\ Labels = {ra, rb}
    BY RatingAssumption
  <1>2. \E m \in Labels : m # l
    BY <1>1
  <1>3. OtherLabel(l) \in Labels /\ OtherLabel(l) # l
    BY <1>2 DEF OtherLabel
  <1>4. \E m \in Labels : m # OtherLabel(l)
    BY <1>3
  <1>5. OtherLabel(OtherLabel(l)) \in Labels /\ OtherLabel(OtherLabel(l)) # OtherLabel(l)
    BY <1>4 DEF OtherLabel
  <1> QED BY <1>1, <1>3, <1>5

(* The two raters' filled files.                                          *)
RatedSheets == [Raters -> [RatedPairs -> Forms]]

(* The counts the decision compares are numbers.                           *)
LEMMA CountsAreNumbers ==
  ASSUME published.eligible \subseteq RatedPairs, NEW rated
  PROVE  \A l \in Labels : Wins(rated, l) \in Nat /\ Unsupported(rated, l) \in Nat
  <1>1. IsFiniteSet(RatedPairs) /\ IsFiniteSet(published.eligible)
    <2>1. 1 \in Int /\ PairCount \in Int
      BY RatingAssumption
    <2> QED BY <2>1, FS_Interval, FS_Subset DEF RatedPairs
  <1>2. IsFiniteSet(Raters)
    <2>1. PICK ra \in Raters, rb \in Raters : Raters = {ra, rb}
      BY RatingAssumption
    <2>2. IsFiniteSet({ra, rb})
      <3>1. IsFiniteSet({ra})
        BY FS_Singleton
      <3>2. IsFiniteSet({ra} \cup {rb})
        BY <3>1, FS_AddElement
      <3>3. {ra} \cup {rb} = {ra, rb}
        OBVIOUS
      <3> QED BY <3>2, <3>3
    <2> QED BY <2>1, <2>2
  <1>3. IsFiniteSet(Raters \X published.eligible)
    BY <1>1, <1>2, FS_Product
  <1> TAKE l \in Labels
  <1>4. Wins(rated, l) \in Nat
    <2> DEFINE pair == CHOOSE rs \in Raters \X Raters : rs[1] # rs[2]
               S == {p \in published.eligible :
                       Aggregate(rated[pair[1]][p].preference, rated[pair[2]][p].preference) = l}
    <2>1. S \subseteq published.eligible
      OBVIOUS
    <2>2. Wins(rated, l) = Cardinality(S)
      BY DEF Wins
    <2> HIDE DEF S
    <2> QED BY <1>1, <2>1, <2>2, FS_Subset, FS_CardinalityType
  <1>5. Unsupported(rated, l) \in Nat
    <2> DEFINE S(T) == {rp \in Raters \X published.eligible : rated[rp[1]][rp[2]].unsupported[l] \in T}
    <2>1. S({1, 2}) \subseteq Raters \X published.eligible /\ S({2}) \subseteq Raters \X published.eligible
      OBVIOUS
    <2>2. Unsupported(rated, l) = Cardinality(S({1, 2})) + Cardinality(S({2}))
      BY DEF Unsupported
    <2> HIDE DEF S
    <2>3. Cardinality(S({1, 2})) \in Nat /\ Cardinality(S({2})) \in Nat
      BY <1>3, <2>1, FS_Subset, FS_CardinalityType
    <2> QED BY <2>2, <2>3
  <1> QED BY <1>4, <1>5

(* A pair is won as the rule counts it: by a label that a rater prefers    *)
(* and no rater prefers the other to.                                      *)
LEMMA WonAsTheRuleSays ==
  ASSUME published.eligible \subseteq RatedPairs, NEW rated \in RatedSheets, Finished(rated),
         NEW l \in Labels
  PROVE  Wins(rated, l) = Cardinality({p \in published.eligible :
                             /\ \E r \in Raters : rated[r][p].preference = l
                             /\ \A r \in Raters : rated[r][p].preference # OtherLabel(l)})
  <1> DEFINE pair == CHOOSE rs \in Raters \X Raters : rs[1] # rs[2]
             ra == pair[1]
             rb == pair[2]
  <1>1. ra \in Raters /\ rb \in Raters /\ Raters = {ra, rb}
    <2>1. PICK x \in Raters, y \in Raters : x # y /\ Raters = {x, y}
      BY RatingAssumption
    <2>2. <<x, y>> \in Raters \X Raters /\ <<x, y>>[1] # <<x, y>>[2]
      BY <2>1
    <2>3. pair \in Raters \X Raters /\ pair[1] # pair[2]
      BY <2>2
    <2> HIDE DEF pair
    <2> QED BY <2>1, <2>3
  <1>2. \A p \in published.eligible, r \in Raters : rated[r][p].preference \in Labels \cup {"tie"}
    BY DEF Finished, Whole, RatedSheets, Forms
  <1>3. Labels = {l, OtherLabel(l)} /\ "tie" \notin Labels /\ OtherLabel(l) # l
    BY TwoLabels, RatingAssumption
  <1>4. \A p \in published.eligible :
          Aggregate(rated[ra][p].preference, rated[rb][p].preference) = l
            <=> /\ \E r \in Raters : rated[r][p].preference = l
                /\ \A r \in Raters : rated[r][p].preference # OtherLabel(l)
    <2> HIDE DEF ra, rb
    <2> TAKE p \in published.eligible
    <2>1. rated[ra][p].preference \in {l, OtherLabel(l), "tie"} /\ rated[rb][p].preference \in {l, OtherLabel(l), "tie"}
      BY <1>1, <1>2, <1>3
    <2>2. (\E r \in Raters : rated[r][p].preference = l)
             <=> rated[ra][p].preference = l \/ rated[rb][p].preference = l
      BY <1>1
    <2>3. (\A r \in Raters : rated[r][p].preference # OtherLabel(l))
             <=> rated[ra][p].preference # OtherLabel(l) /\ rated[rb][p].preference # OtherLabel(l)
      BY <1>1
    <2> QED BY <1>3, <2>1, <2>2, <2>3 DEF Aggregate
  <1>5. Wins(rated, l) = Cardinality({p \in published.eligible :
                            Aggregate(rated[ra][p].preference, rated[rb][p].preference) = l})
    BY DEF Wins
  <1> HIDE DEF ra, rb
  <1> QED BY <1>4, <1>5

WonOver(rated, ra, rb) ==
  Cardinality({p \in published.eligible : /\ \E r \in Raters : rated[r][p].preference = ra
                                          /\ \A r \in Raters : rated[r][p].preference # rb})

(* The rule in terms of the pairs won and the claims unsupported.          *)
LEMMA PreferredBy ==
  ASSUME NEW rated, NEW l
  PROVE  Preferred(rated, l) <=>
           LET m == OtherLabel(l)
               more == WonOver(rated, l, m) - WonOver(rated, m, l)
               bad == Unsupported(rated, l) - Unsupported(rated, m)
           IN  \/ more > 0 /\ bad <= 0
               \/ more = 0 /\ bad < 0
               \/ more = 0 /\ bad = 0 /\ l = Prior
  BY DEF Preferred, OtherLabel, WonOver

(* The rule says the same of sheets that are the same.                     *)
LEMMA SameSheets ==
  ASSUME NEW rated, NEW other, \A r \in Raters : rated[r] = other[r]
  PROVE  \A l \in Labels : Preferred(rated, l) <=> Preferred(other, l)
  <1> TAKE l \in Labels
  <1>1. \A x, y : WonOver(rated, x, y) = WonOver(other, x, y)
    <2> TAKE x, y
    <2>1. {p \in published.eligible : /\ \E r \in Raters : rated[r][p].preference = x
                                      /\ \A r \in Raters : rated[r][p].preference # y}
        = {p \in published.eligible : /\ \E r \in Raters : other[r][p].preference = x
                                      /\ \A r \in Raters : other[r][p].preference # y}
      OBVIOUS
    <2> QED BY <2>1 DEF WonOver
  <1>2. \A x : Unsupported(rated, x) = Unsupported(other, x)
    BY DEF Unsupported
  <1> QED BY <1>1, <1>2, PreferredBy

(* What the code decides is what the rule of the study's protocol prefers. *)
LEMMA RuleDecides ==
  ASSUME published.eligible \subseteq RatedPairs, NEW rated \in RatedSheets, Finished(rated)
  PROVE  \A l \in Labels : (Decision(rated) = l) <=> Preferred(rated, l)
  <1> DEFINE W(l) == Wins(rated, l)
             U(l) == Unsupported(rated, l)
             one == CHOOSE l \in Labels : TRUE
             other == OtherLabel(one)
             winner == IF W(one) > W(other) THEN one
                       ELSE IF W(other) > W(one) THEN other
                       ELSE IF U(one) < U(other) THEN one
                       ELSE IF U(other) < U(one) THEN other
                       ELSE Prior
  <1>1. one \in Labels /\ Labels = {one, other} /\ one # other /\ other \in Labels
        /\ OtherLabel(other) = one
    <2>1. one \in Labels
      BY RatingAssumption
    <2> HIDE DEF one
    <2> QED BY <2>1, TwoLabels
  <1>2. \A l \in Labels : W(l) \in Nat /\ U(l) \in Nat
    BY CountsAreNumbers
  <1>3. \A l \in Labels : Preferred(rated, l)
          <=> \/ W(l) - W(OtherLabel(l)) > 0 /\ U(l) - U(OtherLabel(l)) <= 0
              \/ W(l) - W(OtherLabel(l)) = 0 /\ U(l) - U(OtherLabel(l)) < 0
              \/ W(l) - W(OtherLabel(l)) = 0 /\ U(l) - U(OtherLabel(l)) = 0 /\ l = Prior
    <2> TAKE l \in Labels
    <2>1. OtherLabel(l) \in Labels /\ OtherLabel(OtherLabel(l)) = l
      BY TwoLabels
    <2>2. W(l) = Cardinality({p \in published.eligible :
                             /\ \E r \in Raters : rated[r][p].preference = l
                             /\ \A r \in Raters : rated[r][p].preference # OtherLabel(l)})
      BY WonAsTheRuleSays
    <2>3. W(OtherLabel(l)) = Cardinality({p \in published.eligible :
                             /\ \E r \in Raters : rated[r][p].preference = OtherLabel(l)
                             /\ \A r \in Raters : rated[r][p].preference # l})
      BY <2>1, WonAsTheRuleSays
    <2> QED BY <2>2, <2>3 DEF Preferred, OtherLabel
  <1>4. Decision(rated) = IF /\ W(winner) > W(OtherLabel(winner))
                             /\ U(winner) > U(OtherLabel(winner))
                          THEN "blocked" ELSE winner
    BY DEF Decision, OtherLabel
  <1>5. Prior \in Labels /\ "blocked" \notin Labels
    BY RatingAssumption
  <1>6. \A l \in Labels : l = one \/ l = other
    BY <1>1
  <1> DEFINE w1 == W(one)
             w2 == W(other)
             u1 == U(one)
             u2 == U(other)
  <1>7. w1 \in Nat /\ w2 \in Nat /\ u1 \in Nat /\ u2 \in Nat
    BY <1>1, <1>2
  <1>8. /\ Preferred(rated, one) <=> \/ w1 - w2 > 0 /\ u1 - u2 <= 0
                                     \/ w1 - w2 = 0 /\ u1 - u2 < 0
                                     \/ w1 - w2 = 0 /\ u1 - u2 = 0 /\ one = Prior
        /\ Preferred(rated, other) <=> \/ w2 - w1 > 0 /\ u2 - u1 <= 0
                                       \/ w2 - w1 = 0 /\ u2 - u1 < 0
                                       \/ w2 - w1 = 0 /\ u2 - u1 = 0 /\ other = Prior
    <2> HIDE DEF one, W, U
    <2> QED BY <1>1, <1>3
  <1>9. winner = one \/ winner = other
    BY <1>5, <1>6
  <1>10. CASE winner = one
    <2>1. Decision(rated) = IF w1 > w2 /\ u1 > u2 THEN "blocked" ELSE one
      BY <1>4, <1>10
    <2>2. \/ w1 > w2
          \/ w1 = w2 /\ u1 < u2
          \/ w1 = w2 /\ u1 = u2 /\ one = Prior
      <3> HIDE DEF one, W, U
      <3> QED BY <1>1, <1>7, <1>10
    <2> HIDE DEF w1, w2, u1, u2, one, winner
    <2> QED BY <1>1, <1>5, <1>6, <1>7, <1>8, <2>1, <2>2
  <1>11. CASE winner = other
    <2>1. Decision(rated) = IF w2 > w1 /\ u2 > u1 THEN "blocked" ELSE other
      <3> HIDE DEF one, W, U, winner
      <3> QED BY <1>1, <1>4, <1>11
    <2>2. \/ w2 > w1
          \/ w1 = w2 /\ u2 < u1
          \/ w1 = w2 /\ u1 = u2 /\ other = Prior
      <3> HIDE DEF one, W, U
      <3> QED BY <1>1, <1>7, <1>11
    <2> HIDE DEF w1, w2, u1, u2, one, winner
    <2> QED BY <1>1, <1>5, <1>6, <1>7, <1>8, <2>1, <2>2
  <1> HIDE DEF winner
  <1> QED BY <1>9, <1>10, <1>11

(* The command that is locking a rater's forms.                           *)
Locker(k) == k \in [rater : Raters, pair : {k.pair}, checked : BOOLEAN, records : {k.records}]

(* The raters' files are rated sheets, and a selection follows the rule.   *)
RatingInv ==
  /\ published = Void \/ published \in [eligible : SUBSET RatedPairs, technical : BOOLEAN]
  /\ forms \in RatedSheets
  /\ locking = Void \/ Locker(locking)
  /\ selection # Void => published # Void
  /\ SelectionByRule

LEMMA RatingBegins == RatingInit => RatingInv
  <1> SUFFICES ASSUME RatingInit PROVE RatingInv
    OBVIOUS
  <1>1. Unfilled \in Forms
    BY DEF Unfilled, Forms
  <1>2. forms \in RatedSheets
    BY <1>1 DEF RatingInit, RatedSheets
  <1> QED BY <1>2 DEF RatingInit, RatingInv, SelectionByRule

(* What a selection rests on does not change.                              *)
LEMMA RatingRests ==
  ASSUME RatingInv, UNCHANGED selection,
         published # Void => UNCHANGED published,
         LocksExist => UNCHANGED locks
  PROVE  SelectionByRule' /\ (selection' # Void => published' # Void)
  <1> SUFFICES ASSUME selection # Void PROVE SelectionByRule' /\ published' # Void
    BY DEF SelectionByRule
  <1>1. published # Void /\ LocksExist /\ SelectionByRule
    BY DEF RatingInv, SelectionByRule
  <1>2. UNCHANGED <<published, locks, selection>>
    BY <1>1
  <1>3. Finished(locks)' = Finished(locks) /\ \A l \in Labels : Preferred(locks, l)' = Preferred(locks, l)
    BY <1>2 DEF Finished, Preferred, Unsupported
  <1> QED BY <1>1, <1>2, <1>3 DEF SelectionByRule, LocksExist

(* Each step keeps it: a selection is only made from forms as locked.      *)
LEMMA RatingStep == RatingInv /\ [RatingNext]_ratingVars => RatingInv'
  <1> SUFFICES ASSUME RatingInv, [RatingNext]_ratingVars PROVE RatingInv'
    OBVIOUS
  <1>0. forms \in RatedSheets /\ (locking = Void \/ Locker(locking))
        /\ (published = Void \/ published \in [eligible : SUBSET RatedPairs, technical : BOOLEAN])
    BY DEF RatingInv
  <1>1. ASSUME NEW eligible \in SUBSET RatedPairs, NEW technical \in BOOLEAN, Publish(eligible, technical)
        PROVE  RatingInv'
    <2>1. published' \in [eligible : SUBSET RatedPairs, technical : BOOLEAN] /\ published = Void
          /\ UNCHANGED <<forms, locking, selection, locks>>
      BY <1>1 DEF Publish
    <2>2. SelectionByRule' /\ (selection' # Void => published' # Void)
      BY <2>1, RatingRests
    <2> QED BY <1>0, <2>1, <2>2 DEF RatingInv
  <1>2. ASSUME NEW r \in Raters, NEW p \in RatedPairs, NEW content \in Contents, Fill(r, p, content)
        PROVE  RatingInv'
    <2>1. content \in Forms
      BY RatingAssumption
    <2>2. forms' = [forms EXCEPT ![r][p] = content] /\ UNCHANGED <<published, locking, selection, locks>>
      BY <1>2 DEF Fill
    <2>3. forms' \in RatedSheets
      BY <1>0, <2>1, <2>2 DEF RatedSheets
    <2>4. SelectionByRule' /\ (selection' # Void => published' # Void)
      BY <2>2, RatingRests
    <2> QED BY <1>0, <2>2, <2>3, <2>4 DEF RatingInv
  <1>3. CASE Tamper \/ (\E r \in Raters : LockStart(r)) \/ LockCheck \/ LockRecord \/ LockProtect \/ LockKilled
    <2>1. UNCHANGED <<published, forms, locks, selection>>
      BY <1>3 DEF Tamper, LockStart, LockCheck, LockRecord, LockProtect, LockKilled
    <2>2. locking' = Void \/ Locker(locking')
      <3>1. CASE \E r \in Raters : LockStart(r)
        <4>1. PICK r \in Raters : LockStart(r)
          BY <3>1
        <4> QED BY <4>1 DEF LockStart, Locker
      <3>2. CASE LockCheck
        <4>1. /\ Locker(locking)
              /\ locking' = [locking EXCEPT !.checked = TRUE] \/ locking' = Void
          BY <1>0, <3>2 DEF LockCheck
        <4> QED BY <4>1 DEF Locker
      <3>3. CASE LockRecord
        <4>1. PICK pair, read : locking' = [locking EXCEPT !.checked = FALSE, !.pair = pair, !.records = read]
          BY <3>3 DEF LockRecord
        <4>2. Locker(locking)
          BY <1>0, <3>3 DEF LockRecord
        <4> QED BY <4>1, <4>2 DEF Locker
      <3>4. CASE Tamper \/ LockProtect \/ LockKilled
        BY <1>0, <3>4 DEF Tamper, LockProtect, LockKilled
      <3> QED BY <1>3, <3>1, <3>2, <3>3, <3>4
    <2>3. SelectionByRule' /\ (selection' # Void => published' # Void)
      BY <2>1, RatingRests
    <2> QED BY <1>0, <2>1, <2>2, <2>3 DEF RatingInv
  <1>4. CASE LockWrite
    <2>1. UNCHANGED <<published, forms, locking, selection>> /\ locking.rater \in Raters
          /\ locks[locking.rater] = Void
      BY <1>0, <1>4 DEF LockWrite, Locker
    <2>2. ~LocksExist
      BY <2>1 DEF LocksExist
    <2>3. SelectionByRule' /\ (selection' # Void => published' # Void)
      BY <2>1, <2>2, RatingRests
    <2> QED BY <1>0, <2>1, <2>3 DEF RatingInv
  <1>5. CASE Select
    <2>1. /\ published # Void /\ LocksHold /\ Cardinality(published.eligible) >= MinPairs
          /\ selection' = Decision(forms)
          /\ UNCHANGED <<published, forms, protected, locks, locking>>
      BY <1>5 DEF Select, ContextHolds
    <2>2. published.eligible \subseteq RatedPairs
      BY <1>0, <2>1
    <2>3. LocksExist'
      BY <2>1 DEF LocksExist, LocksHold
    <2>4. ASSUME Finished(locks)
          PROVE  \A l \in Labels : (Decision(forms) = l) <=> Preferred(locks, l)
      <3>1. \A r \in Raters : locks[r] = forms[r]
        BY <2>1 DEF LocksHold
      <3>2. Finished(forms)
        BY <2>4, <3>1 DEF Finished
      <3>3. \A l \in Labels : (Decision(forms) = l) <=> Preferred(forms, l)
        BY <1>0, <2>2, <3>2, RuleDecides
      <3> QED BY <3>1, <3>3, SameSheets
    <2>5. SelectionByRule'
      <3>1. Finished(locks)' = Finished(locks) /\ \A l \in Labels : Preferred(locks, l)' = Preferred(locks, l)
        BY <2>1 DEF Finished, Preferred, Unsupported
      <3> QED BY <2>1, <2>3, <2>4, <3>1 DEF SelectionByRule
    <2> QED BY <1>0, <2>1, <2>5 DEF RatingInv
  <1>6. CASE UNCHANGED ratingVars
    <2>1. UNCHANGED <<published, forms, locking, locks, selection>>
      BY <1>6 DEF ratingVars
    <2>2. SelectionByRule' /\ (selection' # Void => published' # Void)
      BY <2>1, RatingRests
    <2> QED BY <1>0, <2>1, <2>2 DEF RatingInv
  <1> QED BY <1>1, <1>2, <1>3, <1>4, <1>5, <1>6 DEF RatingNext

-----------------------------------------------------------------------------
(***************************************************************************)
(* The paid run.                                                           *)
(***************************************************************************)
(* g adds up the requests of the records up to number m.                   *)
AddsUp(gs, recs, m) == gs = [n \in 0..m |-> IF n = 0 THEN 0 ELSE gs[n - 1] + recs[n].requests]

LEMMA LeastOne ==
  ASSUME NEW S, S \subseteq Nat, S # {}
  PROVE  \E i \in S : \A j \in S : i <= j
  <1>1. PICK i \in S : \A j \in S : <<j, i>> \notin OpToRel(<, Nat)
    BY WFMin, NatLessThanWellFounded, Zenon
  <1>2. \A j \in S : ~(j < i)
    BY <1>1, Zenon DEF OpToRel
  <1> QED BY <1>2

(* There is such a sum for every number of records.                        *)
LEMMA SumExists ==
  ASSUME NEW recs, NEW m \in Nat
  PROVE  \E gs : AddsUp(gs, recs, m)
  <1> DEFINE Bad == {k \in Nat : ~ \E gs : AddsUp(gs, recs, k)}
  <1> SUFFICES ASSUME Bad # {} PROVE FALSE
    OBVIOUS
  <1>1. PICK k \in Bad : \A j \in Bad : k <= j
    <2>1. Bad \subseteq Nat
      OBVIOUS
    <2> HIDE DEF Bad
    <2> QED BY <2>1, LeastOne
  <1>2. CASE k = 0
    <2>1. AddsUp([n \in 0..0 |-> 0], recs, 0)
      BY DEF AddsUp
    <2> QED BY <1>1, <1>2, <2>1
  <1>3. CASE k # 0
    <2>1. k - 1 \in Nat /\ k - 1 \notin Bad
      BY <1>1, <1>3
    <2>2. PICK gs : AddsUp(gs, recs, k - 1)
      BY <2>1
    <2> DEFINE hs == [n \in 0..k |-> IF n < k THEN gs[n] ELSE gs[k - 1] + recs[k].requests]
    <2>3. AddsUp(hs, recs, k)
      <3>1. ASSUME NEW n \in 0..k
            PROVE  hs[n] = IF n = 0 THEN 0 ELSE hs[n - 1] + recs[n].requests
        <4>1. CASE n < k
          <5>1. n \in 0..(k - 1) /\ (n # 0 => n - 1 \in 0..k /\ n - 1 < k)
            BY <2>1, <4>1
          <5>2. hs[n] = gs[n] /\ (n # 0 => hs[n - 1] = gs[n - 1])
            BY <4>1, <5>1
          <5>3. gs[n] = IF n = 0 THEN 0 ELSE gs[n - 1] + recs[n].requests
            BY <2>2, <5>1, Zenon DEF AddsUp
          <5> QED BY <5>2, <5>3
        <4>2. CASE n = k
          BY <1>3, <2>1, <4>2
        <4> QED BY <2>1, <4>1, <4>2
      <3> QED BY <3>1 DEF AddsUp
    <2> QED BY <1>1, <2>3
  <1> QED BY <1>2, <1>3

(* Sums of lists that agree up to a place agree there.                     *)
LEMMA SumsAgree ==
  ASSUME NEW gs, NEW hs, NEW r, NEW s, NEW m \in Nat, NEW k \in Nat, m <= k,
         AddsUp(gs, r, m), AddsUp(hs, s, k), \A n \in 1..m : r[n] = s[n]
  PROVE  gs[m] = hs[m]
  <1> DEFINE Bad == {n \in 0..m : gs[n] # hs[n]}
  <1> SUFFICES ASSUME Bad # {} PROVE FALSE
    OBVIOUS
  <1>1. PICK n \in Bad : \A j \in Bad : n <= j
    <2>1. Bad \subseteq Nat
      OBVIOUS
    <2> HIDE DEF Bad
    <2> QED BY <2>1, LeastOne
  <1>2. n \in 0..m /\ n \in 0..k
    BY <1>1
  <1>3. /\ gs[n] = IF n = 0 THEN 0 ELSE gs[n - 1] + r[n].requests
        /\ hs[n] = IF n = 0 THEN 0 ELSE hs[n - 1] + s[n].requests
    BY <1>2, Zenon DEF AddsUp
  <1>4. n # 0
    BY <1>1, <1>3
  <1>5. n - 1 \in 0..m /\ n - 1 \notin Bad /\ n \in 1..m
    BY <1>1, <1>2, <1>4
  <1>6. gs[n - 1] = hs[n - 1] /\ r[n] = s[n]
    BY <1>5
  <1> QED BY <1>1, <1>3, <1>4, <1>6

(* What the run reports is that sum.                                       *)
LEMMA RequestedIsSum ==
  ASSUME NEW recs, NEW gs, Len(recs) \in Nat, AddsUp(gs, recs, Len(recs))
  PROVE  Requested(recs) = gs[Len(recs)]
  <1> DEFINE fs == CHOOSE fs : AddsUp(fs, recs, Len(recs))
  <1>1. AddsUp(fs, recs, Len(recs))
    OBVIOUS
  <1>2. Requested(recs) = fs[Len(recs)]
    BY DEF Requested, AddsUp
  <1>3. Len(recs) <= Len(recs) /\ \A n \in 1..Len(recs) : recs[n] = recs[n]
    OBVIOUS
  <1>4. fs[Len(recs)] = gs[Len(recs)]
    <2> HIDE DEF fs
    <2> QED BY <1>1, <1>3, SumsAgree, Zenon
  <1> QED BY <1>2, <1>4

(* The requests of no slot are none, and one slot more adds its own.       *)
LEMMA NoneRequested == Requested(<<>>) = 0
  <1>1. AddsUp([n \in 0..0 |-> 0], <<>>, 0) /\ Len(<<>>) = 0
    BY DEF AddsUp
  <1> QED BY <1>1, RequestedIsSum

LEMMA OneSlotMore ==
  ASSUME NEW S, NEW recs \in Seq(S), NEW rec \in S
  PROVE  Requested(Append(recs, rec)) = Requested(recs) + rec.requests
  <1> DEFINE new == Append(recs, rec)
             m == Len(recs)
  <1>1. m \in Nat /\ Len(new) = m + 1 /\ new[m + 1] = rec /\ \A n \in 1..m : recs[n] = new[n]
    OBVIOUS
  <1> HIDE DEF new, m
  <1>2. PICK k \in Nat : k = m + 1
    BY <1>1
  <1>3. PICK gs : AddsUp(gs, recs, m)
    BY <1>1, SumExists
  <1>4. PICK hs : AddsUp(hs, new, k)
    BY <1>2, SumExists
  <1>5. m \in Nat /\ m <= k /\ k \in 0..k /\ k # 0 /\ k - 1 = m
    BY <1>1, <1>2
  <1>6. gs[m] = hs[m]
    BY <1>1, <1>3, <1>4, <1>5, SumsAgree, Zenon
  <1>7. hs[k] = IF k = 0 THEN 0 ELSE hs[k - 1] + new[k].requests
    BY <1>4, <1>5, Zenon DEF AddsUp
  <1>8. Requested(recs) = gs[m] /\ Requested(new) = hs[k]
    <2>1. Requested(recs) = gs[m]
      BY <1>1, <1>3, RequestedIsSum, Zenon DEF m
    <2>2. Len(new) = k
      BY <1>1, <1>2
    <2>3. Requested(new) = hs[k]
      BY <1>2, <1>4, <2>2, RequestedIsSum, Zenon
    <2> QED BY <2>1, <2>3
  <1>9. new[k] = rec
    BY <1>1, <1>2
  <1> QED BY <1>5, <1>6, <1>7, <1>8, <1>9 DEF new

-----------------------------------------------------------------------------
(* Where the command stands in a slot, and the records of finished slots.  *)
InSlot == {"prepare", "send", "wait"} \cup SlotOutcomes

SlotRecords == [slot : Nat, requests : Nat \ {0}, named : SUBSET (Versions \cup {NoReport}), valid : BOOLEAN]

ScreenTypes ==
  /\ ScreenTypeOK /\ records \in Seq(SlotRecords) /\ paid \in [Slots -> Nat]
  /\ Len(records) \in Nat /\ Requested(records) \in Nat

(* What holds before there is a run.                                       *)
Unstarted ==
  /\ screenCommand = "none" /\ audit = 0 /\ sent = 0 /\ letOut = 0 /\ records = <<>> /\ summary = NoReport
  /\ paid = [s \in Slots |-> 0]

(* What the command under way has asked and written, and what it has yet   *)
(* to pay.                                                                 *)
UnderWay ==
  /\ audit = Requested(records) + letOut
  /\ IF screenCommand = "send" THEN sent + 1 = audit ELSE sent = audit
  /\ summary = NoReport /\ Len(records) = slotAt - 1
  /\ screenCommand \in {"slot"} \cup InSlot => slotAt \in Slots
  /\ screenCommand \in {"slot", "package"} => letOut = 0
  /\ screenCommand = "package" => slotAt = 2 * PairsPlanned + 1
  /\ \A s \in Slots : s > slotAt \/ (s = slotAt /\ screenCommand = "slot") => paid[s] = 0
  /\ screenCommand \in InSlot =>
       /\ attempts \in 1..2 /\ letOut <= 2 * (attempts - 1) + sequence
       /\ screenCommand = "prepare" => sequence <= 1

ScreenInv ==
  /\ ScreenTypes /\ SpendingIsAudited
  /\ ~roots => Unstarted
  /\ screenCommand # "none" => UnderWay

LEMMA Planned == PairsPlanned \in Nat \ {0} /\ MaxCommands \in Nat \ {0}
  BY ScreenAssumption

LEMMA ScreenBegins == ScreenInit => ScreenInv
  <1> SUFFICES ASSUME ScreenInit PROVE ScreenInv
    OBVIOUS
  <1>1. Requested(records) = 0 /\ records \in Seq(SlotRecords) /\ Len(records) = 0
    BY NoneRequested DEF ScreenInit
  <1>2. ScreenTypes
    <2>1. DOMAIN records = {} /\ paid \in [Slots -> Nat]
      BY DEF ScreenInit
    <2>2. 2 * PairsPlanned + 1 \in Nat
      BY Planned
    <2>3. slotAt \in 0..(2 * PairsPlanned + 1) /\ commands \in 0..MaxCommands
      BY <2>2, Planned DEF ScreenInit
    <2>4. ScreenTypeOK
      <3>1. /\ screenCommand = "none" /\ letOut = 0 /\ named = {} /\ attempts = 0 /\ sequence = 0
            /\ audit = 0 /\ sent = 0 /\ roots = FALSE
        BY DEF ScreenInit
      <3>2. 0 \in 0..4 /\ 0 \in 0..2
        OBVIOUS
      <3> QED BY <2>1, <2>3, <3>1, <3>2 DEF ScreenTypeOK
    <2> QED BY <1>1, <2>1, <2>4 DEF ScreenTypes
  <1> QED BY <1>2 DEF ScreenInit, ScreenInv, Unstarted, SpendingIsAudited, SentWasAudited, PaidOnce, SummaryIsWhole

(* Each step keeps it: a request is audited before it is sent, a slot is   *)
(* paid once, and the summary counts what was audited.                     *)
LEMMA ScreenStep == ScreenInv /\ [ScreenNext]_screenVars => ScreenInv'
  <1> SUFFICES ASSUME ScreenInv, [ScreenNext]_screenVars PROVE ScreenInv'
    OBVIOUS
  <1> USE Planned
  <1>t. ScreenTypes /\ SentWasAudited /\ PaidOnce /\ SummaryIsWhole
        /\ (~roots => Unstarted) /\ (screenCommand # "none" => UnderWay /\ roots)
    BY DEF ScreenInv, SpendingIsAudited, ScreenTypes, ScreenTypeOK
  <1>1. ASSUME NEW ready \in BOOLEAN, StartRun(ready) PROVE ScreenInv'
    <2>1. CASE MayStart(ready)
      <3>1. ~roots /\ Unstarted
        BY <1>t, <2>1 DEF MayStart
      <3>2. /\ roots' = TRUE /\ screenCommand' = "slot" /\ slotAt' = 1 /\ commands' = commands + 1
            /\ commands < MaxCommands
            /\ UNCHANGED <<letOut, named, attempts, sequence, audit, sent, records, paid, summary>>
        BY <1>1, <2>1 DEF StartRun
      <3>3. ScreenTypes'
        BY <1>t, <3>2 DEF ScreenTypes, ScreenTypeOK
      <3>4. SpendingIsAudited'
        BY <1>t, <3>2 DEF SpendingIsAudited, SentWasAudited, PaidOnce, SummaryIsWhole
      <3>5. UnderWay'
        BY <3>1, <3>2, NoneRequested DEF Unstarted, UnderWay, InSlot, SlotOutcomes, Slots
      <3> QED BY <3>2, <3>3, <3>4, <3>5 DEF ScreenInv
    <2>2. CASE ~MayStart(ready)
      <3>1. /\ screenCommand = "none" /\ commands' = commands + 1 /\ commands < MaxCommands
            /\ UNCHANGED <<roots, screenCommand, slotAt, letOut, named, attempts, sequence, audit, sent, records,
                           paid, summary>>
        BY <1>1, <2>2 DEF StartRun
      <3>2. ScreenTypes'
        BY <1>t, <3>1 DEF ScreenTypes, ScreenTypeOK
      <3> QED BY <1>t, <3>1, <3>2 DEF ScreenInv, SpendingIsAudited, SentWasAudited, PaidOnce, SummaryIsWhole, Unstarted
    <2> QED BY <2>1, <2>2
  <1>2. CASE Killed
    <2>1. /\ screenCommand # "none" /\ screenCommand' = "none"
          /\ slotAt' = 0 /\ letOut' = 0 /\ named' = {} /\ attempts' = 0 /\ sequence' = 0
          /\ UNCHANGED <<roots, audit, sent, records, paid, summary, commands>>
      BY <1>2 DEF Killed, Stops
    <2>2. ScreenTypes'
      BY <1>t, <2>1 DEF ScreenTypes, ScreenTypeOK
    <2> QED BY <1>t, <2>1, <2>2 DEF ScreenInv, SpendingIsAudited, SentWasAudited, PaidOnce, SummaryIsWhole
  <1>3. CASE BeginSlot
    <2>1. /\ screenCommand = "slot" /\ slotAt \in Slots
          /\ screenCommand' = "prepare" /\ letOut' = 0 /\ named' = {} /\ attempts' = 1 /\ sequence' = 0
          /\ paid' = [paid EXCEPT ![slotAt] = @ + 1]
          /\ UNCHANGED <<roots, slotAt, audit, sent, records, summary, commands>>
      BY <1>3 DEF BeginSlot
    <2>2. paid' \in [Slots -> Nat] /\ paid'[slotAt] = 1 /\ \A s \in Slots : s # slotAt => paid'[s] = paid[s]
      <3>1. paid \in [Slots -> Nat] /\ paid[slotAt] = 0
        BY <1>t, <2>1 DEF ScreenTypes, UnderWay, Slots
      <3> HIDE DEF Slots
      <3> QED BY <2>1, <3>1
    <2>3. ScreenTypes'
      BY <1>t, <2>1, <2>2 DEF ScreenTypes, ScreenTypeOK
    <2>4. SpendingIsAudited'
      BY <1>t, <2>1, <2>2 DEF SpendingIsAudited, SentWasAudited, PaidOnce, SummaryIsWhole
    <2>5. UnderWay'
      BY <1>t, <2>1, <2>2 DEF UnderWay, InSlot, SlotOutcomes, ScreenTypes, ScreenTypeOK, Slots
    <2> QED BY <1>t, <2>1, <2>3, <2>4, <2>5 DEF ScreenInv
  <1>4. ASSUME NEW matches \in BOOLEAN, Audit(matches) PROVE ScreenInv'
    <2>1. /\ screenCommand = "prepare"
          /\ IF matches
             THEN /\ screenCommand' = "send"
                  /\ audit' = audit + 1 /\ letOut' = letOut + 1 /\ sequence' = sequence + 1
             ELSE screenCommand' = "failed" /\ UNCHANGED <<audit, letOut, sequence>>
          /\ UNCHANGED <<roots, slotAt, named, attempts, sent, records, paid, summary, commands>>
      BY <1>4 DEF Audit
    <2>2. UnderWay /\ roots /\ audit \in Nat /\ sent \in Nat /\ letOut \in 0..4 /\ sequence \in 0..2 /\ attempts \in 1..2
          /\ sequence <= 1 /\ letOut <= 2 * (attempts - 1) + sequence /\ Requested(records) \in Nat
      BY <1>t, <2>1 DEF ScreenTypes, ScreenTypeOK, UnderWay, InSlot
    <2>3. ScreenTypes'
      BY <1>t, <2>1, <2>2, SMTT(30) DEF ScreenTypes, ScreenTypeOK, SlotOutcomes
    <2>4. SpendingIsAudited'
      BY <1>t, <2>1, <2>2 DEF SpendingIsAudited, SentWasAudited, PaidOnce, SummaryIsWhole, UnderWay
    <2>5. UnderWay'
      BY <2>1, <2>2 DEF UnderWay, InSlot, SlotOutcomes
    <2> QED BY <2>1, <2>2, <2>3, <2>4, <2>5 DEF ScreenInv
  <1>5. CASE Send
    <2>1. /\ screenCommand = "send" /\ sent' = sent + 1 /\ screenCommand' = "wait"
          /\ UNCHANGED <<roots, slotAt, letOut, named, attempts, sequence, audit, records, paid, summary, commands>>
      BY <1>5 DEF Send
    <2>2. ScreenTypes'
      BY <1>t, <2>1 DEF ScreenTypes, ScreenTypeOK
    <2>3. SpendingIsAudited'
      BY <1>t, <2>1 DEF SpendingIsAudited, SentWasAudited, PaidOnce, SummaryIsWhole, UnderWay, ScreenTypes, ScreenTypeOK
    <2>4. UnderWay'
      BY <1>t, <2>1 DEF UnderWay, InSlot, SlotOutcomes
    <2> QED BY <1>t, <2>1, <2>2, <2>3, <2>4 DEF ScreenInv
  <1>6. ASSUME screenCommand = "wait", screenCommand' \in {"prepare", "usable", "unusable", "failed"},
               named' \in SUBSET (Versions \cup {NoReport}),
               \/ UNCHANGED <<attempts, sequence>> /\ (screenCommand' = "prepare" => sequence = 1)
               \/ attempts = 1 /\ attempts' = 2 /\ sequence' = 0,
               UNCHANGED <<roots, slotAt, letOut, audit, sent, records, paid, summary, commands>>
        PROVE  ScreenInv'
    <2>1. UnderWay /\ roots /\ letOut \in 0..4 /\ sequence \in 0..2 /\ attempts \in 1..2
          /\ letOut <= 2 * (attempts - 1) + sequence
      BY <1>t, <1>6 DEF ScreenTypes, ScreenTypeOK, UnderWay, InSlot
    <2>2. ScreenTypes'
      BY <1>t, <1>6, <2>1 DEF ScreenTypes, ScreenTypeOK, SlotOutcomes
    <2>3. SpendingIsAudited'
      BY <1>t, <1>6 DEF SpendingIsAudited, SentWasAudited, PaidOnce, SummaryIsWhole
    <2>4. attempts' \in 1..2 /\ letOut' <= 2 * (attempts' - 1) + sequence' /\ (screenCommand' = "prepare" => sequence' <= 1)
      BY <1>6, <2>1
    <2>5. UnderWay'
      BY <1>6, <2>1, <2>4 DEF UnderWay, InSlot, SlotOutcomes
    <2> QED BY <1>6, <2>1, <2>2, <2>3, <2>5 DEF ScreenInv
  <1>7. ASSUME NEW name \in Versions \cup {NoReport}, NEW status \in SlotOutcomes, SlotAnswer(name, status)
        PROVE  ScreenInv'
    <2>1. named' \in SUBSET (Versions \cup {NoReport})
      BY <1>t, <1>7 DEF SlotAnswer, ScreenTypes, ScreenTypeOK
    <2>2. status = "usable" \/ status = "unusable"
      BY <1>7 DEF SlotAnswer
    <2> QED BY <1>6, <1>7, <2>1, <2>2 DEF SlotAnswer
  <1>8. ASSUME NEW name \in Versions \cup {NoReport}, OutOfBudget(name) PROVE ScreenInv'
    <2>1. named' \in SUBSET (Versions \cup {NoReport})
      BY <1>t, <1>8 DEF OutOfBudget, ScreenTypes, ScreenTypeOK
    <2> QED BY <1>6, <1>8, <2>1 DEF OutOfBudget
  <1>9. CASE RequestFails
    <2>1. named' \in SUBSET (Versions \cup {NoReport})
      BY <1>t, <1>9 DEF RequestFails, ScreenTypes, ScreenTypeOK
    <2> QED BY <1>6, <1>9, <2>1 DEF RequestFails
  <1>10. CASE FinishSlot
    <2>1. /\ screenCommand \in SlotOutcomes
          /\ UNCHANGED <<roots, audit, sent, paid, summary, commands>>
          /\ letOut' = 0 /\ named' = {} /\ attempts' = 0 /\ sequence' = 0
      BY <1>10 DEF FinishSlot, Stops
    <2>2. /\ UnderWay /\ roots /\ letOut \in Nat /\ slotAt \in Slots /\ Len(records) = slotAt - 1
          /\ audit = Requested(records) + letOut /\ sent = audit
          /\ \A s \in Slots : s > slotAt => paid[s] = 0
      BY <1>t, <2>1 DEF UnderWay, InSlot, SlotOutcomes, ScreenTypes, ScreenTypeOK
    <2>3. SentWasAudited' /\ PaidOnce'
      BY <1>t, <2>1 DEF SentWasAudited, PaidOnce
    <2>4. CASE letOut = 0
      <3>1. screenCommand' = "none" /\ slotAt' = 0 /\ records' = records
        BY <1>10, <2>4 DEF FinishSlot, Stops
      <3>2. ScreenTypes'
        BY <1>t, <2>1, <3>1 DEF ScreenTypes, ScreenTypeOK
      <3> QED BY <1>t, <2>1, <2>2, <2>3, <3>1, <3>2 DEF ScreenInv, SpendingIsAudited, SummaryIsWhole
    <2>5. CASE letOut # 0
      <3> DEFINE rec == [slot |-> slotAt, requests |-> letOut, named |-> named,
                         valid |-> screenCommand = "usable" /\ \E v \in Versions : named = {v}]
      <3>1. /\ records' = Append(records, rec)
            /\ screenCommand' = IF slotAt + 1 \in Slots THEN "slot" ELSE "package"
            /\ slotAt' = slotAt + 1
        BY <1>10, <2>5 DEF FinishSlot
      <3>2. rec \in SlotRecords /\ rec.requests = letOut /\ rec.slot = slotAt
        BY <1>t, <2>2, <2>5 DEF SlotRecords, ScreenTypes, ScreenTypeOK, Slots
      <3> HIDE DEF rec
      <3>3. records \in Seq(SlotRecords)
        BY <1>t DEF ScreenTypes
      <3>4. /\ Requested(records') = Requested(records) + letOut
            /\ records' \in Seq(SlotRecords) /\ Len(records') = Len(records) + 1
            /\ DOMAIN records' = 1..(Len(records) + 1) /\ DOMAIN records = 1..Len(records)
            /\ records'[Len(records) + 1] = rec
            /\ \A i \in 1..Len(records) : records'[i] = records[i]
        BY <3>1, <3>2, <3>3, OneSlotMore
      <3>5. \A i \in DOMAIN records' : records'[i].slot = i /\ records'[i].requests > 0
        <4>1. \A i \in 1..Len(records) : records[i].slot = i /\ records[i].requests > 0
          BY <1>t, <3>4 DEF ScreenTypes, ScreenTypeOK
        <4>2. Len(records) \in Nat /\ rec.slot = Len(records) + 1 /\ rec.requests > 0
          BY <1>t, <2>2, <2>5, <3>2 DEF ScreenTypes, Slots
        <4> QED BY <3>4, <4>1, <4>2
      <3>6. Requested(records') \in Nat /\ Len(records') \in Nat
        BY <1>t, <2>2, <3>4 DEF ScreenTypes
      <3>7. slotAt' \in 1..(2 * PairsPlanned + 1)
            /\ (slotAt' \in Slots => screenCommand' = "slot")
            /\ (slotAt' \notin Slots => screenCommand' = "package" /\ slotAt' = 2 * PairsPlanned + 1)
        BY <2>2, <3>1 DEF Slots
      <3>8. ScreenTypes'
        BY <1>t, <2>1, <2>2, <3>4, <3>5, <3>6, <3>7 DEF ScreenTypes, ScreenTypeOK
      <3>9. UnderWay'
        <4>1. audit' = Requested(records)' + letOut' /\ sent' = audit'
          BY <2>1, <2>2, <3>4, <3>6
        <4>2. Len(records') = slotAt' - 1
          BY <1>t, <2>2, <3>1, <3>4 DEF Slots
        <4>3. \A s \in Slots : s > slotAt' \/ (s = slotAt' /\ screenCommand' = "slot") => paid'[s] = 0
          BY <2>1, <2>2, <3>1 DEF Slots
        <4>4. summary' = NoReport
          BY <2>1, <2>2 DEF UnderWay
        <4> QED BY <2>1, <3>7, <4>1, <4>2, <4>3, <4>4 DEF UnderWay, InSlot, SlotOutcomes
      <3>10. SummaryIsWhole'
        BY <2>1, <2>2 DEF SummaryIsWhole, UnderWay
      <3> QED BY <2>1, <2>2, <2>3, <3>8, <3>9, <3>10 DEF ScreenInv, SpendingIsAudited
    <2> QED BY <2>4, <2>5
  <1>11. ASSUME NEW parity \in SUBSET (1..PairsPlanned), NEW blind \in BOOLEAN, Package(parity, blind)
         PROVE  ScreenInv'
    <2>1. /\ screenCommand = "package"
          /\ summary' = summary \/ summary'.requests = Requested(records)
          /\ screenCommand' = "none" /\ slotAt' = 0 /\ letOut' = 0 /\ named' = {} /\ attempts' = 0 /\ sequence' = 0
          /\ UNCHANGED <<roots, audit, sent, records, paid, commands>>
      BY <1>11 DEF Package, Stops
    <2>2. /\ summary = NoReport /\ Len(records) = 2 * PairsPlanned /\ audit = sent /\ Requested(records) = audit /\ roots
      BY <1>t, <2>1 DEF UnderWay, ScreenTypes
    <2>3. ScreenTypes'
      BY <1>t, <2>1 DEF ScreenTypes, ScreenTypeOK
    <2> QED BY <1>t, <2>1, <2>2, <2>3 DEF ScreenInv, SpendingIsAudited, SentWasAudited, PaidOnce, SummaryIsWhole
  <1>12. CASE UNCHANGED screenVars
    <2>1. UNCHANGED <<roots, screenCommand, slotAt, letOut, named, attempts, sequence, audit, sent, records, paid,
                summary, commands>>
      BY <1>12 DEF screenVars
    <2>2. ScreenTypes' = ScreenTypes /\ SpendingIsAudited' = SpendingIsAudited /\ Unstarted' = Unstarted
          /\ UnderWay' = UnderWay
      BY <2>1 DEF ScreenTypes, ScreenTypeOK, SpendingIsAudited, SentWasAudited, PaidOnce, SummaryIsWhole,
                  Unstarted, UnderWay
    <2> QED BY <2>1, <2>2 DEF ScreenInv
  <1> QED BY <1>1, <1>2, <1>3, <1>4, <1>5, <1>7, <1>8, <1>9, <1>10, <1>11, <1>12 DEF ScreenNext

-----------------------------------------------------------------------------
(***************************************************************************)
(* The parts together.  They share no state: a behaviour of all of them    *)
(* is one of each.                                                         *)
(***************************************************************************)
(* A step of all parts is a step of each, or leaves it alone.              *)
LEMMA StepsOfParts ==
  /\ Init => /\ StoreInit /\ SubInit /\ SkillInit /\ ConfigInit /\ AnchorInit
             /\ RatingInit /\ ScreenInit
  /\ [Next]_allVars => /\ [StoreNext]_storeVars /\ [SubNext]_subVars /\ [SkillNext]_skillVars
                       /\ [ConfigNext]_configVars /\ [AnchorNext]_anchorVars
                       /\ [RatingNext]_ratingVars /\ [ScreenNext]_screenVars
  <1>1. Init => /\ StoreInit /\ SubInit /\ SkillInit /\ ConfigInit /\ AnchorInit
                /\ RatingInit /\ ScreenInit
    BY DEF Init
  <1>2. [Next]_allVars => [StoreNext]_storeVars
    BY DEF Next, allVars
  <1>3. [Next]_allVars => [SubNext]_subVars
    BY DEF Next, allVars
  <1>4. [Next]_allVars => [SkillNext]_skillVars
    BY DEF Next, allVars
  <1>5. [Next]_allVars => [ConfigNext]_configVars
    BY DEF Next, allVars
  <1>6. [Next]_allVars => [AnchorNext]_anchorVars
    BY DEF Next, allVars
  <1>7. [Next]_allVars => [RatingNext]_ratingVars
    BY DEF Next, allVars
  <1>8. [Next]_allVars => [ScreenNext]_screenVars
    BY DEF Next, allVars
  <1> QED BY <1>1, <1>2, <1>3, <1>4, <1>5, <1>6, <1>7, <1>8

LEMMA HasParts == Spec => StoreSpec /\ SubSpec /\ SkillSpec /\ ConfigSpec /\ AnchorSpec
  BY StepsOfParts, PTL DEF Spec, StoreSpec, SubSpec, SkillSpec, ConfigSpec, AnchorSpec

(* What the agent's parts keep on disk tells the truth, across failures,   *)
(* crashes and requests side by side.                                      *)
THEOREM RecordsAreKept == Spec => []RecordsKept
  <1>1. NewestFirst /\ NewestKept /\ DeletedIsGone /\ SubRunsRecorded /\ SkillDecisions /\ ConfigIsWhole
          => RecordsKept
    BY DEF RecordsKept
  <1> QED BY <1>1, HasParts, ChainIsOrdered, LastSaveIsKept, DeletedStaysGone, RunsRecorded,
             SkillsDecided, ConfigKept, PTL

(* No step takes back what was settled.                                    *)
THEOREM NothingIsTakenBack == Spec => NothingTakenBack
  BY HasParts, RepresentativeNeverRollsBack, RotationDropsOldest, EditsSpared, ResultsKept, PTL
     DEF NothingTakenBack

(* The evaluation's results can be relied on, whatever the raters write    *)
(* and lock, the answers the paid run gets, and the commands that are      *)
(* killed: the model is selected by the rule on locked forms, every        *)
(* request is paid once and audited before it is sent, and a manifest      *)
(* vouches only for files that were there before it.                       *)
THEOREM EvidenceHolds == Spec => []EvidenceStands
  <1>1. RatingInv /\ ScreenInv /\ AnchorInv => EvidenceStands
    BY DEF EvidenceStands, RatingInv, ScreenInv, AnchorInv
  <1>2. Spec => []RatingInv /\ []ScreenInv
    BY StepsOfParts, RatingBegins, RatingStep, ScreenBegins, ScreenStep, PTL DEF Spec
  <1> QED BY <1>1, <1>2, HasParts, AnchorInvariance, PTL
=============================================================================
