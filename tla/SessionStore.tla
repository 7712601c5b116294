----------------------------- MODULE SessionStore -----------------------------
(***************************************************************************)
(* The file of one Agent session and its rotations: Session.save,          *)
(* rotate and save_with_rotate (runtime/session.py), and the endpoints     *)
(* that delete what is stored (router.py).                                 *)
(*                                                                         *)
(* A version is the whole session as one save wrote it; versions are       *)
(* numbered in their order.  A save may have to rotate first: the files    *)
(* are renamed one by one, the oldest first.  The process may die between  *)
(* any two file operations, and any of them may fail.  Saves run on the    *)
(* event loop, under the path's lock: they do not overlap.                 *)
(***************************************************************************)
EXTENDS Naturals

CONSTANTS
  MaxRotated,   \* _MAX_ROTATED_FILES
  MaxSaves      \* bound: saves that are begun

ASSUME StoreAssumption == MaxRotated \in Nat \ {0} /\ MaxSaves \in Nat

VARIABLES
  chain,     \* by position (0 the main file, n the file ".n"): version, 0 if no file
  temps,     \* versions in temporary files
  made,      \* number of saves begun
  at,        \* file operation to come
  pos,       \* position in the chain it is for
  answer,    \* of the last delete: "deleted", "failed"; "none" once a save has begun
  newest     \* history: version of the last save, 0 when it was to be deleted

storeVars == <<chain, temps, made, at, pos, answer, newest>>

Position == 0..MaxRotated
Version  == 0..MaxSaves

Exists(p) == chain[p] # 0

StoreInit ==
  /\ chain = [p \in Position |-> 0]
  /\ temps = {} /\ made = 0
  /\ at = "idle" /\ pos = 0
  /\ answer = "none" /\ newest = 0

(* What _session_representative_path finds: the first file of the chain.   *)
Representative ==
  IF \E p \in Position : Exists(p)
    THEN chain[CHOOSE p \in Position : Exists(p) /\ \A q \in 0..(p - 1) : ~Exists(q)]
    ELSE 0

-----------------------------------------------------------------------------
(* Whether the main file has reached 256 KB is left open.                  *)
BeginSave ==
  /\ at = "idle" /\ made < MaxSaves
  /\ made' = made + 1
  /\ \/ Exists(0) /\ at' = "rotate" /\ pos' = MaxRotated - 1
     \/ at' = "write" /\ pos' = 0
  /\ answer' = "none"
  /\ UNCHANGED <<chain, temps, newest>>

(* Mutant: the files are shifted from the main file on.                    *)
RotateUpwards ==
  /\ at = "rotate"
  /\ LET p == MaxRotated - 1 - pos IN
       chain' = IF Exists(p) THEN [chain EXCEPT ![p + 1] = chain[p], ![p] = 0] ELSE chain
  /\ IF pos = 0 THEN at' = "write" /\ pos' = 0 ELSE at' = at /\ pos' = pos - 1
  /\ UNCHANGED <<temps, made, answer, newest>>

(* One os.replace; the last one moves the main file.                       *)
Rotate ==
  /\ at = "rotate"
  /\ chain' = IF Exists(pos) THEN [chain EXCEPT ![pos + 1] = chain[pos], ![pos] = 0] ELSE chain
  /\ IF pos = 0 THEN at' = "write" /\ pos' = 0 ELSE at' = at /\ pos' = pos - 1
  /\ UNCHANGED <<temps, made, answer, newest>>

(* The temporary file is written and synced.                               *)
WriteTemp ==
  /\ at = "write"
  /\ temps' = temps \cup {made}
  /\ at' = "replace"
  /\ UNCHANGED <<chain, made, pos, answer, newest>>

Replace ==
  /\ at = "replace"
  /\ chain' = [chain EXCEPT ![0] = made]
  /\ temps' = temps \ {made}
  /\ newest' = made
  /\ at' = "idle" /\ pos' = 0
  /\ UNCHANGED <<made, answer>>

(* Mutant: the main file is removed when it cannot be replaced.            *)
SaveFailsHard ==
  /\ at \in {"rotate", "write", "replace"}
  /\ chain' = IF at = "replace" THEN [chain EXCEPT ![0] = 0] ELSE chain
  /\ temps' = temps \ {made}
  /\ at' = "idle" /\ pos' = 0
  /\ UNCHANGED <<made, answer, newest>>

(* A replace that is not transient, or stays so for all retries, or a      *)
(* write that fails: the temporary file is unlinked, the rest stays.       *)
SaveFails ==
  /\ at \in {"rotate", "write", "replace"}
  /\ temps' = temps \ {made}
  /\ at' = "idle" /\ pos' = 0
  /\ UNCHANGED <<chain, made, answer, newest>>

-----------------------------------------------------------------------------
(* Deleting a session, or cleaning up one that has expired: whatever of    *)
(* the chain is left is found through its representative.                  *)
BeginDelete ==
  /\ at = "idle" /\ Representative # 0
  /\ at' = "delete" /\ pos' = 0
  /\ newest' = 0 /\ answer' = "none"
  /\ UNCHANGED <<chain, temps, made>>

(* Mutant: only the files up to the first that is missing are removed.     *)
UnlinkToGap ==
  /\ at = "delete"
  /\ chain' = [chain EXCEPT ![pos] = 0]
  /\ IF pos = MaxRotated \/ ~Exists(pos)
       THEN at' = "idle" /\ pos' = 0 /\ answer' = "deleted"
       ELSE pos' = pos + 1 /\ UNCHANGED <<at, answer>>
  /\ UNCHANGED <<temps, made, newest>>

(* The list of files is made before the first is unlinked.                 *)
Unlink ==
  /\ at = "delete"
  /\ chain' = [chain EXCEPT ![pos] = 0]
  /\ IF pos = MaxRotated
       THEN at' = "idle" /\ pos' = 0 /\ answer' = "deleted"
       ELSE pos' = pos + 1 /\ UNCHANGED <<at, answer>>
  /\ UNCHANGED <<temps, made, newest>>

(* An OSError: what is left stays.                                         *)
DeleteFails ==
  /\ at = "delete" /\ Exists(pos)
  /\ at' = "idle" /\ pos' = 0 /\ answer' = "failed"
  /\ UNCHANGED <<chain, temps, made, newest>>

StoreCrash ==
  /\ at # "idle"
  /\ at' = "idle" /\ pos' = 0
  /\ UNCHANGED <<chain, temps, made, answer, newest>>

StoreNext == \/ BeginSave \/ Rotate \/ WriteTemp \/ Replace \/ SaveFails
             \/ BeginDelete \/ Unlink \/ DeleteFails \/ StoreCrash

StoreSpec == StoreInit /\ [][StoreNext]_storeVars

-----------------------------------------------------------------------------
(* Types of the state.                                                     *)
StoreTypeOK ==
  /\ chain \in [Position -> Version]
  /\ temps \subseteq Version
  /\ made \in Version /\ newest \in Version
  /\ at \in {"idle", "rotate", "write", "replace", "delete"}
  /\ pos \in Position
  /\ answer \in {"none", "deleted", "failed"}

(* In the chain, holes or not, a file is newer than those after it: what   *)
(* the delete and clean-up endpoints read through the representative is    *)
(* the newest there is, and a rotation drops the oldest.                   *)
NewestFirst ==
  \A p, q \in Position : p < q /\ Exists(p) /\ Exists(q) => chain[p] > chain[q]

(* The last version saved is in some file of the chain, whatever fails and *)
(* whenever the process dies, until it is deleted.                         *)
NewestKept == newest # 0 => \E p \in Position : chain[p] = newest

(* The version found through the representative goes back only while the   *)
(* session is deleted: neither a crash nor a failure in the middle of a    *)
(* rotation brings an old version to the front.                            *)
NeverRollsBack ==
  [][(\E p \in Position : Exists(p)) /\ at # "delete" => Representative' >= Representative]_storeVars

(* A rotation drops no version but the one in the last place: a step moves *)
(* a file only onto a place it has made free, or the last.                 *)
OnlyOldestDropped ==
  [][at = "rotate" =>
       \A p \in Position \ {MaxRotated} :
         Exists(p) => \E q \in Position : chain'[q] = chain[p]]_storeVars

(* A delete that was reported as done leaves nothing a later request would *)
(* find, whatever holes the rotations before it had left.                  *)
DeletedIsGone == answer = "deleted" => Representative = 0
=============================================================================
