---------------------------- MODULE PromiseLedger ----------------------------
(***************************************************************************)
(* The promise ledger of one document: argument/ledger.py, the ledger part *)
(* of argument/companion_store.py and its endpoints in routers/argument.py.*)
(*                                                                         *)
(* A build asks the model twice, in up to two attempts each, and saves a   *)
(* new ledger at the end.  Which kind of build is decided when the request *)
(* comes: with a ledger it is a rebuild, which first collects what the     *)
(* user has overridden and puts it back after the build.  The user goes on *)
(* editing while the model is asked, in windows that show a ledger until a *)
(* request or the end of a build gives them another.                       *)
(***************************************************************************)
EXTENDS Naturals, FiniteSets

CONSTANTS
  Builds,     \* requests that build the ledger
  Manual,     \* promises that the user adds
  NoLedger    \* there is no ledger

(* The model finds one promise in each build; a promise and its anchor     *)
(* have the same name.                                                     *)
Promises == Builds \cup Manual

LedgerType ==
  [promises : SUBSET Promises, overridden : SUBSET Promises, anchors : SUBSET Promises]

ASSUME LedgerAssumption == NoLedger \notin LedgerType

VARIABLES
  ledger,     \* _ledgers[doc_id], and its file
  build,      \* what each request does, its attempts so far, what it keeps
  held,       \* whether a relocation has the ledger in hand, or one replaced since
  shown,      \* promises of the ledgers so far: those a window may show
  owned,      \* history: promises that the user overrode and did not delete
  strayed     \* history: promises that an edit or a relocation parted from their anchors

ledgerVars == <<ledger, build, held, shown, owned, strayed>>

Attempts == 2                            \* _LEDGER_ATTEMPTS
ReadableAnswers == {"success", "legal_empty"}
Answers  == ReadableAnswers \cup {"empty_response", "invalid_json", "timeout"}

NotBuilding == [at |-> "new", rebuilds |-> FALSE, kept |-> {}, kept_anchors |-> {}, tried |-> 0]
Working == {"extract", "classify", "merge"}

NotHeld == [is |-> "none", was |-> NoLedger, anchors |-> {}]

LedgerInit ==
  /\ ledger = NoLedger /\ held = NotHeld /\ shown = {} /\ owned = {} /\ strayed = {}
  /\ build = [b \in Builds |-> NotBuilding]

-----------------------------------------------------------------------------
(* The promises overridden by now are those that a rebuild keeps.          *)
RequestBuild(b) ==
  /\ build[b].at = "new"
  /\ build' = [build EXCEPT ![b] =
       IF ledger = NoLedger THEN [NotBuilding EXCEPT !.at = "extract"]
       ELSE [NotBuilding EXCEPT !.at = "extract", !.rebuilds = TRUE, !.kept = ledger.overridden,
                         !.kept_anchors = ledger.overridden \cap ledger.anchors]]
  /\ UNCHANGED <<ledger, held, shown, owned, strayed>>

(* How a stage ends, if it does: an answer that can be read ends it, and   *)
(* so do two attempts.  An error of the provider ends the extraction at    *)
(* once; the classification tries again.                                   *)
EndsTrying(b, answer) ==
  \/ answer \in ReadableAnswers
  \/ build[b].tried + 1 = Attempts
  \/ build[b].at = "extract" /\ answer = "timeout"

New(b) == [promises |-> {b}, overridden |-> {}, anchors |-> {b}]
EmptyLedger   == [promises |-> {}, overridden |-> {}, anchors |-> {}]

(* The kept promises take their places beside the new ones.                *)
WithKept(l, b, anchors) ==
  [promises |-> l.promises \cup build[b].kept, overridden |-> l.overridden \cup build[b].kept,
   anchors  |-> l.anchors \cup anchors]

(* Mutant: the anchors of the kept promises are left behind.               *)
MergedAnew(l, b) == WithKept(l, b, {})

MergedLedger(l, b) == WithKept(l, b, build[b].kept_anchors)

(* Another ledger, or none, takes the place of the one there is.           *)
Replaces(l) ==
  /\ ledger' = l
  /\ held' = IF held.is = "current" THEN [held EXCEPT !.is = "old", !.was = ledger] ELSE held

(* What a build saves: first the new ledger alone.                         *)
Saves(b, l) ==
  /\ Replaces(l)
  /\ shown' = shown \cup l.promises
  /\ build' = [build EXCEPT ![b].at = IF build[b].kept = {} THEN "complete" ELSE "merge"]

Attempt(b) ==
  /\ build[b].at \in {"extract", "classify"}
  /\ \E a \in Answers :
       IF ~EndsTrying(b, a)
         THEN build' = [build EXCEPT ![b].tried = @ + 1] /\ UNCHANGED <<ledger, held, shown>>
       ELSE IF build[b].at = "classify" THEN Saves(b, New(b))
       ELSE IF a = "legal_empty"        THEN Saves(b, EmptyLedger)
       ELSE /\ build' = [build EXCEPT ![b].at = IF a = "success" THEN "classify" ELSE "error",
                                      ![b].tried = 0]
            /\ UNCHANGED <<ledger, held, shown>>
  /\ UNCHANGED <<owned, strayed>>

(* No await lies between the save of the new ledger and this one; only     *)
(* threads may come between.                                               *)
Merge(b) ==
  /\ build[b].at = "merge"
  /\ ledger' = IF ledger = NoLedger THEN NoLedger ELSE MergedLedger(ledger, b)
  /\ build' = [build EXCEPT ![b].at = "complete"]
  /\ UNCHANGED <<held, shown, owned, strayed>>

Merging == \E b \in Builds : build[b].at = "merge"

(* The client goes away; or the disk refuses a save, which stands in       *)
(* memory all the same, but ends the build.                                *)
BuildStops(b) ==
  /\ build[b].at \in Working
  /\ build' = [build EXCEPT ![b].at = "error"]
  /\ UNCHANGED <<ledger, held, shown, owned, strayed>>

-----------------------------------------------------------------------------
(* These requests run in worker threads, also between two saves.  An edit  *)
(* of a promise, or a new one, counts as overridden; the client sends the  *)
(* promise as its window shows it, maybe one that was deleted or built     *)
(* anew since: one the ledger does not have is added to it.                *)
UpsertPromise ==
  /\ ledger # NoLedger
  /\ \E p \in shown \cup Manual :
       /\ ledger' = [ledger EXCEPT !.promises = @ \cup {p}, !.overridden = @ \cup {p}]
       /\ owned' = owned \cup {p}
       /\ strayed' = strayed \cup ({p} \ (ledger.promises \cup ledger.anchors))
  /\ UNCHANGED <<build, held, shown>>

DeletePromise ==
  /\ ledger # NoLedger
  /\ \E p \in ledger.promises :
       /\ ledger' = [ledger EXCEPT !.promises = @ \ {p}, !.overridden = @ \ {p}]
       /\ owned' = owned \ {p}
  /\ UNCHANGED <<build, held, shown, strayed>>

DeleteLedger ==
  /\ ledger # NoLedger
  /\ Replaces(NoLedger) /\ owned' = {}
  /\ UNCHANGED <<build, shown, strayed>>

(* A relocation reads the ledger and its anchors, finds them in the text,  *)
(* and saves the ledger it has read, whatever was saved or deleted since.  *)
Relocate ==
  /\ ledger # NoLedger /\ held.is = "none"
  /\ held' = [is |-> "current", was |-> NoLedger, anchors |-> ledger.anchors]
  /\ UNCHANGED <<ledger, build, shown, owned, strayed>>

(* Anchors that a merge put into the ledger meanwhile may have come in     *)
(* time for it, or are dropped.                                            *)
Relocated ==
  /\ held.is # "none"
  /\ LET l == IF held.is = "current" THEN ledger ELSE held.was IN
       \E late \in SUBSET (l.anchors \ held.anchors) :
         /\ ledger' = [l EXCEPT !.anchors = held.anchors \cup late]
         /\ strayed' = strayed \cup (l.promises \ ledger'.anchors)
  /\ held' = NotHeld
  /\ UNCHANGED <<build, shown, owned>>

LedgerNext ==
  \/ \E b \in Builds : Merge(b) \/ BuildStops(b) \/ (~Merging /\ (RequestBuild(b) \/ Attempt(b)))
  \/ UpsertPromise \/ DeletePromise \/ DeleteLedger \/ Relocate \/ Relocated

LedgerSpec == LedgerInit /\ [][LedgerNext]_ledgerVars

-----------------------------------------------------------------------------
(* Types of the state.                                                     *)
LedgerTypeOK ==
  /\ ledger \in LedgerType \cup {NoLedger}
  /\ held \in [is : {"none", "current", "old"}, was : LedgerType \cup {NoLedger}, anchors : SUBSET Promises]
  /\ build \in [Builds -> [at : Working \cup {"new", "complete", "error"}, rebuilds : BOOLEAN,
                           kept : SUBSET Promises, kept_anchors : SUBSET Promises, tried : 0..1]]
  /\ shown \subseteq Promises /\ owned \subseteq Promises /\ strayed \subseteq Promises

(* A promise the model found can be located in the text: its anchor is in  *)
(* the ledger, also after it was overridden, kept by a rebuild and merged  *)
(* into another ledger, or the ledger was brought back by a relocation.    *)
(* Two things part it from its anchor: an edit from a window that shows    *)
(* the ledger before a build, and a relocation beside a merge.             *)
PromisesAnchored == ledger # NoLedger => ledger.promises \ (Manual \cup strayed) \subseteq ledger.anchors

(* "Like build, but keeps the promises with user_overridden=True."         *)
RebuildKeepsOverrides ==
  [][\A b \in Builds :
       build[b].rebuilds /\ build[b].at # "complete" /\ build'[b].at = "complete" /\ ledger' # NoLedger
       => owned \subseteq ledger'.overridden]_ledgerVars
=============================================================================
