------------------------------- MODULE RagStore -------------------------------
(***************************************************************************)
(* The document store of routers/rag.py and the background ingestion of    *)
(* finished translations in routers/translate.py.                          *)
(*                                                                         *)
(* A document is a set of numbered chunks in the vector collection, and,   *)
(* unless it is a translation, an entry of the index, which is kept in     *)
(* memory and saved to documents.json.  A job is one request: it works on  *)
(* the collection from worker threads, one operation after the other, and  *)
(* each may fail.  The API's jobs share a lock, the translations' another  *)
(* semaphore.  The process may die at any time.                            *)
(***************************************************************************)
EXTENDS Naturals, FiniteSets

CONSTANTS
  Documents,       \* ids of the documents of the API
  Translations,    \* ids made from the text of what was translated
  Jobs,            \* the requests
  Length,          \* number of chunks of the text of each job
  MaxIngests       \* permits of _RAG_INGEST_SEMAPHORE (3)

DocId == Documents \cup Translations
Index == 0..2


VARIABLES
  collection,   \* chunks: the job each one of a document is from, or Absent
  index,        \* _docs: the job of each document's entry, or Absent
  saved,        \* documents.json
  job,          \* what each job does, on which document, and how far it is
  intact        \* history: documents whose last job was answered "ok"

ragVars == <<collection, index, saved, job, intact>>

Absent == "absent"

ASSUME RagAssumption ==
  /\ Length \in [Jobs -> 1..3] /\ MaxIngests \in Nat \ {0}
  /\ Documents \cap Translations = {} /\ Absent \notin Jobs

Idle   == [kind |-> "none", doc |-> "none", at |-> "new"]

Kinds  == {"ingest", "remove", "translation"}
Inside == {"delete", "upsert", "index", "save"}   \* the lock or a permit is held

Chunks(d) == {i \in Index : collection[d][i] # Absent}
ApiLock   == {j \in Jobs : job[j].kind \in {"ingest", "remove"} /\ job[j].at \in Inside}
Ingesting == {j \in Jobs : job[j].kind = "translation" /\ job[j].at \in Inside}

RagInit ==
  /\ collection = [d \in DocId |-> [i \in Index |-> Absent]]
  /\ index = [d \in Documents |-> Absent] /\ saved = index
  /\ job = [j \in Jobs |-> Idle]
  /\ intact = Documents

-----------------------------------------------------------------------------
Moves(j, place) == job' = [job EXCEPT ![j].at = place]

(* A removal is refused when the document has no entry.                    *)
Request(j) ==
  /\ job[j] = Idle
  /\ \E k \in Kinds, d \in DocId :
       /\ (k = "translation") <=> (d \in Translations)
       /\ k = "remove" => index[d] # Absent
       /\ job' = [job EXCEPT ![j] = [kind |-> k, doc |-> d, at |-> "waiting"]]
  /\ UNCHANGED <<collection, index, saved, intact>>

(* Mutant: the API's jobs do not wait for each other.                      *)
NoLock(j) == TRUE

Permitted(j) == IF job[j].kind = "translation" THEN Cardinality(Ingesting) < MaxIngests
                                               ELSE ApiLock = {}

Enters(j) ==
  /\ job[j].at = "waiting" /\ Permitted(j)
  /\ Moves(j, "delete")
  /\ intact' = intact \ {job[j].doc}
  /\ UNCHANGED <<collection, index, saved>>

(* The chunks that the document has are deleted.                           *)
DeleteChunks(j) ==
  /\ job[j].at = "delete"
  /\ collection' = [collection EXCEPT ![job[j].doc] = [i \in Index |-> Absent]]
  /\ Moves(j, IF job[j].kind = "remove" THEN "index" ELSE "upsert")
  /\ UNCHANGED <<index, saved, intact>>

(* Mutant: the last chunk of the text is left out.                         *)
UpsertShort(j) ==
  [collection EXCEPT ![job[j].doc] = [i \in Index |-> IF i + 1 < Length[j] THEN j ELSE @[i]]]

Upserted(j) ==
  [collection EXCEPT ![job[j].doc] = [i \in Index |-> IF i < Length[j] THEN j ELSE @[i]]]

Upsert(j) ==
  /\ job[j].at = "upsert"
  /\ collection' = Upserted(j)
  /\ Moves(j, IF job[j].kind = "translation" THEN "ready" ELSE "index")
  /\ UNCHANGED <<index, saved, intact>>

(* An entry that another removal has taken is a KeyError.                  *)
SetIndex(j) ==
  /\ job[j].at = "index"
  /\ LET d == job[j].doc IN
       IF job[j].kind = "remove" /\ index[d] = Absent
         THEN Moves(j, "failed") /\ UNCHANGED index
         ELSE /\ index' = [index EXCEPT ![d] = IF job[j].kind = "remove" THEN Absent ELSE j]
              /\ Moves(j, "save")
  /\ UNCHANGED <<collection, saved, intact>>

(* Mutant: only the document of the job is put into the file.              *)
SavedAnew(j) == [d \in Documents |-> IF d = job[j].doc THEN index[d] ELSE Absent]

Written(j) == index

Save(j) ==
  /\ job[j].at = "save"
  /\ saved' = Written(j)
  /\ intact' = intact \cup {job[j].doc}
  /\ Moves(j, "answered")
  /\ UNCHANGED <<collection, index>>

(* The collection or the file raises: the lock is released, what was done  *)
(* stays done.                                                             *)
JobFails(j) ==
  /\ job[j].at \in {"delete", "upsert", "save"}
  /\ Moves(j, "failed")
  /\ UNCHANGED <<collection, index, saved, intact>>

(* The process dies; the index is read from the file when it comes back.   *)
RagCrash ==
  /\ \E j \in Jobs : job[j].at \in Inside
  /\ job' = [j \in Jobs |-> IF job[j].at \in Inside \cup {"waiting"}
                              THEN [job[j] EXCEPT !.at = "failed"] ELSE job[j]]
  /\ index' = saved
  /\ UNCHANGED <<collection, saved, intact>>

RagNext == RagCrash \/ \E j \in Jobs :
  Request(j) \/ Enters(j) \/ DeleteChunks(j) \/ Upsert(j) \/ SetIndex(j) \/ Save(j) \/ JobFails(j)

RagSpec == RagInit /\ [][RagNext]_ragVars

-----------------------------------------------------------------------------
(* Types of the state.                                                     *)
RagTypeOK ==
  /\ collection \in [DocId -> [Index -> Jobs \cup {Absent}]]
  /\ index \in [Documents -> Jobs \cup {Absent}] /\ saved \in [Documents -> Jobs \cup {Absent}]
  /\ \A j \in Jobs : job[j] = Idle \/
       job[j] \in [kind : Kinds, doc : DocId,
                   at : Inside \cup {"waiting", "ready", "answered", "failed"}]
  /\ intact \subseteq Documents

(* The chunks of a document of the API are all of one text, and none of    *)
(* that text is missing: also when it is indexed twice at the same time,   *)
(* in between removals, failures and crashes.                              *)
OneText ==
  \A d \in Documents : Chunks(d) # {} =>
    \E j \in Jobs : /\ \A i \in Chunks(d) : collection[d][i] = j
                    /\ Cardinality(Chunks(d)) = Length[j]

(* A document whose last job was answered with success is in the index, in *)
(* the file and in the collection with the same text, or in none of them:  *)
(* whatever failed or died on other documents before and since.            *)
IndexAgrees ==
  \A d \in intact :
    /\ saved[d] = index[d]
    /\ IF index[d] = Absent THEN Chunks(d) = {}
       ELSE Chunks(d) # {} /\ \A i \in Chunks(d) : collection[d][i] = index[d]

(* "Delete-then-upsert removes duplicates by itself, the vector store gets *)
(* no duplicate entries": two translations of the same text, each with its *)
(* own number of chunks.                                                   *)
OneTranslation ==
  \A d \in Translations : \A i, k \in Chunks(d) : collection[d][i] = collection[d][k]
=============================================================================
