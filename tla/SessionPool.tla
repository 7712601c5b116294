------------------------------ MODULE SessionPool ------------------------------
(***************************************************************************)
(* The HTTP endpoints of router.py that share the in-memory pool of        *)
(* runtimes and the JSONL file of one session: v2_chat, v2_resume,         *)
(* v2_approve, v2_abort, v2_workflow_delete, _cleanup_pool.                *)
(*                                                                         *)
(* Each chat or resume request makes a runtime of its own.  A handler runs *)
(* up to its next await in one step; _SESSION_LOCK is never held across an *)
(* await, so its bodies add no step boundaries.                            *)
(*                                                                         *)
(* A session's content is the set of runtimes whose turn it records.       *)
(***************************************************************************)
EXTENDS Naturals, FiniteSets

CONSTANTS
  Runtimes,  \* the runtimes that requests may make (a bound)
  None       \* empty pool entry; no file

ASSUME NoneAssumption == None \notin Runtimes /\ \A S \in SUBSET Runtimes : None # S

VARIABLES
  pool,      \* _SESSION_POOL's runtime for the session, or None
  st,        \* where each runtime's request stands
  aborted,   \* runtimes whose _aborted flag is set
  asking,    \* runtimes with a pending approval event
  mem,       \* the session each runtime holds in memory
  file,      \* the session's JSONL file, or None
  displaced  \* history: runtimes a request took out of the pool

poolVars == <<pool, st, aborted, asking, mem, file, displaced>>

(* "opened": in the pool, the SSE stream not started.  "resuming": a       *)
(* resume request was answered, its stream not started.  "streaming": in   *)
(* turn().  "leaked": the client left before the stream started, so that   *)
(* no finally clause runs.  "refused": a resume of an active session, its  *)
(* error event on the way.                                                 *)
States == {"unused", "opened", "resuming", "streaming", "leaked", "refused", "gone"}

PoolInit ==
  /\ pool = None
  /\ st = [r \in Runtimes |-> "unused"]
  /\ aborted = {} /\ asking = {}
  /\ mem = [r \in Runtimes |-> {}]
  /\ file = None
  /\ displaced = {}

Goes(r, from, to) == st[r] = from /\ st' = [st EXCEPT ![r] = to]

(* Mutant: the turn of the pool's runtime is taken to be in the file, also *)
(* when the pool has none.                                                 *)
LoadedWithPool == IF file = None THEN {} ELSE file \cup {pool}

(* Session.load, or a new session where there is no file.                  *)
Loaded == IF file = None THEN {} ELSE file

-----------------------------------------------------------------------------
(* Mutant: whether the session is active is not checked.                   *)
ChatAnyway(r) ==
  /\ Goes(r, "unused", "opened")
  /\ pool' = r
  /\ mem' = [mem EXCEPT ![r] = Loaded]
  /\ UNCHANGED <<aborted, asking, file, displaced>>

(* v2_chat; an active session is answered 409.                             *)
Chat(r) ==
  /\ pool = None
  /\ Goes(r, "unused", "opened")
  /\ pool' = r
  /\ mem' = [mem EXCEPT ![r] = Loaded]
  /\ UNCHANGED <<aborted, asking, file, displaced>>

(* The stream of a chat starts: turn() appends the user message.           *)
StreamStarts(r) ==
  /\ Goes(r, "opened", "streaming")
  /\ mem' = [mem EXCEPT ![r] = @ \cup {r}]
  /\ UNCHANGED <<pool, aborted, asking, file, displaced>>

(* The client is gone before the stream starts.                            *)
StreamNeverStarts(r) ==
  /\ Goes(r, "opened", "leaked") \/ Goes(r, "resuming", "gone")
  /\ UNCHANGED <<pool, aborted, asking, mem, file, displaced>>

(* v2_resume: the request only finds the file ...                          *)
Resume(r) ==
  /\ file # None
  /\ Goes(r, "unused", "resuming")
  /\ UNCHANGED <<pool, aborted, asking, mem, file, displaced>>

(* Mutant: whether the session is active is not checked.                   *)
ResumeAnyway(r) ==
  /\ Goes(r, "resuming", "streaming")
  /\ pool' = r
  /\ mem' = [mem EXCEPT ![r] = Loaded \cup {r}]
  /\ UNCHANGED <<aborted, asking, file, displaced>>

(* ... the stream makes the runtime and looks into the pool.               *)
ResumeStarts(r) ==
  /\ pool = None
  /\ Goes(r, "resuming", "streaming")
  /\ pool' = r
  /\ mem' = [mem EXCEPT ![r] = Loaded \cup {r}]
  /\ UNCHANGED <<aborted, asking, file, displaced>>

(* An active session raises an error, which is sent to the client ...      *)
ResumeRefused(r) ==
  /\ pool # None
  /\ Goes(r, "resuming", "refused")
  /\ UNCHANGED <<pool, aborted, asking, mem, file, displaced>>

(* ... and the stream's finally clause pops the session's entry, whosever  *)
(* it is by then.                                                          *)
RefusedEnds(r) ==
  /\ Goes(r, "refused", "gone")
  /\ pool' = None
  /\ displaced' = displaced \cup ({pool} \ {None})
  /\ UNCHANGED <<aborted, asking, mem, file>>

-----------------------------------------------------------------------------
(* _auto_save within the turn: the whole session replaces the file.        *)
Save(r) ==
  /\ st[r] = "streaming"
  /\ file' = mem[r]
  /\ UNCHANGED <<pool, st, aborted, asking, mem, displaced>>

(* A tool needs an approval.                                               *)
Ask(r) ==
  /\ st[r] = "streaming" /\ r \notin asking
  /\ asking' = asking \cup {r}
  /\ UNCHANGED <<pool, st, aborted, mem, file, displaced>>

(* v2_approve reaches the runtime in the pool.                             *)
Answer(r) ==
  /\ pool = r /\ r \in asking
  /\ asking' = asking \ {r}
  /\ UNCHANGED <<pool, st, aborted, mem, file, displaced>>

(* Mutant: only a waiter in the pool gives up.                             *)
TimeOutInPool(r) ==
  /\ r \in asking /\ pool = r
  /\ asking' = asking \ {r}
  /\ UNCHANGED <<pool, st, aborted, mem, file, displaced>>

(* The waiter gives up after _APPROVAL_TIMEOUT.                            *)
TimeOut(r) ==
  /\ r \in asking
  /\ asking' = asking \ {r}
  /\ UNCHANGED <<pool, st, aborted, mem, file, displaced>>

(* v2_abort: out of the pool, flagged, pending approval released; turn()   *)
(* winds down later.                                                       *)
Abort(r) ==
  /\ pool = r
  /\ pool' = None
  /\ aborted' = aborted \cup {r}
  /\ asking' = asking \ {r}
  /\ displaced' = displaced \cup {r}
  /\ UNCHANGED <<st, mem, file>>

(* Mutant: the entry stays in the pool.                                    *)
EndInPool(r) ==
  /\ r \notin asking
  /\ Goes(r, "streaming", "gone")
  /\ file' \in {file, mem[r]}
  /\ UNCHANGED <<pool, aborted, asking, mem, displaced>>

(* The turn is over: outcome saved, the session's entry popped by id.      *)
End(r) ==
  /\ r \notin asking
  /\ Goes(r, "streaming", "gone")
  /\ file' \in {file, mem[r]}
  /\ pool' = None
  /\ UNCHANGED <<aborted, asking, mem, displaced>>

(* Mutant: the approval event stays.                                       *)
DisconnectAsking(r) ==
  /\ Goes(r, "streaming", "gone")
  /\ pool' = None
  /\ UNCHANGED <<aborted, asking, mem, file, displaced>>

(* The client disconnects: the generator is closed, nothing is saved.      *)
Disconnect(r) ==
  /\ Goes(r, "streaming", "gone")
  /\ pool' = None
  /\ asking' = asking \ {r}
  /\ UNCHANGED <<aborted, mem, file, displaced>>

-----------------------------------------------------------------------------
(* Mutant: the entry of a stream that never started is kept.               *)
EvictFinished(r) ==
  /\ pool = r /\ st[r] = "gone"
  /\ pool' = None
  /\ UNCHANGED <<st, aborted, asking, mem, file, displaced>>

(* _cleanup_pool: an entry idle beyond _SESSION_TTL and not streaming.     *)
Evict(r) ==
  /\ pool = r /\ st[r] = "leaked"
  /\ pool' = None
  /\ UNCHANGED <<st, aborted, asking, mem, file, displaced>>

(* v2_workflow_delete: refused while the runtime in the pool is streaming. *)
Delete ==
  /\ pool # None \/ file # None
  /\ pool # None => st[pool] # "streaming"
  /\ pool' = None /\ file' = None
  /\ displaced' = displaced \cup ({pool} \ {None})
  /\ UNCHANGED <<st, aborted, asking, mem>>

(* v2_workflow_cleanup: the file of an inactive session is old.            *)
CleanDisk ==
  /\ pool = None /\ \A r \in Runtimes : st[r] # "streaming"
  /\ file' = None
  /\ UNCHANGED <<pool, st, aborted, asking, mem, displaced>>

(* The server process dies and is restarted.                               *)
Crash ==
  /\ pool' = None
  /\ st' = [r \in Runtimes |-> IF st[r] = "unused" THEN "unused" ELSE "gone"]
  /\ aborted' = {} /\ asking' = {}
  /\ displaced' = {}
  /\ UNCHANGED <<mem, file>>

Request(r)  == Chat(r) \/ Resume(r) \/ Answer(r) \/ Abort(r)
Stream(r)   == \/ StreamStarts(r) \/ StreamNeverStarts(r)
               \/ ResumeStarts(r) \/ ResumeRefused(r) \/ RefusedEnds(r)
Turn(r)     == Save(r) \/ Ask(r) \/ TimeOut(r) \/ End(r) \/ Disconnect(r)

PoolNext ==
  \/ \E r \in Runtimes : Request(r) \/ Stream(r) \/ Turn(r) \/ Evict(r)
  \/ Delete \/ CleanDisk \/ Crash

(* A stream starts or its client leaves; a wait for an approval is timed;  *)
(* a turn has a lease and limits, so that it ends unless its tools report  *)
(* something new for ever, which is left out here; the cleanup loop runs   *)
(* every ten minutes.                                                      *)
PoolFairness ==
  \A r \in Runtimes :
    /\ WF_poolVars(Stream(r))
    /\ WF_poolVars(TimeOut(r)) /\ SF_poolVars(End(r))
    /\ WF_poolVars(Evict(r))

PoolSpec     == PoolInit /\ [][PoolNext]_poolVars
FairPoolSpec == PoolSpec /\ PoolFairness

-----------------------------------------------------------------------------
(* Types of the state. *)
PoolTypeOK ==
  /\ pool \in Runtimes \cup {None}
  /\ st \in [Runtimes -> States]
  /\ {aborted, asking, displaced} \subseteq SUBSET Runtimes
  /\ mem \in [Runtimes -> SUBSET Runtimes]
  /\ file \in (SUBSET Runtimes) \cup {None}

Streaming == {r \in Runtimes : st[r] = "streaming"}

(* Nothing but a finished or never started request is in the pool's way:   *)
(* its entry is a runtime whose finally clause, or the cleanup, will pop   *)
(* it.                                                                     *)
NoStaleEntry == pool # None => st[pool] \in {"opened", "streaming", "leaked"}

(* As long as no abort, refused resume or delete took a runtime out of the *)
(* pool, the session has one streaming runtime at most, and it is the one  *)
(* that approve, abort and delete find.                                    *)
PoolTellsWhoStreams == displaced = {} => \A r \in Streaming : pool = r

(* As long as that holds, no save of a turn wipes out another's: what is   *)
(* on disk is also in the memory of whoever is going to save.              *)
NoLostTurn == displaced = {} /\ file # None => \A r \in Streaming : file \subseteq mem[r]

(* Only runtimes in a turn wait for approvals: no event outlives it.       *)
AskersStream == asking \subseteq Streaming

(* The pool tells the truth about the session's requests: no entry is      *)
(* stale, the turn it names is the one that streams, saves lose no turn    *)
(* and no approval is asked for a turn that is gone.                       *)
PoolHolds ==
  NoStaleEntry /\ PoolTellsWhoStreams /\ NoLostTurn /\ AskersStream

(* A session does not stay "already active" for ever.                      *)
PoolDrains == \A r \in Runtimes : pool = r ~> pool # r

(* Every stream ends, also one that is no longer in the pool.              *)
StreamsEnd == \A r \in Runtimes : st[r] = "streaming" ~> st[r] # "streaming"

-----------------------------------------------------------------------------
(***************************************************************************)
(* What the code's comments and tests say and the code does not keep.      *)
(***************************************************************************)

(* "Session ... is already active": no second turn on a session at work.   *)
OneTurnAtATime == Cardinality(Streaming) <= 1

=============================================================================
