------------------------------ MODULE ChunkCalls ------------------------------
(***************************************************************************)
(* The chunk runner and the model calls its worker threads make, together: *)
(* a thread that runs for chunk c is caller c of ModelCalls, beside other  *)
(* callers of the process (argument mapping, reviews) that share the       *)
(* limiters.  ChunkRunner takes it for granted that threads return; here   *)
(* they do because their calls end, through limiters that others hold,     *)
(* retries and back-offs, also when the generator was closed meanwhile.    *)
(***************************************************************************)
EXTENDS ChunkRunner, ModelCalls

ASSUME ChunkCallsAssumption == Chunk \subseteq Threads

CallEnded(c) == step[c] \in {"returned", "raised"}

(* _run has the semaphore and hands translate_block_chunk to a thread.     *)
EnterCalls(c) == Enter(c) /\ (\E k \in KindsOf[c] : Begin(c, k))

(* The thread is back, with a translation, or with a fallback if the call  *)
(* raised; or its task was cancelled and nobody waits for it.              *)
Back(c) == CallEnded(c) /\ (Return(c) \/ Raise(c) \/ ThreadEnds(c)) /\ UNCHANGED callVars

ThreadStep(c) == c \in threads /\ CallStep(c) /\ UNCHANGED runnerVars

OtherStep(t) == t \notin Chunk /\ CallStep(t) /\ UNCHANGED runnerVars

ChunkCallsNext ==
  \/ \E c \in Chunk : EnterCalls(c) \/ Back(c) \/ ThreadStep(c)
  \/ \E t \in Threads : OtherStep(t)
  \/ CallTick /\ UNCHANGED runnerVars
  \/ (Generator \/ Close) /\ UNCHANGED callVars

ChunkCallsInit == RunnerInit /\ CallsInit

ChunkCallsSpec ==
  /\ ChunkCallsInit
  /\ [][ChunkCallsNext]_<<runnerVars, callVars>>
  /\ WF_callVars(CallTick /\ UNCHANGED runnerVars)
  /\ WF_runnerVars(Generator /\ UNCHANGED callVars)
  /\ \A c \in Chunk : /\ WF_runnerVars(EnterCalls(c) \/ Back(c))
                      /\ WF_callVars(ThreadStep(c))
  /\ \A t \in Threads : WF_callVars(OtherStep(t))

-----------------------------------------------------------------------------
(* The composition implements the runner: to it a call is one step, which  *)
(* is certain to come.                                                     *)
ImplementsRunner == RunnerFairSpec

(* Each call that was begun ends: in translate_block_chunk's thread,       *)
(* whatever the others do, and in the other callers.                       *)
CallsComeToAnEnd == \A t \in Threads : step[t] # "idle" ~> CallEnded(t)
-----------------------------------------------------------------------------
(* One document for TLC: the calls of its chunks share the limiter of their *)
(* cloud client with a caller beside them (0), which may ask as            *)
(* call_llm_chat does.                                                     *)
MCThreads == Chunk \cup {0}

MCKindsOf == [t \in MCThreads |-> IF t = 0 THEN {"chat cloud", "cloud"} ELSE {"cloud"}]

MCKeyOf == [t \in MCThreads |-> "document"]
=============================================================================
