------------------------------ MODULE ChunkRunner ------------------------------
(***************************************************************************)
(* The parallel path of translate_block_chunks_parallel (and of its twin   *)
(* translate_chunks_parallel): an async generator that translates the      *)
(* chunks of a document with a bounded number of calls at a time and       *)
(* yields the results in the order of the chunks.                          *)
(*                                                                         *)
(* Each chunk has an asyncio task that enters a semaphore and hands the    *)
(* model call to a worker thread.  A failed call is a result as well (a    *)
(* fallback); an exception from anywhere else ends the chunk's task.       *)
(***************************************************************************)
EXTENDS Naturals, FiniteSets

CONSTANTS
  N,             \* number of chunks
  Concurrency    \* max_concurrency

ASSUME ChunkAssumption == N \in Nat /\ Concurrency \in Nat \ {0}

VARIABLES
  entered,    \* chunks whose task is inside the semaphore
  threads,    \* chunks whose worker thread runs
  completed,  \* chunks whose result is there
  raised,     \* chunks whose task ended with an exception
  pending,    \* chunks of which asyncio.wait has not reported the end
  yielded,    \* number of results yielded
  gen         \* where the generator is

runnerVars == <<entered, threads, completed, raised, pending, yielded, gen>>

Chunk == 1..N

(* It waits for a task, looks for results to yield, has yielded one; it    *)
(* has run to its end, or was closed.                                      *)
Places == {"waiting", "draining", "yielded", "ended", "closed"}

RunnerInit ==
  /\ entered = {} /\ threads = {} /\ completed = {} /\ raised = {}
  /\ pending = Chunk
  /\ yielded = 0
  /\ gen = IF N = 0 THEN "ended" ELSE "waiting"

Ended == completed \cup raised
Open  == gen \notin {"ended", "closed"}

-----------------------------------------------------------------------------
(* The tasks.                                                              *)

(* Mutant: the semaphore lets one too many in.                             *)
EnterOneMore(c) ==
  /\ Open /\ c \notin entered \cup Ended
  /\ Cardinality(entered) <= Concurrency
  /\ entered' = entered \cup {c} /\ threads' = threads \cup {c}
  /\ UNCHANGED <<completed, raised, pending, yielded, gen>>

(* The semaphore is fair: chunks enter in their order.                     *)
Enter(c) ==
  /\ Open /\ c \notin entered \cup Ended
  /\ \A d \in Chunk : d < c => d \in entered \cup Ended
  /\ Cardinality(entered) < Concurrency
  /\ entered' = entered \cup {c} /\ threads' = threads \cup {c}
  /\ UNCHANGED <<completed, raised, pending, yielded, gen>>

Leave(c) == /\ c \in entered /\ c \in threads
            /\ entered' = entered \ {c} /\ threads' = threads \ {c}
            /\ UNCHANGED <<pending, yielded, gen>>

Return(c) == Leave(c) /\ completed' = completed \cup {c} /\ UNCHANGED raised
Raise(c)  == Leave(c) /\ raised' = raised \cup {c} /\ UNCHANGED completed

(* The thread of a cancelled task cannot be stopped; its result is lost.   *)
ThreadEnds(c) ==
  /\ c \in threads /\ c \notin entered
  /\ threads' = threads \ {c}
  /\ UNCHANGED <<entered, completed, raised, pending, yielded, gen>>

-----------------------------------------------------------------------------
(* The generator.                                                          *)

(* asyncio.wait returns with all tasks that have ended.                    *)
Wake ==
  /\ gen = "waiting" /\ pending \cap Ended # {}
  /\ pending' = pending \ Ended
  /\ gen' = "draining"
  /\ UNCHANGED <<entered, threads, completed, raised, yielded>>

(* Mutant: any result that is there is yielded.                            *)
YieldAny ==
  /\ gen = "draining" /\ yielded < Cardinality(completed)
  /\ yielded' = yielded + 1
  /\ gen' = "yielded"
  /\ UNCHANGED <<entered, threads, completed, raised, pending>>

Yield ==
  /\ gen = "draining" /\ yielded + 1 \in completed
  /\ yielded' = yielded + 1
  /\ gen' = "yielded"
  /\ UNCHANGED <<entered, threads, completed, raised, pending>>

(* Mutant: one result is yielded for each wait.                            *)
PullWaits == /\ gen = "yielded"
             /\ gen' = IF pending = {} THEN "ended" ELSE "waiting"
             /\ UNCHANGED <<entered, threads, completed, raised, pending, yielded>>

(* Mutant: the index is advanced before and after the result is taken.     *)
PullCounts == /\ gen = "yielded" /\ gen' = "draining"
              /\ yielded' = yielded + 1
              /\ UNCHANGED <<entered, threads, completed, raised, pending>>

(* The consumer asks for the next result.                                  *)
Pull == /\ gen = "yielded" /\ gen' = "draining"
        /\ UNCHANGED <<entered, threads, completed, raised, pending, yielded>>

(* Mutant: the loop ends when the last task has been started.              *)
LoopEarly ==
  /\ gen = "draining" /\ yielded + 1 \notin completed
  /\ gen' = IF Chunk \subseteq Ended \cup entered THEN "ended" ELSE "waiting"
  /\ UNCHANGED <<entered, threads, completed, raised, pending, yielded>>

(* Mutant: it waits also when there is nothing left to wait for.           *)
LoopForever ==
  /\ gen = "draining" /\ yielded + 1 \notin completed
  /\ gen' = "waiting"
  /\ UNCHANGED <<entered, threads, completed, raised, pending, yielded>>

(* Nothing more to yield now: wait for the tasks that are left, if any.    *)
Loop ==
  /\ gen = "draining" /\ yielded + 1 \notin completed
  /\ gen' = IF pending = {} THEN "ended" ELSE "waiting"
  /\ UNCHANGED <<entered, threads, completed, raised, pending, yielded>>

(* The consumer is gone (the client disconnected): unfinished tasks are    *)
(* cancelled, their threads run on.                                        *)
Close ==
  /\ gen \in {"waiting", "yielded"}
  /\ gen' = "closed"
  /\ entered' = {}
  /\ UNCHANGED <<threads, completed, raised, pending, yielded>>

Task(c)   == Enter(c) \/ Return(c) \/ Raise(c) \/ ThreadEnds(c)
Generator == Wake \/ Yield \/ Pull \/ Loop

RunnerNext == (\E c \in Chunk : Task(c)) \/ Generator \/ Close

RunnerSpec == RunnerInit /\ [][RunnerNext]_runnerVars

(* Worker threads return (the clients' calls time out), the event loop     *)
(* runs what is ready, and the consumer goes on or closes the generator.   *)
RunnerFairSpec == RunnerSpec /\ WF_runnerVars(Generator) /\ \A c \in Chunk : WF_runnerVars(Task(c))

-----------------------------------------------------------------------------
(* Types of the state.                                                     *)
RunnerTypeOK ==
  /\ entered \subseteq Chunk /\ threads \subseteq Chunk
  /\ completed \subseteq Chunk /\ raised \subseteq Chunk
  /\ pending \subseteq Chunk
  /\ yielded \in 0..N
  /\ gen \in Places

(* What has been yielded is what comes first, each result there.           *)
InOrder == 1..yielded \subseteq completed

(* When the generator ends by itself, every result up to the first chunk   *)
(* whose task raised has been yielded, in whatever order they came.        *)
DeliveredUpToFailure == gen = "ended" => yielded = N \/ yielded + 1 \in raised

(* While the generator sleeps, the next result, if it is there, will wake  *)
(* it up: also if it came between the last wait and the last look.         *)
NoLostWakeUp == gen = "waiting" /\ yielded + 1 \in completed => yielded + 1 \in pending

(* Never more chunks with a call to the model than allowed, also when the  *)
(* tasks are cancelled and their threads are not.  (A chunk whose result   *)
(* does not fit its blocks has them translated again, four at a time.)     *)
BoundedCalls == Cardinality(threads) <= Concurrency

(* The results come in the order of the chunks, all that can be yielded    *)
(* are, no wake-up is lost and the calls stay bounded.                     *)
ChunksInOrder == InOrder /\ DeliveredUpToFailure /\ NoLostWakeUp /\ BoundedCalls

(* The generator comes to its end, with all threads gone.                  *)
Ends == <>[](~Open /\ threads = {})

(* "Not translated (does not happen in theory; a safety net)": the         *)
(* pipeline holds that a block whose chunk was translated has its text.    *)
(* One chunk's exception keeps back the results of all chunks after it.    *)
NothingUntranslated == gen = "ended" => completed \subseteq 1..yielded
=============================================================================
