----------------------------- MODULE DocumentProofs -----------------------------
(***************************************************************************)
(* Proofs about a document's way: the parts of MCDocumentParts.  Each part *)
(* has an inductive invariant of its own (some are in TextProofs), kept by *)
(* its steps whatever the other parts do, since they share no state; from  *)
(* these follow the invariants of the composition, for all values of the   *)
(* constants.                                                              *)
(***************************************************************************)
EXTENDS MCDocumentParts, TextProofs

-----------------------------------------------------------------------------
(***************************************************************************)
(* The chunk runner, for any number of chunks and any bound.               *)
(***************************************************************************)
(* The initial state has the types.                                        *)
LEMMA InitTypes == RunnerInit => RunnerTypeOK
  BY ChunkAssumption DEF RunnerInit, RunnerTypeOK, Chunk, Places

(* Every step keeps the types.                                             *)
LEMMA NextTypes == RunnerTypeOK /\ [RunnerNext]_runnerVars => RunnerTypeOK'
  <1> SUFFICES ASSUME RunnerTypeOK, [RunnerNext]_runnerVars PROVE RunnerTypeOK'
    OBVIOUS
  <1>1. ASSUME NEW c \in Chunk, Task(c) PROVE RunnerTypeOK'
    BY <1>1 DEF Task, Enter, Leave, Return, Raise, ThreadEnds, RunnerTypeOK
  <1>2. CASE Wake \/ Pull \/ Loop \/ Close
    BY <1>2 DEF Wake, Pull, Loop, Close, RunnerTypeOK, Places
  <1>3. CASE Yield
    <2>1. yielded + 1 \in 0..N
      BY <1>3, ChunkAssumption DEF Yield, RunnerTypeOK, Chunk
    <2> QED BY <1>3, <2>1 DEF Yield, RunnerTypeOK, Places
  <1>4. CASE UNCHANGED runnerVars
    BY <1>4 DEF runnerVars, RunnerTypeOK
  <1> QED BY <1>1, <1>2, <1>3, <1>4 DEF RunnerNext, Generator

(* The state keeps its types for any N and Concurrency.                    *)
THEOREM RunnerTypes == RunnerSpec => []RunnerTypeOK
  BY InitTypes, NextTypes, PTL DEF RunnerSpec

-----------------------------------------------------------------------------
(* What the order of the results rests on: a task has one end, the wait    *)
(* has reported only tasks that have ended, the generator sleeps only      *)
(* while the next result is not there or will wake it, and ends only when  *)
(* every task was reported and there is nothing more to yield.             *)
OneEnd   == entered \cap Ended = {} /\ completed \cap raised = {}
Reported == \A c \in Chunk \ pending : c \in Ended
Settled  == gen = "ended" => pending = {} /\ yielded + 1 \notin completed

OrderInv == RunnerTypeOK /\ InOrder /\ OneEnd /\ Reported /\ Settled /\ NoLostWakeUp

(* The order invariant holds at the start ...                              *)
LEMMA InitOrder == RunnerInit => OrderInv
  BY InitTypes, ChunkAssumption
     DEF RunnerInit, OrderInv, InOrder, OneEnd, Reported, Settled, NoLostWakeUp, Ended, Chunk

(* ... and is kept by every step.                                          *)
LEMMA NextOrder == OrderInv /\ [RunnerNext]_runnerVars => OrderInv'
  <1> SUFFICES ASSUME OrderInv, [RunnerNext]_runnerVars PROVE OrderInv'
    OBVIOUS
  <1> USE DEF OrderInv
  <1>t. RunnerTypeOK'
    BY NextTypes
  <1>1. ASSUME NEW c \in Chunk, Return(c) PROVE OrderInv'
    <2>1. /\ completed' = completed \cup {c} /\ raised' = raised
          /\ UNCHANGED <<pending, yielded, gen>>
      BY <1>1 DEF Return, Leave
    <2>2. InOrder' /\ Reported'
      BY <2>1 DEF InOrder, Reported, Ended
    <2>3. c \in entered /\ entered' = entered \ {c}
      BY <1>1 DEF Return, Leave
    <2>4. c \notin Ended /\ c \in pending
      BY <2>3 DEF OneEnd, Reported
    <2>5. OneEnd'
      BY <2>1, <2>3, <2>4 DEF OneEnd, Ended
    <2>6. Settled' /\ NoLostWakeUp'
      BY <2>1, <2>4 DEF Settled, NoLostWakeUp
    <2> QED BY <1>t, <2>2, <2>5, <2>6
  <1>2. ASSUME NEW c \in Chunk, Raise(c) PROVE OrderInv'
    BY <1>t, <1>2 DEF Raise, Leave, InOrder, OneEnd, Reported, Ended, Settled, NoLostWakeUp
  <1>3. ASSUME NEW c \in Chunk, Enter(c) \/ ThreadEnds(c) PROVE OrderInv'
    BY <1>t, <1>3 DEF Enter, ThreadEnds, InOrder, OneEnd, Reported, Ended, Settled, NoLostWakeUp
  <1>4. CASE Wake
    BY <1>t, <1>4 DEF Wake, InOrder, OneEnd, Reported, Ended, Settled, NoLostWakeUp
  <1>5. CASE Yield
    <2>1. 1..(yielded + 1) = 1..yielded \cup {yielded + 1}
      BY DEF RunnerTypeOK
    <2> QED BY <1>t, <1>5, <2>1 DEF Yield, InOrder, OneEnd, Reported, Ended, Settled, NoLostWakeUp
  <1>6. CASE Pull \/ Close
    BY <1>t, <1>6 DEF Pull, Close, InOrder, OneEnd, Reported, Ended, Settled, NoLostWakeUp
  <1>7. CASE Loop
    BY <1>t, <1>7 DEF Loop, InOrder, OneEnd, Reported, Ended, Settled, NoLostWakeUp
  <1>8. CASE UNCHANGED runnerVars
    BY <1>8 DEF runnerVars, RunnerTypeOK, InOrder, OneEnd, Reported, Ended, Settled, NoLostWakeUp
  <1> QED BY <1>1, <1>2, <1>3, <1>4, <1>5, <1>6, <1>7, <1>8 DEF RunnerNext, Task, Generator

(* A generator at its end has stopped at a chunk whose task raised.        *)
LEMMA EndedAtFailure == OrderInv => DeliveredUpToFailure
  <1> SUFFICES ASSUME OrderInv, gen = "ended", yielded # N PROVE yielded + 1 \in raised
    BY DEF DeliveredUpToFailure
  <1>1. yielded + 1 \in Chunk
    BY ChunkAssumption DEF OrderInv, RunnerTypeOK, Chunk
  <1> QED BY <1>1 DEF OrderInv, Settled, Reported, Ended

(* The results that were yielded are the first ones, in chunk order.       *)
THEOREM ResultsInOrder == RunnerSpec => []InOrder
  BY InitOrder, NextOrder, PTL DEF RunnerSpec, OrderInv

(* When the generator ends, everything up to the first chunk whose task    *)
(* raised has been yielded.                                                *)
THEOREM NothingKeptBack == RunnerSpec => []DeliveredUpToFailure
  BY InitOrder, NextOrder, EndedAtFailure, PTL DEF RunnerSpec

(* The generator never sleeps on a result that nothing will wake it for.   *)
THEOREM WakeUpsKept == RunnerSpec => []NoLostWakeUp
  BY InitOrder, NextOrder, PTL DEF RunnerSpec, OrderInv

-----------------------------------------------------------------------------
(* The bound on calls: while the generator is open the threads are those   *)
(* of the tasks inside the semaphore; once it is closed, no task enters.   *)
CallInv == /\ RunnerTypeOK
           /\ entered \subseteq threads
           /\ Open => threads = entered
           /\ BoundedCalls

(* The sets that are counted are finite.                                   *)
LEMMA ThreadsFinite == RunnerTypeOK => IsFiniteSet(threads) /\ IsFiniteSet(entered)
  <1>1. IsFiniteSet(Chunk)
    BY FS_Interval, ChunkAssumption DEF Chunk
  <1> QED BY <1>1, FS_Subset DEF RunnerTypeOK

(* Every step keeps the bound.                                             *)
LEMMA NextCalls == CallInv /\ [RunnerNext]_runnerVars => CallInv'
  <1> SUFFICES ASSUME CallInv, [RunnerNext]_runnerVars PROVE CallInv'
    OBVIOUS
  <1> USE DEF CallInv
  <1>t. RunnerTypeOK'
    BY NextTypes
  <1>1. ASSUME NEW c \in Chunk, Enter(c) PROVE CallInv'
    <2>1. /\ threads = entered /\ c \notin threads /\ Cardinality(threads) < Concurrency
          /\ threads' = threads \cup {c} /\ entered' = threads' /\ UNCHANGED gen
      BY <1>1 DEF Enter
    <2>2. Cardinality(threads') = Cardinality(threads) + 1 /\ Cardinality(threads) \in Nat
      BY <2>1, ThreadsFinite, FS_AddElement, FS_CardinalityType
    <2> QED BY <1>t, <2>1, <2>2, ChunkAssumption DEF BoundedCalls, Open
  <1>2. ASSUME NEW c \in Chunk, Return(c) \/ Raise(c) \/ ThreadEnds(c) PROVE CallInv'
    <2>1. /\ threads' = threads \ {c} /\ c \in threads /\ UNCHANGED gen
          /\ entered' = entered \ {c}
      BY <1>2 DEF Return, Raise, Leave, ThreadEnds
    <2>2. Cardinality(threads') = Cardinality(threads) - 1 /\ Cardinality(threads) \in Nat
      BY <2>1, ThreadsFinite, FS_RemoveElement, FS_CardinalityType
    <2> QED BY <1>t, <2>1, <2>2, ChunkAssumption DEF BoundedCalls, Open
  <1>3. CASE Generator \/ Close
    BY <1>t, <1>3 DEF Generator, Wake, Yield, Pull, Loop, Close, BoundedCalls, Open
  <1>4. CASE UNCHANGED runnerVars
    BY <1>t, <1>4 DEF runnerVars, BoundedCalls, Open
  <1> QED BY <1>1, <1>2, <1>3, <1>4 DEF RunnerNext, Task

(* No more chunks are with the model at a time than max_concurrency.       *)
THEOREM CallsBounded == RunnerSpec => []BoundedCalls
  <1>1. RunnerInit => CallInv
    BY InitTypes, FS_EmptySet, ChunkAssumption DEF RunnerInit, CallInv, BoundedCalls
  <1> QED BY <1>1, NextCalls, PTL DEF RunnerSpec, CallInv

(* The results come in the order of the chunks, nothing that can be        *)
(* yielded is kept back, no wake-up is lost and the calls stay bounded.    *)
THEOREM RunnerIsOrderly == RunnerSpec => []ChunksInOrder
  BY ResultsInOrder, NothingKeptBack, WakeUpsKept, CallsBounded, PTL DEF ChunksInOrder

-----------------------------------------------------------------------------
(***************************************************************************)
(* The calls to the models, for any callers, keys, registry size, retries  *)
(* and interval.                                                           *)
(*                                                                         *)
(* That requests keep their distance needs two facts about a caller that   *)
(* sleeps: it holds the lock of its limiter, so that no other caller lets  *)
(* a request pass meanwhile (SleepersHold), and it has as long to sleep as *)
(* the limiter's last request lacks to the interval (WaitIsRest), which    *)
(* the tick of the clock keeps.                                            *)
(***************************************************************************)
(* The registry is a sequence of limiters, and callers have fetched theirs. *)
Fetched == /\ registry \in Seq(Nat)
           /\ \A t \in Threads : step[t] \in {"lock", "sleep"} => mine[t] \in Limiters

SleepersHold == \A t \in Threads : step[t] = "sleep" => holder[mine[t]] = t

WaitIsRest == \A t \in Threads : step[t] = "sleep" => wait[t] = Interval - age[mine[t]]

SInv == CallsTypeOK /\ Fetched /\ SleepersHold /\ WaitIsRest

-----------------------------------------------------------------------------
(* What is assumed of the numbers, and of the callers. *)
LEMMA Bounds ==
  MaxEntries \in Nat \ {0} /\ MaxRetries \in Nat /\ Interval \in Nat /\ Nobody \notin Threads
BY CallsAssumption

LEMMA Callers ==
  \A t \in Threads : /\ KeyOf[t] \in LimiterKeys
                     /\ KindsOf[t] \subseteq {"cloud", "ollama", "chat", "chat cloud"}
BY CallsAssumption

(* What is known of the state, one fact at a time. *)
LEMMA StateTypes ==
  ASSUME SInv
  PROVE  /\ kind \in [Threads -> {"none", "cloud", "ollama", "chat", "chat cloud"}]
         /\ step \in [Threads -> Steps]
         /\ tries \in [Threads -> 0..MaxRetries]
         /\ madeFor \in Seq(LimiterKeys)
         /\ registry \in Seq(Nat) /\ \A n \in DOMAIN registry : registry[n] \in Limiters
         /\ mine \in [Threads -> 0..Len(madeFor)]
         /\ age \in [Limiters -> 0..Interval]
         /\ holder \in [Limiters -> Threads \cup {Nobody}]
         /\ wait \in [Threads -> 0..Interval]
BY DEF SInv, CallsTypeOK, Fetched

(* One more value at the end of a sequence. *)
LEMMA Longer ==
  ASSUME NEW S, NEW n \in Nat, NEW f \in [1..n -> S], NEW e \in S
  PROVE  Append(f, e) \in [1..(n + 1) -> S]
<1>1. f \in Seq(S) /\ Len(f) = n
  BY SeqDef
<1>2. Append(f, e) \in Seq(S) /\ Len(Append(f, e)) = n + 1
  BY <1>1
<1> QED
  BY <1>2, LenProperties

(* The numbers of the limiters. *)
LEMMA LimiterNumbers ==
  ASSUME CallsTypeOK
  PROVE  Len(madeFor) \in Nat /\ Limiters = 1..Len(madeFor)
<1>1. madeFor \in Seq(LimiterKeys)
  BY DEF CallsTypeOK
<1> QED
  BY <1>1 DEF Limiters

LEMMA InitSpaced == CallsInit => SInv
<1> SUFFICES ASSUME CallsInit PROVE SInv
  OBVIOUS
<1>1. Limiters = {} /\ Len(madeFor) = 0
  BY DEF CallsInit, Limiters
<1>2. age \in [Limiters -> 0..Interval] /\ holder \in [Limiters -> Threads \cup {Nobody}]
  BY <1>1 DEF CallsInit
<1>3. /\ madeFor \in Seq(LimiterKeys) /\ registry \in Seq(Nat)
      /\ \A n \in DOMAIN registry : registry[n] \in Limiters
  BY DEF CallsInit
<1>4. /\ kind \in [Threads -> {"none", "cloud", "ollama", "chat", "chat cloud"}]
      /\ step \in [Threads -> Steps] /\ tries \in [Threads -> 0..MaxRetries]
      /\ mine \in [Threads -> 0..Len(madeFor)] /\ wait \in [Threads -> 0..Interval]
  BY <1>1, Bounds DEF CallsInit, Steps
<1>5. \A t \in Threads : step[t] = "idle"
  BY DEF CallsInit
<1> QED
  BY <1>2, <1>3, <1>4, <1>5 DEF SInv, CallsTypeOK, Fetched, SleepersHold, WaitIsRest

(* The steps of a caller that is not at a limiter. *)
LEMMA OtherSteps ==
  ASSUME SInv, NEW t \in Threads,
         \/ \E k \in KindsOf[t] : Begin(t, k)
         \/ Look(t) \/ Translated(t) \/ ChatRefused(t) \/ TryAgain(t) \/ BackedOff(t) \/ GiveUp(t)
         \/ DirectAnswers(t) \/ DirectExhausted(t) \/ DirectFails(t)
  PROVE  SInv'
<1>1. UNCHANGED limiterVars
  BY DEF Begin, Look, Translated, ChatRefused, TryAgain, BackedOff, GiveUp, DirectAnswers,
         DirectExhausted, DirectFails
<1>2. \E s \in Steps \ {"lock", "sleep"} : step' = [step EXCEPT ![t] = s]
  BY DEF Begin, Look, Translated, ChatRefused, TryAgain, BackedOff, GiveUp, DirectAnswers,
         DirectExhausted, DirectFails, From, Steps
<1>3. tries' \in [Threads -> 0..MaxRetries]
  <2>1. CASE UNCHANGED tries
    BY <2>1, StateTypes
  <2>2. CASE TryAgain(t)
    <3>1. MaxRetries \in Nat /\ tries \in [Threads -> 0..MaxRetries]
      BY StateTypes, Bounds
    <3> QED
      BY <2>2, <3>1 DEF TryAgain, Count
  <2> QED
    BY <2>1, <2>2 DEF Begin, Look, Translated, ChatRefused, BackedOff, GiveUp, DirectAnswers,
                      DirectExhausted, DirectFails
<1>4. kind' \in [Threads -> {"none", "cloud", "ollama", "chat", "chat cloud"}]
  <2>1. CASE UNCHANGED kind
    BY <2>1, StateTypes
  <2>2. ASSUME NEW k \in KindsOf[t], Begin(t, k)
        PROVE  kind' \in [Threads -> {"none", "cloud", "ollama", "chat", "chat cloud"}]
    <3>1. k \in {"cloud", "ollama", "chat", "chat cloud"}
      BY Callers
    <3> QED
      BY <2>2, <3>1, StateTypes DEF Begin
  <2> QED
    BY <2>1, <2>2 DEF Look, Translated, ChatRefused, TryAgain, BackedOff, GiveUp, DirectAnswers,
                      DirectExhausted, DirectFails
<1> QED
  BY <1>1, <1>2, <1>3, <1>4 DEF limiterVars, SInv, CallsTypeOK, Limiters, Fetched, SleepersHold,
                                WaitIsRest

(* What is registered for a caller is a limiter. *)
LEMMA RegisteredIsMade ==
  ASSUME SInv, NEW t \in Threads, Registered(t) # {}
  PROVE  registry[CHOOSE n \in Registered(t) : TRUE] \in Limiters
BY DEF Registered, SInv, CallsTypeOK

(* A limiter is fetched. *)
LEMMA FetchStep == ASSUME SInv, NEW t \in Threads, Fetch(t) PROVE SInv'
<1>1. CASE Registered(t) = {}
  BY <1>1 DEF Fetch, Steps, SInv, CallsTypeOK, Limiters, Fetched, SleepersHold, WaitIsRest
<1>2. CASE Registered(t) # {}
  <2>1. PICK l \in Limiters : mine' = [mine EXCEPT ![t] = l]
    BY <1>2, RegisteredIsMade DEF Fetch
  <2>2. step' = [step EXCEPT ![t] = "lock"] /\ step[t] = "fetch"
    BY <1>2 DEF Fetch
  <2>3. l \in 1..Len(madeFor)
    BY LimiterNumbers DEF SInv
  <2>4. CallsTypeOK'
    <3>1. mine' \in [Threads -> 0..Len(madeFor)]
      <4>1. mine \in [Threads -> 0..Len(madeFor)] /\ Len(madeFor) \in Nat
        BY StateTypes, LimiterNumbers DEF SInv
      <4> QED
        BY <2>1, <2>3, <4>1
    <3>2. step' \in [Threads -> Steps]
      BY <2>2, StateTypes DEF Steps
    <3> QED
      BY <3>1, <3>2 DEF Fetch, SInv, CallsTypeOK, Limiters
  <2>5. Fetched' /\ SleepersHold' /\ WaitIsRest'
    <3>1. \A s \in Threads : step'[s] = "sleep" => step[s] = "sleep" /\ mine'[s] = mine[s]
      BY <2>1, <2>2 DEF SInv, CallsTypeOK
    <3>2. \A s \in Threads : step'[s] \in {"lock", "sleep"} => mine'[s] \in Limiters
      BY <2>1, <2>2 DEF SInv, CallsTypeOK, Fetched
    <3> QED
      BY <3>1, <3>2 DEF Fetch, SInv, Limiters, Fetched, SleepersHold, WaitIsRest
  <2> QED
    BY <2>4, <2>5 DEF SInv
<1> QED
  BY <1>1, <1>2

(* A limiter is made: it is new to all callers. *)
LEMMA MakeStep == ASSUME SInv, NEW t \in Threads, Make(t) PROVE SInv'
<1>0. /\ step[t] = "make" /\ step' = [step EXCEPT ![t] = "lock"]
      /\ UNCHANGED <<kind, tries, wait>>
      /\ step' \in [Threads -> Steps]
  BY DEF Make, From, SInv, CallsTypeOK, Steps
<1>1. CASE Registered(t) # {}
  <2>1. PICK l \in Limiters : mine' = [mine EXCEPT ![t] = l]
    BY <1>1, RegisteredIsMade DEF Make
  <2>2. l \in 1..Len(madeFor)
    BY LimiterNumbers DEF SInv
  <2>3. UNCHANGED <<registry, madeFor, age, holder>>
    BY <1>1 DEF Make
  <2>4. mine' \in [Threads -> 0..Len(madeFor)]
    <3>1. mine \in [Threads -> 0..Len(madeFor)] /\ Len(madeFor) \in Nat
      BY StateTypes, LimiterNumbers DEF SInv
    <3> QED
      BY <2>1, <2>2, <3>1
  <2>5. CallsTypeOK'
    BY <1>0, <2>3, <2>4 DEF SInv, CallsTypeOK, Limiters
  <2>6. Fetched' /\ SleepersHold' /\ WaitIsRest'
    <3>1. \A s \in Threads : step'[s] = "sleep" => step[s] = "sleep" /\ mine'[s] = mine[s]
      BY <1>0, <2>1 DEF SInv, CallsTypeOK
    <3>2. \A s \in Threads : step'[s] \in {"lock", "sleep"} => mine'[s] \in Limiters
      BY <1>0, <2>1 DEF SInv, CallsTypeOK, Fetched
    <3> QED
      BY <1>0, <2>3, <3>1, <3>2 DEF SInv, Limiters, Fetched, SleepersHold, WaitIsRest
  <2> QED
    BY <2>5, <2>6 DEF SInv
<1>2. CASE Registered(t) = {}
  <2> DEFINE m == Len(madeFor)
             room == IF Len(registry) >= MaxEntries THEN Tail(registry) ELSE registry
  <2>1. m \in Nat /\ Limiters = 1..m
    BY LimiterNumbers DEF SInv
  <2>2. /\ mine' = [mine EXCEPT ![t] = m + 1] /\ registry' = Append(room, m + 1)
        /\ madeFor' = Append(madeFor, KeyOf[t])
        /\ age' = Append(age, Interval) /\ holder' = Append(holder, Nobody)
    BY <1>2 DEF Make
  <2>3. /\ madeFor' \in Seq(LimiterKeys) /\ Len(madeFor') = m + 1
    <3>1. madeFor \in Seq(LimiterKeys) /\ KeyOf[t] \in LimiterKeys
      BY StateTypes, Callers
    <3> QED
      BY <2>2, <3>1
  <2>4. Limiters' = 1..(m + 1)
    BY <2>1, <2>3 DEF Limiters
  <2>5. room \in Seq(Nat) /\ \A n \in DOMAIN room : room[n] \in Limiters
    <3>1. registry \in Seq(Nat) /\ \A n \in 1..Len(registry) : registry[n] \in Limiters
      <4>1. registry \in Seq(Nat) /\ \A n \in DOMAIN registry : registry[n] \in Limiters
        BY StateTypes
      <4> QED
        BY <4>1
    <3>2. CASE Len(registry) >= MaxEntries
      <4>1. registry # <<>>
        BY <3>1, <3>2, Bounds
      <4>2. /\ Tail(registry) \in Seq(Nat) /\ Len(Tail(registry)) = Len(registry) - 1
            /\ \A i \in 1..Len(Tail(registry)) : Tail(registry)[i] = registry[i + 1]
        BY <3>1, <4>1, HeadTailProperties
      <4> QED
        BY <3>1, <3>2, <4>2
    <3>3. CASE ~(Len(registry) >= MaxEntries)
      BY <3>1, <3>3
    <3> QED
      BY <3>2, <3>3
  <2>6. registry' \in Seq(Nat) /\ \A n \in DOMAIN registry' : registry'[n] \in Limiters'
    <3> HIDE DEF room, m
    <3>1. /\ Append(room, m + 1) \in Seq(Nat) /\ Len(Append(room, m + 1)) = Len(room) + 1
          /\ Len(room) \in Nat /\ Append(room, m + 1)[Len(room) + 1] = m + 1
          /\ \A n \in 1..Len(room) : Append(room, m + 1)[n] = room[n]
      BY <2>1, <2>5
    <3>2. \A n \in 1..Len(room) : room[n] \in 1..(m + 1)
      BY <2>1, <2>5
    <3> QED
      BY <2>1, <2>2, <2>4, <3>1, <3>2
  <2>7. /\ age' \in [Limiters' -> 0..Interval] /\ \A l \in Limiters : age'[l] = age[l]
        /\ holder' \in [Limiters' -> Threads \cup {Nobody}]
        /\ \A l \in Limiters : holder'[l] = holder[l]
    <3> HIDE DEF m
    <3>1. /\ age \in [1..m -> 0..Interval] /\ holder \in [1..m -> Threads \cup {Nobody}]
          /\ Interval \in 0..Interval
      <4>1. /\ age \in [Limiters -> 0..Interval]
            /\ holder \in [Limiters -> Threads \cup {Nobody}] /\ Interval \in Nat
        BY StateTypes, Bounds
      <4> QED
        BY <2>1, <4>1
    <3>2. m \in Nat
      BY <2>1
    <3>3. \A S : \A f \in [1..m -> S] : \A e \in S : Append(f, e) \in [1..(m + 1) -> S]
      BY <3>2, Longer, Zenon
    <3>4. /\ age \in Seq(0..Interval) /\ Len(age) = m
          /\ holder \in Seq(Threads \cup {Nobody}) /\ Len(holder) = m
      BY <3>1, <3>2, SeqDef
    <3>5. Nobody \in Threads \cup {Nobody}
      OBVIOUS
    <3>6. /\ Append(age, Interval) \in [1..(m + 1) -> 0..Interval]
          /\ Append(holder, Nobody) \in [1..(m + 1) -> Threads \cup {Nobody}]
      BY <3>1, <3>3, <3>5, Zenon
    <3>7. \A i \in 1..m : Append(age, Interval)[i] = age[i] /\ Append(holder, Nobody)[i] = holder[i]
      BY <3>1, <3>2, <3>4, <3>5
    <3> QED
      BY <2>1, <2>2, <2>4, <3>6, <3>7
  <2>8. mine' \in [Threads -> 0..Len(madeFor')]
    <3>1. mine \in [Threads -> 0..m]
      BY StateTypes
    <3> HIDE DEF m
    <3> QED
      BY <2>1, <2>2, <2>3, <3>1
  <2>9. CallsTypeOK'
    BY <1>0, <2>3, <2>6, <2>7, <2>8 DEF SInv, CallsTypeOK
  <2>10. Fetched'
    <3> SUFFICES ASSUME NEW s \in Threads, step'[s] \in {"lock", "sleep"}
                 PROVE  mine'[s] \in Limiters'
      BY <2>6 DEF Fetched
    <3> HIDE DEF m
    <3>1. /\ mine \in [Threads -> 0..Len(madeFor)] /\ step \in [Threads -> Steps]
          /\ step[s] \in {"lock", "sleep"} => mine[s] \in Limiters
      BY StateTypes DEF SInv, Fetched
    <3>2. CASE s = t
      BY <2>1, <2>2, <2>4, <3>1, <3>2
    <3>3. CASE s # t
      BY <1>0, <2>1, <2>2, <2>4, <3>1, <3>3
    <3> QED
      BY <3>2, <3>3
  <2>11. \A s \in Threads : step'[s] = "sleep" =>
           step[s] = "sleep" /\ mine'[s] = mine[s] /\ mine[s] \in Limiters
    BY <1>0, <2>2 DEF SInv, CallsTypeOK, Fetched
  <2>12. SleepersHold' /\ WaitIsRest'
    BY <1>0, <2>7, <2>11 DEF SInv, SleepersHold, WaitIsRest
  <2> QED
    BY <2>9, <2>10, <2>12 DEF SInv
<1> QED
  BY <1>1, <1>2

(* A caller gets the lock of its limiter, which nobody held. *)
LEMMA LockStep == ASSUME SInv, NEW t \in Threads, Lock(t) PROVE SInv'
<1>1. /\ step[t] = "lock" /\ holder[mine[t]] = Nobody /\ mine[t] \in Limiters
      /\ step' = [step EXCEPT ![t] = "sleep"]
      /\ holder' = [holder EXCEPT ![mine[t]] = t]
      /\ wait' = [wait EXCEPT ![t] = Interval - age[mine[t]]]
      /\ UNCHANGED <<kind, tries, mine, registry, madeFor, age>>
  BY DEF Lock, Free, SInv, Fetched
<1>2. Interval - age[mine[t]] \in 0..Interval
  <2>1. age \in [Limiters -> 0..Interval] /\ Interval \in Nat
    BY StateTypes, Bounds
  <2> QED
    BY <1>1, <2>1
<1>3. CallsTypeOK' /\ Fetched'
  BY <1>1, <1>2 DEF SInv, CallsTypeOK, Limiters, Fetched, Steps
<1>4. SleepersHold'
  <2> SUFFICES ASSUME NEW s \in Threads, step'[s] = "sleep"
               PROVE  holder'[mine[s]] = s
    BY <1>1 DEF SleepersHold
  <2>1. CASE s = t
    BY <1>1, <2>1, StateTypes
  <2>2. CASE s # t
    <3>1. step[s] = "sleep" /\ holder[mine[s]] = s
      BY <1>1, <2>2, StateTypes DEF SInv, SleepersHold
    <3>2. mine[s] # mine[t]
      BY <1>1, <3>1, Bounds
    <3> QED
      BY <1>1, <3>1, <3>2
  <2> QED
    BY <2>1, <2>2
<1>5. WaitIsRest'
  BY <1>1 DEF SInv, CallsTypeOK, WaitIsRest
<1> QED
  BY <1>3, <1>4, <1>5 DEF SInv

(* A request passes: no other caller sleeps at the limiter. *)
LEMMA PassStep == ASSUME SInv, NEW t \in Threads, Pass(t) PROVE SInv'
<1>1. /\ step[t] = "sleep" /\ holder[mine[t]] = t /\ mine[t] \in Limiters
      /\ step' = [step EXCEPT ![t] = "request"]
      /\ age' = [age EXCEPT ![mine[t]] = 0]
      /\ holder' = [holder EXCEPT ![mine[t]] = Nobody]
      /\ UNCHANGED <<kind, tries, mine, registry, madeFor, wait>>
  BY DEF Pass, SInv, Fetched, SleepersHold
<1>2. CallsTypeOK' /\ Fetched'
  <2>1. step' \in [Threads -> Steps]
    BY <1>1, StateTypes DEF Steps
  <2>2. age' \in [Limiters -> 0..Interval]
    <3>1. age \in [Limiters -> 0..Interval] /\ Interval \in Nat
      BY StateTypes, Bounds
    <3> QED
      BY <1>1, <3>1
  <2>3. holder' \in [Limiters -> Threads \cup {Nobody}]
    BY <1>1, StateTypes
  <2> QED
    BY <1>1, <2>1, <2>2, <2>3 DEF SInv, CallsTypeOK, Limiters, Fetched
<1>3. \A s \in Threads : step'[s] = "sleep" =>
        step[s] = "sleep" /\ mine[s] \in Limiters /\ mine[s] # mine[t]
  BY <1>1 DEF SInv, CallsTypeOK, Fetched, SleepersHold
<1>4. SleepersHold' /\ WaitIsRest'
  BY <1>1, <1>3 DEF SInv, CallsTypeOK, SleepersHold, WaitIsRest
<1> QED
  BY <1>2, <1>4 DEF SInv

(* Time passes for the limiters and for the callers that sleep. *)
LEMMA TickStep == ASSUME SInv, CallTick PROVE SInv'
<1>1. /\ age' = [l \in Limiters |-> IF age[l] < Interval THEN age[l] + 1 ELSE Interval]
      /\ wait' = [t \in Threads |-> IF wait[t] > 0 THEN wait[t] - 1 ELSE 0]
      /\ UNCHANGED <<kind, step, tries, mine, registry, madeFor, holder>>
  BY DEF CallTick
<1>2. Interval \in Nat /\ age \in [Limiters -> 0..Interval] /\ wait \in [Threads -> 0..Interval]
  BY StateTypes, Bounds
<1>3. age' \in [Limiters -> 0..Interval] /\ wait' \in [Threads -> 0..Interval]
  BY <1>1, <1>2
<1>4. CallsTypeOK' /\ Fetched' /\ SleepersHold'
  BY <1>1, <1>3 DEF SInv, CallsTypeOK, Limiters, Fetched, SleepersHold
<1>5. WaitIsRest'
  <2> SUFFICES ASSUME NEW t \in Threads, step[t] = "sleep"
               PROVE  wait'[t] = Interval - age'[mine[t]]
    BY <1>1 DEF WaitIsRest
  <2>1. mine[t] \in Limiters /\ wait[t] = Interval - age[mine[t]]
    BY DEF SInv, Fetched, WaitIsRest
  <2> QED
    BY <1>1, <1>2, <2>1
<1> QED
  BY <1>4, <1>5 DEF SInv

LEMMA NextSpaced == SInv /\ [CallsNext]_callVars => SInv'
<1> SUFFICES ASSUME SInv, [CallsNext]_callVars PROVE SInv'
  OBVIOUS
<1>1. CASE CallTick
  BY <1>1, TickStep
<1>2. CASE \E t \in Threads : CallStep(t)
  BY <1>2, OtherSteps, FetchStep, MakeStep, LockStep, PassStep DEF CallStep
<1>3. CASE UNCHANGED callVars
  BY <1>3 DEF callVars, SInv, CallsTypeOK, Limiters, Fetched, SleepersHold, WaitIsRest
<1> QED
  BY <1>1, <1>2, <1>3 DEF CallsNext

LEMMA SpacedAlways == CallsSpec => []SInv
BY InitSpaced, NextSpaced, PTL DEF CallsSpec

-----------------------------------------------------------------------------
(* The state keeps its types: limiters are made one by one and never       *)
(* replaced, whichever of their entries the registry gives up.             *)
THEOREM CallTypes == CallsSpec => []CallsTypeOK
BY SpacedAlways, PTL DEF SInv

(* However many callers share a limiter, a request goes out only when the  *)
(* last one is an interval old.                                            *)
THEOREM SpacesRequests == CallsSpec => []RequestsSpaced
<1>1. SInv => RequestsSpaced
  <2> SUFFICES ASSUME SInv, NEW t \in Threads, step[t] = "sleep", wait[t] = 0
               PROVE  age[mine[t]] = Interval
    BY DEF RequestsSpaced
  <2>1. 0 = Interval - age[mine[t]] /\ mine[t] \in Limiters
    BY DEF SInv, Fetched, WaitIsRest
  <2> QED
    <3>1. age \in [Limiters -> 0..Interval] /\ Interval \in Nat
      BY StateTypes, Bounds
    <3> QED
      BY <2>1, <3>1
<1> QED
  BY <1>1, SpacedAlways, PTL

-----------------------------------------------------------------------------
(***************************************************************************)
(* The blocks of a translation.  Every fallback that is counted has a      *)
(* chunk of its own with a failed block, the file is the text of what has  *)
(* not failed, and no chunk the model was asked for holds an original.     *)
(***************************************************************************)
Causes == {ch \in DocChunk : failed \cap Of(ch) # {}}

ResultTypes ==
  /\ reached \in Nat /\ fallback \in Nat
  /\ byModel \subseteq 1..reached
  /\ text \in [Block -> Texts] /\ failed \subseteq Block
  /\ \A blk \in failed : blk[1] <= reached

ResultInv ==
  /\ ResultTypes
  /\ fallback <= Cardinality(Causes)
  /\ task \in {"done", "warned"} => reached = Len(Sizes)
  /\ task = "running" => file = NoFile
  /\ FileShowsBlocks /\ MemoryHasNoOriginals
  /\ \A ch \in byModel : \A blk \in Todo(ch) : text[blk] # "orig"

LEMMA BlockFacts ==
  /\ DocChunk = 1..Len(Sizes) /\ Len(Sizes) \in Nat /\ IsFiniteSet(DocChunk)
  /\ \A blk \in Block : blk[1] \in DocChunk
  /\ \A ch \in DocChunk : Of(ch) # {}
<1>1. Sizes \in Seq(1..4) /\ DocChunk = 1..Len(Sizes) /\ Len(Sizes) \in Nat
  BY ResultsAssumption DEF DocChunk
<1>2. IsFiniteSet(DocChunk)
  BY <1>1, FS_Interval
<1>3. ASSUME NEW blk \in Block PROVE blk[1] \in DocChunk
  BY DEF Block
<1>4. ASSUME NEW ch \in DocChunk PROVE Of(ch) # {}
  <2>1. Sizes[ch] \in 1..4
    BY <1>1
  <2>2. <<ch, 1>> \in {ch} \X (1..Sizes[ch])
    BY <2>1
  <2>3. <<ch, 1>> \in UNION {{cc} \X (1..Sizes[cc]) : cc \in DocChunk}
    BY <2>2
  <2>4. <<ch, 1>> \in {<<cc, i>> : cc \in DocChunk, i \in 1..4}
    OBVIOUS
  <2>5. <<ch, 1>> \in Block
    BY <2>3, <2>4 DEF Block
  <2> QED
    BY <2>5 DEF Of
<1> QED
  BY <1>1, <1>2, <1>3, <1>4

(* A chunk with a failed block more, or one fewer.                         *)
LEMMA CauseCounts ==
  /\ IsFiniteSet(Causes) /\ Cardinality(Causes) \in Nat
  /\ Causes \subseteq Causes' => Cardinality(Causes)' \in Nat /\ Cardinality(Causes) <= Cardinality(Causes)'
  /\ \A ch : Causes \cup {ch} \subseteq Causes' /\ ch \notin Causes => Cardinality(Causes) + 1 <= Cardinality(Causes)'
  /\ \A ch : Causes \ {ch} \subseteq Causes' =>
               Cardinality(Causes)' \in Nat /\ Cardinality(Causes) - 1 <= Cardinality(Causes)'
<1>1. IsFiniteSet(Causes) /\ IsFiniteSet(Causes')
  BY BlockFacts, FS_Subset DEF Causes
<1>2. Cardinality(Causes) \in Nat /\ Cardinality(Causes') \in Nat
  BY <1>1, FS_CardinalityType
<1>3. Causes \subseteq Causes' => Cardinality(Causes) <= Cardinality(Causes')
  BY <1>1, FS_Subset
<1>4. ASSUME NEW ch, Causes \cup {ch} \subseteq Causes', ch \notin Causes
      PROVE  Cardinality(Causes) + 1 <= Cardinality(Causes')
  <2>1. Cardinality(Causes \cup {ch}) = Cardinality(Causes) + 1
    BY <1>1, <1>4, FS_AddElement
  <2>2. Cardinality(Causes \cup {ch}) <= Cardinality(Causes')
    BY <1>1, <1>4, FS_Subset
  <2> QED
    BY <2>1, <2>2
<1>5. ASSUME NEW ch, Causes \ {ch} \subseteq Causes'
      PROVE  Cardinality(Causes) - 1 <= Cardinality(Causes')
  <2>1. /\ IsFiniteSet(Causes \ {ch})
        /\ Cardinality(Causes \ {ch}) = IF ch \in Causes THEN Cardinality(Causes) - 1 ELSE Cardinality(Causes)
    BY <1>1, FS_RemoveElement
  <2>2. Cardinality(Causes \ {ch}) <= Cardinality(Causes')
    BY <1>1, <1>5, FS_Subset
  <2> QED
    BY <1>2, <2>1, <2>2
<1> QED
  BY <1>1, <1>2, <1>3, <1>4, <1>5

(* What is aligned with blocks that are to be translated is no original.   *)
LEMMA AlignedTexts ==
  ASSUME NEW ch, NEW p, NEW inPlace, NEW t \in Aligned(ch, p, inPlace)
  PROVE  t \in [Of(ch) -> Texts] /\ \A blk \in Todo(ch) : t[blk] # "orig"
BY DEF Aligned, Todo, Texts

(* A chunk is dealt with: its texts t, the blocks of bad failed.           *)
LEMMA GetsStep ==
  ASSUME ResultInv, NEW ch \in DocChunk, ch = reached + 1, NEW t, NEW bad \in SUBSET Of(ch), Gets(ch, t, bad),
         \A blk \in Of(ch) : t[blk] \in Texts,
         byModel' = byModel \/ (byModel' = byModel \cup {ch} /\ \A blk \in Todo(ch) : t[blk] # "orig"),
         fallback' = fallback \/ (fallback' = fallback + 1 /\ bad # {}),
         task = "running", UNCHANGED <<memory, task, file>>
  PROVE  ResultInv'
<1>1. /\ text' = [blk \in Block |-> IF blk \in Of(ch) THEN t[blk] ELSE text[blk]]
      /\ failed' = failed \cup bad /\ reached' = ch /\ reached \in Nat
      /\ ResultTypes /\ Of(ch) \subseteq Block /\ \A blk \in Of(ch) : blk[1] = ch
  BY DEF Gets, ResultInv, ResultTypes, Of
<1>2. text' \in [Block -> Texts]
  BY <1>1 DEF ResultTypes
<1>3. ResultTypes'
  <2>1. reached \in Nat /\ reached' = reached + 1 /\ reached' \in Nat /\ fallback \in Nat /\ fallback' \in Nat
    BY <1>1 DEF ResultTypes
  <2>2. byModel' \subseteq 1..reached'
    <3>1. 1..reached \subseteq 1..reached' /\ ch \in 1..reached' /\ byModel \subseteq 1..reached
      BY <1>1, <2>1 DEF ResultTypes
    <3>2. byModel' \subseteq byModel \cup {ch}
      OBVIOUS
    <3> QED
      BY <3>1, <3>2
  <2>3. failed' \subseteq Block /\ \A blk \in failed' : blk[1] <= reached'
    <3>1. \A blk \in failed : blk[1] \in Nat /\ blk[1] <= reached
      BY <1>1, BlockFacts DEF ResultTypes
    <3> QED
      BY <1>1, <2>1, <3>1 DEF ResultTypes
  <2> QED
    BY <1>2, <2>1, <2>2, <2>3 DEF ResultTypes
<1>4. Causes \subseteq Causes' /\ ch \notin Causes /\ (bad # {} => ch \in Causes')
  <2>1. \A blk \in failed : blk[1] # ch
    BY <1>1 DEF ResultTypes
  <2> QED
    BY <1>1, <2>1 DEF Causes, Of
<1>5. fallback' <= Cardinality(Causes)'
  BY <1>1, <1>4, CauseCounts DEF ResultInv, ResultTypes
<1>6. \A d \in byModel' : \A blk \in Todo(d) : text'[blk] # "orig"
  <2> SUFFICES ASSUME NEW d \in byModel', NEW blk \in Todo(d) PROVE text'[blk] # "orig"
    OBVIOUS
  <2>1. blk \in Block /\ blk[1] = d
    BY DEF Todo, Of
  <2>2. CASE d = ch
    <3>1. ch \notin byModel
      BY <1>1 DEF ResultTypes
    <3> QED
      BY <1>1, <2>1, <2>2, <3>1 DEF Todo
  <2>3. CASE d # ch
    BY <1>1, <2>1, <2>3 DEF ResultInv
  <2> QED
    BY <2>2, <2>3
<1>7. FileShowsBlocks' /\ MemoryHasNoOriginals'
  BY DEF ResultInv, FileShowsBlocks, MemoryHasNoOriginals
<1> QED
  BY <1>3, <1>5, <1>6, <1>7 DEF ResultInv

LEMMA DealStep == ASSUME ResultInv, NEW ch \in DocChunk, DealWith(ch) PROVE ResultInv'
<1>1. /\ ch = reached + 1 /\ task = "running" /\ UNCHANGED <<memory, task, file>>
      /\ Todo(ch) \subseteq Of(ch) /\ {} \in SUBSET Of(ch) /\ Of(ch) # {}
  BY BlockFacts DEF DealWith, Todo
<1>2. CASE Hit(ch)
  <2>1. PICK t \in Aligned(ch, Paragraphs(ch), InPlace(ch)) : Gets(ch, t, {})
    BY <1>2 DEF Hit
  <2>2. byModel' = byModel /\ fallback' = fallback /\ \A blk \in Of(ch) : t[blk] \in Texts
    BY <1>2, AlignedTexts DEF Hit
  <2> QED
    BY <1>1, <2>1, <2>2, GetsStep
<1>3. CASE FuzzyHit(ch)
  <2>1. PICK d \in DocChunk : \E t \in Aligned(ch, Paragraphs(d), FALSE) :
            Gets(ch, [blk \in Of(ch) |-> IF t[blk] = "own" THEN "other" ELSE t[blk]], {})
    BY <1>3 DEF FuzzyHit
  <2>2. PICK t \in Aligned(ch, Paragraphs(d), FALSE) :
            Gets(ch, [blk \in Of(ch) |-> IF t[blk] = "own" THEN "other" ELSE t[blk]], {})
    BY <2>1
  <2> DEFINE given == [blk \in Of(ch) |-> IF t[blk] = "own" THEN "other" ELSE t[blk]]
  <2>3. byModel' = byModel /\ fallback' = fallback /\ \A blk \in Of(ch) : given[blk] \in Texts
    BY <1>3, AlignedTexts DEF FuzzyHit, Texts
  <2>4. Gets(ch, given, {})
    BY <2>2
  <2> HIDE DEF given
  <2> QED
    BY <1>1, <2>3, <2>4, GetsStep
<1>4. ASSUME NEW t, NEW same \in SUBSET Todo(ch), MarkFailed(ch, t, same),
             \A blk \in Of(ch) : t[blk] \in Texts,
             \A blk \in Todo(ch) : t[blk] # "orig",
             byModel' = byModel \cup {ch},
             fallback' = fallback \/ (fallback' = fallback + 1 /\ same # {})
      PROVE  ResultInv'
  <2> DEFINE bad == same \cup {blk \in Todo(ch) : t[blk] = "none"}
             given == [blk \in Of(ch) |-> IF blk \in bad THEN "none" ELSE t[blk]]
  <2>1. Gets(ch, given, bad)
    BY <1>4 DEF MarkFailed
  <2>2. bad \in SUBSET Of(ch) /\ (same # {} => bad # {})
    BY <1>1
  <2>3. \A blk \in Of(ch) : given[blk] \in Texts
    BY <1>4 DEF Texts
  <2>4. \A blk \in Todo(ch) : given[blk] # "orig"
    BY <1>1, <1>4
  <2> HIDE DEF bad, given
  <2> QED
    BY <1>1, <1>4, <2>1, <2>2, <2>3, <2>4, GetsStep
<1>5. CASE Answered(ch)
  <2>1. PICK p \in 0..(Sizes[ch] + 1) : \E t \in Aligned(ch, p, TRUE), same \in SUBSET Todo(ch) :
            /\ MarkFailed(ch, t, same)
            /\ fallback' = IF same = Todo(ch) THEN fallback + 1 ELSE fallback
    BY <1>5 DEF Answered
  <2>2. PICK t \in Aligned(ch, p, TRUE), same \in SUBSET Todo(ch) :
            /\ MarkFailed(ch, t, same)
            /\ fallback' = IF same = Todo(ch) THEN fallback + 1 ELSE fallback
    BY <2>1
  <2>3. /\ byModel' = byModel \cup {ch} /\ Todo(ch) # {}
        /\ \A blk \in Of(ch) : t[blk] \in Texts
        /\ \A blk \in Todo(ch) : t[blk] # "orig"
    BY <1>5, AlignedTexts DEF Answered, Asked
  <2> QED
    BY <1>4, <2>2, <2>3
<1>6. CASE OneByOne(ch)
  <2> DEFINE t == [blk \in Of(ch) |-> IF blk \in Plain THEN "orig" ELSE "own"]
  <2>1. PICK same \in SUBSET Todo(ch) :
           MarkFailed(ch, t, same) /\ fallback' = IF same # {} THEN fallback + 1 ELSE fallback
    BY <1>6 DEF OneByOne
  <2>2. byModel' = byModel \cup {ch} /\ \A blk \in Of(ch) : t[blk] \in Texts
    BY <1>6 DEF OneByOne, Asked, Texts
  <2>3. \A blk \in Todo(ch) : t[blk] # "orig"
    BY DEF Todo
  <2> HIDE DEF t
  <2> QED
    BY <1>4, <2>1, <2>2, <2>3
<1>7. CASE ChunkFails(ch)
  <2>1. /\ Gets(ch, Blank, Of(ch)) /\ fallback' = fallback + 1 /\ byModel' = byModel \cup {ch}
        /\ \A blk \in Of(ch) : Blank[blk] = "none"
    BY <1>7 DEF ChunkFails, Asked, Blank, Of
  <2> QED
    BY <1>1, <2>1, GetsStep DEF Texts
<1>8. CASE NothingToDo(ch)
  <2> DEFINE t == [blk \in Of(ch) |-> "orig"]
  <2>1. /\ Gets(ch, t, {}) /\ fallback' = fallback
        /\ byModel' = byModel \/ (byModel' = byModel \cup {ch} /\ Todo(ch) = {})
        /\ \A blk \in Of(ch) : t[blk] \in Texts
    BY <1>8 DEF NothingToDo, Texts
  <2> HIDE DEF t
  <2> QED
    BY <1>1, <2>1, GetsStep
<1> QED
  BY <1>2, <1>3, <1>5, <1>6, <1>7, <1>8 DEF DealWith

(* A block is retried: it has failed, or its text is written to the file.  *)
LEMMA RetryOfBlock ==
  ASSUME ResultInv, NEW blk \in Block, RetryRejected(blk) \/ RetrySucceeds(blk) \/ RetryRaises(blk)
  PROVE  ResultInv'
<1>1. /\ task \in {"done", "warned"} /\ reached = Len(Sizes) /\ ResultTypes
      /\ UNCHANGED <<memory, reached, byModel>> /\ task' \in {"done", "warned"}
      /\ blk[1] \in DocChunk /\ blk[1] <= reached
  <2>1. /\ task \in {"done", "warned"} /\ UNCHANGED <<memory, reached, byModel>>
    BY DEF Retrying, RetryRejected, RetrySucceeds, RetryRaises
  <2>2. task' \in {"done", "warned"}
    BY <2>1 DEF RetryRejected, RetrySucceeds, RetryRaises
  <2>3. blk[1] \in 1..Len(Sizes) /\ blk[1] \in DocChunk
    BY BlockFacts
  <2> QED
    BY <2>1, <2>2, <2>3 DEF ResultInv
<1>2. PICK t : t \in {"none", "own", text[blk]} /\ text' = [text EXCEPT ![blk] = t]
  <2>1. CASE RetryRejected(blk)
    BY <2>1 DEF RetryRejected
  <2>2. CASE RetrySucceeds(blk)
    BY <2>2 DEF RetrySucceeds
  <2>3. CASE RetryRaises(blk)
    BY <2>3 DEF RetryRaises
  <2> QED
    BY <2>1, <2>2, <2>3
<1>3. text' \in [Block -> Texts] /\ \A other \in Block \ {blk} : text'[other] = text[other]
  BY <1>1, <1>2 DEF ResultTypes, Texts
<1>4. text'[blk] = text[blk] \/ text'[blk] # "orig"
  BY <1>1, <1>2 DEF ResultTypes
<1>5. /\ failed' \in {failed \cup {blk}, failed \ {blk}} /\ failed' \subseteq Block
      /\ \A other \in failed' : other[1] <= reached'
  BY <1>1 DEF RetryRejected, RetrySucceeds, RetryRaises, ResultTypes
<1>6. fallback' \in Nat /\ fallback' <= Cardinality(Causes)'
  <2>1. CASE RetryRejected(blk) \/ RetryRaises(blk)
    <3>1. Causes \subseteq Causes' /\ fallback' = fallback
      BY <2>1 DEF RetryRejected, RetryRaises, Causes
    <3> QED
      BY <1>1, <3>1, CauseCounts DEF ResultInv, ResultTypes
  <2>2. CASE RetrySucceeds(blk)
    <3>1. failed' = failed \ {blk} /\ fallback' = CountAfter(blk)
      BY <2>2 DEF RetrySucceeds
    <3>2. Causes \ {blk[1]} \subseteq Causes'
      BY <3>1 DEF Causes, Of
    <3>3. CASE blk \in failed /\ failed' \cap Of(blk[1]) = {}
      <4>1. /\ Cardinality(Causes) \in Nat /\ Cardinality(Causes)' \in Nat
            /\ Cardinality(Causes) - 1 <= Cardinality(Causes)'
        BY <3>2, CauseCounts
      <4>2. fallback' = IF fallback > 0 THEN fallback - 1 ELSE fallback
        BY <3>1, <3>3 DEF CountAfter
      <4>3. fallback \in Nat /\ fallback <= Cardinality(Causes)
        BY DEF ResultInv, ResultTypes
      <4> QED
        BY <4>1, <4>2, <4>3
    <3>4. CASE ~(blk \in failed /\ failed' \cap Of(blk[1]) = {})
      <4>1. Causes \subseteq Causes'
        BY <3>1, <3>2, <3>4 DEF Causes
      <4> QED
        BY <1>1, <3>1, <3>4, <4>1, CauseCounts DEF CountAfter, ResultInv, ResultTypes
    <3> QED
      BY <3>3, <3>4
  <2> QED
    BY <2>1, <2>2
<1>7. FileShowsBlocks'
  <2>1. CASE RetrySucceeds(blk)
    BY <2>1 DEF RetrySucceeds, Rewrite, FileShowsBlocks
  <2>2. CASE RetryRejected(blk) \/ RetryRaises(blk)
    BY <1>3, <2>2 DEF RetryRejected, RetryRaises, FileShowsBlocks, ResultInv
  <2> QED
    BY <2>1, <2>2
<1>8. \A ch \in byModel' : \A other \in Todo(ch) : text'[other] # "orig"
  <2> SUFFICES ASSUME NEW ch \in byModel, NEW other \in Todo(ch) PROVE text'[other] # "orig"
    BY <1>1
  <2>1. other \in Block /\ text[other] # "orig"
    BY DEF ResultInv, Todo, Of
  <2> QED
    BY <1>3, <1>4, <2>1
<1> QED
  BY <1>1, <1>3, <1>5, <1>6, <1>7, <1>8 DEF ResultInv, ResultTypes, MemoryHasNoOriginals

LEMMA ConcludeStep == ASSUME ResultInv, Conclude PROVE ResultInv'
<1>1. /\ reached = Len(Sizes) /\ file' = text /\ task' \in {"warned", "done"}
      /\ UNCHANGED <<reached, byModel, text, failed, fallback>>
  BY DEF Conclude
<1>2. MemoryHasNoOriginals'
  <2> SUFFICES ASSUME NEW ch \in DocChunk, memory'[ch] # NoEntry, NEW blk \in Todo(ch)
               PROVE  memory'[ch][blk] # "orig"
    BY DEF MemoryHasNoOriginals
  <2>1. memory'[ch] = IF ch \in byModel /\ ~JoinedEmpty(ch) THEN [other \in Of(ch) |-> text[other]] ELSE memory[ch]
    BY DEF Conclude, Store
  <2>2. blk \in Of(ch)
    BY DEF Todo
  <2> QED
    BY <2>1, <2>2 DEF ResultInv, MemoryHasNoOriginals
<1>3. FileShowsBlocks' /\ Causes' = Causes
  BY <1>1 DEF FileShowsBlocks, Causes
<1> QED
  BY <1>1, <1>2, <1>3 DEF ResultInv, ResultTypes

LEMMA ResultStep == ResultInv /\ [ResNext]_resVars => ResultInv'
<1> SUFFICES ASSUME ResultInv, [ResNext]_resVars PROVE ResultInv'
  OBVIOUS
<1>1. CASE BeginRun
  <2>1. /\ reached' = 0 /\ byModel' = {} /\ text' = Blank /\ failed' = {} /\ fallback' = 0
        /\ file' = NoFile /\ task' = "running" /\ UNCHANGED memory
    BY <1>1 DEF BeginRun
  <2>2. Cardinality(Causes)' = 0
    BY <2>1, FS_EmptySet DEF Causes
  <2> QED
    BY <2>1, <2>2 DEF ResultInv, ResultTypes, Blank, Texts, FileShowsBlocks, MemoryHasNoOriginals
<1>2. CASE Conclude
  BY <1>2, ConcludeStep
<1>3. CASE CutOff
  BY <1>3 DEF CutOff, ResultInv, ResultTypes, Causes, FileShowsBlocks, MemoryHasNoOriginals
<1>4. ASSUME NEW ch \in DocChunk, DealWith(ch) PROVE ResultInv'
  BY <1>4, DealStep
<1>5. ASSUME NEW blk \in Block, RetryRejected(blk) \/ RetrySucceeds(blk) \/ RetryRaises(blk) PROVE ResultInv'
  BY <1>5, RetryOfBlock
<1>6. CASE UNCHANGED resVars
  BY <1>6 DEF resVars, ResultInv, ResultTypes, Causes, FileShowsBlocks, MemoryHasNoOriginals
<1> QED
  BY <1>1, <1>2, <1>3, <1>4, <1>5, <1>6 DEF ResNext

LEMMA ResultBegins == ResInit => ResultInv
<1> SUFFICES ASSUME ResInit PROVE ResultInv
  OBVIOUS
<1>1. Cardinality(Causes) = 0
  BY FS_EmptySet DEF Causes, ResInit
<1> QED
  BY <1>1 DEF ResInit, ResultInv, ResultTypes, Blank, Texts, FileShowsBlocks, MemoryHasNoOriginals, NoFile, NoEntry

LEMMA ResultsAgree == ResultInv => WarningHasCause /\ FileShowsBlocks /\ MemoryHasNoOriginals
BY DEF ResultInv, WarningHasCause, Causes

-----------------------------------------------------------------------------
(***************************************************************************)
(* The RAG store: the API's jobs change a document one at a time, and only *)
(* the last of them may call it intact (OneInside, Underway); how far it   *)
(* is says what the collection and the index have of the document          *)
(* (Halfway), which a crash leaves to a job that never calls it intact.    *)
(***************************************************************************)
JobEntry == [kind : Kinds, doc : DocId,
             at : Inside \cup {"waiting", "ready", "answered", "failed"}]

NoText    == [i \in Index |-> Absent]
TextOf(j) == [i \in Index |-> IF i < Length[j] THEN j ELSE Absent]

RagTypes ==
  /\ collection \in [DocId -> [Index -> Jobs \cup {Absent}]]
  /\ index \in [Documents -> Jobs \cup {Absent}] /\ saved \in [Documents -> Jobs \cup {Absent}]
  /\ job \in [Jobs -> JobEntry \cup {Idle}]
  /\ intact \subseteq Documents

OwnDocuments == \A j \in Jobs : /\ job[j].kind = "translation" =>
                                     /\ job[j].doc \in Translations
                                     /\ job[j].at \notin {"index", "save"}
                                /\ job[j].kind \in {"ingest", "remove"} => job[j].doc \in Documents

OneInside == \A j, k \in ApiLock : j = k

Underway == \A j \in ApiLock : job[j].doc \notin intact

WholeTexts == \A d \in Documents : collection[d] = NoText \/ \E j \in Jobs : collection[d] = TextOf(j)

ToHave(j) == IF job[j].kind = "remove" THEN NoText ELSE TextOf(j)
ToList(j) == IF job[j].kind = "remove" THEN Absent ELSE j

Halfway ==
  \A j \in ApiLock :
    /\ job[j].at = "upsert" => job[j].kind = "ingest" /\ collection[job[j].doc] = NoText
    /\ job[j].at \in {"index", "save"} => collection[job[j].doc] = ToHave(j)
    /\ job[j].at = "save" => index[job[j].doc] = ToList(j)

IntactAgrees ==
  \A d \in intact : /\ saved[d] = index[d]
                    /\ collection[d] = IF index[d] = Absent THEN NoText ELSE TextOf(index[d])

RagInv == RagTypes /\ OwnDocuments /\ OneInside /\ Underway /\ WholeTexts /\ Halfway /\ IntactAgrees

USE DEF Kinds, Inside

LEMMA RagFacts ==
  /\ Documents \cap Translations = {} /\ Absent \notin Jobs
  /\ \A j \in Jobs : Length[j] \in 1..3
  /\ Documents \subseteq DocId /\ Translations \subseteq DocId
BY RagAssumption DEF DocId

(* A request that arrives, or moves on without changing a document.        *)
LEMMA RequestStep == ASSUME RagInv, NEW j \in Jobs, Request(j) PROVE RagInv'
<1>1. PICK k \in Kinds, d \in DocId :
        /\ (k = "translation") <=> (d \in Translations)
        /\ job' = [job EXCEPT ![j] = [kind |-> k, doc |-> d, at |-> "waiting"]]
  BY DEF Request
<1>2. UNCHANGED <<collection, index, saved, intact>>
  BY DEF Request
<1>3. [kind |-> k, doc |-> d, at |-> "waiting"] \in JobEntry
  BY DEF JobEntry
<1>4. RagTypes'
  BY <1>1, <1>2, <1>3 DEF RagInv, RagTypes
<1>5. OwnDocuments'
  BY <1>1 DEF RagInv, RagTypes, OwnDocuments, DocId
<1>6. ApiLock' = ApiLock /\ \A i \in ApiLock : job'[i] = job[i]
  BY <1>1 DEF ApiLock, RagInv, RagTypes, Request, Idle
<1> QED
  BY <1>2, <1>4, <1>5, <1>6
  DEF RagInv, OneInside, Underway, WholeTexts, Halfway, IntactAgrees, ToHave, ToList

(* A job moves to a place; what that says of it.                           *)
LEMMA MovesTypes ==
  ASSUME RagInv, NEW j \in Jobs, job[j] # Idle,
         NEW place \in Inside \cup {"ready", "answered", "failed"}, Moves(j, place),
         job[j].kind = "translation" => place \notin {"index", "save"}
  PROVE  /\ job' \in [Jobs -> JobEntry \cup {Idle}] /\ OwnDocuments'
         /\ job'[j].at = place /\ job'[j].kind = job[j].kind /\ job'[j].doc = job[j].doc
         /\ \A i \in Jobs \ {j} : job'[i] = job[i]
         /\ job[j].doc \in DocId /\ job[j].kind \in Kinds
<1>1. job \in [Jobs -> JobEntry \cup {Idle}] /\ job[j] \in JobEntry
  BY DEF RagInv, RagTypes
<1>2. job' = [job EXCEPT ![j] = [job[j] EXCEPT !.at = place]]
  BY <1>1 DEF Moves
<1>3. [job[j] EXCEPT !.at = place] \in JobEntry
  BY <1>1 DEF JobEntry
<1>4. job' \in [Jobs -> JobEntry \cup {Idle}]
  BY <1>1, <1>2, <1>3
<1>5. /\ job'[j].at = place /\ job'[j].kind = job[j].kind /\ job'[j].doc = job[j].doc
      /\ \A i \in Jobs \ {j} : job'[i] = job[i]
      /\ job[j].doc \in DocId /\ job[j].kind \in Kinds
  BY <1>1, <1>2 DEF JobEntry
<1>6. OwnDocuments'
  BY <1>5 DEF OwnDocuments, RagInv
<1> QED
  BY <1>4, <1>5, <1>6

LEMMA NotIdle == \A j \in Jobs : job[j].at # "new" => job[j] # Idle
BY DEF Idle

LEMMA EntersStep == ASSUME RagInv, NEW j \in Jobs, Enters(j) PROVE RagInv'
<1>1. /\ job[j].at = "waiting" /\ Permitted(j) /\ Moves(j, "delete")
      /\ intact' = intact \ {job[j].doc} /\ UNCHANGED <<collection, index, saved>>
  BY DEF Enters
<1>2. /\ job' \in [Jobs -> JobEntry \cup {Idle}] /\ OwnDocuments'
      /\ job'[j].at = "delete" /\ job'[j].kind = job[j].kind /\ job'[j].doc = job[j].doc
      /\ \A i \in Jobs \ {j} : job'[i] = job[i]
      /\ job[j].doc \in DocId /\ job[j].kind \in Kinds
  BY <1>1, MovesTypes, NotIdle
<1>3. RagTypes'
  BY <1>1, <1>2 DEF RagInv, RagTypes
<1>4. \A i \in ApiLock' : \/ i = j /\ ApiLock = {} /\ job[j].kind # "translation"
                          \/ i # j /\ i \in ApiLock
  BY <1>1, <1>2 DEF ApiLock, Permitted
<1>5. OneInside'
  BY <1>4 DEF RagInv, OneInside
<1>6. Underway'
  BY <1>1, <1>2, <1>4 DEF RagInv, Underway, ApiLock
<1>7. Halfway'
  BY <1>1, <1>2, <1>4 DEF RagInv, Halfway, ApiLock, ToHave, ToList
<1>8. WholeTexts' /\ IntactAgrees'
  BY <1>1 DEF RagInv, WholeTexts, IntactAgrees
<1> QED
  BY <1>2, <1>3, <1>5, <1>6, <1>7, <1>8 DEF RagInv

(* A job inside that moves on holds the lock alone, if it is of the API.   *)
LEMMA InsideMoves ==
  ASSUME RagInv, NEW j \in Jobs, job[j].at \in Inside,
         NEW place \in Inside \cup {"ready", "answered", "failed"}, Moves(j, place),
         job[j].kind = "translation" => place \notin {"index", "save"}
  PROVE  /\ \A i \in ApiLock' : i \in ApiLock
         /\ job[j].kind # "translation" => j \in ApiLock /\ \A i \in ApiLock' : i = j
         /\ OneInside'
<1>1. /\ job'[j].at = place /\ job'[j].kind = job[j].kind /\ job[j].kind \in Kinds
      /\ \A i \in Jobs \ {j} : job'[i] = job[i]
  BY MovesTypes, NotIdle
<1>2. \A i \in ApiLock' : i \in ApiLock
  BY <1>1 DEF ApiLock
<1>3. job[j].kind # "translation" => j \in ApiLock
  BY <1>1 DEF ApiLock
<1> QED
  BY <1>2, <1>3 DEF RagInv, OneInside

LEMMA DeleteStep == ASSUME RagInv, NEW j \in Jobs, DeleteChunks(j) PROVE RagInv'
<1> DEFINE place == IF job[j].kind = "remove" THEN "index" ELSE "upsert"
           d == job[j].doc
<1>1. /\ job[j].at = "delete" /\ Moves(j, place) /\ place \in {"index", "upsert"}
      /\ collection' = [collection EXCEPT ![d] = NoText]
      /\ UNCHANGED <<index, saved, intact>>
  BY DEF DeleteChunks, NoText
<1>2. /\ job' \in [Jobs -> JobEntry \cup {Idle}] /\ OwnDocuments'
      /\ job'[j].at = place /\ job'[j].kind = job[j].kind /\ job'[j].doc = job[j].doc
      /\ \A i \in Jobs \ {j} : job'[i] = job[i]
      /\ job[j].doc \in DocId /\ job[j].kind \in Kinds
  BY <1>1, MovesTypes, NotIdle
<1>3. /\ \A i \in ApiLock' : i \in ApiLock
      /\ job[j].kind # "translation" => j \in ApiLock /\ \A i \in ApiLock' : i = j
      /\ OneInside'
  BY <1>1, InsideMoves
<1>4. /\ collection'[d] = NoText /\ \A e \in DocId \ {d} : collection'[e] = collection[e]
      /\ collection' \in [DocId -> [Index -> Jobs \cup {Absent}]]
  <2>1. NoText \in [Index -> Jobs \cup {Absent}]
    BY DEF NoText
  <2>2. collection \in [DocId -> [Index -> Jobs \cup {Absent}]]
    BY DEF RagInv, RagTypes
  <2> QED
    BY <1>1, <1>2, <2>1, <2>2
<1>5. RagTypes'
  BY <1>1, <1>2, <1>4 DEF RagInv, RagTypes
<1>6. Underway'
  BY <1>1, <1>2, <1>3 DEF RagInv, Underway, ApiLock
<1>7. WholeTexts'
  BY <1>4, RagFacts DEF RagInv, WholeTexts
<1>8. \A i \in ApiLock' \ {j} : job'[i] = job[i] /\ collection'[job[i].doc] = collection[job[i].doc]
  BY <1>2, <1>3, <1>4, RagFacts DEF RagInv, OwnDocuments, ApiLock
<1>9. Halfway'
  BY <1>1, <1>2, <1>3, <1>4, <1>8 DEF RagInv, Halfway, ToHave, ToList, ApiLock
<1>10. d \notin intact
  BY <1>3, RagFacts DEF RagInv, Underway, OwnDocuments, RagTypes
<1>11. IntactAgrees'
  BY <1>1, <1>4, <1>10, RagFacts DEF RagInv, IntactAgrees, RagTypes
<1> QED
  BY <1>2, <1>3, <1>5, <1>6, <1>7, <1>9, <1>11 DEF RagInv

LEMMA UpsertStep == ASSUME RagInv, NEW j \in Jobs, Upsert(j) PROVE RagInv'
<1> DEFINE place == IF job[j].kind = "translation" THEN "ready" ELSE "index"
           d == job[j].doc
<1>1. /\ job[j].at = "upsert" /\ Moves(j, place) /\ place \in {"index", "ready"}
      /\ collection' = Upserted(j)
      /\ UNCHANGED <<index, saved, intact>>
  BY DEF Upsert
<1>2. /\ job' \in [Jobs -> JobEntry \cup {Idle}] /\ OwnDocuments'
      /\ job'[j].at = place /\ job'[j].kind = job[j].kind /\ job'[j].doc = job[j].doc
      /\ \A i \in Jobs \ {j} : job'[i] = job[i]
      /\ job[j].doc \in DocId /\ job[j].kind \in Kinds
  BY <1>1, MovesTypes, NotIdle
<1>3. /\ \A i \in ApiLock' : i \in ApiLock
      /\ job[j].kind # "translation" => j \in ApiLock /\ \A i \in ApiLock' : i = j
      /\ OneInside'
  BY <1>1, InsideMoves
<1>4. /\ \A e \in DocId \ {d} : collection'[e] = collection[e]
      /\ collection[d] = NoText => collection'[d] = TextOf(j)
      /\ collection' \in [DocId -> [Index -> Jobs \cup {Absent}]]
  <2>1. collection \in [DocId -> [Index -> Jobs \cup {Absent}]]
    BY DEF RagInv, RagTypes
  <2> DEFINE whole == [i \in Index |-> IF i < Length[j] THEN j ELSE collection[d][i]]
  <2>2. collection' = [collection EXCEPT ![d] = whole]
    BY <1>1 DEF Upserted
  <2>3. whole \in [Index -> Jobs \cup {Absent}]
    BY <1>2, <2>1
  <2>4. collection[d] = NoText => whole = TextOf(j)
    BY DEF NoText, TextOf
  <2> HIDE DEF whole
  <2> QED
    BY <1>2, <2>1, <2>2, <2>3, <2>4
<1>5. RagTypes'
  BY <1>1, <1>2, <1>4 DEF RagInv, RagTypes
<1>6. Underway'
  BY <1>1, <1>2, <1>3 DEF RagInv, Underway, ApiLock
<1>7. job[j].kind # "translation" => job[j].kind = "ingest" /\ collection'[d] = TextOf(j)
  BY <1>1, <1>3, <1>4 DEF RagInv, Halfway
<1>8. WholeTexts'
  BY <1>2, <1>4, <1>7, RagFacts DEF RagInv, WholeTexts, OwnDocuments
<1>9. \A i \in ApiLock' \ {j} : job'[i] = job[i] /\ collection'[job[i].doc] = collection[job[i].doc]
  BY <1>2, <1>3, <1>4, RagFacts DEF RagInv, OwnDocuments, ApiLock
<1>10. Halfway'
  BY <1>1, <1>2, <1>3, <1>7, <1>9 DEF RagInv, Halfway, ToHave, ToList, ApiLock
<1>11. d \notin intact
  BY <1>2, <1>3, RagFacts DEF RagInv, Underway, OwnDocuments, RagTypes
<1>12. IntactAgrees'
  BY <1>1, <1>4, <1>11, RagFacts DEF RagInv, IntactAgrees, RagTypes
<1> QED
  BY <1>2, <1>3, <1>5, <1>6, <1>8, <1>10, <1>12 DEF RagInv

LEMMA SetIndexStep == ASSUME RagInv, NEW j \in Jobs, SetIndex(j) PROVE RagInv'
<1> DEFINE d == job[j].doc
<1>1. PICK place \in {"failed", "save"} :
        /\ job[j].at = "index" /\ Moves(j, place) /\ job[j].kind # "translation"
        /\ UNCHANGED <<collection, saved, intact>>
        /\ \/ place = "failed" /\ index' = index
           \/ place = "save" /\ index' = [index EXCEPT ![d] = ToList(j)]
  BY DEF SetIndex, ToList, RagInv, OwnDocuments
<1>2. /\ job' \in [Jobs -> JobEntry \cup {Idle}] /\ OwnDocuments'
      /\ job'[j].at = place /\ job'[j].kind = job[j].kind /\ job'[j].doc = job[j].doc
      /\ \A i \in Jobs \ {j} : job'[i] = job[i]
      /\ job[j].doc \in DocId /\ job[j].kind \in Kinds
  BY <1>1, MovesTypes, NotIdle
<1>3. /\ \A i \in ApiLock' : i \in ApiLock
      /\ job[j].kind # "translation" => j \in ApiLock /\ \A i \in ApiLock' : i = j
      /\ OneInside'
  BY <1>1, InsideMoves
<1>4. ToList(j) \in Jobs \cup {Absent} /\ index \in [Documents -> Jobs \cup {Absent}]
  BY DEF ToList, RagInv, RagTypes
<1>5. /\ index' \in [Documents -> Jobs \cup {Absent}]
      /\ \A e \in Documents \ {d} : index'[e] = index[e]
      /\ place = "save" /\ d \in Documents => index'[d] = ToList(j)
  BY <1>1, <1>4
<1>6. RagTypes'
  BY <1>1, <1>2, <1>5 DEF RagInv, RagTypes
<1>7. Underway'
  BY <1>1, <1>2, <1>3 DEF RagInv, Underway, ApiLock
<1>8. WholeTexts'
  BY <1>1 DEF RagInv, WholeTexts
<1>9. \A i \in ApiLock' \ {j} : /\ job'[i] = job[i] /\ job[i].doc \in Documents
                                 /\ job[i].doc # d
  BY <1>1, <1>2, <1>3, RagFacts DEF RagInv, OwnDocuments, ApiLock
<1>10. Halfway'
  <2> SUFFICES ASSUME NEW i \in ApiLock'
               PROVE  (/\ job[i].at = "upsert" => job[i].kind = "ingest" /\ collection[job[i].doc] = NoText
                       /\ job[i].at \in {"index", "save"} => collection[job[i].doc] = ToHave(i)
                       /\ job[i].at = "save" => index[job[i].doc] = ToList(i))'
    BY DEF Halfway
  <2>1. CASE i = j
    BY <1>1, <1>2, <1>3, <1>5, <2>1 DEF RagInv, OwnDocuments, Halfway, ToHave, ToList, ApiLock
  <2>2. CASE i # j
    BY <1>1, <1>3, <1>5, <1>9, <2>2 DEF RagInv, Halfway, ToHave, ToList, ApiLock
  <2> QED
    BY <2>1, <2>2
<1>11. d \notin intact
  BY <1>2, <1>3, RagFacts DEF RagInv, Underway, OwnDocuments, RagTypes
<1>12. IntactAgrees'
  BY <1>1, <1>5, <1>11 DEF RagInv, IntactAgrees, RagTypes
<1> QED
  BY <1>2, <1>3, <1>6, <1>7, <1>8, <1>10, <1>12 DEF RagInv

LEMMA SaveStep == ASSUME RagInv, NEW j \in Jobs, Save(j) PROVE RagInv'
<1> DEFINE d == job[j].doc
<1>1. /\ job[j].at = "save" /\ Moves(j, "answered") /\ saved' = index
      /\ intact' = intact \cup {d} /\ UNCHANGED <<collection, index>>
      /\ job[j].kind # "translation"
  BY DEF Save, Written, RagInv, OwnDocuments
<1>2. /\ job' \in [Jobs -> JobEntry \cup {Idle}] /\ OwnDocuments'
      /\ job'[j].at = "answered" /\ job'[j].kind = job[j].kind /\ job'[j].doc = job[j].doc
      /\ \A i \in Jobs \ {j} : job'[i] = job[i]
      /\ job[j].doc \in DocId /\ job[j].kind \in Kinds
  BY <1>1, MovesTypes, NotIdle
<1>3. j \in ApiLock /\ ApiLock' = {}
  <2>1. j \in ApiLock /\ \A i \in ApiLock' : i = j
    BY <1>1, InsideMoves
  <2> QED
    BY <1>2, <2>1 DEF ApiLock
<1>4. d \in Documents
  BY <1>3 DEF RagInv, OwnDocuments, ApiLock
<1>5. RagTypes'
  BY <1>1, <1>2, <1>4 DEF RagInv, RagTypes
<1>6. OneInside' /\ Underway' /\ Halfway'
  BY <1>3 DEF OneInside, Underway, Halfway
<1>7. WholeTexts'
  BY <1>1 DEF RagInv, WholeTexts
<1>8. collection[d] = ToHave(j) /\ index[d] = ToList(j)
  BY <1>1, <1>3 DEF RagInv, Halfway
<1>9. collection[d] = IF index[d] = Absent THEN NoText ELSE TextOf(index[d])
  BY <1>8, RagFacts DEF ToHave, ToList
<1>10. IntactAgrees'
  BY <1>1, <1>9 DEF RagInv, IntactAgrees
<1> QED
  BY <1>2, <1>5, <1>6, <1>7, <1>10 DEF RagInv

LEMMA JobFailsStep == ASSUME RagInv, NEW j \in Jobs, JobFails(j) PROVE RagInv'
<1>1. /\ job[j].at \in {"delete", "upsert", "save"} /\ Moves(j, "failed")
      /\ UNCHANGED <<collection, index, saved, intact>>
  BY DEF JobFails
<1>2. /\ job' \in [Jobs -> JobEntry \cup {Idle}] /\ OwnDocuments'
      /\ job'[j].at = "failed"
      /\ \A i \in Jobs \ {j} : job'[i] = job[i]
  BY <1>1, MovesTypes, NotIdle
<1>3. ApiLock' \subseteq ApiLock \ {j}
  BY <1>2 DEF ApiLock
<1>4. RagTypes'
  BY <1>1, <1>2 DEF RagInv, RagTypes
<1>5. \A i \in ApiLock' : i \in ApiLock /\ job'[i] = job[i]
  BY <1>2, <1>3 DEF ApiLock
<1>6. OneInside' /\ Underway' /\ Halfway'
  BY <1>1, <1>5 DEF RagInv, OneInside, Underway, Halfway, ToHave, ToList
<1> QED
  BY <1>1, <1>2, <1>4, <1>6 DEF RagInv, WholeTexts, IntactAgrees

LEMMA RagCrashStep == ASSUME RagInv, RagCrash PROVE RagInv'
<1>1. /\ index' = saved /\ UNCHANGED <<collection, saved, intact>>
      /\ job' = [j \in Jobs |-> IF job[j].at \in Inside \cup {"waiting"}
                                   THEN [job[j] EXCEPT !.at = "failed"] ELSE job[j]]
  BY DEF RagCrash
<1>2. ASSUME NEW j \in Jobs
      PROVE  /\ job'[j] \in JobEntry \cup {Idle} /\ job'[j].at \notin Inside
             /\ job'[j].kind = job[j].kind /\ job'[j].doc = job[j].doc
             /\ job'[j].at \in {"index", "save"} => job[j].at = job'[j].at
  <2>1. job[j] \in JobEntry \/ job[j] = Idle
    BY DEF RagInv, RagTypes
  <2> QED
    BY <1>1, <2>1 DEF JobEntry, Idle
<1>3. ApiLock' = {}
  BY <1>2 DEF ApiLock
<1>4. RagTypes'
  BY <1>1, <1>2 DEF RagInv, RagTypes
<1>5. OwnDocuments'
  BY <1>2 DEF RagInv, OwnDocuments
<1>6. OneInside' /\ Underway' /\ Halfway'
  BY <1>3 DEF OneInside, Underway, Halfway
<1>7. IntactAgrees' /\ WholeTexts'
  BY <1>1 DEF RagInv, IntactAgrees, WholeTexts
<1> QED
  BY <1>4, <1>5, <1>6, <1>7 DEF RagInv

LEMMA RagStep == RagInv /\ [RagNext]_ragVars => RagInv'
<1> SUFFICES ASSUME RagInv, [RagNext]_ragVars PROVE RagInv'
  OBVIOUS
<1>1. CASE UNCHANGED ragVars
  BY <1>1 DEF ragVars, RagInv, RagTypes, OwnDocuments, OneInside, Underway, WholeTexts,
              Halfway, IntactAgrees, ToHave, ToList, ApiLock
<1> QED
  BY <1>1, RequestStep, EntersStep, DeleteStep, UpsertStep, SetIndexStep, SaveStep,
     JobFailsStep, RagCrashStep DEF RagNext

LEMMA RagBegins == RagInit => RagInv
<1> SUFFICES ASSUME RagInit PROVE RagInv
  OBVIOUS
<1>1. /\ collection = [d \in DocId |-> NoText] /\ index = [d \in Documents |-> Absent]
      /\ saved = index /\ job = [j \in Jobs |-> Idle] /\ intact = Documents
  BY DEF RagInit, NoText
<1>2. NoText \in [Index -> Jobs \cup {Absent}]
  BY DEF NoText
<1>3. RagTypes
  BY <1>1, <1>2 DEF RagTypes
<1>4. ApiLock = {} /\ OwnDocuments
  BY <1>1 DEF ApiLock, OwnDocuments, Idle
<1> QED
  BY <1>1, <1>3, <1>4, RagFacts DEF RagInv, OneInside, Underway, Halfway, WholeTexts, IntactAgrees

(* The chunks of a document with a whole text, or none.                    *)
LEMMA TextChunks ==
  ASSUME NEW d, NEW j \in Jobs, collection[d] = TextOf(j)
  PROVE  Chunks(d) = 0..(Length[j] - 1) /\ Cardinality(Chunks(d)) = Length[j]
<1>1. Length[j] \in 1..3
  BY RagFacts
<1>2. Chunks(d) = 0..(Length[j] - 1)
  BY <1>1, RagFacts DEF Chunks, TextOf, Index
<1>3. 0 \in Int /\ Length[j] - 1 \in Int /\ Length[j] - 1 - 0 + 1 = Length[j] /\ ~(0 > Length[j] - 1)
  BY <1>1
<1>4. Cardinality(0..(Length[j] - 1)) = Length[j]
  BY <1>3, FS_Interval
<1> QED
  BY <1>2, <1>4

LEMMA RagIsTrue == RagInv => OneText /\ IndexAgrees
<1> SUFFICES ASSUME RagInv PROVE OneText /\ IndexAgrees
  OBVIOUS
<1>1. \A d \in Documents : collection[d] = NoText => Chunks(d) = {}
  BY DEF Chunks, NoText
<1>2. ASSUME NEW d \in Documents, NEW j \in Jobs, collection[d] = TextOf(j)
      PROVE  /\ Chunks(d) # {} /\ \A i \in Chunks(d) : collection[d][i] = j
             /\ Cardinality(Chunks(d)) = Length[j]
  <2>1. Length[j] \in 1..3
    BY RagFacts
  <2> QED
    BY <1>2, <2>1, TextChunks DEF TextOf, Index
<1>3. OneText
  BY <1>1, <1>2 DEF OneText, RagInv, WholeTexts
<1>4. ASSUME NEW d \in intact
      PROVE  /\ saved[d] = index[d]
             /\ IF index[d] = Absent THEN Chunks(d) = {}
                ELSE Chunks(d) # {} /\ \A i \in Chunks(d) : collection[d][i] = index[d]
  <2>1. d \in Documents /\ index[d] \in Jobs \cup {Absent}
    BY DEF RagInv, RagTypes
  <2>2. saved[d] = index[d] /\ collection[d] = IF index[d] = Absent THEN NoText ELSE TextOf(index[d])
    BY DEF RagInv, IntactAgrees
  <2> QED
    BY <1>1, <1>2, <2>1, <2>2
<1> QED
  BY <1>3, <1>4 DEF IndexAgrees

HIDE DEF Kinds, Inside

-----------------------------------------------------------------------------
(***************************************************************************)
(* Creating projects.  What a request has in its temporary directory       *)
(* follows from where it stands, and every list of recent projects, the    *)
(* file's and those that requests have read, names a project once.  What a *)
(* request has moved to its place is there until the user removes it       *)
(* (MovedThere), so that project.json alone comes to no other place.       *)
(***************************************************************************)
Once(list) == list \in Seq(Directories) /\ IsInjective(list)

MovedThere ==
  \A r \in Creators : stage[r] = "moved" =>
    \/ r \in removed[target[r]]
    \/ project[target[r]] # Empty /\ (project[target[r]].by = r \/ r \in nested[target[r]])

CreationInv ==
  /\ stage \in [Requesters -> CreationStages]
  /\ target \in [Requesters -> {target[r] : r \in Requesters}]
  /\ \A r \in Requesters : stage[r] # "idle" => target[r] \in Directories
  /\ temp \in [Creators -> {"none", "empty", "built"}]
  /\ \A r \in Creators :
        /\ stage[r] \notin {"checked", "made", "built"} => temp[r] = "none"
        /\ stage[r] = "built" => temp[r] = "built"
  /\ project \in [Directories -> Built \cup {Empty}]
  /\ nested \in [Directories -> SUBSET Creators] /\ removed \in [Directories -> SUBSET Creators]
  /\ MovedThere /\ AppearsBuilt
  /\ Once(recent)
  /\ snapshot \in [Requesters -> {list \in Seq(Directories) : IsInjective(list)}]

(* Lists without repetitions stay so when a project is put in front, left  *)
(* out, or the end is cut off.                                             *)
LEMMA ListsOnce ==
  /\ Once(<<>>)
  /\ \A list, K : Once(list) => Once(Kept(list, K))
  /\ \A list, p : Once(list) => Once(LeavingOut(list, p))
  /\ \A list : \A p \in Directories : Once(list) => Once(WithRecent(list, p))
<1>1. Once(<<>>)
  BY DEF Once, IsInjective
<1>2. ASSUME NEW list, NEW K, Once(list) PROVE Once(Kept(list, K))
  BY <1>2, KeptElements DEF Once
<1>3. ASSUME NEW list, NEW p, Once(list)
      PROVE  Once(LeavingOut(list, p)) /\ \A n \in DOMAIN LeavingOut(list, p) : LeavingOut(list, p)[n] # p
  <2> DEFINE K == {n \in DOMAIN list : list[n] # p}
  <2>1. Once(LeavingOut(list, p))
    BY <1>2, <1>3 DEF LeavingOut
  <2>2. ToSet(LeavingOut(list, p)) = {list[i] : i \in K \cap DOMAIN list}
    BY <1>3, KeptElements DEF LeavingOut, Once
  <2>3. \A n \in DOMAIN LeavingOut(list, p) : LeavingOut(list, p)[n] \in ToSet(LeavingOut(list, p))
    BY DEF ToSet
  <2> QED
    BY <2>1, <2>2, <2>3
<1>4. ASSUME NEW list, NEW p \in Directories, Once(list) PROVE Once(WithRecent(list, p))
  <2> DEFINE rest == LeavingOut(list, p)
             all  == <<p>> \o rest
  <2>1. Once(rest) /\ \A n \in DOMAIN rest : rest[n] # p
    BY <1>3, <1>4
  <2>2. WithRecent(list, p) = IF Len(all) > MaxRecent THEN SubSeq(all, 1, MaxRecent) ELSE all
    BY DEF WithRecent
  <2> HIDE DEF rest
  <2>3. /\ all \in Seq(Directories) /\ Len(all) = Len(rest) + 1 /\ all[1] = p /\ Len(rest) \in Nat
        /\ \A n \in 1..Len(rest) : all[n + 1] = rest[n]
    BY <2>1 DEF Once
  <2>4. \A n \in DOMAIN all : n \in 1..(Len(rest) + 1) /\ (n = 1 \/ (n - 1 \in DOMAIN rest /\ all[n] = rest[n - 1]))
    BY <2>1, <2>3 DEF Once
  <2>5. ASSUME NEW m \in DOMAIN all, NEW n \in DOMAIN all, all[m] = all[n] PROVE m = n
    <3>1. CASE m = 1 \/ n = 1
      BY <2>1, <2>3, <2>4, <2>5, <3>1
    <3>2. CASE m # 1 /\ n # 1
      BY <2>1, <2>4, <2>5, <3>2 DEF Once, IsInjective
    <3> QED
      BY <3>1, <3>2
  <2>6. Once(all)
    BY <2>3, <2>5 DEF Once, IsInjective
  <2> HIDE DEF all
  <2>7. ASSUME Len(all) > MaxRecent PROVE Once(SubSeq(all, 1, MaxRecent))
    <3>1. MaxRecent \in Nat /\ all \in Seq(Directories) /\ MaxRecent <= Len(all)
      BY <2>6, <2>7, CreationAssumption DEF Once
    <3>2. /\ SubSeq(all, 1, MaxRecent) \in Seq(Directories)
          /\ DOMAIN SubSeq(all, 1, MaxRecent) = 1..MaxRecent
          /\ 1..MaxRecent \subseteq DOMAIN all
          /\ \A n \in 1..MaxRecent : SubSeq(all, 1, MaxRecent)[n] = all[n]
      BY <3>1
    <3> QED
      BY <2>6, <3>2 DEF Once, IsInjective
  <2> QED
    BY <2>2, <2>6, <2>7
<1> QED
  BY <1>1, <1>2, <1>3, <1>4

(* A request that reads or writes the list of recent projects.             *)
LEMMA RecentStep ==
  ASSUME CreationInv, NEW r \in Requesters,
         UNCHANGED <<target, temp, project, nested, removed>>,
         \/ Advance(r, "listed", "read") /\ snapshot' = [snapshot EXCEPT ![r] = recent] /\ UNCHANGED recent
         \/ /\ \E from \in {"read", "loading", "removing", "listing"} : Advance(r, from, "done")
            /\ snapshot' = [snapshot EXCEPT ![r] = <<>>] /\ (Once(recent') \/ UNCHANGED recent)
  PROVE  CreationInv'
<1>1. /\ stage' \in [Requesters -> CreationStages]
      /\ stage'[r] \in {"read", "done"}
      /\ stage[r] \in {"listed", "read", "loading", "removing", "listing"}
      /\ \A other \in Requesters \ {r} : stage'[other] = stage[other]
  BY DEF CreationInv, Advance, CreationStages
<1>2. Once(recent)'
  BY DEF CreationInv, Once
<1>3. snapshot' \in [Requesters -> {list \in Seq(Directories) : IsInjective(list)}]
  BY ListsOnce DEF CreationInv, Once
<1>4. AppearsBuilt' /\ MovedThere'
  BY <1>1 DEF CreationInv, AppearsBuilt, MovedThere, Requesters
<1>5. /\ target' \in [Requesters -> {target'[q] : q \in Requesters}]
      /\ \A q \in Requesters : stage'[q] # "idle" => target'[q] \in Directories
      /\ temp' \in [Creators -> {"none", "empty", "built"}] /\ project' \in [Directories -> Built \cup {Empty}]
      /\ nested' \in [Directories -> SUBSET Creators] /\ removed' \in [Directories -> SUBSET Creators]
  BY <1>1 DEF CreationInv
<1>6. \A q \in Creators :
         /\ stage'[q] \notin {"checked", "made", "built"} => temp'[q] = "none"
         /\ stage'[q] = "built" => temp'[q] = "built"
  BY <1>1 DEF CreationInv, Requesters
<1> QED
  BY <1>1, <1>2, <1>3, <1>4, <1>5, <1>6 DEF CreationInv

(* A request that creates a project goes on.                               *)
LEMMA BuildStep ==
  ASSUME CreationInv, NEW r \in Creators,
         \/ \E p \in Directories : Check(r, p)
         \/ MakeTemp(r) \/ Build(r) \/ Move(r) \/ CreationFails(r) \/ DeclareReady(r)
  PROVE  CreationInv'
<1>0. /\ r \in Requesters /\ UNCHANGED <<recent, snapshot, removed>>
      /\ stage \in [Requesters -> CreationStages] /\ temp \in [Creators -> {"none", "empty", "built"}]
      /\ project \in [Directories -> Built \cup {Empty}]
  BY DEF Requesters, Check, MakeTemp, Build, Move, CreationFails, DeclareReady, CreationInv
<1>1. /\ stage' \in [Requesters -> CreationStages]
      /\ \A q \in Requesters \ {r} : stage'[q] = stage[q]
      /\ \/ stage[r] = "idle" /\ stage'[r] \in {"checked", "refused"} /\ temp' = temp
         \/ stage[r] = "checked" /\ stage'[r] = "made" /\ temp' = [temp EXCEPT ![r] = "empty"]
         \/ stage[r] = "made" /\ stage'[r] = "built" /\ temp' = [temp EXCEPT ![r] = "built"]
         \/ stage'[r] \in {"moved", "refused"} /\ temp' = [temp EXCEPT ![r] = "none"]
         \/ stage[r] = "moved" /\ stage'[r] = "listed" /\ temp' = temp
  <2>1. CASE \E p \in Directories : Check(r, p)
    BY <1>0, <2>1 DEF Check, CreationStages
  <2>2. CASE MakeTemp(r)
    BY <1>0, <2>2 DEF MakeTemp, Advance, CreationStages
  <2>3. CASE Build(r)
    BY <1>0, <2>3 DEF Build, Advance, CreationStages
  <2>4. CASE Move(r)
    BY <1>0, <2>4 DEF Move, Advance, CreationStages
  <2>5. CASE CreationFails(r)
    BY <1>0, <2>5 DEF CreationFails, RemoveTemp, CreationStages
  <2>6. CASE DeclareReady(r)
    BY <1>0, <2>6 DEF DeclareReady, Advance, CreationStages
  <2> QED
    BY <2>1, <2>2, <2>3, <2>4, <2>5, <2>6
<1>2. /\ temp' \in [Creators -> {"none", "empty", "built"}]
      /\ \A q \in Creators :
           /\ stage'[q] \notin {"checked", "made", "built"} => temp'[q] = "none"
           /\ stage'[q] = "built" => temp'[q] = "built"
  <2>1. /\ temp' \in [Creators -> {"none", "empty", "built"}]
        /\ \A q \in Creators \ {r} : temp'[q] = temp[q] /\ stage'[q] = stage[q]
    BY <1>0, <1>1 DEF Requesters
  <2>2. /\ stage'[r] \notin {"checked", "made", "built"} => temp'[r] = "none"
        /\ stage'[r] = "built" => temp'[r] = "built"
    BY <1>0, <1>1 DEF CreationInv
  <2> QED
    BY <2>1, <2>2 DEF CreationInv
<1>3. /\ target' \in [Requesters -> {target'[q] : q \in Requesters}]
      /\ \A q \in Requesters : stage'[q] # "idle" => target'[q] \in Directories
  <2>1. CASE UNCHANGED target
    <3>1. stage[r] # "idle" \/ target[r] \in Directories
      BY <2>1, <1>0 DEF Check, MakeTemp, Build, Move, CreationFails, DeclareReady, Advance, CreationInv
    <3> QED
      BY <1>1, <2>1, <3>1 DEF CreationInv
  <2>2. CASE \E p \in Directories : Check(r, p)
    <3>1. PICK p \in Directories : target' = [target EXCEPT ![r] = p]
      BY <2>2 DEF Check
    <3>2. /\ DOMAIN target' = Requesters /\ target'[r] = p
          /\ \A q \in Requesters \ {r} : target'[q] = target[q]
          /\ target' = [q \in Requesters |-> target'[q]]
      BY <1>0, <3>1 DEF CreationInv
    <3> QED
      BY <1>1, <3>2 DEF CreationInv
  <2> QED
    BY <2>1, <2>2 DEF MakeTemp, Build, Move, CreationFails, DeclareReady
<1>4. /\ project' \in [Directories -> Built \cup {Empty}] /\ AppearsBuilt'
      /\ \A p \in Directories : project[p] # Empty => project'[p] # Empty /\ project'[p].by = project[p].by
  <2>1. CASE UNCHANGED project
    BY <1>0, <2>1 DEF CreationInv, AppearsBuilt
  <2>2. CASE Move(r) /\ project' # project
    <3> DEFINE new == [by |-> r, meta |-> r, built |-> temp[r] = "built", status |-> "creating"]
    <3>1. project' = [project EXCEPT ![target[r]] = new] /\ temp[r] = "built" /\ project[target[r]] = Empty
      BY <2>2 DEF Move, Advance, CreationInv
    <3>2. new \in Built /\ new.built
      BY <3>1 DEF Built
    <3> HIDE DEF new
    <3> QED
      BY <1>0, <3>1, <3>2 DEF CreationInv, AppearsBuilt
  <2>3. CASE DeclareReady(r) /\ project' # project
    <3> DEFINE p     == target[r]
               there == [project[p] EXCEPT !.meta = r, !.status = "ready"]
               bare  == [by |-> r, meta |-> r, built |-> FALSE, status |-> "ready"]
    <3>1. /\ project' = [project EXCEPT ![p] = IF @ = Empty
                              THEN [by |-> r, meta |-> r, built |-> FALSE, status |-> "ready"]
                              ELSE [@ EXCEPT !.meta = r, !.status = "ready"]]
          /\ stage[r] = "moved" /\ p \in Directories
      BY <1>0, <2>3 DEF DeclareReady, Advance, CreationInv
    <3> HIDE DEF p
    <3>4. p \in Directories /\ project \in [Directories -> Built \cup {Empty}]
      BY <1>0, <3>1
    <3>2. CASE project[p] = Empty
      <4>1. project' = [project EXCEPT ![p] = bare]
        BY <1>0, <3>1, <3>2
      <4>2. r \in removed[p]
        BY <3>1, <3>2 DEF CreationInv, MovedThere, p
      <4>3. bare \in Built /\ bare.by = r
        BY DEF Built
      <4> HIDE DEF bare
      <4>4. /\ project' \in [Directories -> Built \cup {Empty}] /\ project'[p] = bare
            /\ \A d \in Directories \ {p} : project'[d] = project[d]
        BY <3>4, <4>1, <4>3
      <4>5. AppearsBuilt'
        <5>1. UNCHANGED removed /\ AppearsBuilt
          BY <1>0 DEF CreationInv
        <5>2. bare.by \in removed[p]
          BY <4>2, <4>3
        <5> QED
          BY <4>4, <5>1, <5>2 DEF AppearsBuilt
      <4> QED
        BY <3>2, <4>4, <4>5
    <3>3. CASE project[p] # Empty
      <4>1. project' = [project EXCEPT ![p] = there]
        BY <1>0, <3>1, <3>3
      <4>2. project[p] \in Built
        BY <1>0, <3>1, <3>3
      <4>3. there \in Built /\ there.built = project[p].built /\ there.by = project[p].by
        BY <4>2 DEF Built
      <4>4. there # Empty
        BY <4>3, CreationAssumption
      <4> HIDE DEF there
      <4>5. /\ project' \in [Directories -> Built \cup {Empty}] /\ project'[p] = there
            /\ \A d \in Directories \ {p} : project'[d] = project[d]
        BY <3>4, <4>1, <4>3
      <4>6. project[p].built \/ project[p].by \in removed[p]
        BY <3>1, <3>3 DEF CreationInv, AppearsBuilt
      <4>7. there.built \/ there.by \in removed[p]
        BY <4>3, <4>6, Zenon
      <4>8. AppearsBuilt'
        BY <1>0, <4>5, <4>7 DEF CreationInv, AppearsBuilt
      <4> QED
        BY <4>3, <4>4, <4>5, <4>8
    <3> QED
      BY <3>2, <3>3
  <2> QED
    BY <2>1, <2>2, <2>3 DEF Check, MakeTemp, Build, CreationFails
<1>6. nested' \in [Directories -> SUBSET Creators] /\ MovedThere'
  <2>1. /\ nested' \in [Directories -> SUBSET Creators]
        /\ \A p \in Directories : nested[p] \subseteq nested'[p]
    <3>1. UNCHANGED nested \/ nested' = [nested EXCEPT ![target[r]] = @ \cup {r}]
      BY DEF Check, MakeTemp, Build, Move, CreationFails, DeclareReady
    <3>2. nested \in [Directories -> SUBSET Creators]
      BY DEF CreationInv
    <3>3. CASE nested' = [nested EXCEPT ![target[r]] = @ \cup {r}]
      <4> DEFINE p == target[r]
      <4> HIDE DEF p
      <4>1. nested' = [nested EXCEPT ![p] = nested[p] \cup {r}]
        BY <3>3 DEF p
      <4>2. CASE p \in Directories
        BY <3>2, <4>1, <4>2
      <4>3. CASE p \notin Directories
        BY <3>2, <4>1, <4>3
      <4> QED
        BY <4>2, <4>3
    <3> QED
      BY <3>1, <3>2, <3>3
  <2>2. ASSUME NEW q \in Creators, stage'[q] = "moved"
        PROVE  \/ q \in removed'[target'[q]]
               \/ project'[target'[q]] # Empty /\ (project'[target'[q]].by = q \/ q \in nested'[target'[q]])
    <3>1. CASE q = r
      <4>1. Move(r)
        BY <1>0, <1>1, <2>2, <3>1 DEF Check, MakeTemp, Build, Move, CreationFails, DeclareReady, Advance
      <4> DEFINE p   == target[r]
                 new == [by |-> r, meta |-> r, built |-> temp[r] = "built", status |-> "creating"]
      <4>2. p \in Directories /\ UNCHANGED target
        BY <1>0, <4>1 DEF Move, Advance, CreationInv
      <4>3. \/ project[p] = Empty /\ project' = [project EXCEPT ![p] = new]
            \/ project[p] # Empty /\ nested' = [nested EXCEPT ![p] = @ \cup {r}] /\ UNCHANGED project
        BY <4>1 DEF Move
      <4>4. new.by = r
        OBVIOUS
      <4>5. new \in Built
        BY DEF Built
      <4> HIDE DEF p, new
      <4>6. CASE project[p] = Empty /\ project' = [project EXCEPT ![p] = new]
        <5>1. project'[p] = new
          BY <1>0, <4>2, <4>6
        <5>2. new # Empty
          BY <4>5, CreationAssumption
        <5> QED
          BY <3>1, <4>2, <4>4, <5>1, <5>2 DEF p
      <4>7. CASE project[p] # Empty /\ nested' = [nested EXCEPT ![p] = @ \cup {r}] /\ UNCHANGED project
        BY <3>1, <4>2, <4>7 DEF p, CreationInv
      <4> QED
        BY <4>3, <4>6, <4>7
    <3>2. CASE q # r
      <4>1. stage[q] = "moved" /\ target'[q] = target[q] /\ target[q] \in Directories
        BY <1>0, <1>1, <2>2, <3>2
           DEF Check, MakeTemp, Build, Move, CreationFails, DeclareReady, CreationInv, Requesters
      <4> QED
        BY <1>0, <1>4, <2>1, <4>1 DEF CreationInv, MovedThere
    <3> QED
      BY <3>1, <3>2
  <2> QED
    BY <2>1, <2>2 DEF MovedThere
<1>7. removed' \in [Directories -> SUBSET Creators]
  BY <1>0 DEF CreationInv
<1>5. Once(recent)' /\ snapshot' \in [Requesters -> {list \in Seq(Directories) : IsInjective(list)}]
  BY <1>0 DEF CreationInv, Once
<1> QED
  BY <1>1, <1>2, <1>3, <1>4, <1>5, <1>6, <1>7 DEF CreationInv

LEMMA CreationStep == CreationInv /\ [CreationNext]_creationVars => CreationInv'
<1> SUFFICES ASSUME CreationInv, [CreationNext]_creationVars PROVE CreationInv'
  OBVIOUS
<1>1. CASE UNCHANGED creationVars
  BY <1>1 DEF creationVars, CreationInv, Once, AppearsBuilt, MovedThere
<1>2. ASSUME NEW r \in Creators,
             \/ \E p \in Directories : Check(r, p)
             \/ MakeTemp(r) \/ Build(r) \/ Move(r) \/ CreationFails(r) \/ DeclareReady(r)
      PROVE  CreationInv'
  BY <1>2, BuildStep
<1>3. ASSUME NEW r \in Creators, ReadRecent(r) PROVE CreationInv'
  BY <1>3, RecentStep DEF ReadRecent, Advance, Requesters
<1>4. ASSUME NEW r \in Requesters, AddRecent(r) \/ LoadProject(r) PROVE CreationInv'
  <2>1. /\ \E from \in {"read", "loading"} : Advance(r, from, "done")
        /\ WriteBack(r)
    BY <1>4 DEF AddRecent, LoadProject
  <2>2. target[r] \in Directories /\ Once(snapshot[r])
    BY <2>1 DEF Advance, CreationInv, Once
  <2>3. Once(WithRecent(snapshot[r], target[r]))
    BY <2>2, ListsOnce
  <2>4. Once(recent') \/ UNCHANGED recent
    BY <2>1, <2>3, ListsOnce DEF WriteBack, WriteRecent
  <2> QED
    BY <2>1, <2>4, RecentStep DEF WriteBack
<1>5. ASSUME NEW r \in RecentTasks, RemoveRecent(r) \/ ListRecent(r) PROVE CreationInv'
  <2>0. r \in Requesters
    BY DEF Requesters
  <2>1. Once(snapshot[r]) /\ \E from \in {"removing", "listing"} : Advance(r, from, "done")
    BY <1>5, <2>0 DEF RemoveRecent, ListRecent, CreationInv, Once
  <2>2. Once(recent') \/ UNCHANGED recent
    BY <1>5, <2>1, ListsOnce DEF RemoveRecent, ListRecent, WriteRecent
  <2> QED
    BY <1>5, <2>0, <2>1, <2>2, RecentStep DEF RemoveRecent, ListRecent
<1>6. ASSUME NEW r \in RecentTasks, NEW p \in Directories, NEW how \in {"loading", "removing", "listing"},
             AskRecent(r, p, how)
      PROVE  CreationInv'
  <2>0. /\ r \in Requesters /\ UNCHANGED <<temp, project, nested, removed, recent>>
        /\ stage[r] = "idle" /\ stage' = [stage EXCEPT ![r] = how]
        /\ target' = [target EXCEPT ![r] = p] /\ snapshot' = [snapshot EXCEPT ![r] = recent]
    BY <1>6 DEF Requesters, AskRecent, Advance
  <2>1. /\ stage' \in [Requesters -> CreationStages]
        /\ stage'[r] = how /\ \A q \in Requesters \ {r} : stage'[q] = stage[q]
    BY <2>0 DEF CreationInv, CreationStages
  <2>2. /\ DOMAIN target' = Requesters /\ target'[r] = p
        /\ \A q \in Requesters \ {r} : target'[q] = target[q]
        /\ target' = [q \in Requesters |-> target'[q]]
    BY <2>0 DEF CreationInv
  <2>3. /\ target' \in [Requesters -> {target'[q] : q \in Requesters}]
        /\ \A q \in Requesters : stage'[q] # "idle" => target'[q] \in Directories
    BY <2>1, <2>2 DEF CreationInv
  <2>4. snapshot' \in [Requesters -> {list \in Seq(Directories) : IsInjective(list)}]
    BY <2>0 DEF CreationInv, Once
  <2>5. \A q \in Creators :
         /\ stage'[q] \notin {"checked", "made", "built"} => temp'[q] = "none"
         /\ stage'[q] = "built" => temp'[q] = "built"
    BY <2>0, <2>1 DEF CreationInv, Requesters
  <2>6. /\ Once(recent)' /\ AppearsBuilt' /\ temp' \in [Creators -> {"none", "empty", "built"}]
        /\ project' \in [Directories -> Built \cup {Empty}]
        /\ nested' \in [Directories -> SUBSET Creators] /\ removed' \in [Directories -> SUBSET Creators]
    BY <2>0 DEF CreationInv, Once, AppearsBuilt
  <2>7. MovedThere'
    BY <2>0, <2>1, <2>2 DEF CreationInv, MovedThere, Requesters
  <2> QED
    BY <2>1, <2>3, <2>4, <2>5, <2>6, <2>7 DEF CreationInv
<1>7. ASSUME NEW p \in Directories, RemoveProject(p) PROVE CreationInv'
  <2>1. /\ project' = [project EXCEPT ![p] = Empty] /\ project[p] # Empty
        /\ nested' = [nested EXCEPT ![p] = {}]
        /\ removed' = [removed EXCEPT ![p] = @ \cup {project[p].by} \cup nested[p]]
        /\ UNCHANGED <<stage, target, temp, recent, snapshot>>
    BY <1>7 DEF RemoveProject
  <2>2. project[p].by \in Creators
    BY <2>1 DEF CreationInv, Built
  <2>3. /\ project' \in [Directories -> Built \cup {Empty}]
        /\ nested' \in [Directories -> SUBSET Creators] /\ removed' \in [Directories -> SUBSET Creators]
        /\ \A d \in Directories : removed[d] \subseteq removed'[d]
        /\ removed'[p] = removed[p] \cup {project[p].by} \cup nested[p]
        /\ \A d \in Directories \ {p} : project'[d] = project[d] /\ nested'[d] = nested[d]
        /\ project'[p] = Empty
    BY <2>1, <2>2 DEF CreationInv
  <2>4. AppearsBuilt'
    <3> SUFFICES ASSUME NEW d \in Directories, project'[d] # Empty
                 PROVE  project'[d].built \/ project'[d].by \in removed'[d]
      BY DEF AppearsBuilt
    <3>1. project'[d] = project[d] /\ removed[d] \subseteq removed'[d]
      BY <2>3
    <3>2. project[d].built \/ project[d].by \in removed[d]
      BY <3>1 DEF CreationInv, AppearsBuilt
    <3> QED
      BY <3>1, <3>2
  <2>5. MovedThere'
    <3> SUFFICES ASSUME NEW r \in Creators, stage[r] = "moved"
                 PROVE  \/ r \in removed'[target[r]]
                        \/ /\ project'[target[r]] # Empty
                           /\ project'[target[r]].by = r \/ r \in nested'[target[r]]
      BY <2>1 DEF MovedThere
    <3>1. target[r] \in Directories
      BY DEF CreationInv, Requesters
    <3>2. \/ r \in removed[target[r]]
          \/ project[target[r]] # Empty /\ (project[target[r]].by = r \/ r \in nested[target[r]])
      BY DEF CreationInv, MovedThere
    <3> QED
      BY <2>3, <3>1, <3>2
  <2> QED
    BY <2>1, <2>3, <2>4, <2>5 DEF CreationInv, Once
<1> QED
  BY <1>1, <1>2, <1>3, <1>4, <1>5, <1>6, <1>7 DEF CreationNext, Requesters

LEMMA CreationBegins == CreationInit => CreationInv
<1> SUFFICES ASSUME CreationInit PROVE CreationInv
  OBVIOUS
<1>1. \A r \in Requesters : stage[r] = "idle"
  BY DEF CreationInit
<1>2. \A r \in Creators : temp[r] = "none" /\ stage[r] = "idle"
  BY DEF CreationInit, Requesters
<1>3. Once(recent) /\ snapshot \in [Requesters -> {list \in Seq(Directories) : IsInjective(list)}]
  BY ListsOnce DEF CreationInit, Once
<1>4. /\ AppearsBuilt /\ MovedThere /\ project \in [Directories -> Built \cup {Empty}]
      /\ nested \in [Directories -> SUBSET Creators] /\ removed \in [Directories -> SUBSET Creators]
  BY <1>2 DEF CreationInit, AppearsBuilt, MovedThere
<1>5. target = [r \in Requesters |-> target[r]] /\ target \in [Requesters -> {target[r] : r \in Requesters}]
  BY DEF CreationInit
<1>6. /\ stage \in [Requesters -> CreationStages]
      /\ temp \in [Creators -> {"none", "empty", "built"}]
  BY DEF CreationInit, CreationStages
<1> QED
  BY <1>1, <1>2, <1>3, <1>4, <1>5, <1>6 DEF CreationInv

LEMMA CreationKeeps == CreationInv => ProjectsKept
BY DEF CreationInv, ProjectsKept, NoTempLeft, RecentOnce, Once

-----------------------------------------------------------------------------
(***************************************************************************)
(* The source library.  An original that any list names, the manifest, one *)
(* a request has read or what an attachment has found, was brought in by   *)
(* an import that ended well; a file taken back is of one that failed.     *)
(***************************************************************************)
Imported(reqs, o) == o = NoSource \/ (o \in Workers /\ reqs[o].op = "import" /\ reqs[o].at = "done")

Distinct == {p \in Source \X Source : p[1].id # p[2].id}

Manifest(reqs, list) ==
  /\ list \in Seq(Source) /\ PairsAre(Distinct, list)
  /\ \A n \in DOMAIN list : Imported(reqs, list[n].original)

Requests == [op : {"none", "upsert", "import", "attach", "delete", "export"},
             id : Workers \cup {NoSource},
             at : {"idle", "file", "find", "copy", "read", "write", "done", "failed"},
             found : Workers \cup FileNames \cup {NoSource}]

LibraryInv ==
  /\ work \in [Workers -> Requests]
  /\ \A w \in Workers : /\ work[w].at # "idle" => work[w].id \in Workers
                        /\ work[w].op = "attach" => Imported(work, work[w].found)
                        /\ work[w].op = "import" => work[w].found \in FileNames \cup {NoSource}
                        /\ work[w].at = "write" /\ work[w].op # "export" => Manifest(work, Head(seen[w]))
                        /\ work[w].at = "find" => work[w].op \in {"import", "attach"}
  /\ seen = [w \in Workers |-> seen[w]]
  /\ Manifest(work, sources)
  /\ \A f \in undone : f \in Workers /\ work[f].op = "import" /\ work[f].at = "failed" /\ f \notin files

LEMMA LibraryFacts == NoSource \notin Workers
BY LibraryAssumption

(* What has been imported stays so.                                        *)
LEMMA ImportsStay ==
  ASSUME NEW w \in Workers, work[w].at # "done", \A other \in Workers \ {w} : work'[other] = work[other]
  PROVE  /\ \A o : Imported(work, o) => Imported(work', o)
         /\ \A list : Manifest(work, list) => Manifest(work', list)
<1>1. ASSUME NEW o, Imported(work, o) PROVE Imported(work', o)
  BY <1>1 DEF Imported
<1> QED
  BY <1>1 DEF Manifest

(* A request takes a step that changes nothing that others rely on.        *)
LEMMA LibraryRequest ==
  ASSUME LibraryInv, NEW w \in Workers, work[w].at # "done",
         NEW now \in Requests, work' = [work EXCEPT ![w] = now],
         now.id \in Workers, now.at # "idle",
         now.op = "attach" => Imported(work, now.found),
         now.op = "import" => now.found \in FileNames \cup {NoSource},
         seen' = seen \/ seen' = [seen EXCEPT ![w] = seen'[w]],
         now.at = "write" /\ now.op # "export" => Manifest(work, Head(seen'[w])),
         now.at = "find" => now.op \in {"import", "attach"},
         Manifest(work', sources'),
         files' \subseteq files \cup {w},
         \/ undone' = undone /\ work[w].at # "failed" /\ (w \in files' => w \in files \/ now.at # "failed")
         \/ undone' = undone \cup {w} /\ now.op = "import" /\ now.at = "failed" /\ w \notin files' /\ files' \subseteq files
  PROVE  LibraryInv'
<1>1. /\ work' \in [Workers -> Requests] /\ work'[w] = now
      /\ \A other \in Workers \ {w} : work'[other] = work[other]
  BY DEF LibraryInv
<1>2. /\ \A o : Imported(work, o) => Imported(work', o)
      /\ \A list : Manifest(work, list) => Manifest(work', list)
  BY <1>1, ImportsStay
<1>3. /\ seen' = [other \in Workers |-> seen'[other]]
      /\ \A other \in Workers \ {w} : seen'[other] = seen[other]
  BY DEF LibraryInv
<1>4. ASSUME NEW v \in Workers
      PROVE  /\ work'[v].at # "idle" => work'[v].id \in Workers
             /\ work'[v].op = "attach" => Imported(work', work'[v].found)
             /\ work'[v].op = "import" => work'[v].found \in FileNames \cup {NoSource}
             /\ work'[v].at = "write" /\ work'[v].op # "export" => Manifest(work', Head(seen'[v]))
             /\ work'[v].at = "find" => work'[v].op \in {"import", "attach"}
  <2>1. CASE v = w
    BY <1>1, <1>2, <2>1
  <2>2. CASE v # w
    <3>1. work'[v] = work[v] /\ seen'[v] = seen[v]
      BY <1>1, <1>3, <2>2
    <3> QED
      BY <1>2, <3>1 DEF LibraryInv
  <2> QED
    BY <2>1, <2>2
<1>6. \/ undone' = undone /\ work[w].at # "failed"
      \/ now.op = "import" /\ now.at = "failed" /\ w \notin files'
  BY Zenon
<1>7. undone' \subseteq undone \cup {w} /\ files' \subseteq files \cup {w}
  <2>1. undone' = undone \/ undone' = undone \cup {w}
    BY Zenon
  <2> QED
    BY <2>1
<1>5. \A f \in undone' : f \in Workers /\ work'[f].op = "import" /\ work'[f].at = "failed" /\ f \notin files'
  <2> SUFFICES ASSUME NEW f \in undone'
               PROVE  f \in Workers /\ work'[f].op = "import" /\ work'[f].at = "failed" /\ f \notin files'
    OBVIOUS
  <2>0. \A v \in undone : v \in Workers /\ work[v].op = "import" /\ work[v].at = "failed" /\ v \notin files
    BY DEF LibraryInv
  <2>1. CASE f = w
    <3>1. work[w].at # "failed" => w \notin undone
      BY <2>0
    <3>2. now.op = "import" /\ now.at = "failed" /\ w \notin files'
      BY <1>6, <2>1, <3>1, Zenon
    <3> QED
      BY <1>1, <2>1, <3>2
  <2>2. CASE f # w
    <3>1. f \in undone
      BY <1>7, <2>2
    <3>2. f \in Workers /\ work[f].op = "import" /\ work[f].at = "failed" /\ f \notin files
      BY <2>0, <3>1
    <3>3. work'[f] = work[f]
      BY <1>1, <2>2, <3>2
    <3> QED
      BY <1>7, <2>2, <3>2, <3>3
  <2> QED
    BY <2>1, <2>2
<1> QED
  BY <1>1, <1>3, <1>4, <1>5 DEF LibraryInv

(* The entry a request writes replaces the one with its id or comes first. *)
LEMMA ReplacedSources ==
  ASSUME NEW list \in Seq(Source), PairsAre(Distinct, list), NEW entry \in Source
  PROVE  /\ Replaced(list, entry) \in Seq(Source) /\ PairsAre(Distinct, Replaced(list, entry))
         /\ \A n \in DOMAIN Replaced(list, entry) :
               \/ Replaced(list, entry)[n] = entry
               \/ \E m \in DOMAIN list : Replaced(list, entry)[n] = list[m]
<1> DEFINE new == Replaced(list, entry)
<1>0. /\ Len(list) \in Nat /\ DOMAIN list = 1..Len(list)
      /\ \A n \in DOMAIN list : list[n] \in Source
      /\ \A m, n \in DOMAIN list : m # n => list[m].id # list[n].id
  <2>1. Len(list) \in Nat /\ DOMAIN list = 1..Len(list) /\ \A n \in DOMAIN list : list[n] \in Source
    OBVIOUS
  <2>2. ASSUME NEW m \in DOMAIN list, NEW n \in DOMAIN list, m # n PROVE list[m].id # list[n].id
    <3>1. <<list[m], list[n]>> \in Distinct
      BY <2>2 DEF PairsAre
    <3> QED
      BY <3>1 DEF Distinct
  <2> QED
    BY <2>1, <2>2
<1>1. CASE KnownSources(list, entry.id)
  <2>1. new = [n \in 1..Len(list) |-> IF list[n].id = entry.id THEN entry ELSE list[n]]
    BY <1>0, <1>1 DEF Replaced
  <2> HIDE DEF new
  <2>2. DOMAIN new = 1..Len(list) /\ \A n \in 1..Len(list) : new[n] \in Source /\ new[n].id = list[n].id
    BY <1>0, <2>1
  <2>3. new \in Seq(Source)
    BY <1>0, <2>1, <2>2
  <2>4. PairsAre(Distinct, new)
    <3> SUFFICES ASSUME NEW m \in DOMAIN new, NEW n \in DOMAIN new, m # n PROVE <<new[m], new[n]>> \in Distinct
      BY DEF PairsAre
    <3>1. new[m] \in Source /\ new[n] \in Source /\ new[m].id # new[n].id
      BY <1>0, <2>2
    <3> QED
      BY <3>1 DEF Distinct
  <2>5. \A n \in DOMAIN new : new[n] = entry \/ \E m \in DOMAIN list : new[n] = list[m]
    BY <1>0, <2>1
  <2> QED
    BY <2>3, <2>4, <2>5 DEF new
<1>2. CASE ~KnownSources(list, entry.id)
  <2>1. new = <<entry>> \o list /\ \A n \in DOMAIN list : list[n].id # entry.id
    BY <1>2 DEF Replaced, KnownSources
  <2> HIDE DEF new
  <2>2. /\ new \in Seq(Source) /\ Len(new) = Len(list) + 1 /\ new[1] = entry
        /\ \A n \in 1..Len(list) : new[n + 1] = list[n]
    BY <1>0, <2>1
  <2>3. \A n \in DOMAIN new : (n = 1 /\ new[n] = entry) \/ (n - 1 \in DOMAIN list /\ new[n] = list[n - 1])
    BY <1>0, <2>2
  <2>4. \A n \in DOMAIN new : new[n] \in Source /\ n \in Nat
    BY <1>0, <2>2
  <2>5. ASSUME NEW m \in DOMAIN new, NEW n \in DOMAIN new, m # n PROVE new[m].id # new[n].id
    <3>1. CASE m = 1
      BY <2>1, <2>3, <2>5, <3>1
    <3>2. CASE n = 1
      BY <2>1, <2>3, <2>5, <3>2
    <3>3. CASE m # 1 /\ n # 1
      <4>1. m - 1 \in DOMAIN list /\ n - 1 \in DOMAIN list /\ m - 1 # n - 1
        BY <2>3, <2>4, <2>5, <3>3
      <4> QED
        BY <1>0, <2>3, <3>3, <4>1
    <3> QED
      BY <3>1, <3>2, <3>3
  <2>6. PairsAre(Distinct, new)
    BY <2>4, <2>5 DEF PairsAre, Distinct
  <2>7. \A n \in DOMAIN new : new[n] = entry \/ \E m \in DOMAIN list : new[n] = list[m]
    BY <2>3
  <2> QED
    BY <2>2, <2>6, <2>7 DEF new
<1> QED
  BY <1>1, <1>2

(* A known source's entry.                                                 *)
LEMMA EntryIsKnown ==
  ASSUME NEW list, Manifest(work, list), NEW id, KnownSources(list, id)
  PROVE  Entry(list, id) \in Source /\ Imported(work, Entry(list, id).original)
<1>1. PICK n \in DOMAIN list : n = CHOOSE m \in DOMAIN list : list[m].id = id
  BY DEF KnownSources
<1>2. Entry(list, id) = list[n]
  BY <1>1 DEF Entry
<1> QED
  BY <1>1, <1>2 DEF Manifest

(* Changing one or two of a request's fields.                              *)
LEMMA RequestType ==
  ASSUME LibraryInv, NEW w \in Workers, NEW k \in {"idle", "file", "find", "copy", "read", "write", "done", "failed"}
  PROVE  /\ work[w] \in Requests
         /\ [work[w] EXCEPT !.at = k] \in Requests
         /\ [work[w] EXCEPT !.at = k].at = k
         /\ [work[w] EXCEPT !.at = k].op = work[w].op
         /\ [work[w] EXCEPT !.at = k].id = work[w].id
         /\ [work[w] EXCEPT !.at = k].found = work[w].found
BY DEF LibraryInv, Requests

(* The steps that write no list.                                           *)
LEMMA ReadStep ==
  ASSUME LibraryInv, NEW w \in Workers,
         \/ \E op \in {"upsert", "import", "attach", "delete", "export"}, id \in Workers : Arrive(w, op, id)
         \/ StoreFile(w) \/ FindSource(w) \/ CopyTranslation(w) \/ ReadManifest(w) \/ EntryFails(w)
         \/ DeleteHalfway(w)
  PROVE  LibraryInv'
<1> DEFINE Ats == {"idle", "file", "find", "copy", "read", "write", "done", "failed"}
<1>0. /\ UNCHANGED sources /\ Manifest(work, sources) /\ work[w] \in Requests
      /\ work[w].at # "idle" => work[w].id \in Workers
      /\ work[w].op = "attach" => Imported(work, work[w].found)
      /\ work[w].op = "import" => work[w].found \in FileNames \cup {NoSource}
      /\ work[w].at \notin {"done", "failed"}
  BY DEF LibraryInv, Arrive, StoreFile, FindSource, CopyTranslation, ReadManifest, EntryFails, DeleteHalfway, At
<1>1. ASSUME NEW now \in Requests, work' = [work EXCEPT ![w] = now] PROVE Manifest(work', sources')
  <2>1. \A other \in Workers \ {w} : work'[other] = work[other]
    BY <1>1 DEF LibraryInv
  <2>2. \A list : Manifest(work, list) => Manifest(work', list)
    BY <1>0, <2>1, ImportsStay
  <2> QED
    BY <1>0, <2>2
<1>2. ASSUME NEW k \in Ats
      PROVE  /\ [work[w] EXCEPT !.at = k] \in Requests
             /\ [work[w] EXCEPT !.at = k].at = k
             /\ [work[w] EXCEPT !.at = k].op = work[w].op
             /\ [work[w] EXCEPT !.at = k].id = work[w].id
             /\ [work[w] EXCEPT !.at = k].found = work[w].found
  BY RequestType, ZenonT(40)
<1>3. ASSUME NEW k \in Ats \ {"idle", "find", "write"}, work' = [work EXCEPT ![w].at = k],
             seen' = seen \/ seen' = [seen EXCEPT ![w] = <<>>], work[w].at # "idle",
             files' \subseteq files \cup {w},
             \/ undone' = undone /\ (w \in files' => w \in files \/ k # "failed")
             \/ undone' = undone \cup {w} /\ work[w].op = "import" /\ k = "failed" /\ w \notin files' /\ files' \subseteq files
      PROVE  LibraryInv'
  <2> DEFINE now == [work[w] EXCEPT !.at = k]
  <2>1. /\ work' = [work EXCEPT ![w] = now] /\ now \in Requests /\ now.at = k /\ now.op = work[w].op
        /\ now.id = work[w].id /\ now.found = work[w].found
    BY <1>2, <1>3
  <2> HIDE DEF now
  <2>2. Manifest(work', sources')
    BY <1>1, <2>1
  <2>3. seen' = seen \/ seen' = [seen EXCEPT ![w] = seen'[w]]
    BY <1>3 DEF LibraryInv
  <2> QED
    BY <1>0, <1>3, <2>1, <2>2, <2>3, LibraryRequest
<1>4. CASE \E op \in {"upsert", "import", "attach", "delete", "export"}, id \in Workers : Arrive(w, op, id)
  <2>1. PICK op \in {"upsert", "import", "attach", "delete", "export"}, id \in Workers : Arrive(w, op, id)
    BY <1>4
  <2> DEFINE now == [op |-> op, id |-> id, at |-> First[op], found |-> NoSource]
  <2>2. /\ now \in Requests /\ now.id \in Workers /\ now.at \in {"read", "file", "find"}
        /\ now.op = "attach" => Imported(work, now.found)
        /\ now.op = "import" => now.found \in FileNames \cup {NoSource}
        /\ now.at = "find" => now.op \in {"import", "attach"}
        /\ now.at # "failed"
    BY DEF First, Requests, Imported
  <2>3. work' = [work EXCEPT ![w] = now] /\ UNCHANGED <<seen, files, undone>>
    BY <2>1 DEF Arrive
  <2> HIDE DEF now
  <2>4. Manifest(work', sources')
    BY <1>1, <2>2, <2>3
  <2> QED
    BY <1>0, <2>2, <2>3, <2>4, LibraryRequest
<1>5. CASE StoreFile(w)
  <2> DEFINE now == [work[w] EXCEPT !.at = "find"]
  <2>1. /\ work' = [work EXCEPT ![w] = now] /\ work[w].op = "import" /\ work[w].at = "file"
        /\ UNCHANGED <<seen, undone>> /\ files' = files \cup {w}
    BY <1>5 DEF StoreFile, At
  <2>2. /\ now \in Requests /\ now.at = "find" /\ now.op = work[w].op
        /\ now.id = work[w].id /\ now.found = work[w].found
    BY <1>2
  <2> HIDE DEF now
  <2>3. Manifest(work', sources')
    BY <1>1, <2>1, <2>2
  <2> QED
    BY <1>0, <2>1, <2>2, <2>3, LibraryRequest
<1>6. CASE FindSource(w)
  <2> DEFINE id == work[w].id
  <2>1. UNCHANGED seen /\ work[w].at = "find"
    BY <1>6 DEF FindSource
  <2>2. CASE KnownSources(sources, id)
    <3> DEFINE entry == Entry(sources, id)
               got == IF work[w].op = "attach" THEN entry.original ELSE entry.translated
               k == IF work[w].op = "attach" THEN "copy" ELSE "read"
               now == [[work[w] EXCEPT !.at = k] EXCEPT !.found = got]
    <3>1. entry \in Source /\ Imported(work, entry.original)
      BY <1>0, <2>2, EntryIsKnown
    <3>2. /\ got \in Workers \cup FileNames \cup {NoSource} /\ (work[w].op = "attach" => Imported(work, got))
          /\ work[w].op = "import" => got \in FileNames \cup {NoSource}
      BY <3>1 DEF Source
    <3>3. work' = [work EXCEPT ![w].at = k, ![w].found = got] /\ UNCHANGED <<files, undone>>
      BY <1>6, <2>2 DEF FindSource
    <3>4. k \in Ats /\ k \in {"copy", "read"}
      OBVIOUS
    <3> HIDE DEF got, k
    <3>5. /\ now \in Requests /\ now.at = k /\ now.op = work[w].op
          /\ now.id = work[w].id /\ now.found = got
      BY <1>2, <3>2, <3>4, ZenonT(40) DEF Requests
    <3>6. work' = [work EXCEPT ![w] = now]
      BY <3>3 DEF LibraryInv
    <3> HIDE DEF now
    <3>7. Manifest(work', sources')
      BY <1>1, <3>5, <3>6
    <3> QED
      BY <1>0, <2>1, <3>2, <3>3, <3>4, <3>5, <3>6, <3>7, LibraryRequest
  <2>3. CASE ~KnownSources(sources, id) /\ work[w].op = "import" /\ id = w
    BY <1>3, <1>6, <2>1, <2>3 DEF FindSource
  <2>4. CASE ~KnownSources(sources, id) /\ ~(work[w].op = "import" /\ id = w)
    BY <1>3, <1>6, <2>1, <2>4 DEF FindSource, TakeBack
  <2> QED
    BY <2>2, <2>3, <2>4
<1>7. CASE CopyTranslation(w)
  BY <1>3, <1>7 DEF CopyTranslation, At
<1>8. CASE ReadManifest(w)
  <2>1. CASE work[w].op = "delete" /\ ~KnownSources(sources, work[w].id)
    <3> DEFINE now == [work[w] EXCEPT !.at = "failed"]
    <3>1. /\ work' = [work EXCEPT ![w] = now] /\ UNCHANGED <<undone, files>> /\ work[w].at = "read"
          /\ seen' = [seen EXCEPT ![w] = <<sources>>]
      BY <1>8, <2>1 DEF ReadManifest
    <3>2. /\ now \in Requests /\ now.at = "failed" /\ now.op = work[w].op
          /\ now.id = work[w].id /\ now.found = work[w].found
      BY <1>2
    <3> HIDE DEF now
    <3>3. Manifest(work', sources') /\ seen' = [seen EXCEPT ![w] = seen'[w]]
      BY <1>1, <3>1, <3>2 DEF LibraryInv
    <3> QED
      BY <1>0, <3>1, <3>2, <3>3, LibraryRequest
  <2>2. CASE ~(work[w].op = "delete" /\ ~KnownSources(sources, work[w].id))
    <3> DEFINE now == [work[w] EXCEPT !.at = "write"]
               list == IF work[w].op = "export" THEN exports ELSE sources
    <3>1. /\ work' = [work EXCEPT ![w] = now] /\ UNCHANGED <<undone, files>> /\ work[w].at = "read"
          /\ seen' = [seen EXCEPT ![w] = <<list>>]
      BY <1>8, <2>2 DEF ReadManifest
    <3>2. /\ now \in Requests /\ now.at = "write" /\ now.op = work[w].op
          /\ now.id = work[w].id /\ now.found = work[w].found
      BY <1>2
    <3> HIDE DEF now
    <3>3. now.op # "export" => Manifest(work, list)
      BY <1>0, <3>2
    <3> HIDE DEF list
    <3>4. seen'[w] = <<list>> /\ seen' = [seen EXCEPT ![w] = seen'[w]] /\ Head(<<list>>) = list
      BY <3>1 DEF LibraryInv
    <3>5. Manifest(work', sources')
      BY <1>1, <3>1, <3>2
    <3> QED
      BY <1>0, <3>1, <3>2, <3>3, <3>4, <3>5, LibraryRequest
  <2> QED
    BY <2>1, <2>2
<1>9. CASE EntryFails(w)
  BY <1>3, <1>9 DEF EntryFails, TakeBack
<1>10. CASE DeleteHalfway(w)
  BY <1>3, <1>10 DEF DeleteHalfway, At
<1> QED
  BY <1>4, <1>5, <1>6, <1>7, <1>8, <1>9, <1>10

(* What a request has ended with is a manifest.                            *)
LEMMA WrittenStep ==
  ASSUME LibraryInv, NEW w \in Workers, work[w].at = "write", work' = [work EXCEPT ![w].at = "done"],
         seen' = [seen EXCEPT ![w] = <<>>], UNCHANGED undone, files' \subseteq files,
         Manifest(work', sources')
  PROVE  LibraryInv'
<1> DEFINE now == [work[w] EXCEPT !.at = "done"]
<1>1. /\ work' = [work EXCEPT ![w] = now] /\ now \in Requests /\ now.at = "done" /\ now.op = work[w].op
      /\ now.id = work[w].id /\ now.found = work[w].found
  BY RequestType
<1> HIDE DEF now
<1>2. /\ work[w].id \in Workers /\ (work[w].op = "attach" => Imported(work, work[w].found))
      /\ work[w].op = "import" => work[w].found \in FileNames \cup {NoSource}
      /\ seen' = [seen EXCEPT ![w] = seen'[w]]
  BY DEF LibraryInv
<1> QED
  BY <1>1, <1>2, LibraryRequest

LEMMA WriteStep ==
  ASSUME LibraryInv, NEW w \in Workers,
         \/ \E original \in Attached, translated \in TranslatedAs : WriteEntry(w, original, translated)
         \/ DeleteSource(w, TRUE) \/ DeleteSource(w, FALSE) \/ RecordExport(w)
  PROVE  LibraryInv'
<1>0. /\ work[w].at = "write" /\ work' = [work EXCEPT ![w].at = "done"]
      /\ seen' = [seen EXCEPT ![w] = <<>>] /\ UNCHANGED undone /\ files' \subseteq files
      /\ work[w] \in Requests
  BY DEF WriteEntry, DeleteSource, RecordExport, At, LibraryInv
<1>1. /\ work'[w].at = "done" /\ work'[w].op = work[w].op /\ \A other \in Workers \ {w} : work'[other] = work[other]
  BY <1>0 DEF LibraryInv, Requests
<1>2. /\ \A o : Imported(work, o) => Imported(work', o)
      /\ \A list : Manifest(work, list) => Manifest(work', list)
  BY <1>0, <1>1, ImportsStay
<1>3. Manifest(work', sources')
  <2>1. CASE \E original \in Attached, translated \in TranslatedAs : WriteEntry(w, original, translated)
    <3>1. PICK original \in Attached, translated \in TranslatedAs : WriteEntry(w, original, translated)
      BY <2>1
    <3> DEFINE list  == Head(seen[w])
               entry == Entered(w, original, translated)
    <3>2. /\ work[w].op \in {"upsert", "import", "attach"} /\ sources' = Replaced(list, entry)
          /\ Manifest(work, list) /\ work[w].id \in Workers
          /\ work[w].op = "attach" => Imported(work, work[w].found)
          /\ work[w].op = "import" => work[w].found \in FileNames \cup {NoSource}
      BY <1>0, <3>1 DEF WriteEntry, LibraryInv
    <3>3. /\ original = NoSource \/ (original \in Workers /\ Imported(work, original))
          /\ translated \in FileNames \cup {NoSource}
      <4>1. Manifest(work, sources)
        BY DEF LibraryInv
      <4>2. \A n \in DOMAIN sources : sources[n] \in Source
        BY <4>1 DEF Manifest
      <4> QED
        BY <4>1, <4>2 DEF Attached, TranslatedAs, Manifest, Imported, Source
    <3>4. entry \in Source /\ Imported(work', entry.original)
      <4>1. CASE work[w].op = "import"
        <5>1. entry = [id |-> work[w].id, original |-> w, translated |-> work[w].found]
          BY <4>1 DEF Entered
        <5>2. work[w].found \in FileNames \cup {NoSource} /\ entry.original = w
          BY <3>2, <4>1, <5>1
        <5>3. entry \in Source
          BY <3>2, <5>1, <5>2 DEF Source
        <5>4. Imported(work', w)
          BY <1>1, <4>1 DEF Imported
        <5> QED
          BY <5>2, <5>3, <5>4
      <4>2. CASE work[w].op = "attach"
        <5>1. entry = [id |-> work[w].id, original |-> work[w].found, translated |-> TranslatedName(w)]
          BY <4>2 DEF Entered
        <5>2. work[w].found \in Workers \cup {NoSource} /\ entry.original = work[w].found
          BY <3>2, <4>2, <5>1 DEF Imported
        <5>4. TranslatedName(w) \in FileNames
          BY <3>2, <5>2 DEF TranslatedName, FileNames
        <5>3. Imported(work', work[w].found)
          BY <1>2, <3>2, <4>2
        <5> QED
          BY <3>2, <5>1, <5>2, <5>3, <5>4 DEF Source
      <4>3. CASE work[w].op = "upsert"
        <5>1. entry = [id |-> work[w].id, original |-> original, translated |-> translated]
          BY <4>3 DEF Entered
        <5> QED
          BY <1>2, <3>2, <3>3, <5>1 DEF Source, Imported
      <4> QED
        BY <3>2, <4>1, <4>2, <4>3
    <3> HIDE DEF list, entry
    <3>5. Manifest(work', list)
      BY <1>2, <3>2
    <3>6. /\ sources' \in Seq(Source) /\ PairsAre(Distinct, sources')
          /\ \A n \in DOMAIN sources' : sources'[n] = entry \/ \E m \in DOMAIN list : sources'[n] = list[m]
      BY <3>2, <3>4, ReplacedSources DEF Manifest
    <3> QED
      BY <3>4, <3>5, <3>6 DEF Manifest
  <2>2. CASE DeleteSource(w, TRUE) \/ DeleteSource(w, FALSE)
    <3> DEFINE list == Head(seen[w])
               K    == {n \in DOMAIN list : list[n].id # work[w].id}
    <3>1. sources' = Kept(list, K) /\ work[w].op = "delete"
      BY <2>2 DEF DeleteSource, At
    <3>2. Manifest(work, list)
      BY <1>0, <3>1 DEF LibraryInv
    <3> HIDE DEF list, K
    <3>3. Manifest(work', list)
      BY <1>2, <3>2
    <3>4. /\ sources' \in Seq(Source) /\ PairsAre(Distinct, sources')
          /\ ToSet(sources') = {list[n] : n \in K \cap DOMAIN list}
      BY <3>1, <3>2, KeptElements DEF Manifest
    <3>5. \A n \in DOMAIN sources' : \E m \in DOMAIN list : sources'[n] = list[m]
      BY <3>4 DEF ToSet
    <3> QED
      BY <3>3, <3>4, <3>5 DEF Manifest
  <2>3. CASE RecordExport(w)
    BY <1>2, <2>3 DEF RecordExport, LibraryInv
  <2> QED
    BY <2>1, <2>2, <2>3
<1> QED
  BY <1>0, <1>3, WrittenStep

LEMMA LibraryStep == LibraryInv /\ [LibraryNext]_libraryVars => LibraryInv'
<1> SUFFICES ASSUME LibraryInv, [LibraryNext]_libraryVars PROVE LibraryInv'
  OBVIOUS
<1>1. CASE UNCHANGED libraryVars
  BY <1>1, SMTT(30) DEF libraryVars, LibraryInv, Manifest, Imported
<1>2. ASSUME NEW w \in Workers,
             \/ \E op \in {"upsert", "import", "attach", "delete", "export"}, id \in Workers : Arrive(w, op, id)
             \/ StoreFile(w) \/ FindSource(w) \/ CopyTranslation(w) \/ ReadManifest(w) \/ EntryFails(w)
             \/ DeleteHalfway(w)
      PROVE  LibraryInv'
  BY <1>2, ReadStep
<1>3. ASSUME NEW w \in Workers,
             \/ \E original \in Attached, translated \in TranslatedAs : WriteEntry(w, original, translated)
             \/ DeleteSource(w, TRUE) \/ DeleteSource(w, FALSE) \/ RecordExport(w)
      PROVE  LibraryInv'
  BY <1>3, WriteStep
<1> QED
  BY <1>1, <1>2, <1>3 DEF LibraryNext

LEMMA LibraryBegins == LibraryInit => LibraryInv
<1> SUFFICES ASSUME LibraryInit PROVE LibraryInv
  OBVIOUS
<1>1. Manifest(work, sources)
  BY DEF LibraryInit, Manifest, PairsAre
<1>2. \A w \in Workers : work[w] = LibIdle
  BY DEF LibraryInit
<1>3. LibIdle \in Requests /\ LibIdle.at = "idle" /\ LibIdle.op = "none"
  BY DEF LibIdle, Requests
<1>4. work \in [Workers -> Requests] /\ seen = [w \in Workers |-> seen[w]] /\ undone = {}
  BY <1>3 DEF LibraryInit
<1> QED
  BY <1>1, <1>2, <1>3, <1>4 DEF LibraryInv

LEMMA LibraryIsKept == LibraryInv => LibraryKept
<1> SUFFICES ASSUME LibraryInv PROVE LibraryKept
  OBVIOUS
<1>1. Manifest(work, sources)
  BY DEF LibraryInv
<1>2. OneEntryEach
  <2> SUFFICES ASSUME NEW m \in DOMAIN sources, NEW n \in DOMAIN sources, m # n
               PROVE  sources[m].id # sources[n].id
    BY DEF OneEntryEach
  <2>1. <<sources[m], sources[n]>> \in Distinct
    BY <1>1 DEF Manifest, PairsAre
  <2> QED
    BY <2>1 DEF Distinct
<1>3. TakenBackIsGone
  <2> SUFFICES ASSUME NEW f \in undone PROVE f \notin files /\ \A n \in DOMAIN sources : sources[n].original # f
    BY DEF TakenBackIsGone
  <2>1. f \in Workers /\ work[f].at = "failed" /\ f \notin files
    BY DEF LibraryInv
  <2> QED
    BY <1>1, <2>1, LibraryFacts DEF Manifest, Imported
<1> QED
  BY <1>2, <1>3 DEF LibraryKept

-----------------------------------------------------------------------------
(***************************************************************************)
(* The window's view of a translation.  As long as no request was          *)
(* outstanding when the user went on, one call at most is live: it uploads *)
(* or its stream is the current one, and what is shown is its task's.      *)
(***************************************************************************)
Live(f) == calls[f].at = "uploading" \/ (calls[f].at # "none" /\ calls[f].id = streamId)

Owners == Files \cup {Blankness}
Views == [status : InProgress \cup {"idle", "done", "error"}, offline : BOOLEAN,
               task : Owners, skeleton : Owners, texts : [Parts -> Owners], content : Owners]
AnyCall == [at : {"none", "uploading", "connecting", "aborted", "open", "waiting"},
            id : Nat, attempt : Nat, told : BOOLEAN]

Logs == [drops : Nat, overlap : BOOLEAN, booting : BOOLEAN]

ViewTypes ==
  /\ view \in Views
  /\ calls \in [Files -> AnyCall] /\ streamId \in Nat
  /\ viewLog \in Logs
  /\ retried \subseteq Files \X Parts /\ stored \in Owners

(* Streams are numbered on, and the current one is the controller's.       *)
StreamsNumbered ==
  /\ \A f \in Files : calls[f].id <= streamId
  /\ \A f \in Files : calls[f].at \notin {"none", "uploading"} /\ calls[f].id = streamId => controller = f

OneLive ==
  /\ \A f \in Files : calls[f].at # "aborted" /\ (calls[f].at = "connecting" => calls[f].id = streamId)
  /\ \A f, g \in Files : Live(f) /\ Live(g) => f = g
  /\ reconnecting => \E f \in Files : calls[f].at = "waiting" /\ calls[f].id = streamId

(* What is shown while a call uploads, and while its stream is read.       *)
ShowsLive ==
  /\ \A f \in Files : calls[f].at = "uploading" =>
       /\ view.status # "done" /\ retried = {}
       /\ view.task = Blankness /\ view.skeleton = Blankness /\ view.content = Blankness
       /\ \A blk \in Parts : view.texts[blk] = Blankness
  /\ \A f \in Files : Live(f) /\ calls[f].at # "uploading" => view.task = f

ShowsOne ==
  /\ view.skeleton \in {view.task, Blankness} /\ view.content \in {view.task, Blankness}
  /\ \A blk \in Parts : view.texts[blk] \in {view.task, Blankness}

(* What is asked for again and what is stored are the task's.              *)
RetriesOwn ==
  /\ \A p \in retried : p[1] = view.task
  /\ retried # {} \/ view.status = "done" => stored = view.task

Waited == view.status \in InProgress => \E f \in Files : Live(f)

Quiet == OneLive /\ ShowsLive /\ ShowsOne /\ RetriesOwn /\ Waited

ViewInv == ViewTypes /\ StreamsNumbered /\ (~viewLog.overlap => Quiet)

LEMMA ViewFacts == Blankness \notin Files /\ StoredBefore \in Owners /\ MaxReconnects \in Nat /\ MaxDrops \in Nat
BY ViewAssumption DEF Owners

LEMMA FreshType ==
  FreshView \in Views
BY DEF Views, FreshView, Owners

LEMMA NotCalledType == NotCalled \in AnyCall /\ NotCalled.at = "none" /\ NotCalled.id = 0
BY DEF NotCalled, AnyCall

(* What a reset makes of the calls.                                        *)
LEMMA AbortType ==
  ASSUME ViewTypes, NEW f
  PROVE  /\ AbortOf(f) \in [Files -> AnyCall]
         /\ \A g \in Files : /\ AbortOf(f)[g].id = calls[g].id
                             /\ AbortOf(f)[g].at = IF g = f /\ calls[g].at = "connecting" THEN "aborted"
                                                   ELSE calls[g].at
<1>1. ASSUME NEW g \in Files
      PROVE  /\ [calls[g] EXCEPT !.at = "aborted"] \in AnyCall
             /\ [calls[g] EXCEPT !.at = "aborted"].id = calls[g].id
             /\ [calls[g] EXCEPT !.at = "aborted"].at = "aborted"
             /\ calls[g] \in AnyCall
  BY DEF ViewTypes, AnyCall
<1> QED
  BY <1>1 DEF AbortOf

(* Adding to the log.                                                      *)
LEMMA LogType ==
  ASSUME NEW log \in Logs, NEW bit \in BOOLEAN
  PROVE  /\ [log EXCEPT !.drops = @ + 1, !.overlap = bit] \in Logs
         /\ [log EXCEPT !.drops = @ + 1, !.overlap = bit].overlap = bit
<1> DEFINE more == [log EXCEPT !.drops = @ + 1]
<1>1. more \in Logs /\ [log EXCEPT !.drops = @ + 1, !.overlap = bit] = [more EXCEPT !.overlap = bit]
  BY DEF Logs
<1> HIDE DEF more
<1>2. [more EXCEPT !.overlap = bit] \in Logs /\ [more EXCEPT !.overlap = bit].overlap = bit
  BY <1>1 DEF Logs
<1> QED
  BY <1>1, <1>2

(* Whether anything was outstanding is kept in the log.                    *)
LEMMA LogStep ==
  ASSUME ViewTypes, viewLog' = [viewLog EXCEPT !.drops = @ + 1, !.overlap = @ \/ Outstanding]
  PROVE  /\ viewLog' \in Logs
         /\ ~viewLog'.overlap => ~viewLog.overlap /\ ~Outstanding
<1> DEFINE over == viewLog.overlap \/ Outstanding
<1>1. over \in BOOLEAN
  <2>1. (viewLog.overlap \/ Outstanding) \in {TRUE, FALSE}
    BY Zenon
  <2> QED
    BY <2>1
<1>2. ~over => ~viewLog.overlap /\ ~Outstanding
  BY Zenon
<1>5. viewLog' = [viewLog EXCEPT !.drops = @ + 1, !.overlap = over]
  BY Zenon
<1>3. viewLog \in Logs
  BY DEF ViewTypes
<1> HIDE DEF over
<1>6. viewLog' \in Logs /\ viewLog'.overlap = over
  BY <1>1, <1>3, <1>5, LogType
<1> QED
  BY <1>2, <1>6

LEMMA DropStep == ASSUME ViewInv, NEW f \in Files, Drop(f) PROVE ViewInv'
<1> DEFINE old == AbortOf(controller)
           new == [NotCalled EXCEPT !.at = "uploading"]
<1>1. /\ streamId' = streamId + 1 /\ reconnecting' = FALSE /\ controller' = Blankness
      /\ calls' = [old EXCEPT ![f] = new]
      /\ view' = [FreshView EXCEPT !.status = "uploading"]
      /\ viewLog' = [viewLog EXCEPT !.drops = @ + 1, !.overlap = @ \/ Outstanding]
      /\ UNCHANGED <<retried, stored>>
  BY DEF Drop, ResetStreams
<1>2. new \in AnyCall /\ new.at = "uploading" /\ new.id = 0
  BY NotCalledType DEF AnyCall
<1>3. /\ old \in [Files -> AnyCall]
      /\ \A g \in Files : /\ old[g].id = calls[g].id
                          /\ old[g].at = IF g = controller /\ calls[g].at = "connecting" THEN "aborted"
                                         ELSE calls[g].at
  BY AbortType DEF ViewInv
<1> HIDE DEF old, new
<1>4. /\ calls' \in [Files -> AnyCall]
      /\ calls'[f] = new /\ \A g \in Files \ {f} : calls'[g] = old[g]
  BY <1>1, <1>2, <1>3
<1>5. /\ view'.status = "uploading" /\ view'.task = Blankness /\ view'.skeleton = Blankness
      /\ view'.content = Blankness /\ \A blk \in Parts : view'.texts[blk] = Blankness
      /\ view' \in Views
  BY <1>1 DEF Views, FreshView, InProgress, Owners
<1>6. /\ viewLog' \in Logs
      /\ ~viewLog'.overlap => ~Outstanding
  BY <1>1, LogStep DEF ViewInv
<1>7. /\ streamId \in Nat /\ streamId + 1 \in Nat /\ \A g \in Files : calls[g].id \in Nat /\ calls[g].id <= streamId
  BY DEF ViewInv, ViewTypes, StreamsNumbered, AnyCall
<1>8. ViewTypes'
  BY <1>1, <1>4, <1>5, <1>6, <1>7 DEF ViewInv, ViewTypes
<1>9. \A g \in Files : calls'[g].id \in Nat /\ calls'[g].id <= streamId /\ calls'[g].id # streamId + 1
  BY <1>2, <1>3, <1>4, <1>7
<1>10. StreamsNumbered'
  <2>1. \A g \in Files : calls'[g].id <= streamId + 1
    BY <1>2, <1>4, <1>7, <1>9
  <2> QED
    BY <2>1, <1>1, <1>9 DEF StreamsNumbered
<1>11. ASSUME ~viewLog'.overlap PROVE Quiet'
  <2>1. retried = {} /\ \A g \in Files : calls[g].at \notin {"uploading", "connecting", "aborted"}
    BY <1>6, <1>11 DEF Outstanding
  <2>2. \A g \in Files \ {f} : calls'[g].at \notin {"uploading", "connecting", "aborted"}
    BY <1>3, <1>4, <2>1
  <2>3. \A g \in Files : Live(g)' <=> g = f
    BY <1>1, <1>2, <1>4, <1>9, <2>2 DEF Live
  <2>4. OneLive'
    BY <1>1, <1>2, <1>4, <2>2, <2>3 DEF OneLive
  <2>5. ShowsLive' /\ ShowsOne' /\ RetriesOwn'
    BY <1>1, <1>2, <1>4, <1>5, <2>1, <2>3 DEF ShowsLive, ShowsOne, RetriesOwn
  <2>6. Waited'
    BY <2>3 DEF Waited
  <2> QED
    BY <2>4, <2>5, <2>6 DEF Quiet
<1> QED
  BY <1>8, <1>10, <1>11 DEF ViewInv

LEMMA StartOverStep == ASSUME ViewInv, StartOver PROVE ViewInv'
<1> DEFINE old == AbortOf(controller)
<1>1. /\ streamId' = streamId + 1 /\ reconnecting' = FALSE /\ controller' = Blankness
      /\ calls' = old /\ view' = FreshView /\ stored' \in {stored, Blankness}
      /\ viewLog' = [viewLog EXCEPT !.drops = @ + 1, !.overlap = @ \/ Outstanding]
      /\ UNCHANGED retried
  BY DEF StartOver, ResetStreams
<1>2. /\ old \in [Files -> AnyCall]
      /\ \A g \in Files : /\ old[g].id = calls[g].id
                          /\ old[g].at = IF g = controller /\ calls[g].at = "connecting" THEN "aborted"
                                         ELSE calls[g].at
  BY AbortType DEF ViewInv
<1> HIDE DEF old
<1>3. /\ viewLog' \in Logs
      /\ ~viewLog'.overlap => ~Outstanding
  BY <1>1, LogStep DEF ViewInv
<1>4. /\ streamId \in Nat /\ streamId + 1 \in Nat /\ \A g \in Files : calls[g].id \in Nat /\ calls[g].id <= streamId
  BY DEF ViewInv, ViewTypes, StreamsNumbered, AnyCall
<1>5. ViewTypes'
  BY <1>1, <1>2, <1>3, <1>4, FreshType DEF ViewInv, ViewTypes, Owners
<1>6. \A g \in Files : calls'[g].id <= streamId /\ calls'[g].id # streamId + 1
  BY <1>1, <1>2, <1>4
<1>7. StreamsNumbered'
  <2>1. \A g \in Files : calls'[g].id <= streamId + 1
    BY <1>1, <1>2, <1>4
  <2> QED
    BY <2>1, <1>1, <1>6 DEF StreamsNumbered
<1>8. ASSUME ~viewLog'.overlap PROVE Quiet'
  <2>1. retried = {} /\ \A g \in Files : calls[g].at \notin {"uploading", "connecting", "aborted"}
    BY <1>3, <1>8 DEF Outstanding
  <2>2. \A g \in Files : calls'[g].at \notin {"uploading", "connecting", "aborted"} /\ ~Live(g)'
    BY <1>1, <1>2, <1>6, <2>1 DEF Live
  <2>3. OneLive' /\ ShowsLive' /\ Waited'
    BY <1>1, <2>2 DEF OneLive, ShowsLive, Waited, FreshView, InProgress
  <2>4. ShowsOne' /\ RetriesOwn'
    BY <1>1, <2>1 DEF ShowsOne, RetriesOwn, FreshView
  <2> QED
    BY <2>3, <2>4 DEF Quiet
<1> QED
  BY <1>5, <1>7, <1>8 DEF ViewInv

(* A step that leaves every call its stream and its place in line, where   *)
(* only the answer of a fetch can come.                                    *)
LEMMA SameStreams ==
  ASSUME ViewInv, calls' \in [Files -> AnyCall], UNCHANGED <<controller, streamId, reconnecting, viewLog>>,
         \A g \in Files : /\ calls'[g].id = calls[g].id
                         /\ \/ calls'[g].at = calls[g].at
                            \/ calls[g].at = "connecting" /\ calls'[g].at = "open",
         view' \in Views, retried' \subseteq Files \X Parts, stored' \in Owners,
         ~viewLog.overlap => (ShowsLive /\ ShowsOne /\ RetriesOwn)',
         view'.status \notin InProgress \/ view.status \in InProgress \/ \E g \in Files : Live(g)
  PROVE  ViewInv'
<1>1. ViewTypes' /\ StreamsNumbered'
  BY DEF ViewInv, ViewTypes, StreamsNumbered
<1>2. ASSUME ~viewLog.overlap PROVE (OneLive /\ Waited)'
  <2>1. \A g \in Files : Live(g)' <=> Live(g)
    BY DEF Live
  <2>2. OneLive'
    BY <1>2, <2>1 DEF ViewInv, Quiet, OneLive
  <2>3. Waited'
    BY <1>2, <2>1 DEF ViewInv, Quiet, Waited
  <2> QED
    BY <2>2, <2>3
<1> QED
  BY <1>1, <1>2 DEF ViewInv, Quiet

(* A call ends.                                                            *)
LEMMA CallEnds ==
  ASSUME ViewInv, NEW f \in Files, calls' = [calls EXCEPT ![f] = NotCalled],
         UNCHANGED <<controller, streamId, retried, stored, viewLog>>,
         view' = view \/ ShowError,
         reconnecting' = FALSE \/ (reconnecting' = reconnecting /\ calls[f].at # "waiting"),
         viewLog.overlap \/ ~Live(f) \/ view'.status \notin InProgress
  PROVE  ViewInv'
<1>1. /\ calls' \in [Files -> AnyCall]
      /\ calls'[f].at = "none" /\ calls'[f].id = 0 /\ \A g \in Files \ {f} : calls'[g] = calls[g]
  BY NotCalledType DEF ViewInv, ViewTypes
<1>2. /\ view' \in Views /\ view'.task = view.task /\ view'.skeleton = view.skeleton
      /\ view'.content = view.content /\ view'.texts = view.texts
      /\ view'.status = "done" <=> view.status = "done"
      /\ view'.status = view.status \/ view'.status \notin InProgress
  BY DEF ViewInv, ViewTypes, Views, ShowError, InProgress
<1>3. ViewTypes'
  BY <1>1, <1>2 DEF ViewInv, ViewTypes
<1>4. StreamsNumbered'
  BY <1>1 DEF ViewInv, ViewTypes, StreamsNumbered
<1>5. ASSUME ~viewLog.overlap PROVE Quiet'
  <2>1. /\ ~Live(f)' /\ \A g \in Files \ {f} : Live(g)' <=> Live(g)
    BY <1>1 DEF Live
  <2>2. OneLive'
    BY <1>1, <1>5, <2>1 DEF ViewInv, Quiet, OneLive
  <2>3. ShowsLive'
    BY <1>1, <1>2, <1>5, <2>1 DEF ViewInv, Quiet, ShowsLive
  <2>4. ShowsOne' /\ RetriesOwn'
    BY <1>2, <1>5 DEF ViewInv, Quiet, ShowsOne, RetriesOwn
  <2>5. Waited'
    BY <1>2, <1>5, <2>1 DEF ViewInv, Quiet, Waited
  <2> QED
    BY <2>2, <2>3, <2>4, <2>5 DEF Quiet
<1> QED
  BY <1>3, <1>4, <1>5 DEF ViewInv

(* A stream is started: by the upload, and when one is connected to again. *)
LEMMA StreamStarts ==
  ASSUME ViewInv, NEW f \in Files, NEW k \in Nat, StartStream(f, k),
         calls[f].at = "uploading" \/ (calls[f].at = "waiting" /\ calls[f].id = streamId),
         view' \in Views, view' = view \/ view' = [view EXCEPT !.task = f], viewLog.overlap \/ view'.task = f,
         reconnecting' = FALSE \/ (reconnecting' = reconnecting /\ calls[f].at = "uploading"),
         UNCHANGED <<retried, stored, viewLog>>
  PROVE  ViewInv'
<1> DEFINE old == IF controller = f THEN calls ELSE AbortOf(controller)
           new == [NotCalled EXCEPT !.at = "connecting", !.id = streamId + 1, !.attempt = k]
<1>1. calls' = [old EXCEPT ![f] = new] /\ streamId' = streamId + 1 /\ controller' = f
  BY DEF StartStream
<1>2. /\ streamId \in Nat /\ streamId + 1 \in Nat /\ calls \in [Files -> AnyCall]
      /\ \A g \in Files : calls[g].id \in Nat /\ calls[g].id <= streamId
  BY DEF ViewInv, ViewTypes, StreamsNumbered, AnyCall
<1>3. new \in AnyCall /\ new.at = "connecting" /\ new.id = streamId + 1
  BY <1>2, NotCalledType DEF AnyCall
<1>4. /\ old \in [Files -> AnyCall]
      /\ \A g \in Files : /\ old[g].id = calls[g].id
                          /\ \/ old[g].at = calls[g].at
                             \/ calls[g].at = "connecting" /\ old[g].at = "aborted"
  BY <1>2, AbortType DEF ViewInv
<1> HIDE DEF old, new
<1>5. /\ calls' \in [Files -> AnyCall]
      /\ calls'[f] = new /\ \A g \in Files \ {f} : calls'[g] = old[g]
  BY <1>1, <1>3, <1>4
<1>6. /\ \A g \in Files \ {f} : calls'[g].id \in Nat /\ calls'[g].id <= streamId /\ calls'[g].id # streamId + 1
  BY <1>2, <1>4, <1>5
<1>7. ViewTypes'
  BY <1>1, <1>2, <1>5 DEF ViewInv, ViewTypes
<1>8. StreamsNumbered'
  <2>1. \A g \in Files : calls'[g].id <= streamId + 1
    BY <1>2, <1>3, <1>5, <1>6
  <2> QED
    BY <2>1, <1>1, <1>6 DEF StreamsNumbered
<1>9. ASSUME ~viewLog.overlap PROVE Quiet'
  <2>1. Quiet /\ Live(f)
    BY <1>9 DEF ViewInv, Live
  <2>2. \A g \in Files \ {f} : ~Live(g) /\ calls[g].at \notin {"uploading", "connecting", "aborted"}
    BY <2>1 DEF Quiet, OneLive, Live
  <2>3. \A g \in Files \ {f} : ~Live(g)' /\ calls'[g].at \notin {"uploading", "connecting", "aborted"}
    BY <1>1, <1>4, <1>5, <1>6, <2>2 DEF Live
  <2>4. ~reconnecting'
    BY <2>1, <2>2 DEF Quiet, OneLive, Live
  <2>5. Live(f)'
    BY <1>1, <1>3, <1>5 DEF Live
  <2>6. OneLive' /\ Waited'
    BY <1>1, <1>3, <1>5, <2>3, <2>4, <2>5 DEF OneLive, Waited
  <2>7. calls[f].at = "uploading" \/ view.task = f
    BY <2>1 DEF Quiet, ShowsLive
  <2>8. /\ view'.skeleton = view.skeleton /\ view'.content = view.content /\ view'.texts = view.texts
        /\ view'.status = view.status /\ view'.task = f
    BY <1>9 DEF ViewInv, ViewTypes, Views
  <2>9. ShowsLive'
    BY <1>3, <1>5, <2>3, <2>8 DEF ShowsLive
  <2>10. ShowsOne' /\ RetriesOwn'
    BY <2>1, <2>7, <2>8 DEF Quiet, ShowsLive, ShowsOne, RetriesOwn
  <2> QED
    BY <2>6, <2>9, <2>10 DEF Quiet
<1> QED
  BY <1>7, <1>8, <1>9 DEF ViewInv

(* The events of the current stream speak of the task that is shown.       *)
LEMMA EventStep ==
  ASSUME ViewInv, NEW f \in Files,
         \/ Progress(f) \/ Chunked(f) \/ TranslationComplete(f) \/ ErrorTold(f)
         \/ \E blk \in Parts : BlockTranslated(f, blk)
  PROVE  ViewInv'
<1>1. /\ UNCHANGED <<controller, streamId, reconnecting, viewLog, retried>>
      /\ calls[f].at = "open" /\ calls[f].id = streamId /\ Live(f)
  BY DEF Progress, Chunked, TranslationComplete, ErrorTold, BlockTranslated, Event, Heeded, Current, Live
<1>2. calls' = calls \/ calls' = [calls EXCEPT ![f].told = TRUE]
  BY DEF Progress, Chunked, TranslationComplete, ErrorTold, BlockTranslated
<1>3. /\ calls' \in [Files -> AnyCall]
      /\ \A g \in Files : calls'[g].id = calls[g].id /\ calls'[g].at = calls[g].at
  <2>1. /\ calls \in [Files -> AnyCall]
        /\ [calls[f] EXCEPT !.told = TRUE] \in AnyCall
        /\ [calls[f] EXCEPT !.told = TRUE].id = calls[f].id
        /\ [calls[f] EXCEPT !.told = TRUE].at = calls[f].at
    BY DEF ViewInv, ViewTypes, AnyCall
  <2>2. CASE calls' = calls
    BY <2>1, <2>2
  <2>3. CASE calls' = [calls EXCEPT ![f].told = TRUE]
    BY <2>1, <2>3
  <2> QED
    BY <1>2, <2>2, <2>3
<1>4. /\ view \in Views /\ f \in Owners /\ Blankness \in Owners
  BY DEF ViewInv, ViewTypes, Owners
<1>5. /\ view' \in Views /\ (view.task = f => view'.task = f)
      /\ view'.skeleton \in {f, Blankness, view.skeleton} /\ view'.content \in {f, Blankness, view.content}
      /\ \A blk \in Parts : view'.texts[blk] \in {f, Blankness, view.texts[blk]}
      /\ \/ stored' = f
         \/ stored' = stored /\ (view'.status = "done" => view.status = "done")
  <2>1. CASE Progress(f)
    BY <1>4, <2>1 DEF Progress, Views, InProgress
  <2>2. CASE Chunked(f)
    BY <1>4, <2>2 DEF Chunked, Views
  <2>3. CASE TranslationComplete(f)
    BY <1>4, <2>3 DEF TranslationComplete, Views
  <2>4. CASE ErrorTold(f)
    BY <1>4, <2>4 DEF ErrorTold, ShowError, Views
  <2>5. CASE \E blk \in Parts : BlockTranslated(f, blk)
    <3>1. PICK blk \in Parts : BlockTranslated(f, blk)
      BY <2>5
    <3> QED
      BY <1>4, <3>1 DEF BlockTranslated, Views
  <2> QED
    BY <2>1, <2>2, <2>3, <2>4, <2>5
<1>6. stored' \in Owners /\ retried' \subseteq Files \X Parts
  BY <1>1, <1>4, <1>5 DEF ViewInv, ViewTypes
<1>7. ASSUME ~viewLog.overlap PROVE (ShowsLive /\ ShowsOne /\ RetriesOwn)'
  <2>1. Quiet /\ view.task = f
    BY <1>1, <1>7 DEF ViewInv, Quiet, ShowsLive
  <2>2. \A g \in Files : /\ Live(g) => g = f
                         /\ Live(g)' <=> Live(g)
    BY <1>1, <1>3, <2>1 DEF Quiet, OneLive, Live
  <2>3. \A g \in Files : calls'[g].at # "uploading"
    BY <1>1, <1>3, <2>2 DEF Live
  <2>4. ShowsLive'
    BY <1>5, <2>1, <2>2, <2>3 DEF ShowsLive
  <2>5. ShowsOne'
    BY <1>5, <2>1 DEF Quiet, ShowsOne
  <2>6. RetriesOwn'
    BY <1>1, <1>5, <2>1 DEF Quiet, RetriesOwn
  <2> QED
    BY <2>4, <2>5, <2>6
<1> QED
  BY <1>1, <1>3, <1>5, <1>6, <1>7, SameStreams

LEMMA RetryStep ==
  ASSUME ViewInv, NEW blk \in Parts, RetryBlock(blk) \/ \E t \in Files : RetryAnswered(t, blk)
  PROVE  ViewInv'
<1>1. /\ view \in Views /\ calls \in [Files -> AnyCall] /\ retried \subseteq Files \X Parts
      /\ UNCHANGED <<calls, controller, streamId, reconnecting, viewLog>>
  BY DEF ViewInv, ViewTypes, RetryBlock, RetryAnswered
<1>2. /\ view' \in Views /\ view'.task = view.task /\ view'.status = view.status
      /\ view'.skeleton = view.skeleton /\ view'.content = view.content
      /\ retried' \subseteq Files \X Parts /\ stored' \in Owners
  <2>1. CASE RetryBlock(blk)
    <3>1. view.task \in Files
      BY <1>1, <2>1, ViewFacts DEF RetryBlock, Views, Owners
    <3> QED
      BY <1>1, <2>1, <3>1 DEF ViewInv, ViewTypes, RetryBlock
  <2>2. CASE \E t \in Files : RetryAnswered(t, blk)
    <3>1. PICK t \in Files : RetryAnswered(t, blk)
      BY <2>2
    <3> QED
      BY <1>1, <3>1 DEF ViewInv, ViewTypes, RetryAnswered, Views, Owners
  <2> QED
    BY <2>1, <2>2
<1>3. ASSUME ~viewLog.overlap PROVE (ShowsLive /\ ShowsOne /\ RetriesOwn)'
  <2>1. Quiet
    BY <1>3 DEF ViewInv
  <2>2. /\ \A g \in Files : calls[g].at # "uploading"
        /\ retried # {} \/ view.status = "done"
    BY <2>1 DEF Quiet, ShowsLive, RetryBlock, RetryAnswered
  <2>3. /\ stored = view.task /\ stored' = stored
        /\ \A p \in retried' : p[1] = view.task
        /\ \A other \in Parts : view'.texts[other] \in {view.texts[other], view.task}
    <3>1. stored = view.task /\ \A p \in retried : p[1] = view.task
      BY <2>1, <2>2 DEF Quiet, RetriesOwn
    <3>2. CASE RetryBlock(blk)
      BY <3>1, <3>2 DEF RetryBlock
    <3>3. CASE \E t \in Files : RetryAnswered(t, blk)
      <4>1. PICK t \in Files : RetryAnswered(t, blk)
        BY <3>3
      <4> QED
        BY <1>1, <3>1, <4>1 DEF RetryAnswered, Views
    <3> QED
      BY <3>1, <3>2, <3>3
  <2>4. \A g \in Files : Live(g)' <=> Live(g)
    BY <1>1 DEF Live
  <2>5. ShowsLive'
    BY <1>1, <1>2, <2>1, <2>2, <2>4 DEF Quiet, ShowsLive
  <2>6. ShowsOne' /\ RetriesOwn'
    BY <1>2, <2>1, <2>3 DEF Quiet, ShowsOne, RetriesOwn
  <2> QED
    BY <2>5, <2>6
<1> QED
  BY <1>1, <1>2, <1>3, SameStreams

LEMMA RecoverStep == ASSUME ViewInv, Recover PROVE ViewInv'
<1>1. /\ UNCHANGED <<calls, controller, streamId, reconnecting, retried, stored>>
      /\ view \in Views /\ stored \in Owners /\ calls \in [Files -> AnyCall]
  BY DEF Recover, ViewInv, ViewTypes
<1>2. /\ view' \in Views
      /\ \/ view' = view
         \/ /\ view'.task = stored /\ view'.status = "done" /\ view'.skeleton = stored
            /\ view'.content = stored /\ \A blk \in Parts : view'.texts[blk] = stored
  BY <1>1 DEF Recover, Views
<1> DEFINE begun == \E f \in Files : calls[f].at # "none"
           over == viewLog.overlap \/ begun
<1>3. over \in BOOLEAN
  <2>1. (viewLog.overlap \/ begun) \in {TRUE, FALSE}
    BY Zenon
  <2> QED
    BY <2>1
<1>4. ~over => ~viewLog.overlap /\ ~begun
  BY Zenon
<1>5. viewLog' = [viewLog EXCEPT !.booting = FALSE, !.overlap = over] /\ viewLog \in Logs
  BY Zenon DEF Recover, ViewInv, ViewTypes
<1> HIDE DEF over
<1>6. viewLog' \in Logs /\ viewLog'.overlap = over
  BY <1>3, <1>5 DEF Logs
<1>7. ViewTypes' /\ StreamsNumbered'
  BY <1>1, <1>2, <1>6 DEF ViewInv, ViewTypes, StreamsNumbered
<1>8. ASSUME ~viewLog'.overlap PROVE Quiet'
  <2>1. Quiet /\ \A f \in Files : calls[f].at = "none"
    BY <1>4, <1>6, <1>8 DEF ViewInv
  <2>2. OneLive' /\ ShowsLive' /\ \A f \in Files : ~Live(f)
    BY <1>1, <2>1 DEF Quiet, OneLive, ShowsLive, Live
  <2>3. ShowsOne'
    BY <1>2, <2>1 DEF Quiet, ShowsOne
  <2>4. RetriesOwn'
    BY <1>1, <1>2, <2>1 DEF Quiet, RetriesOwn
  <2>5. Waited'
    BY <1>2, <2>1, <2>2 DEF Quiet, Waited, InProgress
  <2> QED
    BY <2>2, <2>3, <2>4, <2>5 DEF Quiet
<1> QED
  BY <1>7, <1>8 DEF ViewInv

(* Whether the backend answers changes the status, but not from done.      *)
LEMMA OfflineStep == ASSUME ViewInv, BackendOffline \/ BackendBack PROVE ViewInv'
<1>1. /\ UNCHANGED <<calls, controller, streamId, reconnecting, retried, stored, viewLog>>
      /\ view \in Views /\ calls \in [Files -> AnyCall]
      /\ retried \subseteq Files \X Parts /\ stored \in Owners
  BY DEF BackendOffline, BackendBack, ViewInv, ViewTypes
<1>2. /\ view' \in Views /\ view'.task = view.task /\ view'.skeleton = view.skeleton
      /\ view'.content = view.content /\ view'.texts = view.texts
      /\ view'.status = "done" <=> view.status = "done"
      /\ view'.status \in InProgress => view.status \in InProgress
  BY <1>1 DEF BackendOffline, BackendBack, Views, InProgress
<1>3. ASSUME ~viewLog.overlap PROVE (ShowsLive /\ ShowsOne /\ RetriesOwn)'
  <2>1. Quiet /\ \A g \in Files : Live(g)' <=> Live(g)
    BY <1>1, <1>3 DEF ViewInv, Live
  <2> QED
    BY <1>1, <1>2, <2>1 DEF Quiet, ShowsLive, ShowsOne, RetriesOwn
<1> QED
  BY <1>1, <1>2, <1>3, SameStreams

LEMMA TranslateStep ==
  ASSUME ViewInv, NEW f \in Files,
         \/ Uploaded(f) \/ CallFails(f) \/ Connected(f) \/ EndsWell(f) \/ Breaks(f)
         \/ Reconnect(f) \/ NotNeeded(f) \/ BackendGone(f)
  PROVE  ViewInv'
<1>1. /\ view \in Views /\ calls \in [Files -> AnyCall]
      /\ retried \subseteq Files \X Parts /\ stored \in Owners
  BY DEF ViewInv, ViewTypes
<1>2. ASSUME ShowError PROVE view'.status \notin InProgress
  BY <1>1, <1>2 DEF ShowError, Views, InProgress
<1>3. CASE Uploaded(f)
  <2>1. view' \in Views /\ view'.task = f
    BY <1>1, <1>3 DEF Uploaded, Views, Owners
  <2> QED
    BY <1>3, <2>1, StreamStarts DEF Uploaded
<1>4. CASE CallFails(f)
  BY <1>2, <1>4, CallEnds DEF CallFails, Fails
<1>5. CASE Connected(f)
  <2>1. /\ calls' \in [Files -> AnyCall]
        /\ \A g \in Files : /\ calls'[g].id = calls[g].id
                            /\ \/ calls'[g].at = calls[g].at
                               \/ calls[g].at = "connecting" /\ calls'[g].at = "open"
    BY <1>1, <1>5 DEF Connected, AnyCall
  <2>2. UNCHANGED <<view, controller, streamId, reconnecting, retried, stored, viewLog>>
    BY <1>5 DEF Connected
  <2>3. ASSUME ~viewLog.overlap PROVE (ShowsLive /\ ShowsOne /\ RetriesOwn)'
    <3>1. Quiet /\ \A g \in Files : Live(g)' <=> Live(g)
      BY <2>1, <2>2, <2>3 DEF ViewInv, Live
    <3> QED
      BY <2>1, <2>2, <3>1 DEF Quiet, ShowsLive, ShowsOne, RetriesOwn
  <2> QED
    BY <1>1, <2>1, <2>2, <2>3, SameStreams
<1>6. CASE EndsWell(f)
  BY <1>6, CallEnds DEF EndsWell, Current, Live
<1>7. CASE Breaks(f)
  <2>1. CASE calls[f].attempt < MaxReconnects /\ ~reconnecting
    <3>1. /\ calls' = [calls EXCEPT ![f] = [@ EXCEPT !.at = "waiting"]]
          /\ UNCHANGED <<view, controller, streamId, retried, stored, viewLog>>
          /\ calls[f].at = "open" /\ calls[f].id = streamId
      BY <1>7, <2>1 DEF Breaks, Current
    <3>2. /\ calls' \in [Files -> AnyCall] /\ calls'[f].at = "waiting"
          /\ \A g \in Files : calls'[g].id = calls[g].id
          /\ \A g \in Files \ {f} : calls'[g] = calls[g]
      BY <1>1, <3>1 DEF AnyCall
    <3>3. ViewTypes' /\ StreamsNumbered'
      BY <3>1, <3>2 DEF ViewInv, ViewTypes, StreamsNumbered
    <3>4. ASSUME ~viewLog.overlap PROVE Quiet'
      <4>1. Quiet /\ \A g \in Files : Live(g)' <=> Live(g)
        BY <3>1, <3>2, <3>4 DEF ViewInv, Live
      <4>2. OneLive'
        BY <3>1, <3>2, <4>1 DEF Quiet, OneLive
      <4>3. ShowsLive' /\ ShowsOne'
        BY <3>1, <3>2, <4>1 DEF Quiet, ShowsLive, ShowsOne
      <4>4. RetriesOwn' /\ Waited'
        BY <3>1, <4>1 DEF Quiet, RetriesOwn, Waited
      <4> QED
        BY <4>2, <4>3, <4>4 DEF Quiet
    <3> QED
      BY <3>1, <3>3, <3>4 DEF ViewInv
  <2>2. CASE calls[f].attempt < MaxReconnects /\ reconnecting
    <3>1. viewLog.overlap
      BY <1>7, <2>2 DEF ViewInv, Quiet, OneLive, Breaks, Current, Live
    <3>2. reconnecting' = reconnecting
      BY <1>7, <2>2, <3>1 DEF Breaks
    <3> QED
      BY <1>7, <2>2, <3>1, <3>2, CallEnds DEF Breaks
  <2>3. CASE ~(calls[f].attempt < MaxReconnects)
    BY <1>2, <1>7, <2>3, CallEnds DEF Breaks, Fails
  <2> QED
    BY <2>1, <2>2, <2>3
<1>8. CASE Reconnect(f)
  <2>1. viewLog.overlap \/ view.task = f
    BY <1>8 DEF ViewInv, Quiet, ShowsLive, Reconnect, Current, Live
  <2>2. calls[f].attempt + 1 \in Nat
    BY <1>1 DEF AnyCall
  <2> QED
    BY <1>1, <1>8, <2>1, <2>2, StreamStarts DEF Reconnect, Current, FlagDown
<1>9. CASE NotNeeded(f)
  <2>1. CASE Current(f)
    BY <1>9, <2>1, ViewFacts DEF NotNeeded, Current, ViewInv, StreamsNumbered
  <2>2. CASE ~Current(f)
    BY <1>9, <2>2, CallEnds DEF NotNeeded, FlagDown, Current, Live
  <2> QED
    BY <2>1, <2>2
<1>10. CASE BackendGone(f)
  BY <1>2, <1>10, CallEnds DEF BackendGone, Fails, FlagDown
<1> QED
  BY <1>3, <1>4, <1>5, <1>6, <1>7, <1>8, <1>9, <1>10

LEMMA ViewStep == ViewInv /\ [ViewNext]_viewVars => ViewInv'
<1> SUFFICES ASSUME ViewInv, [ViewNext]_viewVars PROVE ViewInv'
  OBVIOUS
<1>1. CASE UNCHANGED viewVars
  BY <1>1 DEF viewVars, ViewInv, ViewTypes, StreamsNumbered, Quiet, OneLive, ShowsLive, ShowsOne, RetriesOwn, Waited, Live
<1>2. ASSUME NEW f \in Files, Drop(f) PROVE ViewInv'
  BY <1>2, DropStep
<1>3. ASSUME NEW f \in Files,
             \/ Uploaded(f) \/ CallFails(f) \/ Connected(f) \/ EndsWell(f) \/ Breaks(f)
             \/ Reconnect(f) \/ NotNeeded(f) \/ BackendGone(f)
      PROVE  ViewInv'
  BY <1>3, TranslateStep
<1>4. ASSUME NEW f \in Files,
             \/ Progress(f) \/ Chunked(f) \/ TranslationComplete(f) \/ ErrorTold(f)
             \/ \E blk \in Parts : BlockTranslated(f, blk)
      PROVE  ViewInv'
  BY <1>4, EventStep
<1>5. ASSUME NEW blk \in Parts, RetryBlock(blk) \/ \E f \in Files : RetryAnswered(f, blk) PROVE ViewInv'
  BY <1>5, RetryStep
<1>6. CASE StartOver
  BY <1>6, StartOverStep
<1>7. CASE Recover
  BY <1>7, RecoverStep
<1>8. CASE BackendOffline \/ BackendBack
  BY <1>8, OfflineStep
<1> QED
  BY <1>1, <1>2, <1>3, <1>4, <1>5, <1>6, <1>7, <1>8 DEF ViewNext

LEMMA ViewBegins == ViewInit => ViewInv
<1> SUFFICES ASSUME ViewInit PROVE ViewInv
  OBVIOUS
<1>1. ViewTypes
  BY NotCalledType, FreshType, ViewFacts DEF ViewInit, ViewTypes, Logs
<1>2. /\ \A f \in Files : calls[f].at = "none" /\ calls[f].id = 0
      /\ view = FreshView /\ streamId = 0 /\ ~reconnecting /\ retried = {}
  BY NotCalledType DEF ViewInit
<1>3. StreamsNumbered /\ OneLive /\ ShowsLive
  BY <1>2 DEF StreamsNumbered, OneLive, ShowsLive, Live
<1>4. ShowsOne /\ RetriesOwn /\ Waited
  BY <1>2 DEF ShowsOne, RetriesOwn, Waited, FreshView, InProgress
<1> QED
  BY <1>1, <1>3, <1>4 DEF ViewInv, Quiet

LEMMA ViewTells == ViewInv => ViewIsTrue
<1> SUFFICES ASSUME ViewInv PROVE ViewIsTrue
  OBVIOUS
<1>1. OneTaskShown
  BY DEF ViewInv, Quiet, ShowsOne, OneTaskShown
<1>2. NobodyWaits
  BY DEF ViewInv, Quiet, Waited, Live, NobodyWaits, Current
<1> QED
  BY <1>1, <1>2 DEF ViewIsTrue

-----------------------------------------------------------------------------
(***************************************************************************)
(* The glossary.  Items are left only while a replacement runs.            *)
(***************************************************************************)
TermsInv ==
  /\ entries \in [Terms -> GlossaryEntry \cup {NoTerm}]
  /\ put \in [runs : BOOLEAN, items : Seq(Item \cup {Malformed})]
  /\ ~put.runs => put.items = <<>>

LEMMA TermsBegin == GlossaryInit => TermsInv
BY DEF GlossaryInit, NoPut, TermsInv

LEMMA TermsStep == TermsInv /\ [GlossaryNext]_glossaryVars => TermsInv'
<1> SUFFICES ASSUME TermsInv, [GlossaryNext]_glossaryVars PROVE TermsInv'
  OBVIOUS
<1> DEFINE Es == [Terms -> GlossaryEntry \cup {NoTerm}]
           Puts == [runs : BOOLEAN, items : Seq(Item \cup {Malformed})]
<1>0. entries \in Es /\ put \in Puts /\ (~put.runs => put.items = <<>>)
  BY DEF TermsInv
<1>1. ASSUME NEW item \in Item, ImportRow(item)
      PROVE  TermsInv'
  <2>1. item.term \in Terms /\ [target |-> item.target, locked |-> item.locked] \in GlossaryEntry
    BY DEF Item, GlossaryEntry
  <2>2. entries' \in Es
    BY <1>0, <1>1, <2>1 DEF ImportRow
  <2> QED
    BY <1>0, <1>1, <2>2 DEF ImportRow, TermsInv
<1>2. ASSUME NEW list \in Replacements, StartPut(list)
      PROVE  TermsInv'
  <2>1. list \in Seq(Item \cup {Malformed})
    BY GlossaryAssumption
  <2> QED
    BY <1>2, <2>1 DEF StartPut, TermsInv
<1>3. CASE PutItem
  <2>1. put.items \in Seq(Item \cup {Malformed}) /\ put.items # <<>> /\ Head(put.items) # Malformed
        /\ put.runs \in BOOLEAN
    BY <1>0, <1>3 DEF PutItem
  <2>2. Head(put.items) \in Item /\ Tail(put.items) \in Seq(Item \cup {Malformed})
    BY <2>1
  <2> DEFINE item == Head(put.items)
  <2>3. item.term \in Terms /\ [target |-> item.target, locked |-> item.locked] \in GlossaryEntry
    BY <2>2 DEF Item, GlossaryEntry
  <2>4. entries' \in Es
    BY <1>0, <1>3, <2>3 DEF PutItem
  <2>5. put' \in Puts /\ put'.runs = put.runs
    BY <1>0, <1>3, <2>2 DEF PutItem
  <2>6. put.runs
    BY <1>0, <2>1
  <2> QED
    BY <2>4, <2>5, <2>6 DEF TermsInv
<1>4. CASE PutEnds
  BY <1>0, <1>4 DEF PutEnds, NoPut, TermsInv
<1>5. CASE Learn
  <2>1. \A t \in Terms : entries'[t] \in GlossaryEntry \cup {NoTerm}
    <3> SUFFICES ASSUME NEW t \in Terms PROVE entries'[t] \in GlossaryEntry \cup {NoTerm}
      OBVIOUS
    <3>1. CASE Teaches(t) /\ \E x \in Targets : <<t, x>> \in chunk.became
      BY <1>5, <3>1 DEF Learn, GlossaryEntry
    <3>2. CASE ~(Teaches(t) /\ \E x \in Targets : <<t, x>> \in chunk.became)
      BY <1>0, <1>5, <3>2 DEF Learn
    <3> QED
      BY <3>1, <3>2
  <2>2. entries' \in Es
    BY <1>5, <2>1 DEF Learn
  <2> QED
    BY <1>0, <1>5, <2>2 DEF Learn, TermsInv
<1>6. CASE \/ BuildPrompt
           \/ \E has \in SUBSET Terms : \E became \in Renderings(has) : StartCheck(has, became)
           \/ \E t \in Terms : CheckTerm(t)
           \/ CheckBreaks \/ NextChunk \/ UNCHANGED glossaryVars
  BY <1>0, <1>6 DEF BuildPrompt, StartCheck, CheckTerm, CheckBreaks, NextChunk, glossaryVars, TermsInv
<1> QED
  BY <1>1, <1>2, <1>3, <1>4, <1>5, <1>6 DEF GlossaryNext

(* Only a replacement takes a locked term away, and what a chunk teaches   *)
(* changes no entry, for any rows, lists and translations.                 *)
LEMMA TermsAlone == GlossarySpec => TermsAreAuthoritative
<1> DEFINE Stands == /\ ~put.runs /\ ~put'.runs => \A t \in Terms : Locked(t) => Locked(t)'
                     /\ chunk.at = "checking" /\ chunk'.at = "checked" =>
                          \A t \in Terms : Known(t) => entries'[t] = entries[t]
<1>1. TermsInv /\ [GlossaryNext]_glossaryVars => [Stands]_glossaryVars
  <2> SUFFICES ASSUME TermsInv, GlossaryNext PROVE Stands
    OBVIOUS
  <2>0. entries \in [Terms -> GlossaryEntry \cup {NoTerm}] /\ (~put.runs => put.items = <<>>)
    BY DEF TermsInv
  <2>1. ASSUME NEW item \in Item, ImportRow(item)
        PROVE  Stands
    <3>1. chunk' = chunk
      BY <2>1 DEF ImportRow
    <3>2. ASSUME NEW t \in Terms, Locked(t)
          PROVE  Locked(t)'
      <4>1. CASE t = item.term
        <5>1. item.locked
          BY <2>1, <3>2, <4>1 DEF ImportRow, Keeps
        <5>2. entries'[t] = [target |-> item.target, locked |-> item.locked]
          BY <2>0, <2>1, <4>1 DEF ImportRow
        <5>3. entries'[t] \in GlossaryEntry
          <6>1. item.target \in Targets /\ item.locked \in BOOLEAN
            BY DEF Item
          <6> QED
            BY <5>2, <6>1 DEF GlossaryEntry
        <5>4. entries'[t] # NoTerm /\ entries'[t].locked
          <6>1. entries'[t].locked
            BY <5>1, <5>2
          <6> QED
            BY <5>3, <6>1, GlossaryAssumption
        <5> QED
          BY <5>4 DEF Locked, Known
      <4>2. CASE t # item.term
        <5>1. entries'[t] = entries[t]
          BY <2>0, <2>1, <4>2 DEF ImportRow
        <5> QED
          BY <3>2, <5>1 DEF Locked, Known
      <4> QED
        BY <4>1, <4>2
    <3> QED
      BY <3>1, <3>2
  <2>2. CASE \E list \in Replacements : StartPut(list)
    BY <2>2 DEF StartPut
  <2>3. CASE PutItem
    <3>1. put.runs /\ chunk' = chunk
      BY <2>0, <2>3 DEF PutItem
    <3> QED
      BY <3>1
  <2>4. CASE Learn
    <3>1. \A t \in Terms : Known(t) => entries'[t] = entries[t]
      BY <2>4 DEF Learn, Teaches
    <3> QED
      BY <3>1 DEF Locked, Known
  <2>5. CASE \/ PutEnds \/ BuildPrompt \/ CheckBreaks \/ NextChunk
             \/ \E has \in SUBSET Terms : \E became \in Renderings(has) : StartCheck(has, became)
             \/ \E t \in Terms : CheckTerm(t)
    <3>1. entries' = entries
      BY <2>5 DEF PutEnds, BuildPrompt, CheckBreaks, NextChunk, StartCheck, CheckTerm
    <3> QED
      BY <3>1 DEF Locked, Known
  <2> QED
    BY <2>1, <2>2, <2>3, <2>4, <2>5 DEF GlossaryNext
<1> HIDE DEF Stands
<1>2. GlossarySpec => [][Stands]_glossaryVars
  BY <1>1, TermsBegin, TermsStep, PTL DEF GlossarySpec
<1> QED
  BY <1>2 DEF TermsAreAuthoritative, Stands

-----------------------------------------------------------------------------
(***************************************************************************)
(* The parts together.  They share no state: a behaviour of all of them    *)
(* is one of each.                                                         *)
(***************************************************************************)
(* A step of all parts is a step of each, or leaves it alone.              *)
LEMMA StepsOfParts ==
  /\ Init => /\ ResInit /\ RagInit /\ CreationInit /\ LibraryInit /\ ViewInit
             /\ GraphInit /\ LedgerInit /\ ReviewInit /\ RunnerInit /\ CallsInit
             /\ GlossaryInit
  /\ [Next]_allVars => /\ [ResNext]_resVars /\ [RagNext]_ragVars /\ [CreationNext]_creationVars
                       /\ [LibraryNext]_libraryVars /\ [ViewNext]_viewVars /\ [GraphNext]_graphVars
                       /\ [LedgerNext]_ledgerVars /\ [ReviewNext]_reviewVars
                       /\ [RunnerNext]_runnerVars /\ [CallsNext]_callVars
                       /\ [GlossaryNext]_glossaryVars
<1>1. Init => /\ ResInit /\ RagInit /\ CreationInit /\ LibraryInit /\ ViewInit
              /\ GraphInit /\ LedgerInit /\ ReviewInit /\ RunnerInit /\ CallsInit
              /\ GlossaryInit
  BY DEF Init
<1>2. [Next]_allVars => [ResNext]_resVars
  BY DEF Next, allVars
<1>3. [Next]_allVars => [RagNext]_ragVars
  BY DEF Next, allVars
<1>4. [Next]_allVars => [CreationNext]_creationVars
  BY DEF Next, allVars
<1>5. [Next]_allVars => [LibraryNext]_libraryVars
  BY DEF Next, allVars
<1>6. [Next]_allVars => [ViewNext]_viewVars
  BY DEF Next, allVars
<1>7. [Next]_allVars => [GraphNext]_graphVars
  BY DEF Next, allVars
<1>8. [Next]_allVars => [LedgerNext]_ledgerVars
  BY DEF Next, allVars
<1>9. [Next]_allVars => [ReviewNext]_reviewVars
  BY DEF Next, allVars
<1>10. [Next]_allVars => [RunnerNext]_runnerVars
  BY DEF Next, allVars
<1>11. [Next]_allVars => [CallsNext]_callVars
  BY DEF Next, allVars
<1>12. [Next]_allVars => [GlossaryNext]_glossaryVars
  BY DEF Next, allVars
<1> QED
  BY <1>1, <1>2, <1>3, <1>4, <1>5, <1>6, <1>7, <1>8, <1>9, <1>10, <1>11, <1>12

(* Each part's inductive invariant holds all along.                        *)
LEMMA PartInvariance ==
  Spec => /\ []ResultInv /\ []RagInv /\ []CreationInv /\ []LibraryInv /\ []ViewInv
          /\ []GraphShape /\ []LedgerInv /\ []ReviewInv
BY StepsOfParts, ResultBegins, ResultStep, RagBegins, RagStep, CreationBegins, CreationStep,
   LibraryBegins, LibraryStep, ViewBegins, ViewStep, GraphBegins, GraphStep, LedgerBegins,
   LedgerStep, ReviewBegins, ReviewStep, PTL DEF Spec

(* What is stored in several places agrees, whatever the number of blocks, *)
(* jobs, projects and files, and however requests overlap, fail or break   *)
(* off: translate.py, rag.py, project.py and useTranslate.ts.              *)
THEOREM StoresStayAgreed == Spec => []StoresAgree
<1>1. ResultInv /\ RagInv /\ CreationInv /\ LibraryInv /\ ViewInv => StoresAgree
  BY ResultsAgree, RagIsTrue, CreationKeeps, LibraryIsKept, ViewTells DEF StoresAgree
<1> QED
  BY <1>1, PartInvariance, PTL

(* The companion's notes fit the text and each other, for any graph, draft *)
(* and promises, and any reviews and rebuttals that run side by side:      *)
(* graph_builder.py, consistency.py, store.py and reviewer_session.py.     *)
THEOREM NotesKeepFitting == Spec => []NotesFitTheText
<1>1. GraphShape /\ LedgerInv /\ ReviewInv => NotesFitTheText
  BY GraphIsTrue, LedgerIsTrue, ReviewIsTrue DEF NotesFitTheText
<1> QED
  BY <1>1, PartInvariance, PTL

(* A term the user has locked stays locked until the whole list is         *)
(* replaced, and a chunk teaches no term the glossary knows, whatever is   *)
(* imported, translated and learned while other parts run: glossary.py.    *)
THEOREM TermsStand == Spec => TermsAreAuthoritative
<1>1. Spec => GlossarySpec
  BY StepsOfParts, PTL DEF Spec, GlossarySpec
<1> QED
  BY <1>1, TermsAlone

-----------------------------------------------------------------------------
(***************************************************************************)
(* The text on its way: citations, the editor, the chunks, the pages and   *)
(* the anchors.                                                            *)
(***************************************************************************)

(* The same of the parts that a text goes through.                         *)
LEMMA StepsOfText ==
  /\ Init => /\ CitationInit /\ AssistInit /\ ExportInit /\ PackInit
             /\ ExtractionInit /\ TextAnchorInit
  /\ [Next]_allVars => /\ [CitationNext]_citationVars /\ [AssistNext]_assistVars
                       /\ [ExportNext]_exportVars /\ [PackNext]_packVars
                       /\ [ExtractionNext]_extractionVars /\ [TextAnchorNext]_textAnchorVars
<1>1. Init => /\ CitationInit /\ AssistInit /\ ExportInit /\ PackInit
              /\ ExtractionInit /\ TextAnchorInit
  BY DEF Init, EditorInit
<1>2. [Next]_allVars => [CitationNext]_citationVars
  BY DEF Next, allVars
<1>3. [Next]_allVars => [AssistNext]_assistVars
  BY DEF Next, allVars
<1>4. [Next]_allVars => [ExportNext]_exportVars
  BY DEF Next, allVars
<1>5. [Next]_allVars => [PackNext]_packVars
  BY DEF Next, allVars
<1>6. [Next]_allVars => [ExtractionNext]_extractionVars
  BY DEF Next, allVars
<1>7. [Next]_allVars => [TextAnchorNext]_textAnchorVars
  BY DEF Next, allVars
<1> QED
  BY <1>1, <1>2, <1>3, <1>4, <1>5, <1>6, <1>7

(* The inductive invariants of these parts hold all along.                 *)
LEMMA TextInvariance ==
  Spec => /\ []CitationInv /\ []AssistInv /\ []ExportInv /\ []PackInv
          /\ []ExtractionInv /\ []AnchorInv
BY StepsOfText, CitationStarts, CitationKeeps, AssistStarts, AssistKeeps, ExportStarts,
   ExportKeeps, PackStarts, PackKeeps, ExtractionStarts, ExtractionKeeps, AnchorsStart,
   AnchorsKeep, PTL DEF Spec

(* No text gets lost, doubled or out of place, whatever the document, its  *)
(* sentences, citations and edits: extractor.py, splitter.py, citation,    *)
(* editor.py, MonacoEditor.vue and anchor.py.                              *)
THEOREM TextStaysInPlace == Spec => []TextInPlace
<1>1. /\ CitationInv => CitationsNumbered
      /\ AssistInv /\ ExportInv => EditorKept
      /\ PackInv => PackingIsSound
      /\ ExtractionInv => PagesInPlace
      /\ AnchorInv => AnchorsPoint
  BY CitationsAreNumbered, EditorIsKept, PackingHolds, ExtractionHolds, AnchorsHold
<1>2. CitationInv /\ AssistInv /\ ExportInv /\ PackInv /\ ExtractionInv /\ AnchorInv => TextInPlace
  BY <1>1 DEF TextInPlace
<1> QED
  BY <1>2, TextInvariance, PTL

-----------------------------------------------------------------------------
(***************************************************************************)
(* Types of the parts, as far as the invariants above do not have them.    *)
(***************************************************************************)
BlockTypes ==
  /\ memory \in [DocChunk -> {memory[ch] : ch \in DocChunk}]
  /\ \A ch \in DocChunk : memory[ch] = NoEntry \/ memory[ch] \in [Of(ch) -> Texts]
  /\ docRuns \in 0..MaxDocRuns /\ retries \in 0..MaxBlockRetries
  /\ task \in {"none", "running", "error", "done", "warned"}
  /\ reached \in 0..Len(Sizes) /\ misalign \in 0..reached
  /\ file = NoFile \/ file \in [Block -> Texts]

LEMMA BlockTypesBegin == ResInit => BlockTypes
BY BlockFacts, ResultsAssumption DEF ResInit, BlockTypes

LEMMA BlockTypesStep ==
  ASSUME BlockTypes, ResultInv, ResultTypes', [ResNext]_resVars PROVE BlockTypes'
<1>0. /\ Len(Sizes) \in Nat /\ DocChunk = 1..Len(Sizes)
      /\ MaxDocRuns \in Nat /\ MaxBlockRetries \in Nat
      /\ docRuns \in 0..MaxDocRuns /\ retries \in 0..MaxBlockRetries
      /\ reached \in 0..Len(Sizes) /\ misalign \in 0..reached
  BY BlockFacts, ResultsAssumption DEF BlockTypes
<1>1. /\ text \in [Block -> Texts] /\ text' \in [Block -> Texts]
      /\ \A ch \in DocChunk : Of(ch) \subseteq Block
  BY DEF ResultInv, ResultTypes, Of
<1>2. CASE BeginRun
  <2>1. docRuns' \in 0..MaxDocRuns
    BY <1>0, <1>2 DEF BeginRun
  <2>2. retries' \in 0..MaxBlockRetries /\ reached' \in 0..Len(Sizes) /\ misalign' \in 0..reached'
    BY <1>0, <1>2 DEF BeginRun
  <2> QED
    BY <1>2, <2>1, <2>2 DEF BeginRun, BlockTypes
<1>3. CASE Conclude
  <2>1. ASSUME NEW ch \in DocChunk
        PROVE  memory'[ch] = NoEntry \/ memory'[ch] \in [Of(ch) -> Texts]
    <3>1. memory'[ch] = IF ch \in byModel /\ ~JoinedEmpty(ch) THEN [blk \in Of(ch) |-> text[blk]] ELSE memory[ch]
      BY <1>3 DEF Conclude, Store
    <3>2. [blk \in Of(ch) |-> text[blk]] \in [Of(ch) -> Texts]
      BY <1>1
    <3> QED
      BY <3>1, <3>2 DEF BlockTypes
  <2>2. memory' \in [DocChunk -> {memory'[ch] : ch \in DocChunk}]
    BY <1>3 DEF Conclude, Store
  <2> QED
    BY <1>1, <1>3, <2>1, <2>2 DEF Conclude, BlockTypes
<1>4. CASE CutOff
  BY <1>4 DEF CutOff, BlockTypes
<1>5. ASSUME NEW ch \in DocChunk, DealWith(ch) PROVE BlockTypes'
  <2>1. ch = reached + 1 /\ reached' = ch /\ UNCHANGED <<memory, docRuns, task, file, retries>>
    BY <1>5 DEF DealWith, Hit, FuzzyHit, Answered, OneByOne, ChunkFails, NothingToDo, MarkFailed, Gets
  <2>2. misalign' = misalign \/ misalign' = misalign + 1
    BY <1>5 DEF DealWith, Hit, FuzzyHit, Answered, OneByOne, ChunkFails, NothingToDo
  <2>3. reached' \in 0..Len(Sizes) /\ misalign' \in 0..reached'
    BY <1>0, <2>1, <2>2
  <2> QED
    BY <2>1, <2>3 DEF BlockTypes
<1>6. ASSUME NEW blk \in Block, RetryRejected(blk) \/ RetrySucceeds(blk) \/ RetryRaises(blk) PROVE BlockTypes'
  <2>1. retries' \in 0..MaxBlockRetries
    BY <1>0, <1>6 DEF RetryRejected, RetrySucceeds, RetryRaises, Retrying
  <2>2. /\ task' \in {"none", "running", "error", "done", "warned"}
        /\ file' \in {file, text'} /\ UNCHANGED <<memory, docRuns, reached, misalign>>
    BY <1>6 DEF RetryRejected, RetrySucceeds, RetryRaises, Rewrite, BlockTypes, Retrying
  <2> QED
    BY <1>1, <2>1, <2>2 DEF BlockTypes
<1>7. CASE UNCHANGED resVars
  BY <1>7 DEF resVars, BlockTypes
<1> QED
  BY <1>2, <1>3, <1>4, <1>5, <1>6, <1>7 DEF ResNext

LEMMA BlocksAreTyped == ResultInv /\ BlockTypes => ResTypeOK
<1> SUFFICES ASSUME ResultInv, BlockTypes PROVE ResTypeOK
  OBVIOUS
<1>1. Cardinality(Causes) <= Cardinality(DocChunk) /\ Cardinality(DocChunk) = Len(Sizes)
  <2>1. Causes \subseteq DocChunk /\ IsFiniteSet(DocChunk) /\ DocChunk = 1..Len(Sizes) /\ Len(Sizes) \in Nat
    BY BlockFacts DEF Causes
  <2>2. Cardinality(Causes) <= Cardinality(DocChunk)
    BY <2>1, FS_Subset
  <2>3. Cardinality(1..Len(Sizes)) = Len(Sizes)
    <3> DEFINE top == Len(Sizes)
    <3>1. top \in Nat
      BY <2>1
    <3> HIDE DEF top
    <3>2. Cardinality(1..top) = IF 1 > top THEN 0 ELSE top - 1 + 1
      BY <3>1, FS_Interval
    <3>3. Cardinality(1..top) = top
      BY <3>1, <3>2
    <3> QED
      BY <3>3 DEF top
  <2> QED
    BY <2>1, <2>2, <2>3
<1>2. fallback \in 0..Len(Sizes)
  <2>1. Len(Sizes) \in Nat /\ fallback \in Nat /\ fallback <= Cardinality(Causes) /\ Cardinality(Causes) \in Nat
    BY BlockFacts, CauseCounts DEF ResultInv, ResultTypes
  <2> QED
    BY <1>1, <2>1
<1>3. misalign \in 0..Len(Sizes)
  BY BlockFacts DEF BlockTypes
<1> QED
  BY <1>2, <1>3 DEF ResultInv, ResultTypes, BlockTypes, ResTypeOK

-----------------------------------------------------------------------------
GraphTypes ==
  /\ graph # NoGraph => /\ graph.spans \subseteq NodeIds
                        /\ graph.issues \subseteq NodeIds \cup {NoNode}
  /\ extraction \in BOOLEAN /\ critique \subseteq SUBSET NodeIds

LEMMA GraphTypesBegin == GraphInit => GraphTypes
<1>1. EmptyGraph.spans = {} /\ EmptyGraph.issues = {}
  BY DEF EmptyGraph
<1> QED
  BY <1>1 DEF GraphInit, GraphTypes

LEMMA GraphTypesStep == ASSUME GraphTypes, GraphShape, [GraphNext]_graphVars PROVE GraphTypes'
<1> USE DEF GraphTypes, Edit
<1>1. ASSUME NEW f \in NodeIds, NEW t, graph # NoGraph, graph' = [graph EXCEPT !.nodes[f] = t],
             UNCHANGED <<extraction, critique>>
      PROVE  GraphTypes'
  BY <1>1 DEF GraphShape
<1>2. CASE UpsertNode
  BY <1>2 DEF UpsertNode, GraphShape
<1>3. CASE DeleteNode
  BY <1>3 DEF DeleteNode, Without
<1>4. CASE UpsertEdge \/ DeleteEdge
  BY <1>4 DEF UpsertEdge, DeleteEdge, GraphShape
<1>5. CASE AddSpan \/ DeleteSpan
  BY <1>5 DEF AddSpan, DeleteSpan, GraphShape
<1>6. CASE DeleteGraph \/ StartExtraction \/ ExtractionFails
  BY <1>6 DEF DeleteGraph, StartExtraction, ExtractionFails
<1>7. CASE ReplaceGraph
  <2>1. PICK types \in UNION {[new -> NodeTypes] : new \in SUBSET NewNodes}, id \in EdgeIds :
          LET nodes == [n \in NodeIds |-> IF n \in DOMAIN types THEN types[n] ELSE Missing]
              bare  == [EmptyGraph EXCEPT !.nodes = nodes, !.issues = graph.issues]
          IN \E edges \in SUBSET {e \in [rel : Relations, source : DOMAIN types, target : DOMAIN types] :
                                    Valid(bare, e)}, quoted \in SUBSET DOMAIN types :
               graph' = ([bare EXCEPT !.spans = quoted,
                            !.edges = IF edges = {} THEN @ ELSE [@ EXCEPT ![id] = CHOOSE e \in edges : TRUE]])
    BY <1>7 DEF ReplaceGraph
  <2> DEFINE nodes == [n \in NodeIds |-> IF n \in DOMAIN types THEN types[n] ELSE Missing]
             bare  == [EmptyGraph EXCEPT !.nodes = nodes, !.issues = graph.issues]
  <2>2. PICK edges \in SUBSET {e \in [rel : Relations, source : DOMAIN types, target : DOMAIN types] :
                                 Valid(bare, e)}, quoted \in SUBSET DOMAIN types :
          graph' = ([bare EXCEPT !.spans = quoted,
                       !.edges = IF edges = {} THEN @ ELSE [@ EXCEPT ![id] = CHOOSE e \in edges : TRUE]])
    BY <2>1
  <2>3. DOMAIN types \subseteq NodeIds
    <3>1. PICK new \in SUBSET NewNodes : types \in [new -> NodeTypes]
      OBVIOUS
    <3>2. DOMAIN types = new
      BY <3>1
    <3> QED
      BY <3>1, <3>2 DEF NewNodes
  <2>4. graph'.spans = quoted /\ graph'.issues = graph.issues
    BY <2>2 DEF EmptyGraph
  <2> HIDE DEF nodes, bare
  <2> QED
    BY <1>7, <2>3, <2>4 DEF ReplaceGraph
<1>8. CASE StartCritique
  <2>1. StructuralCritique(graph) \subseteq NodeIds
    <3>1. /\ Lacking(graph).missing_grounds \subseteq NodeIds /\ Lacking(graph).missing_warrant \subseteq NodeIds
          /\ Lacking(graph).missing_backing \subseteq NodeIds /\ Lacking(graph).unaddressed_rebuttal \subseteq NodeIds
          /\ Lacking(graph).unsupported_qualifier \subseteq NodeIds /\ Lacking(graph).orphan \subseteq NodeIds
      BY DEF Lacking, Present
    <3>2. DOMAIN Lacking(graph) = {"missing_grounds", "missing_warrant", "missing_backing",
                                   "unaddressed_rebuttal", "unsupported_qualifier", "orphan"}
      BY DEF Lacking
    <3> QED
      BY <3>1, <3>2 DEF StructuralCritique
  <2> QED
    BY <1>8, <2>1 DEF StartCritique
<1>9. CASE SetIssues
  <2>1. UNION critique \subseteq NodeIds /\ Present(graph) \subseteq NodeIds
    BY DEF Present
  <2>2. CASE graph # NoGraph
    <3>1. PICK n \in Present(graph) \cup {NoNode} : graph' = [graph EXCEPT !.issues = {n} \cup UNION critique]
      BY <1>9, <2>2 DEF SetIssues
    <3>2. graph'.spans = graph.spans /\ graph'.issues = {n} \cup UNION critique
      BY <2>2, <3>1 DEF GraphShape
    <3>3. graph'.issues \subseteq NodeIds \cup {NoNode}
      BY <2>1, <3>2
    <3> QED
      BY <1>9, <2>2, <3>2, <3>3 DEF SetIssues
  <2> QED
    BY <1>9, <2>2 DEF SetIssues
<1>10. CASE UNCHANGED graphVars
  BY <1>10 DEF graphVars
<1> QED
  BY <1>2, <1>3, <1>4, <1>5, <1>6, <1>7, <1>8, <1>9, <1>10 DEF GraphNext

LEMMA GraphIsTyped == GraphShape /\ GraphTypes => GraphTypeOK
BY DEF GraphShape, JoinedGraph, GraphTypes, GraphTypeOK, GraphType, EdgeType

-----------------------------------------------------------------------------
PromiseTypes ==
  /\ held.was = NoLedger \/ held.was \in LedgerType
  /\ owned \subseteq Promises /\ strayed \subseteq Promises

LEMMA PromiseTypesBegin == LedgerInit => PromiseTypes
BY DEF LedgerInit, NotHeld, PromiseTypes

LEMMA PromiseTypesStep == ASSUME PromiseTypes, LedgerInv, [LedgerNext]_ledgerVars PROVE PromiseTypes'
<1>0. (ledger = NoLedger \/ ledger \in LedgerType) /\ shown \subseteq Promises
  BY DEF LedgerInv, WellAnchored
<1>1. ASSUME NEW l, Replaces(l) PROVE held'.was = NoLedger \/ held'.was \in LedgerType
  BY <1>0, <1>1 DEF Replaces, PromiseTypes, LedgerInv, HeldLedger
<1>2. ASSUME NEW b \in Builds, Attempt(b) PROVE PromiseTypes'
  <2>1. (\E l : Replaces(l)) \/ held' = held
    BY <1>2 DEF Attempt, Saves
  <2> QED
    BY <1>1, <1>2, <2>1 DEF Attempt, PromiseTypes
<1>3. ASSUME NEW b \in Builds, Merge(b) \/ BuildStops(b) \/ RequestBuild(b) PROVE PromiseTypes'
  BY <1>3 DEF Merge, BuildStops, RequestBuild, PromiseTypes
<1>4. CASE UpsertPromise
  BY <1>0, <1>4 DEF UpsertPromise, PromiseTypes, Promises
<1>5. CASE DeletePromise
  BY <1>5 DEF DeletePromise, PromiseTypes
<1>6. CASE DeleteLedger
  BY <1>1, <1>6 DEF DeleteLedger, PromiseTypes
<1>7. CASE Relocated
  <2>1. \E l \in LedgerType : strayed' \subseteq strayed \cup l.promises
    BY <1>0, <1>7 DEF Relocated, LedgerInv, HeldLedger, WellAnchored
  <2>2. strayed' \subseteq Promises
    BY <2>1 DEF PromiseTypes, LedgerType
  <2> QED
    BY <1>7, <2>2 DEF Relocated, NotHeld, PromiseTypes
<1>8. CASE Relocate \/ UNCHANGED ledgerVars
  BY <1>8 DEF Relocate, ledgerVars, PromiseTypes
<1> QED
  BY <1>2, <1>3, <1>4, <1>5, <1>6, <1>7, <1>8 DEF LedgerNext

LEMMA PromisesAreTyped == LedgerInv /\ PromiseTypes => LedgerTypeOK
BY DEF LedgerInv, HeldLedger, WellAnchored, PromiseTypes, LedgerTypeOK, AnyBuild

-----------------------------------------------------------------------------
LEMMA ReviewsAreTyped == ReviewInv => ReviewTypeOK
<1> SUFFICES ASSUME ReviewInv PROVE ReviewTypeOK
  OBVIOUS
<1>1. \A r \in Reviews : review[r].into \in Reviews /\ review[r].points \subseteq {p \in Points : p[1] = r}
  BY DEF ReviewInv, ReviewTypes, PointsOf
<1>2. ASSUME NEW p \in Points, NEW i \in DOMAIN thread[p]
      PROVE  thread[p][i] \in [role : {"author", "reviewer"}, of : Rebuttals]
  <2>1. thread[p] \in Seq(AnyTurn)
    BY DEF ReviewInv, ThreadTypes
  <2>2. thread[p][i] \in AnyTurn
    BY <2>1
  <2> QED
    BY <2>2 DEF AnyTurn
<1> QED
  BY <1>1, <1>2 DEF ReviewInv, ReviewTypes, ReviewTypeOK

LEMMA RagIsTyped == RagInv => RagTypeOK
BY DEF RagInv, RagTypes, JobEntry, RagTypeOK

-----------------------------------------------------------------------------
(* The streams of the view.  A call that uploads has all its streams       *)
(* before it, the call of the current stream those of the attempts left;   *)
(* no other call will start one.                                           *)
Uploading == {f \in Files : calls[f].at = "uploading"}
Due(n)    == (MaxReconnects + 1) * n
Earned(n) == n * (MaxReconnects + 2)

CallBound(c) == c.attempt <= MaxReconnects /\ (c.at = "waiting" => c.attempt < MaxReconnects)

StreamsLeft ==
  /\ streamId + Due(Cardinality(Uploading)) <= Earned(viewLog.drops)
  /\ \A f \in Files : calls[f].at \notin {"none", "uploading"} /\ calls[f].id = streamId =>
       streamId + (MaxReconnects - calls[f].attempt) + Due(Cardinality(Uploading)) <= Earned(viewLog.drops)

StreamBounds ==
  /\ IsFiniteSet(Uploading) /\ viewLog.drops <= MaxDrops
  /\ \A f \in Files : CallBound(calls[f])
  /\ controller \in Owners /\ reconnecting \in BOOLEAN
  /\ StreamsLeft

LEMMA Rates ==
  /\ \A n \in Nat : Due(n) \in Nat /\ Earned(n) \in Nat
  /\ \A n \in Nat : Due(n + 1) = Due(n) + MaxReconnects + 1 /\ Earned(n + 1) = Earned(n) + MaxReconnects + 2
  /\ \A m, n \in Nat : m <= n => Due(m) <= Due(n) /\ Earned(m) <= Earned(n)
  /\ Due(0) = 0 /\ Earned(0) = 0
<1>0. MaxReconnects \in Nat
  BY ViewFacts
<1>1. \A n \in Nat : Due(n) \in Nat /\ Earned(n) \in Nat
  BY <1>0 DEF Due, Earned
<1>2. \A n \in Nat : Due(n + 1) = Due(n) + MaxReconnects + 1 /\ Earned(n + 1) = Earned(n) + MaxReconnects + 2
  BY <1>0 DEF Due, Earned
<1>3. ASSUME NEW m \in Nat, NEW n \in Nat, m <= n PROVE Due(m) <= Due(n) /\ Earned(m) <= Earned(n)
  <2>1. PICK k \in Nat : n = m + k
    <3>1. n - m \in Nat /\ n = m + (n - m)
      BY <1>3
    <3> QED
      BY <3>1
  <2>2. Due(n) = Due(m) + Due(k) /\ Earned(n) = Earned(m) + Earned(k)
    BY <1>0, <2>1 DEF Due, Earned
  <2> QED
    BY <1>1, <2>2
<1>4. Due(0) = 0 /\ Earned(0) = 0
  BY <1>0 DEF Due, Earned
<1> QED
  BY <1>1, <1>2, <1>3, <1>4

LEMMA StreamsBegin == ViewInit => StreamBounds
<1> SUFFICES ASSUME ViewInit PROVE StreamBounds
  OBVIOUS
<1>1. \A f \in Files : calls[f].at = "none" /\ calls[f].attempt = 0
  BY DEF ViewInit, NotCalled
<1>2. Uploading = {} /\ Cardinality(Uploading) = 0 /\ IsFiniteSet(Uploading)
  BY <1>1, FS_EmptySet DEF Uploading
<1>3. streamId = 0 /\ viewLog.drops = 0 /\ controller = Blankness /\ reconnecting = FALSE
  BY DEF ViewInit
<1>4. StreamsLeft
  BY <1>1, <1>2, <1>3, Rates, SMTT(30) DEF StreamsLeft
<1>5. \A f \in Files : CallBound(calls[f])
  BY <1>1, ViewFacts DEF CallBound
<1>6. viewLog.drops <= MaxDrops
  <2>1. MaxDrops \in Nat /\ viewLog.drops = 0
    BY <1>3, ViewFacts
  <2> QED
    BY <2>1
<1>7. controller \in Owners /\ reconnecting \in BOOLEAN
  BY <1>3 DEF Owners
<1> QED
  BY <1>2, <1>4, <1>5, <1>6, <1>7 DEF StreamBounds

(* A call goes on, no stream is started, or it ends.                       *)
Proceeds(f) ==
  \/ calls'[f].at = "none" /\ calls'[f].attempt = 0
  \/ /\ calls'[f].id = calls[f].id /\ calls'[f].attempt = calls[f].attempt
     /\ \/ calls'[f].at = calls[f].at
        \/ /\ calls[f].at \notin {"none", "uploading"} /\ calls'[f].at \notin {"none", "uploading"}
           /\ calls'[f].at = "waiting" => calls[f].attempt < MaxReconnects

LEMMA SameBudget ==
  ASSUME ViewInv, ViewTypes', StreamBounds, \A f \in Files : Proceeds(f),
         UNCHANGED streamId, viewLog'.drops = viewLog.drops,
         controller' \in Owners, reconnecting' \in BOOLEAN
  PROVE  StreamBounds'
<1> DEFINE U == Uploading
           V == Uploading'
           d == viewLog.drops
<1>1. \A f \in Files : /\ calls[f] \in AnyCall /\ calls'[f] \in AnyCall
                       /\ calls[f].attempt \in Nat
  BY DEF ViewInv, ViewTypes, AnyCall
<1>2. V \subseteq U
  BY DEF Uploading, Proceeds
<1>3. /\ IsFiniteSet(U) /\ IsFiniteSet(V) /\ Cardinality(U) \in Nat /\ Cardinality(V) \in Nat
      /\ Cardinality(V) <= Cardinality(U)
  BY <1>2, FS_Subset, FS_CardinalityType DEF StreamBounds
<1>4. Due(Cardinality(V)) \in Nat /\ Due(Cardinality(U)) \in Nat /\ Due(Cardinality(V)) <= Due(Cardinality(U))
      /\ Earned(d) \in Nat /\ streamId \in Nat /\ MaxReconnects \in Nat
  BY <1>3, Rates, ViewFacts DEF ViewInv, ViewTypes, Logs
<1>5. \A f \in Files : CallBound(calls'[f])
  <2> SUFFICES ASSUME NEW f \in Files PROVE CallBound(calls'[f])
    OBVIOUS
  <2> QED
    BY <1>1, <1>4 DEF StreamBounds, CallBound, Proceeds
<1>6. Earned(viewLog'.drops) = Earned(d)
  OBVIOUS
<1> DEFINE u == Due(Cardinality(U))
           v == Due(Cardinality(V))
           e == Earned(d)
<1>7. streamId + u <= e
  BY DEF StreamBounds, StreamsLeft
<1>8. ASSUME NEW f \in Files, calls'[f].at \notin {"none", "uploading"}, calls'[f].id = streamId
      PROVE  streamId + (MaxReconnects - calls'[f].attempt) + u <= e
  <2>1. /\ calls[f].at \notin {"none", "uploading"} /\ calls[f].id = streamId
        /\ calls'[f].attempt = calls[f].attempt
    BY <1>8 DEF Proceeds
  <2> QED
    BY <2>1 DEF StreamBounds, StreamsLeft
<1>9. Cardinality(Uploading)' = Cardinality(V)
  OBVIOUS
<1>10. \A f \in Files : calls'[f].attempt \in Nat
  BY <1>1 DEF AnyCall
<1>11. StreamsLeft'
  <2> HIDE DEF u, v, e
  <2>1. v <= u /\ v \in Nat /\ u \in Nat /\ e \in Nat
    BY <1>4 DEF u, v, e
  <2>2. streamId + v <= e
    BY <1>4, <1>7, <2>1
  <2>3. ASSUME NEW f \in Files, calls'[f].at \notin {"none", "uploading"}, calls'[f].id = streamId
        PROVE  streamId + (MaxReconnects - calls'[f].attempt) + v <= e
    <3> DEFINE a == calls'[f].attempt
    <3>1. a \in Nat /\ streamId + (MaxReconnects - a) + u <= e
      BY <1>8, <1>10, <2>3
    <3> HIDE DEF a
    <3>2. streamId + (MaxReconnects - a) + v <= e
      BY <1>4, <2>1, <3>1
    <3> QED
      BY <3>2 DEF a
  <2> QED
    BY <2>2, <2>3, <1>6 DEF StreamsLeft, u, v, e
<1> QED
  BY <1>3, <1>5, <1>11 DEF StreamBounds
(* What a reset leaves of the calls' attempts.                             *)
LEMMA AbortKeeps ==
  ASSUME ViewInv, NEW f, NEW g \in Files
  PROVE  AbortOf(f)[g].id = calls[g].id /\ AbortOf(f)[g].attempt = calls[g].attempt
         /\ AbortOf(f)[g].at = IF g = f /\ calls[g].at = "connecting" THEN "aborted" ELSE calls[g].at
<1>1. calls[g] \in AnyCall
  BY DEF ViewInv, ViewTypes
<1>2. /\ [calls[g] EXCEPT !.at = "aborted"].id = calls[g].id
      /\ [calls[g] EXCEPT !.at = "aborted"].attempt = calls[g].attempt
      /\ [calls[g] EXCEPT !.at = "aborted"].at = "aborted"
  BY <1>1 DEF AnyCall
<1> QED
  BY <1>2 DEF AbortOf

(* A reset: the streams there were are not the current one any more, and   *)
(* at most one call more uploads.                                          *)
LEMMA ResetBudget ==
  ASSUME ViewInv, StreamBounds, ResetStreams, viewLog.drops < MaxDrops, viewLog'.drops = viewLog.drops + 1,
         NEW fresh \in SUBSET Files, \A f \in fresh : calls'[f] = [NotCalled EXCEPT !.at = "uploading"],
         \A f, g \in fresh : f = g,
         \A f \in Files \ fresh : calls'[f] = AbortOf(controller)[f]
  PROVE  StreamBounds'
<1> DEFINE U == Uploading
           V == Uploading'
           d == viewLog.drops
<1>1. \A f \in Files : /\ calls[f] \in AnyCall /\ calls[f].attempt \in Nat /\ calls[f].id \in Nat
                       /\ calls[f].id <= streamId
  BY DEF ViewInv, ViewTypes, AnyCall, StreamsNumbered
<1>2. \A f \in fresh : calls'[f].at = "uploading" /\ calls'[f].attempt = 0 /\ calls'[f].id = 0
  BY DEF NotCalled
<1>3. ASSUME NEW f \in Files, f \notin fresh
      PROVE  /\ calls'[f].attempt = calls[f].attempt /\ calls'[f].id = calls[f].id
             /\ \/ calls'[f].at = calls[f].at
                \/ calls[f].at = "connecting" /\ calls'[f].at = "aborted"
  <2> DEFINE now == AbortOf(controller)[f]
  <2>1. /\ now.id = calls[f].id /\ now.attempt = calls[f].attempt
        /\ now.at = IF f = controller /\ calls[f].at = "connecting" THEN "aborted" ELSE calls[f].at
    BY AbortKeeps
  <2>2. calls'[f] = now
    BY <1>3
  <2> HIDE DEF now
  <2> QED
    BY <2>1, <2>2
<1>4. IsFiniteSet(U) /\ Cardinality(U) \in Nat /\ V \subseteq U \cup fresh
  <2>1. V \subseteq U \cup fresh
    BY <1>3 DEF Uploading
  <2> QED
    BY <2>1, FS_CardinalityType DEF StreamBounds
<1>5. IsFiniteSet(V) /\ Cardinality(V) \in Nat /\ Cardinality(V) <= Cardinality(U) + 1
  <2>1. CASE fresh = {}
    BY <1>4, <2>1, FS_Subset, FS_CardinalityType
  <2>2. CASE fresh # {}
    <3>1. PICK f \in fresh : fresh = {f}
      BY <2>2
    <3> HIDE DEF U
    <3>2. IsFiniteSet(U \cup {f}) /\ Cardinality(U \cup {f}) <= Cardinality(U) + 1
      <4>1. IsFiniteSet(U \cup {f})
            /\ Cardinality(U \cup {f}) = IF f \in U THEN Cardinality(U) ELSE Cardinality(U) + 1
        BY <1>4, FS_AddElement
      <4> QED
        BY <1>4, <4>1
    <3>3. V \subseteq U \cup {f}
      BY <1>4, <3>1
    <3>4. IsFiniteSet(V) /\ Cardinality(V) <= Cardinality(U \cup {f})
          /\ Cardinality(V) \in Nat /\ Cardinality(U \cup {f}) \in Nat
      BY <3>2, <3>3, FS_Subset, FS_CardinalityType
    <3> QED
      BY <1>4, <3>2, <3>4
  <2> QED
    BY <2>1, <2>2
<1>6. streamId \in Nat /\ MaxReconnects \in Nat /\ MaxDrops \in Nat /\ d \in Nat /\ streamId' = streamId + 1
  BY ViewFacts DEF ViewInv, ViewTypes, Logs, ResetStreams
<1>7. \A f \in Files : CallBound(calls'[f])
  <2>1. ASSUME NEW f \in fresh PROVE CallBound(calls'[f])
    BY <1>2, <1>6 DEF CallBound
  <2>2. ASSUME NEW f \in Files, f \notin fresh PROVE CallBound(calls'[f])
    <3>1. CallBound(calls[f])
      BY DEF StreamBounds
    <3>2. /\ calls'[f].attempt = calls[f].attempt
          /\ calls'[f].at = calls[f].at \/ calls'[f].at = "aborted"
      BY <1>3, <2>2
    <3> QED
      BY <3>1, <3>2 DEF CallBound
  <2> QED
    BY <2>1, <2>2
<1>8. ASSUME NEW f \in Files PROVE calls'[f].at = "uploading" \/ calls'[f].id # streamId'
  <2>1. CASE f \in fresh
    BY <1>2, <2>1
  <2>2. CASE f \notin fresh
    <3>1. calls'[f].id = calls[f].id /\ calls[f].id \in Nat /\ calls[f].id <= streamId
      BY <1>1, <1>3, <2>2
    <3> QED
      BY <1>6, <3>1
  <2> QED
    BY <2>1, <2>2
<1>9. streamId' + Due(Cardinality(V)) <= Earned(d + 1)
  <2> DEFINE n == Cardinality(U)
             m == Cardinality(V)
  <2>1. streamId + Due(n) <= Earned(d)
    BY DEF StreamBounds, StreamsLeft
  <2> HIDE DEF n, m, d
  <2>2. n \in Nat /\ m \in Nat /\ m <= n + 1 /\ n + 1 \in Nat /\ d \in Nat
    BY <1>4, <1>5, <1>6 DEF n, m, d
  <2>3. /\ Due(m) <= Due(n + 1) /\ Due(n + 1) = Due(n) + MaxReconnects + 1
        /\ Earned(d + 1) = Earned(d) + MaxReconnects + 2
        /\ Due(n) \in Nat /\ Due(m) \in Nat /\ Earned(d) \in Nat
    BY <2>2, Rates
  <2>4. streamId + 1 + Due(m) <= Earned(d + 1)
    BY <1>6, <2>1, <2>3
  <2> QED
    BY <1>6, <2>4 DEF m
<1>10. StreamsLeft'
  BY <1>8, <1>9 DEF StreamsLeft
<1>11. viewLog'.drops <= MaxDrops
  BY <1>6
<1>12. controller' \in Owners /\ reconnecting' \in BOOLEAN
  BY DEF ResetStreams, Owners
<1> QED
  BY <1>5, <1>7, <1>10, <1>11, <1>12 DEF StreamBounds

(* A stream is started: its call was uploading, or goes on to its next     *)
(* attempt.                                                                *)
LEMMA StartBudget ==
  ASSUME ViewInv, StreamBounds, NEW f \in Files, NEW k \in Nat, StartStream(f, k), UNCHANGED viewLog,
         \/ calls[f].at = "uploading" /\ k = 0
         \/ calls[f].at = "waiting" /\ calls[f].id = streamId /\ k = calls[f].attempt + 1,
         reconnecting' \in BOOLEAN
  PROVE  StreamBounds'
<1> DEFINE U == Uploading
           V == Uploading'
           old == IF controller = f THEN calls ELSE AbortOf(controller)
           new == [NotCalled EXCEPT !.at = "connecting", !.id = streamId + 1, !.attempt = k]
<1>1. calls' = [old EXCEPT ![f] = new] /\ streamId' = streamId + 1 /\ controller' = f
  BY DEF StartStream
<1>2. /\ streamId \in Nat /\ calls \in [Files -> AnyCall] /\ MaxReconnects \in Nat /\ viewLog.drops \in Nat
      /\ \A g \in Files : calls[g].id \in Nat /\ calls[g].id <= streamId /\ calls[g].attempt \in Nat
  BY ViewFacts DEF ViewInv, ViewTypes, StreamsNumbered, AnyCall, Logs
<1>3. new.at = "connecting" /\ new.id = streamId + 1 /\ new.attempt = k
  BY DEF NotCalled
<1>4. /\ DOMAIN old = Files
      /\ \A g \in Files : /\ old[g].id = calls[g].id /\ old[g].attempt = calls[g].attempt
                          /\ \/ old[g].at = calls[g].at
                             \/ calls[g].at = "connecting" /\ old[g].at = "aborted"
  <2>1. DOMAIN old = Files
    BY <1>2 DEF AbortOf
  <2> QED
    BY <2>1, AbortKeeps
<1> HIDE DEF old, new
<1>5. calls'[f] = new /\ \A g \in Files \ {f} : calls'[g] = old[g]
  BY <1>1, <1>4
<1>6. V = U \ {f}
  BY <1>3, <1>4, <1>5 DEF Uploading
<1>7. /\ IsFiniteSet(U) /\ IsFiniteSet(V) /\ Cardinality(U) \in Nat /\ Cardinality(V) \in Nat
      /\ IF calls[f].at = "uploading" THEN Cardinality(U) = Cardinality(V) + 1 ELSE V = U
  <2>1. IsFiniteSet(U) /\ Cardinality(U) \in Nat
    BY FS_CardinalityType DEF StreamBounds
  <2>2. f \in U <=> calls[f].at = "uploading"
    BY DEF Uploading
  <2>3. /\ IsFiniteSet(V) /\ Cardinality(V) = IF f \in U THEN Cardinality(U) - 1 ELSE Cardinality(U)
    BY <1>6, <2>1, FS_RemoveElement
  <2>4. Cardinality(V) \in Nat
    BY <2>3, FS_CardinalityType
  <2>5. f \notin U => V = U
    BY <1>6
  <2> HIDE DEF U, V
  <2> QED
    BY <2>1, <2>2, <2>3, <2>4, <2>5
<1>8. k <= MaxReconnects
  BY <1>2 DEF StreamBounds, CallBound
<1>9. \A g \in Files : CallBound(calls'[g])
  BY <1>3, <1>4, <1>5, <1>8 DEF StreamBounds, CallBound
<1>10. \A g \in Files \ {f} : calls'[g].id # streamId'
  BY <1>1, <1>2, <1>4, <1>5
<1>11. streamId + 1 + (MaxReconnects - k) + Due(Cardinality(V)) <= Earned(viewLog.drops)
  <2> DEFINE e == Earned(viewLog.drops)
             m == Cardinality(V)
             n == Cardinality(U)
  <2>1. /\ streamId + Due(n) <= e
        /\ calls[f].at = "waiting" /\ calls[f].id = streamId =>
              streamId + (MaxReconnects - calls[f].attempt) + Due(n) <= e
    BY DEF StreamBounds, StreamsLeft
  <2>2. m \in Nat /\ n \in Nat /\ Due(m) \in Nat /\ Due(n) \in Nat /\ e \in Nat
        /\ Due(m + 1) = Due(m) + MaxReconnects + 1
    BY <1>2, <1>7, Rates
  <2>3. IF calls[f].at = "uploading" THEN n = m + 1 ELSE n = m
    BY <1>7
  <2> HIDE DEF e, m, n
  <2>4. CASE calls[f].at = "uploading"
    <3>1. k = 0 /\ Due(n) = Due(m) + MaxReconnects + 1
      BY <2>2, <2>3, <2>4
    <3> QED
      BY <1>2, <2>1, <2>2, <3>1 DEF e, m
  <2>5. CASE calls[f].at # "uploading"
    <3> DEFINE a == calls[f].attempt
    <3>1. k = a + 1 /\ a \in Nat /\ streamId + (MaxReconnects - a) + Due(m) <= e
      BY <1>2, <2>1, <2>3, <2>5
    <3> HIDE DEF a
    <3>2. streamId + 1 + (MaxReconnects - k) + Due(m) <= e
      BY <1>2, <2>2, <3>1
    <3> QED
      BY <3>2 DEF e, m
  <2> QED
    BY <2>4, <2>5
<1>12. StreamsLeft'
  <2> DEFINE e == Earned(viewLog.drops)
             v == Due(Cardinality(V))
  <2>1. v \in Nat /\ e \in Nat
    BY <1>2, <1>7, Rates
  <2>2. streamId + 1 + (MaxReconnects - k) + v <= e
    BY <1>11
  <2> HIDE DEF v, e
  <2>3. streamId + 1 + v <= e
    BY <1>2, <1>8, <2>1, <2>2
  <2>4. streamId' + Due(Cardinality(V)) <= Earned(viewLog'.drops)
    BY <1>1, <2>3 DEF v, e
  <2>5. ASSUME NEW g \in Files, calls'[g].at \notin {"none", "uploading"}, calls'[g].id = streamId'
        PROVE  streamId' + (MaxReconnects - calls'[g].attempt) + Due(Cardinality(V)) <= Earned(viewLog'.drops)
    <3>1. calls'[g] = new
      BY <1>5, <1>10, <2>5
    <3> QED
      BY <1>1, <1>3, <2>2, <3>1 DEF v, e
  <2> QED
    BY <2>4, <2>5 DEF StreamsLeft
<1> QED
  BY <1>1, <1>7, <1>9, <1>12 DEF StreamBounds, Owners

LEMMA StreamsStep == ASSUME ViewInv, ViewTypes', StreamBounds, [ViewNext]_viewVars PROVE StreamBounds'
<1>0. /\ calls \in [Files -> AnyCall] /\ viewLog \in Logs
      /\ controller \in Owners /\ reconnecting \in BOOLEAN
  BY DEF ViewInv, ViewTypes, StreamBounds
<1>1. ASSUME NEW f \in Files, calls' = [calls EXCEPT ![f] = NotCalled], UNCHANGED <<controller, streamId, viewLog>>,
             reconnecting' \in BOOLEAN
      PROVE  StreamBounds'
  <2>1. calls'[f] = NotCalled /\ \A g \in Files \ {f} : calls'[g] = calls[g]
    BY <1>0, <1>1
  <2>2. \A g \in Files : Proceeds(g)
    BY <2>1 DEF Proceeds, NotCalled
  <2> QED
    BY <1>0, <1>1, <2>2, SameBudget
<1>2. ASSUME UNCHANGED <<calls, controller, streamId, reconnecting>>, viewLog'.drops = viewLog.drops
      PROVE  StreamBounds'
  <2>1. \A g \in Files : Proceeds(g)
    BY <1>2 DEF Proceeds
  <2> QED
    BY <1>0, <1>2, <2>1, SameBudget
<1>3. ASSUME NEW f \in Files, Drop(f) PROVE StreamBounds'
  <2> DEFINE up == [NotCalled EXCEPT !.at = "uploading"]
  <2>1. DOMAIN AbortOf(controller) = Files
    BY DEF AbortOf
  <2>2. calls'[f] = up /\ \A g \in Files \ {f} : calls'[g] = AbortOf(controller)[g]
    BY <1>3, <2>1 DEF Drop
  <2>3. viewLog'.drops = viewLog.drops + 1 /\ viewLog.drops < MaxDrops /\ ResetStreams
    BY <1>0, <1>3 DEF Drop, Logs
  <2>4. {f} \in SUBSET Files
    OBVIOUS
  <2> QED
    BY <2>2, <2>3, <2>4, ResetBudget
<1>4. CASE StartOver
  <2>1. viewLog'.drops = viewLog.drops + 1 /\ viewLog.drops < MaxDrops /\ ResetStreams
        /\ calls' = AbortOf(controller)
    BY <1>0, <1>4 DEF StartOver, Logs
  <2>2. {} \in SUBSET Files
    OBVIOUS
  <2> QED
    BY <2>1, <2>2, ResetBudget
<1>5. ASSUME NEW f \in Files, Uploaded(f) \/ Reconnect(f) PROVE StreamBounds'
  <2>1. calls[f].attempt + 1 \in Nat /\ 0 \in Nat
    BY <1>0 DEF AnyCall
  <2>2. CASE Uploaded(f)
    BY <1>0, <2>1, <2>2, StartBudget DEF Uploaded
  <2>3. CASE Reconnect(f)
    BY <1>0, <2>1, <2>3, StartBudget DEF Reconnect, Current, FlagDown
  <2> QED
    BY <1>5, <2>2, <2>3
<1>6. ASSUME NEW f \in Files, CallFails(f) \/ EndsWell(f) \/ NotNeeded(f) \/ BackendGone(f) PROVE StreamBounds'
  BY <1>0, <1>1, <1>6 DEF CallFails, Fails, EndsWell, NotNeeded, BackendGone, FlagDown
<1>7. ASSUME NEW f \in Files, Connected(f) PROVE StreamBounds'
  <2>1. /\ calls'[f].at = "open" /\ calls'[f].id = calls[f].id /\ calls'[f].attempt = calls[f].attempt
        /\ \A g \in Files \ {f} : calls'[g] = calls[g]
        /\ calls[f].at = "connecting"
    BY <1>0, <1>7 DEF Connected, AnyCall
  <2>2. \A g \in Files : Proceeds(g)
    BY <2>1 DEF Proceeds
  <2> QED
    BY <1>0, <1>7, <2>2, SameBudget DEF Connected
<1>8. ASSUME NEW f \in Files, Breaks(f) PROVE StreamBounds'
  <2>1. CASE calls[f].attempt < MaxReconnects /\ ~reconnecting
    <3>1. /\ calls' = [calls EXCEPT ![f] = [@ EXCEPT !.at = "waiting"]]
          /\ UNCHANGED <<controller, streamId, viewLog>> /\ reconnecting' = TRUE
          /\ calls[f].at = "open"
      BY <1>8, <2>1 DEF Breaks
    <3>2. /\ calls'[f].at = "waiting" /\ calls'[f].id = calls[f].id /\ calls'[f].attempt = calls[f].attempt
          /\ \A g \in Files \ {f} : calls'[g] = calls[g]
      BY <1>0, <3>1 DEF AnyCall
    <3>3. \A g \in Files : Proceeds(g)
      BY <2>1, <3>1, <3>2 DEF Proceeds
    <3> QED
      BY <1>0, <3>1, <3>3, SameBudget
  <2>2. CASE ~(calls[f].attempt < MaxReconnects /\ ~reconnecting)
    <3>1. /\ calls' = [calls EXCEPT ![f] = NotCalled] /\ UNCHANGED <<controller, streamId, viewLog>>
          /\ reconnecting' \in BOOLEAN
      BY <1>0, <1>8, <2>2 DEF Breaks, Fails
    <3> QED
      BY <1>1, <3>1
  <2> QED
    BY <2>1, <2>2
<1>9. ASSUME NEW f \in Files, Chunked(f) PROVE StreamBounds'
  <2>1. /\ calls' = [calls EXCEPT ![f].told = TRUE]
        /\ UNCHANGED <<controller, streamId, reconnecting, viewLog>>
    BY <1>9 DEF Chunked, Event
  <2>2. /\ calls'[f].at = calls[f].at /\ calls'[f].id = calls[f].id /\ calls'[f].attempt = calls[f].attempt
        /\ \A g \in Files \ {f} : calls'[g] = calls[g]
    BY <1>0, <2>1 DEF AnyCall
  <2>3. \A g \in Files : Proceeds(g)
    BY <2>2 DEF Proceeds
  <2> QED
    BY <1>0, <2>1, <2>3, SameBudget
<1>10. CASE Recover
  BY <1>0, <1>2, <1>10 DEF Recover, Logs
<1>11. ASSUME NEW f \in Files,
              Progress(f) \/ TranslationComplete(f) \/ ErrorTold(f) \/ \E blk \in Parts : BlockTranslated(f, blk)
       PROVE  StreamBounds'
  BY <1>2, <1>11 DEF Progress, TranslationComplete, ErrorTold, BlockTranslated, Event
<1>12. CASE \/ BackendOffline \/ BackendBack \/ UNCHANGED viewVars
            \/ \E blk \in Parts : RetryBlock(blk) \/ \E f \in Files : RetryAnswered(f, blk)
  BY <1>2, <1>12 DEF BackendOffline, BackendBack, RetryBlock, RetryAnswered, viewVars
<1> QED
  BY <1>3, <1>4, <1>5, <1>6, <1>7, <1>8, <1>9, <1>10, <1>11, <1>12 DEF ViewNext

LEMMA ViewIsTyped == ViewInv /\ StreamBounds => ViewTypeOK
<1> SUFFICES ASSUME ViewInv, StreamBounds PROVE ViewTypeOK
  OBVIOUS
<1>1. /\ MaxReconnects \in Nat /\ MaxDrops \in Nat /\ viewLog \in Logs /\ viewLog.drops \in Nat
      /\ streamId \in Nat /\ viewLog.drops <= MaxDrops
  BY ViewFacts DEF ViewInv, ViewTypes, Logs, StreamBounds
<1>2. streamId \in 0..MaxStreams /\ MaxStreams \in Nat
  <2> DEFINE u == Due(Cardinality(Uploading))
             e == Earned(viewLog.drops)
             all == Earned(MaxDrops)
  <2>1. u \in Nat /\ e \in Nat /\ all \in Nat /\ e <= all
    BY <1>1, Rates, FS_CardinalityType DEF StreamBounds
  <2>2. streamId + u <= e
    BY DEF StreamBounds, StreamsLeft
  <2>3. all = MaxStreams
    BY DEF Earned, MaxStreams
  <2> HIDE DEF u, e, all
  <2> QED
    BY <1>1, <2>1, <2>2, <2>3
<1>3. ASSUME NEW f \in Files
      PROVE  calls[f] \in [at : {"none", "uploading", "connecting", "aborted", "open", "waiting"},
                            id : 0..MaxStreams, attempt : 0..MaxReconnects, told : BOOLEAN]
  <2>1. calls[f] \in AnyCall /\ calls[f].id <= streamId /\ calls[f].attempt <= MaxReconnects
    BY DEF ViewInv, ViewTypes, StreamsNumbered, StreamBounds, CallBound
  <2>2. calls[f].id \in 0..MaxStreams /\ calls[f].attempt \in 0..MaxReconnects
    BY <1>1, <1>2, <2>1 DEF AnyCall
  <2> QED
    BY <2>1, <2>2 DEF AnyCall
<1>4. viewLog \in [drops : 0..MaxDrops, overlap : BOOLEAN, booting : BOOLEAN]
  <2>1. viewLog.drops \in 0..MaxDrops
    BY <1>1
  <2> QED
    BY <1>1, <2>1 DEF Logs
<1>5. calls \in [Files -> [at : {"none", "uploading", "connecting", "aborted", "open", "waiting"},
                          id : 0..MaxStreams, attempt : 0..MaxReconnects, told : BOOLEAN]]
  BY <1>3 DEF ViewInv, ViewTypes
<1> QED
  BY <1>2, <1>4, <1>5 DEF ViewInv, ViewTypes, Views, Owners, StreamBounds, ViewTypeOK

-----------------------------------------------------------------------------
(* The lists of recent projects keep to their length.                      *)
Short(list) == list \in Seq(Directories) /\ Len(list) <= MaxRecent

CreationTypes ==
  /\ target \in [Requesters -> Directories]
  /\ Short(recent) /\ \A r \in Requesters : Short(snapshot[r])
  /\ removals \in 0..MaxRemovals
  /\ created \in [Directories -> SUBSET Creators]

LEMMA CreationTypesBegin == CreationInit => CreationTypes
<1> SUFFICES ASSUME CreationInit PROVE CreationTypes
  OBVIOUS
<1>1. Short(<<>>)
  BY CreationAssumption DEF Short
<1>2. (CHOOSE p \in Directories : TRUE) \in Directories
  BY CreationAssumption
<1>3. 0 \in 0..MaxRemovals
  BY CreationAssumption
<1> QED
  BY <1>1, <1>2, <1>3 DEF CreationInit, CreationTypes

LEMMA ListsShort ==
  /\ \A list, K : Short(list) => Short(Kept(list, K))
  /\ \A list : \A p \in Directories : Short(list) => Short(WithRecent(list, p)) /\ Short(LeavingOut(list, p))
<1>1. ASSUME NEW list, NEW K, Short(list) PROVE Short(Kept(list, K))
  <2>1. Kept(list, K) \in Seq(Directories) /\ Len(Kept(list, K)) <= Len(list)
    BY <1>1, KeptNoLonger DEF Short
  <2>2. Len(list) \in Nat /\ Len(list) <= MaxRecent /\ Len(Kept(list, K)) \in Nat /\ MaxRecent \in Nat
    BY <1>1, <2>1, CreationAssumption DEF Short
  <2> QED
    BY <2>1, <2>2 DEF Short
<1>2. ASSUME NEW list, NEW p \in Directories, Short(list)
      PROVE  Short(LeavingOut(list, p)) /\ Short(WithRecent(list, p))
  <2> DEFINE rest == LeavingOut(list, p)
             all  == <<p>> \o rest
  <2>1. Short(rest)
    BY <1>1, <1>2 DEF LeavingOut
  <2>2. WithRecent(list, p) = IF Len(all) > MaxRecent THEN SubSeq(all, 1, MaxRecent) ELSE all
    BY DEF WithRecent
  <2> HIDE DEF rest
  <2>3. all \in Seq(Directories) /\ Len(all) \in Nat /\ MaxRecent \in Nat
    BY <2>1, CreationAssumption DEF Short
  <2> HIDE DEF all
  <2>4. ASSUME Len(all) > MaxRecent PROVE Short(SubSeq(all, 1, MaxRecent))
    <3>1. SubSeq(all, 1, MaxRecent) \in Seq(Directories) /\ Len(SubSeq(all, 1, MaxRecent)) = MaxRecent
      BY <2>3, <2>4
    <3> QED
      BY <2>3, <3>1 DEF Short
  <2>5. ASSUME ~(Len(all) > MaxRecent) PROVE Short(all)
    BY <2>3, <2>5 DEF Short
  <2>6. Short(WithRecent(list, p))
    BY <2>2, <2>4, <2>5
  <2> QED
    BY <2>1, <2>6 DEF rest
<1> QED
  BY <1>1, <1>2

LEMMA CreationTypesStep == ASSUME CreationTypes, CreationInv, [CreationNext]_creationVars PROVE CreationTypes'
<1>0. /\ target \in [Requesters -> Directories] /\ created \in [Directories -> SUBSET Creators]
      /\ Short(recent) /\ \A r \in Requesters : Short(snapshot[r])
      /\ Creators \subseteq Requesters /\ RecentTasks \subseteq Requesters
      /\ DOMAIN snapshot = Requesters /\ Short(<<>>)
  <2>1. Short(<<>>)
    BY CreationAssumption DEF Short
  <2> QED
    BY <2>1 DEF CreationTypes, CreationInv, Requesters
<1>1. ASSUME NEW r \in Requesters, NEW list, Short(list), snapshot' = [snapshot EXCEPT ![r] = list]
      PROVE  \A q \in Requesters : Short(snapshot'[q])
  BY <1>0, <1>1
<1>2. ASSUME NEW list, Short(list), WriteRecent(list) PROVE Short(recent')
  BY <1>2, ListsShort DEF WriteRecent
<1>3. ASSUME NEW r \in Creators, NEW p \in Directories, Check(r, p) PROVE CreationTypes'
  BY <1>0, <1>3 DEF Check, CreationTypes
<1>4. ASSUME NEW r \in Creators, MakeTemp(r) \/ Build(r) \/ Move(r) \/ CreationFails(r) \/ DeclareReady(r)
      PROVE  CreationTypes'
  BY <1>4 DEF MakeTemp, Build, Move, CreationFails, DeclareReady, CreationTypes
<1>5. ASSUME NEW r \in Creators, ReadRecent(r) PROVE CreationTypes'
  BY <1>0, <1>1, <1>5 DEF ReadRecent, CreationTypes
<1>6. ASSUME NEW r \in Requesters, WriteBack(r)
      PROVE  /\ Short(recent') /\ \A q \in Requesters : Short(snapshot'[q])
             /\ UNCHANGED <<target, removals>>
  <2>1. Short(WithRecent(snapshot[r], target[r]))
    BY <1>0, ListsShort
  <2>2. Short(recent')
    BY <1>0, <1>2, <1>6, <2>1 DEF WriteBack
  <2>3. \A q \in Requesters : Short(snapshot'[q])
    BY <1>0, <1>1, <1>6 DEF WriteBack
  <2> QED
    BY <1>6, <2>2, <2>3 DEF WriteBack
<1>7. ASSUME NEW r \in Creators, AddRecent(r) PROVE CreationTypes'
  <2>1. created' \in [Directories -> SUBSET Creators]
    BY <1>0, <1>7 DEF AddRecent, Finish
  <2> QED
    BY <1>0, <1>6, <1>7, <2>1 DEF AddRecent, CreationTypes
<1>8. ASSUME NEW r \in RecentTasks, NEW p \in Directories, NEW how, AskRecent(r, p, how) PROVE CreationTypes'
  <2>1. \A q \in Requesters : Short(snapshot'[q])
    BY <1>0, <1>1, <1>8 DEF AskRecent
  <2>2. target' \in [Requesters -> Directories]
    BY <1>0, <1>8 DEF AskRecent
  <2> QED
    BY <1>8, <2>1, <2>2 DEF AskRecent, CreationTypes
<1>9. ASSUME NEW r \in RecentTasks, LoadProject(r) PROVE CreationTypes'
  BY <1>0, <1>6, <1>9 DEF LoadProject, CreationTypes
<1>10. ASSUME NEW r \in RecentTasks, RemoveRecent(r) \/ ListRecent(r) PROVE CreationTypes'
  <2>1. Short(LeavingOut(snapshot[r], target[r])) /\ Short(snapshot[r])
    BY <1>0, ListsShort
  <2>2. Short(recent')
    BY <1>0, <1>2, <1>10, <2>1 DEF RemoveRecent, ListRecent
  <2>3. \A q \in Requesters : Short(snapshot'[q])
    BY <1>0, <1>1, <1>10 DEF RemoveRecent, ListRecent
  <2>4. UNCHANGED <<target, removals, created>>
    BY <1>10 DEF RemoveRecent, ListRecent, AskRecent
  <2> QED
    BY <2>2, <2>3, <2>4 DEF CreationTypes
<1>11. ASSUME NEW p \in Directories, RemoveProject(p) PROVE CreationTypes'
  <2>1. removals' \in 0..MaxRemovals
    BY <1>11, CreationAssumption DEF RemoveProject, CreationTypes
  <2>2. created' \in [Directories -> SUBSET Creators] /\ UNCHANGED <<target, recent, snapshot>>
    BY <1>0, <1>11 DEF RemoveProject
  <2> QED
    BY <2>1, <2>2 DEF CreationTypes
<1>12. CASE UNCHANGED creationVars
  BY <1>12 DEF creationVars, CreationTypes
<1> QED
  BY <1>3, <1>4, <1>5, <1>7, <1>8, <1>9, <1>10, <1>11, <1>12 DEF CreationNext

LEMMA CreationIsTyped == CreationInv /\ CreationTypes => CreationTypeOK
<1> SUFFICES ASSUME CreationInv, CreationTypes PROVE CreationTypeOK
  OBVIOUS
<1>1. Len(recent) <= MaxRecent /\ ToSet(recent) \subseteq Directories
  BY DEF CreationTypes, Short, ToSet
<1>2. snapshot \in [Requesters -> Seq(Directories)]
  BY DEF CreationInv
<1> QED
  BY <1>1, <1>2 DEF CreationInv, CreationTypes, CreationTypeOK

-----------------------------------------------------------------------------
(* The library: an export's record is put before those there are.          *)
LibraryTypes ==
  /\ files \subseteq Workers
  /\ translation \in [FileNames -> Workers \cup {NoSource}]
  /\ exports \in Seq(Workers) /\ Len(exports) <= MaxExports
  /\ \A w \in Workers : work[w].op = "export" /\ work[w].at = "write" => Head(seen[w]) \in Seq(Workers)

LEMMA LibraryTypesBegin == LibraryInit => LibraryTypes
<1> SUFFICES ASSUME LibraryInit PROVE LibraryTypes
  OBVIOUS
<1>1. <<>> \in Seq(Workers) /\ Len(<<>>) <= MaxExports
  BY LibraryAssumption
<1> QED
  BY <1>1 DEF LibraryInit, LibIdle, LibraryTypes

(* A request that does not come to write.                                  *)
LEMMA LibraryElsewhere ==
  ASSUME LibraryTypes, NEW w \in Workers, work'[w].at # "write",
         \A other \in Workers \ {w} : work'[other] = work[other] /\ seen'[other] = seen[other]
  PROVE  \A v \in Workers : work'[v].op = "export" /\ work'[v].at = "write" => Head(seen'[v]) \in Seq(Workers)
BY DEF LibraryTypes

LEMMA LibraryTypesStep == ASSUME LibraryTypes, LibraryInv, [LibraryNext]_libraryVars PROVE LibraryTypes'
<1>0. /\ work \in [Workers -> Requests] /\ DOMAIN seen = Workers
      /\ files \subseteq Workers /\ translation \in [FileNames -> Workers \cup {NoSource}]
      /\ exports \in Seq(Workers) /\ Len(exports) <= MaxExports
  BY DEF LibraryInv, LibraryTypes
<1> DEFINE Elsewhere(w) ==
             /\ work'[w].at # "write"
             /\ \A other \in Workers \ {w} : work'[other] = work[other] /\ seen'[other] = seen[other]
<1>1. ASSUME NEW w \in Workers, Elsewhere(w), files' \subseteq Workers, UNCHANGED <<translation, exports>>
      PROVE  LibraryTypes'
  BY <1>0, <1>1, LibraryElsewhere DEF LibraryTypes
<1>2. ASSUME NEW w \in Workers, NEW op, NEW id, Arrive(w, op, id),
             op \in {"upsert", "import", "attach", "delete", "export"}
      PROVE  LibraryTypes'
  <2>1. First[op] \in {"read", "file", "find"}
    BY <1>2 DEF First
  <2>2. work'[w].at # "write" /\ \A other \in Workers \ {w} : work'[other] = work[other]
    BY <1>0, <1>2, <2>1 DEF Arrive
  <2> QED
    BY <1>0, <1>1, <1>2, <2>2 DEF Arrive
<1>3. ASSUME NEW w \in Workers, NEW place, work' = [work EXCEPT ![w].at = place], place # "write"
      PROVE  work'[w].at # "write" /\ \A other \in Workers \ {w} : work'[other] = work[other]
  BY <1>0, <1>3 DEF Requests
<1>4. ASSUME NEW w \in Workers, StoreFile(w) PROVE LibraryTypes'
  BY <1>0, <1>1, <1>3, <1>4 DEF StoreFile, At
<1>5. ASSUME NEW w \in Workers, FindSource(w) PROVE LibraryTypes'
  <2>1. /\ UNCHANGED <<seen, translation, exports>>
        /\ \/ files' = files \/ TakeBack(w)
        /\ \/ \E place \in {"copy", "read"} : \E got : work' = [work EXCEPT ![w].at = place, ![w].found = got]
           \/ \E place \in {"read", "failed"} : work' = [work EXCEPT ![w].at = place]
    BY <1>5 DEF FindSource
  <2>2. files' \subseteq Workers
    BY <1>0, <2>1 DEF TakeBack
  <2>3. ASSUME NEW place \in {"copy", "read"}, NEW got, work' = [work EXCEPT ![w].at = place, ![w].found = got]
        PROVE  work'[w].at # "write" /\ \A other \in Workers \ {w} : work'[other] = work[other]
    <3>1. work'[w] = [[work[w] EXCEPT !.at = place] EXCEPT !.found = got]
      BY <1>0, <2>3
    <3>2. work'[w].at = place
      BY <1>0, <3>1 DEF Requests
    <3>3. \A other \in Workers \ {w} : work'[other] = work[other]
      BY <1>0, <2>3
    <3> QED
      BY <3>2, <3>3
  <2>4. work'[w].at # "write" /\ \A other \in Workers \ {w} : work'[other] = work[other]
    BY <1>3, <2>1, <2>3
  <2> QED
    BY <1>1, <2>1, <2>2, <2>4
<1>6. ASSUME NEW w \in Workers, CopyTranslation(w) PROVE LibraryTypes'
  <2>1. translation' \in [FileNames -> Workers \cup {NoSource}]
    BY <1>0, <1>6 DEF CopyTranslation
  <2>2. Elsewhere(w) /\ UNCHANGED <<files, exports>>
    BY <1>3, <1>6 DEF CopyTranslation, At
  <2> QED
    BY <1>0, <2>1, <2>2, LibraryElsewhere DEF LibraryTypes
<1>7. ASSUME NEW w \in Workers, ReadManifest(w) PROVE LibraryTypes'
  <2>1. PICK place \in {"failed", "write"} : work' = [work EXCEPT ![w].at = place]
    BY <1>7 DEF ReadManifest
  <2>2. work'[w].op = work[w].op /\ \A other \in Workers \ {w} : work'[other] = work[other]
    BY <1>0, <2>1 DEF Requests
  <2>3. /\ seen' = [seen EXCEPT ![w] = <<IF work[w].op = "export" THEN exports ELSE sources>>]
        /\ UNCHANGED <<files, translation, exports>>
    BY <1>7 DEF ReadManifest
  <2>4. /\ seen'[w] = <<IF work[w].op = "export" THEN exports ELSE sources>>
        /\ \A other \in Workers \ {w} : seen'[other] = seen[other]
    BY <1>0, <2>3
  <2>5. work[w].op = "export" => Head(seen'[w]) \in Seq(Workers)
    BY <1>0, <2>4
  <2>6. \A v \in Workers : work'[v].op = "export" /\ work'[v].at = "write" => Head(seen'[v]) \in Seq(Workers)
    BY <2>2, <2>4, <2>5 DEF LibraryTypes
  <2> QED
    BY <1>0, <2>3, <2>6 DEF LibraryTypes
<1>8. ASSUME NEW w \in Workers, EntryFails(w) PROVE LibraryTypes'
  <2>1. files' \subseteq Workers
    BY <1>0, <1>8 DEF EntryFails, TakeBack
  <2> QED
    BY <1>0, <1>1, <1>3, <1>8, <2>1 DEF EntryFails
<1>9. ASSUME NEW w \in Workers,
             \/ \E original \in Attached, translated \in TranslatedAs : WriteEntry(w, original, translated)
             \/ DeleteSource(w, TRUE) \/ DeleteSource(w, FALSE) \/ DeleteHalfway(w)
      PROVE  LibraryTypes'
  <2>1. /\ \E place \in {"done", "failed"} : work' = [work EXCEPT ![w].at = place]
        /\ seen' = [seen EXCEPT ![w] = <<>>] /\ files' \subseteq files /\ UNCHANGED <<translation, exports>>
    BY <1>9 DEF WriteEntry, DeleteSource, DeleteHalfway, At
  <2>2. Elsewhere(w)
    BY <1>0, <1>3, <2>1
  <2> QED
    BY <1>0, <1>1, <2>1, <2>2
<1>10. ASSUME NEW w \in Workers, RecordExport(w) PROVE LibraryTypes'
  <2> DEFINE list == <<w>> \o Head(seen[w])
  <2>1. /\ exports' = IF Len(list) > MaxExports THEN SubSeq(list, 1, MaxExports) ELSE list
        /\ work' = [work EXCEPT ![w].at = "done"] /\ seen' = [seen EXCEPT ![w] = <<>>]
        /\ UNCHANGED <<files, translation>> /\ work[w].op = "export" /\ work[w].at = "write"
    BY <1>10 DEF RecordExport, At
  <2>2. list \in Seq(Workers) /\ Len(list) \in Nat /\ MaxExports \in Nat
    <3>1. Head(seen[w]) \in Seq(Workers)
      BY <2>1 DEF LibraryTypes
    <3> QED
      BY <3>1, LibraryAssumption
  <2> HIDE DEF list
  <2>3. exports' \in Seq(Workers) /\ Len(exports') <= MaxExports
    <3>1. CASE Len(list) > MaxExports
      <4>1. SubSeq(list, 1, MaxExports) \in Seq(Workers) /\ Len(SubSeq(list, 1, MaxExports)) = MaxExports
        BY <2>2, <3>1
      <4> QED
        BY <2>1, <2>2, <3>1, <4>1
    <3>2. CASE ~(Len(list) > MaxExports)
      BY <2>1, <2>2, <3>2
    <3> QED
      BY <3>1, <3>2
  <2>4. Elsewhere(w)
    BY <1>0, <1>3, <2>1
  <2> QED
    BY <1>0, <2>1, <2>3, <2>4, LibraryElsewhere DEF LibraryTypes
<1>11. CASE UNCHANGED libraryVars
  BY <1>11 DEF libraryVars, LibraryTypes
<1> HIDE DEF Elsewhere
<1> QED
  BY <1>2, <1>4, <1>5, <1>6, <1>7, <1>8, <1>9, <1>10, <1>11 DEF LibraryNext

LEMMA LibraryIsTyped == LibraryInv /\ LibraryTypes => LibraryTypeOK
<1> SUFFICES ASSUME LibraryInv, LibraryTypes PROVE LibraryTypeOK
  OBVIOUS
<1>1. \A w \in Workers : work[w] \in Requests
  BY DEF LibraryInv
<1> QED
  BY <1>1 DEF LibraryInv, Requests, Manifest, LibraryTypes, LibraryTypeOK

-----------------------------------------------------------------------------
(* The glossary's prompt: at most n terms are among the first n, as each   *)
(* has fewer than n before it, and no two the same number.                 *)
LEMMA FirstAreFew ==
  ASSUME NEW S \in SUBSET Nat, IsFiniteSet(S), NEW n \in Nat
  PROVE  /\ FirstOf(S, n) \subseteq S /\ IsFiniteSet(FirstOf(S, n))
         /\ Cardinality(FirstOf(S, n)) \in Nat /\ Cardinality(FirstOf(S, n)) <= n
<1> DEFINE F == FirstOf(S, n)
           Before(t) == {u \in S : u < t}
           rank == [t \in F |-> Cardinality(Before(t))]
           places == 0..(n - 1)
<1>1. F \subseteq S /\ IsFiniteSet(F) /\ Cardinality(F) \in Nat
  <2>1. F \subseteq S
    BY DEF FirstOf
  <2> QED
    BY <2>1, FS_Subset, FS_CardinalityType
<1>2. \A t \in S : IsFiniteSet(Before(t)) /\ Cardinality(Before(t)) \in Nat
  <2> SUFFICES ASSUME NEW t \in S PROVE IsFiniteSet(Before(t)) /\ Cardinality(Before(t)) \in Nat
    OBVIOUS
  <2>1. Before(t) \subseteq S
    OBVIOUS
  <2> QED
    BY <2>1, FS_Subset, FS_CardinalityType
<1>3. \A t \in F : Cardinality(Before(t)) < n
  BY DEF FirstOf
<1>4. rank \in [F -> places]
  <2>1. ASSUME NEW t \in F PROVE Cardinality(Before(t)) \in places
    <3>1. Cardinality(Before(t)) \in Nat /\ Cardinality(Before(t)) < n
      BY <1>1, <1>2, <1>3
    <3> QED
      BY <3>1
  <2> QED
    BY <2>1
<1>5. ASSUME NEW s \in F, NEW t \in F, s < t
      PROVE  rank[s] < rank[t]
  <2>1. s \in S /\ t \in S /\ s \in Nat /\ t \in Nat
    BY <1>1
  <2>2. Before(s) \subseteq Before(t) /\ s \in Before(t) /\ s \notin Before(s)
    <3>1. \A u \in S : u < s => u < t
      BY <1>5, <2>1
    <3>2. s \in Before(t) /\ s \notin Before(s)
      BY <1>5, <2>1
    <3> QED
      BY <3>1, <3>2
  <2>3. IsFiniteSet(Before(t)) /\ IsFiniteSet(Before(s)) /\ Before(s) # Before(t)
    BY <1>2, <2>1, <2>2
  <2>4. Cardinality(Before(s)) < Cardinality(Before(t))
    <3> HIDE DEF Before
    <3>1. Cardinality(Before(s)) <= Cardinality(Before(t))
          /\ (Cardinality(Before(s)) = Cardinality(Before(t)) => Before(s) = Before(t))
      BY <2>2, <2>3, FS_Subset
    <3> QED
      BY <1>2, <2>1, <2>3, <3>1
  <2> QED
    BY <2>4
<1>6. rank \in Injection(F, places)
  <2>1. ASSUME NEW s \in F, NEW t \in F, rank[s] = rank[t] PROVE s = t
    <3>1. s \in Nat /\ t \in Nat /\ rank[s] \in Nat /\ rank[t] \in Nat
      BY <1>1, <1>2
    <3>2. ~(s < t) /\ ~(t < s)
      <4>1. CASE s < t
        BY <1>5, <2>1, <3>1, <4>1
      <4>2. CASE t < s
        BY <1>5, <2>1, <3>1, <4>2
      <4> QED
        BY <4>1, <4>2
    <3> QED
      BY <3>1, <3>2
  <2> HIDE DEF rank, places
  <2> QED
    BY <1>4, <2>1 DEF Injection, IsInjective
<1>7. IsFiniteSet(places) /\ Cardinality(places) = n
  <2>1. 0 \in Int /\ n - 1 \in Int
    OBVIOUS
  <2>2. IsFiniteSet(0..(n-1)) /\ Cardinality(0..(n - 1)) = IF 0 > n - 1 THEN 0 ELSE (n - 1) - 0 + 1
    BY <2>1, FS_Interval
  <2> QED
    BY <2>2
<1>8. Cardinality(F) <= Cardinality(places)
  <2> HIDE DEF F, places, rank
  <2> QED
    BY <1>1, <1>6, <1>7, FS_Injection
<1> QED
  BY <1>1, <1>7, <1>8

GlossaryTypes ==
  /\ puts \in 0..MaxPuts
  /\ Cardinality(prompt.locked) + Cardinality(prompt.suggested) <= PromptSize
  /\ chunk \in [at : {chunk.at}, has : {chunk.has}, became : {chunk.became}, left : {chunk.left},
                size : {chunk.size}, missed : {chunk.missed}]
  /\ chunk.left \subseteq Terms /\ chunk.missed \subseteq chunk.has

LEMMA GlossaryTypesBegin == GlossaryInit => GlossaryTypes
<1> SUFFICES ASSUME GlossaryInit PROVE GlossaryTypes
  OBVIOUS
<1>1. Cardinality({}) = 0 /\ PromptSize \in Nat /\ MaxPuts \in Nat
  BY FS_EmptySet, GlossaryAssumption
<1>2. Cardinality(prompt.locked) + Cardinality(prompt.suggested) <= PromptSize
  <2>1. prompt.locked = {} /\ prompt.suggested = {}
    BY DEF GlossaryInit
  <2> QED
    BY <1>1, <2>1
<1> QED
  BY <1>1, <1>2 DEF GlossaryInit, NoChunk, GlossaryTypes

(* A prompt has the first locked terms and, in what room is left, others.  *)
LEMMA PromptFits == Cardinality(LockedPart) + Cardinality(SuggestedPart) <= PromptSize
<1> DEFINE L == {t \in Terms : Locked(t)}
           O == {t \in Terms : Known(t) /\ ~Locked(t)}
           room == PromptSize - Cardinality(LockedPart)
<1>1. L \in SUBSET Nat /\ O \in SUBSET Nat /\ IsFiniteSet(L) /\ IsFiniteSet(O) /\ PromptSize \in Nat
  <2>1. Terms \subseteq Nat /\ IsFiniteSet(Terms) /\ PromptSize \in Nat
    BY GlossaryAssumption
  <2>2. L \subseteq Terms /\ O \subseteq Terms
    OBVIOUS
  <2> HIDE DEF L, O
  <2> QED
    BY <2>1, <2>2, FS_Subset
<1>2. LockedPart = FirstOf(L, PromptSize) /\ SuggestedPart = FirstOf(O, room)
  BY DEF LockedPart, SuggestedPart
<1> HIDE DEF L, O
<1>3. Cardinality(LockedPart) \in Nat /\ Cardinality(LockedPart) <= PromptSize
  BY <1>1, <1>2, FirstAreFew
<1>4. room \in Nat
  BY <1>1, <1>3
<1> HIDE DEF room
<1>5. Cardinality(SuggestedPart) \in Nat /\ Cardinality(SuggestedPart) <= room
  BY <1>1, <1>2, <1>4, FirstAreFew
<1> QED
  BY <1>1, <1>3, <1>5 DEF room

LEMMA GlossaryTypesStep == ASSUME GlossaryTypes, [GlossaryNext]_glossaryVars PROVE GlossaryTypes'
<1>1. CASE BuildPrompt
  <2>1. prompt'.locked = LockedPart /\ prompt'.suggested = SuggestedPart /\ UNCHANGED <<puts, chunk>>
    BY <1>1 DEF BuildPrompt
  <2>2. Cardinality(prompt'.locked) + Cardinality(prompt'.suggested) <= PromptSize
    BY <2>1, PromptFits
  <2> QED
    BY <2>1, <2>2 DEF GlossaryTypes
<1>2. ASSUME NEW list \in Replacements, StartPut(list) PROVE GlossaryTypes'
  <2>1. puts' \in 0..MaxPuts
    BY <1>2, GlossaryAssumption DEF StartPut, GlossaryTypes
  <2> QED
    BY <1>2, <2>1 DEF StartPut, GlossaryTypes
<1>3. ASSUME NEW has \in SUBSET Terms, NEW became, StartCheck(has, became) PROVE GlossaryTypes'
  BY <1>3 DEF StartCheck, GlossaryTypes
<1>4. ASSUME NEW t \in Terms, CheckTerm(t) PROVE GlossaryTypes'
  <2>1. /\ chunk'.left = chunk.left \ {t} /\ chunk'.has = chunk.has
        /\ chunk'.missed = IF Reports(t) THEN chunk.missed \cup {t} ELSE chunk.missed
        /\ chunk' \in [at : {chunk'.at}, has : {chunk'.has}, became : {chunk'.became}, left : {chunk'.left},
                       size : {chunk'.size}, missed : {chunk'.missed}]
    BY <1>4 DEF CheckTerm, GlossaryTypes
  <2> QED
    BY <1>4, <2>1 DEF CheckTerm, Reports, GlossaryTypes
<1>5. CASE CheckBreaks \/ NextChunk
  BY <1>5 DEF CheckBreaks, NextChunk, NoChunk, GlossaryTypes
<1>6. CASE Learn
  <2>1. chunk' = [chunk EXCEPT !.at = "checked"] /\ UNCHANGED <<puts, prompt>>
    BY <1>6 DEF Learn
  <2>2. /\ chunk'.left = chunk.left /\ chunk'.missed = chunk.missed /\ chunk'.has = chunk.has
        /\ chunk' \in [at : {chunk'.at}, has : {chunk'.has}, became : {chunk'.became}, left : {chunk'.left},
                       size : {chunk'.size}, missed : {chunk'.missed}]
    BY <2>1 DEF GlossaryTypes
  <2> QED
    BY <2>1, <2>2 DEF GlossaryTypes
<1>7. CASE \/ \E item \in Item : ImportRow(item)
           \/ PutItem \/ PutEnds \/ UNCHANGED glossaryVars
  BY <1>7 DEF ImportRow, PutItem, PutEnds, glossaryVars, GlossaryTypes
<1> QED
  BY <1>1, <1>2, <1>3, <1>4, <1>5, <1>6, <1>7 DEF GlossaryNext

LEMMA GlossaryIsTyped == TermsInv /\ GlossaryTypes => GlossaryTypeOK
BY DEF TermsInv, GlossaryTypes, GlossaryTypeOK

-----------------------------------------------------------------------------
(* The types that the invariants of the parts do not have.                 *)
PartTypes ==
  /\ BlockTypes /\ GraphTypes /\ PromiseTypes /\ GlossaryTypes
  /\ StreamBounds /\ CreationTypes /\ LibraryTypes

LEMMA PartTypesBegin == Init => PartTypes
BY StepsOfParts, BlockTypesBegin, GraphTypesBegin, PromiseTypesBegin, GlossaryTypesBegin,
   StreamsBegin, CreationTypesBegin, LibraryTypesBegin DEF PartTypes

LEMMA PartTypesStep ==
  /\ ResultInv /\ GraphShape /\ LedgerInv /\ ViewInv /\ CreationInv /\ LibraryInv
  /\ ResultInv' /\ ViewInv' /\ PartTypes /\ [Next]_allVars
  => PartTypes'
<1> SUFFICES ASSUME ResultInv, GraphShape, LedgerInv, ViewInv, CreationInv, LibraryInv,
                    ResultInv', ViewInv', PartTypes, [Next]_allVars
             PROVE  PartTypes'
  OBVIOUS
<1>1. BlockTypes'
  <2>1. ResultTypes'
    BY DEF ResultInv
  <2> QED
    BY <2>1, StepsOfParts, BlockTypesStep DEF PartTypes
<1>2. GraphTypes'
  BY StepsOfParts, GraphTypesStep DEF PartTypes
<1>3. PromiseTypes'
  BY StepsOfParts, PromiseTypesStep DEF PartTypes
<1>4. GlossaryTypes'
  BY StepsOfParts, GlossaryTypesStep DEF PartTypes
<1>5. StreamBounds'
  <2>1. ViewTypes'
    BY DEF ViewInv
  <2> QED
    BY <2>1, StepsOfParts, StreamsStep DEF PartTypes
<1>6. CreationTypes'
  BY StepsOfParts, CreationTypesStep DEF PartTypes
<1>7. LibraryTypes'
  BY StepsOfParts, LibraryTypesStep DEF PartTypes
<1> QED
  BY <1>1, <1>2, <1>3, <1>4, <1>5, <1>6, <1>7 DEF PartTypes

(* Every part's state has its types, bounds on its counters and lists      *)
(* included: a window connects no more often than its calls have attempts  *)
(* (useTranslate.ts), lists of recent projects and of exports keep to      *)
(* their lengths (project.py), and a prompt to its number of terms         *)
(* (glossary.py).                                                          *)
THEOREM DocumentsAreTyped == Spec => []PartTypesOK
<1>1. Init => RunnerTypeOK /\ SInv /\ TermsInv /\ PartTypes
  BY StepsOfParts, InitTypes, InitSpaced, TermsBegin, PartTypesBegin
<1>2. RunnerTypeOK /\ SInv /\ TermsInv /\ [Next]_allVars => (RunnerTypeOK /\ SInv /\ TermsInv)'
  BY StepsOfParts, NextTypes, NextSpaced, TermsStep
<1>3. ASSUME ResultInv, GraphShape, LedgerInv, ViewInv, CreationInv, LibraryInv, RagInv, ReviewInv,
             RunnerTypeOK, SInv, TermsInv, PartTypes
      PROVE  /\ ResTypeOK /\ RagTypeOK /\ CreationTypeOK /\ LibraryTypeOK /\ GlossaryTypeOK
             /\ GraphTypeOK /\ LedgerTypeOK /\ ReviewTypeOK /\ ViewTypeOK /\ CallsTypeOK
  <2>1. CallsTypeOK
    BY <1>3 DEF SInv
  <2> QED
    BY <1>3, <2>1, BlocksAreTyped, RagIsTyped, CreationIsTyped, LibraryIsTyped, GlossaryIsTyped,
       GraphIsTyped, PromisesAreTyped, ReviewsAreTyped, ViewIsTyped DEF PartTypes
<1>4. ASSUME CitationInv, AssistInv, ExportInv, PackInv, ExtractionInv, AnchorInv
      PROVE  /\ CitationTypeOK /\ EditorTypeOK /\ PackTypeOK /\ ExtractionTypeOK /\ AnchorsTypeOK
  BY <1>4, CitationsAreNumbered, EditorIsKept, PackingHolds, ExtractionHolds, AnchorsHold
<1>5. /\ ResultInv /\ GraphShape /\ LedgerInv /\ ViewInv /\ CreationInv /\ LibraryInv /\ RagInv /\ ReviewInv
      /\ RunnerTypeOK /\ SInv /\ TermsInv /\ PartTypes
      /\ CitationInv /\ AssistInv /\ ExportInv /\ PackInv /\ ExtractionInv /\ AnchorInv
      => PartTypesOK
  BY <1>3, <1>4 DEF PartTypesOK
<1> QED
  BY <1>1, <1>2, <1>5, PartTypesStep, PartInvariance, TextInvariance, PTL DEF Spec

=============================================================================
