----------------------------- MODULE ServerProofs -----------------------------
(***************************************************************************)
(* Proofs about what the server keeps per session and per task: the pool   *)
(* of agent runtimes, for any number of requests, and the translation      *)
(* tasks, for any tasks, limits and bounds.                                *)
(***************************************************************************)
EXTENDS SessionPool, TranslateTasks, TLAPS

-----------------------------------------------------------------------------
(***************************************************************************)
(* SessionPool.  That the pool tells who streams rests on the runtimes     *)
(* whose stream has not started yet: they, too, are the pool's entry as    *)
(* long as none was displaced, and what is on disk is in their memory      *)
(* already.                                                                *)
(***************************************************************************)

(* Runtimes whose turn runs or is about to run. *)
Busy == {r \in Runtimes : st[r] \in {"opened", "streaming"}}

PoolTellsWhoIsBusy == displaced = {} => \A r \in Busy : pool = r

BusyKnowFile == displaced = {} /\ file # None => \A r \in Busy : file \subseteq mem[r]

PoolInv ==
  /\ PoolTypeOK
  /\ NoStaleEntry
  /\ AskersStream
  /\ PoolTellsWhoIsBusy
  /\ BusyKnowFile

(* The invariant holds of an empty pool. *)
LEMMA InitPoolInv == PoolInit => PoolInv
BY NoneAssumption
   DEF PoolInit, PoolInv, PoolTypeOK, States, NoStaleEntry, AskersStream, Streaming, Busy,
       PoolTellsWhoIsBusy, BusyKnowFile

(* The loaded session is a set of turns. *)
LEMMA LoadedType == PoolTypeOK => Loaded \in SUBSET Runtimes
BY DEF PoolTypeOK, Loaded

(* Every step keeps the types. *)
LEMMA PoolTypeStep == PoolTypeOK /\ [PoolNext]_poolVars => PoolTypeOK'
<1> SUFFICES ASSUME PoolTypeOK, [PoolNext]_poolVars PROVE PoolTypeOK'
  OBVIOUS
<1> USE DEF PoolTypeOK, States
<1>1. CASE UNCHANGED poolVars
  BY <1>1 DEF poolVars
<1>2. ASSUME NEW r \in Runtimes, Request(r) PROVE PoolTypeOK'
  BY <1>2, LoadedType DEF Request, Chat, Resume, Answer, Abort, Goes
<1>3. ASSUME NEW r \in Runtimes, Stream(r) PROVE PoolTypeOK'
  BY <1>3, LoadedType DEF Stream, StreamStarts, ResumeStarts, ResumeRefused, RefusedEnds,
                         StreamNeverStarts, Goes
<1>4. ASSUME NEW r \in Runtimes, Turn(r) PROVE PoolTypeOK'
  BY <1>4 DEF Turn, Save, Ask, TimeOut, End, Disconnect, Goes
<1>5. ASSUME NEW r \in Runtimes, Evict(r) PROVE PoolTypeOK'
  BY <1>5 DEF Evict
<1>6. CASE Delete \/ CleanDisk \/ Crash
  BY <1>6 DEF Delete, CleanDisk, Crash
<1> QED
  BY <1>1, <1>2, <1>3, <1>4, <1>5, <1>6 DEF PoolNext

(* Every step keeps the invariant. *)
LEMMA PoolStep == PoolInv /\ [PoolNext]_poolVars => PoolInv'
<1> SUFFICES ASSUME PoolInv, [PoolNext]_poolVars PROVE PoolInv'
  OBVIOUS
<1> USE DEF PoolInv, NoStaleEntry, AskersStream, Streaming, Busy, PoolTellsWhoIsBusy, BusyKnowFile
<1>t. PoolTypeOK /\ PoolTypeOK'
  BY PoolTypeStep
<1>1. CASE UNCHANGED poolVars
  BY <1>1, <1>t DEF poolVars
<1>2. ASSUME NEW r \in Runtimes, Chat(r) PROVE PoolInv'
  BY <1>2, <1>t, NoneAssumption DEF Chat, Goes, Loaded, PoolTypeOK
<1>3. ASSUME NEW r \in Runtimes, Resume(r) \/ Answer(r) \/ Abort(r) PROVE PoolInv'
  BY <1>3, <1>t, NoneAssumption DEF Resume, Answer, Abort, Goes, PoolTypeOK
<1>4. ASSUME NEW r \in Runtimes, StreamStarts(r) \/ StreamNeverStarts(r) PROVE PoolInv'
  BY <1>4, <1>t, NoneAssumption DEF StreamStarts, StreamNeverStarts, Goes, PoolTypeOK
<1>5. ASSUME NEW r \in Runtimes, ResumeStarts(r) PROVE PoolInv'
  BY <1>5, <1>t, NoneAssumption DEF ResumeStarts, Goes, Loaded, PoolTypeOK
<1>6. ASSUME NEW r \in Runtimes, ResumeRefused(r) \/ RefusedEnds(r) PROVE PoolInv'
  BY <1>6, <1>t, NoneAssumption DEF ResumeRefused, RefusedEnds, Goes, PoolTypeOK
<1>7. ASSUME NEW r \in Runtimes, Save(r) PROVE PoolInv'
  BY <1>7, <1>t, NoneAssumption DEF Save, PoolTypeOK
<1>8. ASSUME NEW r \in Runtimes, Ask(r) \/ TimeOut(r) PROVE PoolInv'
  BY <1>8, <1>t, NoneAssumption DEF Ask, TimeOut, PoolTypeOK
<1>9. ASSUME NEW r \in Runtimes, End(r) \/ Disconnect(r) PROVE PoolInv'
  BY <1>9, <1>t, NoneAssumption DEF End, Disconnect, Goes, PoolTypeOK
<1>10. ASSUME NEW r \in Runtimes, Evict(r) PROVE PoolInv'
  BY <1>10, <1>t, NoneAssumption DEF Evict, PoolTypeOK
<1>11. CASE Delete \/ CleanDisk \/ Crash
  BY <1>11, <1>t, NoneAssumption DEF Delete, CleanDisk, Crash, PoolTypeOK
<1> QED
  BY <1>1, <1>2, <1>3, <1>4, <1>5, <1>6, <1>7, <1>8, <1>9, <1>10, <1>11
     DEF PoolNext, Request, Stream, Turn

(* The pool, the file and the runtimes' memories agree in every execution. *)
LEMMA PoolInvariance == PoolSpec => []PoolInv
BY InitPoolInv, PoolStep, PTL DEF PoolSpec

-----------------------------------------------------------------------------
(* The state always has its types. *)
THEOREM PoolTypes == PoolSpec => []PoolTypeOK
BY PoolInvariance, PTL DEF PoolInv

(* Whatever requests come in whatever order, only a request that was      *)
(* opened, streams or never started keeps a session "already active".      *)
THEOREM NothingStale == PoolSpec => []NoStaleEntry
BY PoolInvariance, PTL DEF PoolInv

(* An approval is only ever awaited by a turn that is running. *)
THEOREM ApprovalsHaveTurns == PoolSpec => []AskersStream
BY PoolInvariance, PTL DEF PoolInv

(* Until a runtime is displaced, the one turn of the session is the one    *)
(* the pool names.                                                         *)
THEOREM PoolIsAuthoritative == PoolSpec => []PoolTellsWhoStreams
<1>1. PoolInv => PoolTellsWhoStreams
  BY DEF PoolInv, PoolTellsWhoIsBusy, Busy, PoolTellsWhoStreams, Streaming
<1> QED
  BY <1>1, PoolInvariance, PTL

(* Until then no save of a turn can wipe out another turn's messages. *)
THEOREM TurnsSurviveSaves == PoolSpec => []NoLostTurn
<1>1. PoolInv => NoLostTurn
  BY DEF PoolInv, BusyKnowFile, Busy, NoLostTurn, Streaming
<1> QED
  BY <1>1, PoolInvariance, PTL

(* Whatever requests come in whatever order, the pool tells the truth.     *)
THEOREM PoolIsSound == PoolSpec => []PoolHolds
  BY NothingStale, ApprovalsHaveTurns, PoolIsAuthoritative, TurnsSurviveSaves, PTL
  DEF PoolHolds

-----------------------------------------------------------------------------
(***************************************************************************)
(* TranslateTasks.                                                         *)
(***************************************************************************)

(* A step of one of the actions, as the proofs take Next apart.            *)
LEMMA Steps ==
  ASSUME Next
  PROVE  \/ \E t \in Tasks : Upload(t) \/ Connect(t) \/ Tick(t)
         \/ \E t \in Tasks, r \in Run : Start(t, r) \/ NeverStarts(t, r)
         \/ \E t \in Tasks, r \in Run : Complete(t, r) \/ Fail(t, r) \/ Finish(t, r)
  BY DEF Next, Pipeline

(* A clean-up drops finished tasks only, and changes no other status.      *)
LEMMA CleanUp ==
  ASSUME NEW s \in [Tasks -> Statuses], Cleaned(s)
  PROVE  /\ status' \in [Tasks -> Statuses]
         /\ \A t \in Tasks : status'[t] \in Holding <=> s[t] \in Holding
         /\ \A t \in Tasks : status'[t] # "none" => status'[t] = s[t]
         /\ \A t \in Tasks : status'[t] = "done" => t \notin Excess(s)
  <1>1. \A t \in Tasks : t \in Excess(s) => s[t] \in Finished
    BY DEF Excess
  <1>2. \A t \in Tasks : status'[t] = IF t \in Excess(s) THEN "none" ELSE s[t]
    BY DEF Cleaned
  <1>3. status' \in [Tasks -> Statuses]
    BY DEF Cleaned, Statuses
  <1> QED BY <1>1, <1>2, <1>3 DEF Finished, Holding, Statuses

(* What the finally clause makes of the statuses.                          *)
LEMMA ReleaseType ==
  ASSUME StateOK, NEW t \in Tasks
  PROVE  /\ Released(t) \in [Tasks -> Statuses]
         /\ Released(t)[t] # "running"
         /\ \A u \in Tasks : u # t => Released(t)[u] = status[u]
         /\ Released(t)[t] \in {status[t], "error"}
  BY DEF StateOK, Released, Statuses

-----------------------------------------------------------------------------
(* The variables other than the dict keep their types.                     *)
LEMMA InitState == Init => StateOK
  BY TasksAssumption DEF Init, StateOK, Statuses, Stages, Run

(* Every step keeps the types.                                             *)
LEMMA NextState == StateOK /\ [Next]_vars => StateOK'
  <1> SUFFICES ASSUME StateOK, [Next]_vars PROVE StateOK'
    OBVIOUS
  <1>1. ASSUME NEW t \in Tasks, Upload(t) PROVE StateOK'
    BY <1>1 DEF Upload, StateOK, Statuses
  <1>2. ASSUME NEW t \in Tasks, Connect(t) PROVE StateOK'
    <2>1. Expired(t) \in [Tasks -> Statuses]
      BY DEF StateOK, Expired, Statuses
    <2>2. status' \in [Tasks -> Statuses]
      BY <1>2, <2>1 DEF Connect, Statuses
    <2>3. runs' \in [Tasks -> 0..MaxRuns] /\ (runs' # runs => runs'[t] \in Run)
      BY <1>2, TasksAssumption DEF Connect, StateOK, Run
    <2>4. pipe' \in [Tasks -> [Run -> Stages]]
      BY <1>2, <2>3 DEF Connect, StateOK, Stages
    <2>5. expired' \subseteq Tasks /\ restarted' \subseteq Tasks
      BY <1>2 DEF Connect, StateOK
    <2> QED BY <1>2, <2>2, <2>3, <2>4, <2>5 DEF Connect, StateOK
  <1>3. ASSUME NEW t \in Tasks, Tick(t) PROVE StateOK'
    <2>1. age[t] + 1 \in 0..2
      BY <1>3, TasksAssumption DEF Tick, StateOK
    <2> QED BY <1>3, <2>1 DEF Tick, StateOK
  <1>4. ASSUME NEW t \in Tasks, NEW r \in Run, Complete(t, r) \/ Fail(t, r) PROVE StateOK'
    <2>1. status' \in [Tasks -> Statuses]
      BY <1>4 DEF Complete, Fail, SetStatus, StateOK, Statuses
    <2>2. pipe' \in [Tasks -> [Run -> Stages]]
      BY <1>4, SMTT(30) DEF Complete, Fail, StateOK, Stages
    <2> QED BY <1>4, <2>1, <2>2 DEF Complete, Fail, StateOK
  <1>5. ASSUME NEW t \in Tasks, NEW r \in Run, Finish(t, r) PROVE StateOK'
    <2>1. status' \in [Tasks -> Statuses]
      BY <1>5, CleanUp, ReleaseType DEF Finish
    <2>2. pipe' \in [Tasks -> [Run -> Stages]]
      BY <1>5 DEF Finish, StateOK, Stages
    <2>3. output' \subseteq Tasks
      BY <1>5 DEF Finish, Cleaned, StateOK
    <2> QED BY <1>5, <2>1, <2>2, <2>3 DEF Finish, StateOK
  <1>6. ASSUME NEW t \in Tasks, NEW r \in Run, Start(t, r) \/ NeverStarts(t, r)
        PROVE  StateOK'
    <2>1. status' \in [Tasks -> Statuses]
      BY <1>6 DEF Start, NeverStarts, SetStatus, StateOK, Statuses
    <2>2. pipe' \in [Tasks -> [Run -> Stages]]
      BY <1>6 DEF Start, NeverStarts, StateOK, Stages
    <2> QED BY <1>6, <2>1, <2>2 DEF Start, NeverStarts, StateOK
  <1>7. CASE UNCHANGED vars
    BY <1>7 DEF vars, StateOK
  <1> QED BY <1>1, <1>2, <1>3, <1>4, <1>5, <1>6, <1>7, Steps

(* The statuses, runs and pipelines are what their types say, whatever the *)
(* clients do.                                                             *)
THEOREM TaskTypes == Spec => []StateOK
  BY InitState, NextState, PTL DEF Spec

-----------------------------------------------------------------------------
(* A done task has its file.                                               *)
LEMMA NextOutput == StateOK /\ DoneHasOutput /\ [Next]_vars => DoneHasOutput'
  <1> SUFFICES ASSUME StateOK, DoneHasOutput, [Next]_vars PROVE DoneHasOutput'
    OBVIOUS
  <1>1. ASSUME NEW t \in Tasks, Upload(t) \/ Connect(t) \/ Tick(t) PROVE DoneHasOutput'
    BY <1>1 DEF Upload, Connect, Tick, Expired, DoneHasOutput, StateOK
  <1>2. ASSUME NEW t \in Tasks, NEW r \in Run, Complete(t, r) \/ Fail(t, r)
        PROVE  DoneHasOutput'
    BY <1>2 DEF Complete, Fail, SetStatus, DoneHasOutput, StateOK
  <1>3. ASSUME NEW t \in Tasks, NEW r \in Run, Finish(t, r) PROVE DoneHasOutput'
    <2>1. \A u \in Tasks : status'[u] = "done"
                           => Released(t)[u] = "done" /\ u \notin Excess(Released(t))
      BY <1>3, CleanUp, ReleaseType DEF Finish
    <2>2. \A u \in Tasks : Released(t)[u] = "done" => status[u] = "done"
      BY ReleaseType
    <2> QED BY <1>3, <2>1, <2>2 DEF Finish, Cleaned, DoneHasOutput
  <1>4. ASSUME NEW t \in Tasks, NEW r \in Run, Start(t, r) \/ NeverStarts(t, r)
        PROVE  DoneHasOutput'
    BY <1>4 DEF Start, NeverStarts, SetStatus, DoneHasOutput, StateOK
  <1>5. CASE UNCHANGED vars
    BY <1>5 DEF vars, DoneHasOutput
  <1> QED BY <1>1, <1>2, <1>3, <1>4, <1>5, Steps

(* A translation that is reported done can be downloaded.                  *)
THEOREM DoneIsDownloadable == Spec => []DoneHasOutput
  <1>1. Init => DoneHasOutput
    BY DEF Init, DoneHasOutput
  <1> QED BY <1>1, InitState, NextState, NextOutput, PTL DEF Spec
-----------------------------------------------------------------------------
(* The inductive part: an orderly task has one pipeline at most, and from  *)
(* the request on until it has set a status of its own the task is         *)
(* running, so that the stream's first step changes nothing.               *)
Single ==
  \A t \in Orderly : \A r \in Run :
    /\ pipe[t][r] \in {"opened", "working"} => status[t] = "running"
    /\ \A q \in Run : pipe[t][r] # "off" /\ pipe[t][q] # "off" => q = r

(* The orderly task that has the slot is one, and so is its pipeline.      *)
LEMMA SingleIsAlone == SlotExclusive /\ Single => PipelinesAlone
  BY DEF SlotExclusive, Single, PipelinesAlone, Orderly, Holding

(* Every step keeps the pipelines single.                                  *)
LEMMA NextSingle == StateOK /\ Single /\ [Next]_vars => Single'
  <1> SUFFICES ASSUME StateOK, Single, [Next]_vars PROVE Single'
    OBVIOUS
  <1>1. ASSUME NEW t \in Tasks, Upload(t) PROVE Single'
    <2>1. \A u \in Tasks : status[u] = "running" => status'[u] = "running"
      BY <1>1 DEF Upload, StateOK
    <2> QED BY <1>1, <2>1 DEF Upload, Single, Orderly
  <1>2. ASSUME NEW t \in Tasks, Connect(t) PROVE Single'
    <2>1. Orderly' \subseteq Orderly
      BY <1>2 DEF Connect, Orderly
    <2>2. \A u \in Orderly' : u # t =>
            pipe'[u] = pipe[u] /\ (Alive(u) => ~Stale(u))
      BY <1>2 DEF Connect, Orderly, StateOK
    <2>3. \A u \in Orderly' : u # t /\ status[u] = "running" /\ Alive(u)
                               => status'[u] = "running"
      BY <1>2, <2>2 DEF Connect, Expired, Orderly, StateOK
    <2>4. \A u \in Orderly', r \in Run : pipe[u][r] \in {"opened", "working"} => Alive(u)
      BY DEF Alive
    <2>5. ASSUME t \in Orderly'
          PROVE  \A r \in Run : /\ pipe'[t][r] \in {"opened", "working"}
                                    => status'[t] = "running"
                               /\ \A q \in Run : pipe'[t][r] # "off" /\ pipe'[t][q] # "off"
                                                  => q = r
      <3>1. \A r \in Run : pipe[t][r] = "off"
        BY <1>2, <2>5 DEF Connect, Orderly, Alive
      <3>2. \/ pipe' = pipe
            \/ /\ pipe' = [pipe EXCEPT ![t][runs'[t]] = "opened"]
               /\ status'[t] = "running"
        BY <1>2 DEF Connect, Expired
      <3>3. CASE pipe' = pipe
        BY <3>1, <3>3
      <3>4. CASE /\ pipe' = [pipe EXCEPT ![t][runs'[t]] = "opened"]
                 /\ status'[t] = "running"
        BY <3>1, <3>4 DEF StateOK
      <3> QED BY <3>2, <3>3, <3>4
    <2>6. ASSUME NEW u \in Orderly', u # t
          PROVE  \A r \in Run : /\ pipe'[u][r] \in {"opened", "working"}
                                    => status'[u] = "running"
                               /\ \A q \in Run : pipe'[u][r] # "off" /\ pipe'[u][q] # "off"
                                                  => q = r
      BY <2>1, <2>2, <2>3, <2>4, <2>6 DEF Single
    <2> QED BY <2>5, <2>6 DEF Single
  <1>3. ASSUME NEW t \in Tasks, Tick(t) PROVE Single'
    BY <1>3 DEF Tick, Single, Orderly
  <1>4. ASSUME NEW t \in Tasks, NEW r \in Run, Complete(t, r) \/ Fail(t, r) PROVE Single'
    <2>1. /\ pipe' = [pipe EXCEPT ![t][r] = "ending"] /\ pipe[t][r] = "working"
          /\ Orderly' = Orderly
      BY <1>4 DEF Complete, Fail, Orderly
    <2>2. \A u \in Tasks : u # t => status'[u] = status[u] /\ pipe'[u] = pipe[u]
      BY <1>4, <2>1 DEF Complete, Fail, SetStatus, StateOK
    <2>3. ASSUME t \in Orderly PROVE \A q \in Run : pipe'[t][q] = IF q = r THEN "ending" ELSE "off"
      BY <2>1, <2>3 DEF Single, StateOK
    <2> QED BY <2>1, <2>2, <2>3 DEF Single, Orderly
  <1>5. ASSUME NEW t \in Tasks, NEW r \in Run, Finish(t, r) PROVE Single'
    <2>1. /\ pipe' = [pipe EXCEPT ![t][r] = "off"] /\ pipe[t][r] # "off"
          /\ Orderly' = Orderly
      BY <1>5 DEF Finish, Orderly
    <2>2. \A u \in Tasks : u # t /\ status[u] = "running" => status'[u] = "running"
      <3>1. \A u \in Tasks : Released(t)[u] \in Holding => status'[u] \in Holding
        BY <1>5, CleanUp, ReleaseType DEF Finish
      <3>2. \A u \in Tasks : status'[u] # "none" => status'[u] = Released(t)[u]
        BY <1>5, CleanUp, ReleaseType DEF Finish
      <3> QED BY <3>1, <3>2, ReleaseType DEF Holding
    <2>3. \A u \in Tasks : u # t => pipe'[u] = pipe[u]
      BY <2>1 DEF StateOK
    <2>4. ASSUME t \in Orderly PROVE \A q \in Run : pipe'[t][q] = "off"
      BY <2>1, <2>4 DEF Single, StateOK
    <2> QED BY <2>1, <2>2, <2>3, <2>4 DEF Single, Orderly
  <1>6. ASSUME NEW t \in Tasks, NEW r \in Run, Start(t, r) \/ NeverStarts(t, r)
        PROVE  Single'
    <2>1. /\ \E s \in {"off", "working"} : pipe' = [pipe EXCEPT ![t][r] = s]
          /\ pipe[t][r] = "opened" /\ Orderly' = Orderly
      BY <1>6 DEF Start, NeverStarts, Orderly
    <2>2. \A u \in Tasks : u # t => status'[u] = status[u] /\ pipe'[u] = pipe[u]
      BY <1>6, <2>1 DEF Start, NeverStarts, SetStatus, StateOK
    <2>3. t \in Orderly => status'[t] = "running"
      BY <1>6, <2>1 DEF Start, NeverStarts, SetStatus, StateOK, Single, Orderly
    <2>4. \A q \in Run : pipe'[t][q] # "off" => pipe[t][q] # "off"
      BY <2>1 DEF StateOK
    <2> QED BY <2>1, <2>2, <2>3, <2>4 DEF Single, Orderly
  <1>7. CASE UNCHANGED vars
    BY <1>7 DEF vars, Single, Orderly
  <1> QED BY <1>1, <1>2, <1>3, <1>4, <1>5, <1>6, <1>7, Steps

(* The slot stays with one of the orderly tasks.                           *)
LEMMA NextExclusive == StateOK /\ Single /\ SlotExclusive /\ [Next]_vars => SlotExclusive'
  <1> SUFFICES ASSUME StateOK, Single, SlotExclusive, [Next]_vars PROVE SlotExclusive'
    OBVIOUS
  <1>1. ASSUME NEW t \in Tasks, Upload(t) PROVE SlotExclusive'
    BY <1>1 DEF Upload, SlotFree, SlotExclusive, StateOK, Orderly
  <1>2. ASSUME NEW t \in Tasks, Connect(t) PROVE SlotExclusive'
    <2>1. \A u \in Tasks : Expired(t)[u] \in {status[u], "error"}
      BY DEF Expired
    <2>2. \A u \in Tasks : Expired(t)[u] \in Holding => status[u] \in Holding
      BY <2>1 DEF Holding
    <2>3. CASE \E u \in Tasks \ {t} : Expired(t)[u] \in Holding
      <3>1. Orderly' \subseteq Orderly /\ status' = Expired(t)
        BY <1>2, <2>3 DEF Connect, Orderly
      <3> QED BY <3>1, <2>2 DEF SlotExclusive, Orderly
    <2>4. CASE ~ \E u \in Tasks \ {t} : Expired(t)[u] \in Holding
      <3>1. \A u \in Tasks : u # t => status'[u] = Expired(t)[u]
        BY <1>2, <2>4 DEF Connect, Expired
      <3> QED BY <2>4, <3>1 DEF SlotExclusive, Orderly
    <2> QED BY <2>3, <2>4
  <1>3. ASSUME NEW t \in Tasks, Tick(t) PROVE SlotExclusive'
    BY <1>3 DEF Tick, SlotExclusive, Orderly
  <1>4. ASSUME NEW t \in Tasks, NEW r \in Run, Complete(t, r) \/ Fail(t, r)
        PROVE  SlotExclusive'
    BY <1>4 DEF Complete, Fail, SetStatus, SlotExclusive, StateOK, Holding, Orderly
  <1>5. ASSUME NEW t \in Tasks, NEW r \in Run, Finish(t, r) PROVE SlotExclusive'
    <2>1. \A u \in Tasks : status'[u] \in Holding => Released(t)[u] \in Holding
      BY <1>5, CleanUp, ReleaseType DEF Finish
    <2>2. \A u \in Tasks : Released(t)[u] \in Holding => status[u] \in Holding
      BY ReleaseType DEF Holding
    <2>3. Orderly' = Orderly
      BY <1>5 DEF Finish, Orderly
    <2> QED BY <2>1, <2>2, <2>3 DEF SlotExclusive, Orderly
  <1>6. ASSUME NEW t \in Tasks, NEW r \in Run, Start(t, r) \/ NeverStarts(t, r)
        PROVE  SlotExclusive'
    <2>1. Orderly' = Orderly /\ pipe[t][r] = "opened"
      BY <1>6 DEF Start, NeverStarts, Orderly
    <2>2. \A u \in Tasks : u # t => status'[u] = status[u]
      BY <1>6 DEF Start, NeverStarts, SetStatus, StateOK
    <2>3. t \in Orderly => status[t] \in Holding
      BY <2>1 DEF Single, Holding
    <2> QED BY <2>1, <2>2, <2>3 DEF SlotExclusive, Orderly
  <1>7. CASE UNCHANGED vars
    BY <1>7 DEF vars, SlotExclusive, Orderly
  <1> QED BY <1>1, <1>2, <1>3, <1>4, <1>5, <1>6, <1>7, Steps

(* Both, at any time.                                                      *)
LEMMA SingleExclusive == Spec => [](SlotExclusive /\ Single)
  <1>1. Init => SlotExclusive /\ Single
    BY DEF Init, SlotExclusive, Single, Holding, Orderly
  <1> QED BY <1>1, InitState, NextState, NextExclusive, NextSingle, PTL DEF Spec

(* Of the tasks that were neither expired nor restarted beside a pipeline  *)
(* of theirs, at most one is pending or running.                           *)
THEOREM SlotHasOneTask == Spec => []SlotExclusive
  BY SingleExclusive, PTL

(* A pipeline that was neither expired nor restarted beside itself holds   *)
(* the slot for as long as it works, and is the only one that does.        *)
THEOREM OrderlyPipelinesAlone == Spec => []PipelinesAlone
  BY SingleExclusive, SingleIsAlone, PTL

(* One task holds the slot, and the only pipeline at work is that task's.  *)
THEOREM SlotStaysOrderly == Spec => []SlotIsOrderly
  BY SlotHasOneTask, OrderlyPipelinesAlone, PTL DEF SlotIsOrderly

-----------------------------------------------------------------------------
(***************************************************************************)
(* The dict: its ids, in the order of their uploads, are the tasks that    *)
(* have a status.                                                          *)
(***************************************************************************)
LEMMA DictFacts ==
  DictOK <=> /\ listed \in Seq(Tasks) /\ IsInjective(listed)
             /\ ToSet(listed) = {t \in Tasks : status[t] # "none"}
  BY DEF DictOK, IsInjective, ToSet

(* A step that changes neither the ids nor which tasks have a status.      *)
LEMMA SameDict ==
  ASSUME DictOK, listed' = listed,
         \A t \in Tasks : status'[t] = "none" <=> status[t] = "none"
  PROVE  DictOK'
  BY DEF DictOK

LEMMA NextDict == StateOK /\ DictOK /\ [Next]_vars => DictOK'
  <1> SUFFICES ASSUME StateOK, DictOK, [Next]_vars PROVE DictOK'
    OBVIOUS
  <1>1. ASSUME NEW t \in Tasks, Upload(t) PROVE DictOK'
    <2>1. listed' = Append(listed, t) /\ listed \in Seq(Tasks) /\ t \notin ToSet(listed)
      BY <1>1 DEF Upload, DictOK, ToSet
    <2>2. listed' \in Seq(Tasks) /\ IsInjective(listed') /\ ToSet(listed') = ToSet(listed) \cup {t}
      BY <2>1, OneMore, DictFacts
    <2>3. {u \in Tasks : status'[u] # "none"} = {u \in Tasks : status[u] # "none"} \cup {t}
      BY <1>1 DEF Upload, StateOK
    <2> QED BY <2>2, <2>3, DictFacts DEF DictOK, IsInjective, ToSet
  <1>2. ASSUME NEW t \in Tasks, Connect(t) PROVE DictOK'
    <2>1. \A u \in Tasks : Expired(t)[u] = "none" <=> status[u] = "none"
      BY DEF Expired, Stale
    <2>2. \A u \in Tasks : status'[u] = "none" <=> status[u] = "none"
      BY <1>2, <2>1 DEF Connect, Expired
    <2> QED BY <1>2, <2>2, SameDict DEF Connect
  <1>3. ASSUME NEW t \in Tasks, Tick(t) PROVE DictOK'
    BY <1>3, SameDict DEF Tick
  <1>4. ASSUME NEW t \in Tasks, NEW r \in Run,
               \/ Start(t, r) \/ NeverStarts(t, r)
               \/ Complete(t, r) \/ Fail(t, r)
        PROVE  DictOK'
    <2>1. \A u \in Tasks : status'[u] = "none" <=> status[u] = "none"
      BY <1>4 DEF Start, NeverStarts, Complete, Fail, SetStatus, StateOK
    <2>2. listed' = listed
      BY <1>4 DEF Start, NeverStarts, Complete, Fail
    <2> QED BY <2>1, <2>2, SameDict
  <1>5. ASSUME NEW t \in Tasks, NEW r \in Run, Finish(t, r) PROVE DictOK'
    <2> DEFINE gone == Excess(Released(t))
               K == {i \in DOMAIN listed : listed[i] \notin gone}
    <2>1. listed' = Kept(listed, K)
      BY <1>5 DEF Finish, Cleaned
    <2>2. /\ listed' \in Seq(Tasks)
          /\ ToSet(listed') = {listed[i] : i \in K \cap DOMAIN listed}
          /\ IsInjective(listed')
      <3> HIDE DEF K
      <3> QED BY <2>1, DictFacts, KeptElements
    <2>3. {listed[i] : i \in K \cap DOMAIN listed} = ToSet(listed) \ gone
      BY DEF ToSet
    <2>4. \A u \in Tasks : status'[u] = IF u \in gone THEN "none" ELSE Released(t)[u]
      BY <1>5 DEF Finish, Cleaned
    <2>5. \A u \in Tasks : Released(t)[u] = "none" <=> status[u] = "none"
      BY DEF Released, StateOK
    <2> HIDE DEF gone, K
    <2>6. ToSet(listed') = {u \in Tasks : status'[u] # "none"}
      BY <2>2, <2>3, <2>4, <2>5, DictFacts
    <2> QED BY <2>2, <2>6 DEF DictOK, IsInjective, ToSet
  <1>6. CASE UNCHANGED vars
    BY <1>6, SameDict DEF vars
  <1> QED BY <1>1, <1>2, <1>3, <1>4, <1>5, <1>6, Steps

(* The dict and the pipelines have their form: a clean-up takes a task out *)
(* of the list and out of the statuses together, and an upload never lists *)
(* an id twice.                                                            *)
THEOREM TasksHaveForm == Spec => []TypeOK
  <1>1. Init => DictOK
    <2>1. Init => listed = <<>> /\ \A t \in Tasks : status[t] = "none"
      BY DEF Init
    <2> QED BY <2>1 DEF DictOK
  <1> QED BY <1>1, NextDict, InitState, NextState, PTL DEF Spec, TypeOK
=============================================================================
