---------------------------- MODULE AgentTurnProofs ----------------------------
(***************************************************************************)
(* Proofs about AgentTurn, for any tools, limits, batches and turns.       *)
(*                                                                         *)
(* The calls of a response are accounted for by the counter of those at    *)
(* hand (Accounted), whose zero at the step's end is what answers them     *)
(* all.  That AgentTurn implements TurnLifecycle needs the state in memory *)
(* to follow the phase (AtWork), and what a failed save or a crash leaves  *)
(* in the file to be the report of before, or of a turn that was cut off   *)
(* (Reportable).  That what is owed is minded needs lists of different     *)
(* pending actions (Typed), which cannot outgrow the actions there are.    *)
(***************************************************************************)
EXTENDS AgentTurn, FiniteSets, FiniteSetTheorems, SequenceTheorems, WellFoundedInduction, TLAPS

(* Sessions whose pending actions are p. *)
SessionOf(p) ==
  [state : {"IDLE"} \cup Working \cup Outcomes, open : Int, orphaned : BOOLEAN, pending : {p}]

Shaped == /\ \E p : mem \in SessionOf(p)
          /\ \E p : saved \in SessionOf(p)
          /\ phase \in Phases /\ inherited \in Int

(* The calls without a result are those at hand and those of before. *)
Accounted ==
  phase # "none" =>
    /\ left \in Nat /\ mem.open = inherited + left
    /\ phase \in {"call", "asking", "running"} => left > 0
    /\ phase \in {"top", "model", "verdict", "final"} => left = 0

(* A turn that goes on was neither stopped nor denied. *)
GoesOn == phase \in {"top", "model", "call", "asking", "running"} => ~stop /\ ~denied

(* One tool at most has started after the abort, and its step is the last. *)
LateOnce ==
  phase # "none" =>
    /\ late \in {0, 1}
    /\ late = 1 => aborted /\ phase \notin {"top", "model", "call", "asking"}

(* The state in memory follows the phase. *)
AtWork ==
  phase # "none" =>
    IF phase = "final" THEN mem.state = "FINALIZING" ELSE mem.state \in {"RUNNING", "RECOVERING"}

(* What would be reported if the turn were cut off now. *)
Reportable == phase # "none" => Loaded.state \in {"PARTIAL", prior}

IInv == Shaped /\ Accounted /\ GoesOn /\ LateOnce /\ AtWork /\ Reportable

USE DEF Phases, Working, Outcomes

-----------------------------------------------------------------------------
(* The invariant holds before the first turn. *)
LEMMA InitIInv == Init => IInv
BY DEF Init, Empty, IInv, Shaped, SessionOf, Accounted, GoesOn, LateOnce, AtWork, Reportable

(* Sessions keep their form when fields get new values together. *)
LEMMA OpenAndPending ==
  ASSUME NEW p, NEW s \in SessionOf(p), NEW q, NEW n \in Int
  PROVE  [s EXCEPT !.open = n, !.pending = q] \in SessionOf(q)
BY DEF SessionOf

LEMMA StateAndOpen ==
  ASSUME NEW p, NEW s \in SessionOf(p), NEW w \in Working, NEW n \in Int
  PROVE  [s EXCEPT !.state = w, !.open = n] \in SessionOf(p)
BY DEF SessionOf

LEMMA StateOpenAndOrphaned ==
  ASSUME NEW p, NEW s \in SessionOf(p), NEW w \in Working, NEW n \in Int, NEW o \in BOOLEAN
  PROVE  [s EXCEPT !.state = w, !.open = n, !.orphaned = o] \in SessionOf(p)
BY DEF SessionOf

(* A turn starts from the file, as an earlier one left it. *)
LEMMA StartStep ==
  ASSUME IInv, NEW kind \in {"new", "repeated", "resume"}, StartTurn(kind)
  PROVE  IInv'
<1>1. PICK p : saved \in SessionOf(p)
  BY DEF IInv, Shaped
<1>2. Loaded \in SessionOf(p) /\ Loaded.state \in {"IDLE"} \cup Outcomes
  BY <1>1 DEF Loaded, SessionOf
<1>3. mem' \in SessionOf(p) /\ mem'.state = "RUNNING"
  <2>0. "RUNNING" \in Working /\ 0 \in Int
    OBVIOUS
  <2>1. CASE kind = "new"
    <3>1. mem' = [Loaded EXCEPT !.state = "RUNNING", !.open = 0,
                                !.orphaned = (Loaded.orphaned \/ Loaded.open > 0)]
      BY <2>1 DEF StartTurn
    <3>2. (Loaded.orphaned \/ Loaded.open > 0) \in BOOLEAN
      OBVIOUS
    <3>3. [Loaded EXCEPT !.state = "RUNNING", !.open = 0,
                         !.orphaned = (Loaded.orphaned \/ Loaded.open > 0)] \in SessionOf(p)
      BY <1>2, <2>0, <3>2, StateOpenAndOrphaned, Zenon
    <3> QED
      BY <1>2, <3>1, <3>3 DEF SessionOf
  <2>2. CASE kind = "repeated"
    <3>1. mem' = [Loaded EXCEPT !.state = "RUNNING", !.open = 0]
      BY <2>2 DEF StartTurn
    <3>2. [Loaded EXCEPT !.state = "RUNNING", !.open = 0] \in SessionOf(p)
      BY <1>2, <2>0, StateAndOpen, Zenon
    <3> QED
      BY <1>2, <3>1, <3>2 DEF SessionOf
  <2>3. CASE kind = "resume"
    BY <1>2, <2>3 DEF StartTurn, SessionOf
  <2> QED
    BY <2>1, <2>2, <2>3
<1>4. saved' = saved \/ saved' = mem'
  BY DEF StartTurn, Save
<1>5. /\ phase' = "top" /\ inherited' = mem'.open /\ left' = 0 /\ late' = 0
      /\ ~stop' /\ ~denied' /\ prior' = Loaded.state
  BY DEF StartTurn
<1>6. Shaped'
  BY <1>1, <1>3, <1>4, <1>5 DEF Shaped, SessionOf
<1>7. Loaded'.state \in {"PARTIAL", prior'}
  BY <1>1, <1>3, <1>4, <1>5 DEF Loaded, SessionOf
<1> QED
  BY <1>3, <1>5, <1>6, <1>7 DEF IInv, SessionOf, Accounted, GoesOn, LateOnce, AtWork, Reportable

(* Nothing is asked of a turn that is over. *)
LEMMA EndStep == ASSUME IInv, NEW s \in Outcomes, EndWith(s) PROVE IInv'
BY DEF EndWith, Save, turnVars, histVars, IInv, Shaped, SessionOf, Accounted, GoesOn, LateOnce,
       AtWork, Reportable

(* A save during the turn leaves a file that would be reported as PARTIAL. *)
LEMMA SaveAtWork ==
  ASSUME Shaped, Shaped', Reportable, phase # "none", Save, prior' = prior, mem'.state \in Working
  PROVE  Reportable'
BY DEF Shaped, SessionOf, Reportable, Save, Loaded

(* A stopped turn draws up its report. *)
LEMMA FinalizeStep ==
  ASSUME IInv, NEW n, Finalize(n), phase \in {"model", "verdict"}
  PROVE  IInv'
<1>1. Shaped'
  BY DEF Finalize, Save, histVars, IInv, Shaped, SessionOf
<1>2. Reportable'
  BY <1>1, SaveAtWork DEF Finalize, histVars, IInv, Shaped, SessionOf
<1> QED
  BY <1>1, <1>2 DEF Finalize, histVars, IInv, Shaped, SessionOf, Accounted, GoesOn, LateOnce, AtWork

(* A result answers one call at hand. *)
LEMMA ResultStep ==
  ASSUME IInv, NEW p, Result(p), phase \in {"call", "asking", "running"},
         UNCHANGED <<aborted, histVars>>
  PROVE  IInv'
<1>1. Shaped'
  <2>1. mem' \in SessionOf(p)
    <3>1. PICK q : mem \in SessionOf(q)
      BY DEF IInv, Shaped
    <3>2. mem.open - 1 \in Int
      BY <3>1 DEF SessionOf
    <3> QED
      BY <3>1, <3>2, OpenAndPending DEF Result
  <2>2. saved' = saved \/ saved' = mem'
    BY DEF Result, Save
  <2> QED
    BY <2>1, <2>2 DEF Result, histVars, IInv, Shaped
<1>2. Reportable'
  BY <1>1, SaveAtWork DEF Result, histVars, IInv, Shaped, SessionOf, AtWork
<1> QED
  BY <1>1, <1>2 DEF Result, histVars, IInv, Shaped, SessionOf, Accounted, GoesOn, LateOnce, AtWork

(* However a call ends, it has one result. *)
LEMMA OneResult ==
  /\ Plain => \E p : Result(p)
  /\ Fruitless => \E p : Result(p)
  /\ Fruitful => \E p : Result(p)
  /\ (\E o \in Obligations : Owe(o) \/ Pay(o)) => \E p : Result(p)
BY DEF Plain, Fruitless, Fruitful, Owe, Pay

(* The steps of a call that end in a result. *)
LEMMA CallStep ==
  ASSUME IInv,
         Refuse \/ Conflict \/ PolicyDenies \/ Duplicate \/ NotAllowed \/ Skip
         \/ Succeeds \/ Repeats \/ Fails
  PROVE  IInv'
<1>1. PICK p : Result(p)
  BY OneResult DEF Refuse, Conflict, PolicyDenies, Duplicate, NotAllowed, Skip, Succeeds, Repeats,
                   Fails
<1>2. phase \in {"call", "asking", "running"} /\ UNCHANGED <<aborted, histVars>>
  BY DEF Refuse, Conflict, PolicyDenies, Duplicate, NotAllowed, Skip, Succeeds, Repeats, Fails
<1> QED
  BY <1>1, <1>2, ResultStep

(* The steps that start a tool: late counts those after the abort. *)
LEMMA ToolStarts == ASSUME IInv, StartTool \/ Allowed PROVE IInv'
BY DEF StartTool, Allowed, Starts, IInv, Shaped, SessionOf, Accounted, GoesOn, LateOnce, AtWork,
       Reportable, Loaded

(* The step ends, or goes on with the next call. *)
LEMMA CallDoneStep == ASSUME IInv, CallDone PROVE IInv'
<1>1. Shaped'
  BY DEF CallDone, Save, histVars, IInv, Shaped, SessionOf, Accounted
<1>2. mem'.state = mem.state /\ prior' = prior /\ phase = "after"
  BY DEF CallDone, histVars, IInv, Shaped, SessionOf
<1>3. Reportable'
  <2>1. CASE Save
    BY <1>1, <1>2, <2>1, SaveAtWork DEF IInv, AtWork
  <2>2. CASE UNCHANGED saved
    BY <1>2, <2>2 DEF IInv, Reportable, Loaded
  <2> QED
    BY <2>1, <2>2 DEF CallDone
<1>4. Accounted' /\ GoesOn' /\ LateOnce'
  BY DEF CallDone, histVars, IInv, Shaped, SessionOf, Accounted, GoesOn, LateOnce
<1> QED
  BY <1>1, <1>2, <1>3, <1>4 DEF CallDone, IInv, AtWork

(* The head of the loop, and the waits for the model and for approvals. *)
LEMMA WaitStep ==
  ASSUME IInv,
         \/ NextStep \/ Retry \/ FinalRetry \/ Asks \/ Abort
         \/ \E d \in {"allow", "deny"} : Approve(d)
  PROVE  IInv'
<1>1. CASE NextStep
  <2>1. Shaped'
    BY <1>1 DEF NextStep, Save, histVars, IInv, Shaped, SessionOf
  <2>2. Reportable'
    <3>1. CASE UNCHANGED saved
      BY <1>1, <3>1 DEF NextStep, histVars, IInv, Reportable, Loaded
    <3>2. CASE Save /\ mem'.state = "RECOVERING"
      BY <1>1, <2>1, <3>2, SaveAtWork DEF NextStep, histVars, IInv
    <3> QED
      BY <1>1, <3>1, <3>2 DEF NextStep, IInv, Shaped, SessionOf
  <2> QED
    BY <1>1, <2>1, <2>2 DEF NextStep, histVars, IInv, Shaped, SessionOf, Accounted, GoesOn,
                            LateOnce, AtWork
<1>2. CASE Retry \/ FinalRetry
  BY <1>2 DEF Retry, FinalRetry, Tick, histVars, IInv, Shaped, SessionOf, Accounted, GoesOn,
              LateOnce, AtWork, Reportable, Loaded
<1>3. CASE Asks \/ Abort \/ \E d \in {"allow", "deny"} : Approve(d)
  BY <1>3 DEF Asks, Abort, Approve, turnVars, histVars, IInv, Shaped, SessionOf, Accounted, GoesOn,
              LateOnce, AtWork, Reportable, Loaded
<1> QED
  BY <1>1, <1>2, <1>3

(* The model's calls are at hand. *)
LEMMA ToolCallsStep == ASSUME IInv, NEW n \in 1..MaxBatch, ToolCalls(n) PROVE IInv'
<1>0. n \in Nat /\ n > 0
  BY LimitsAssumption
<1>1. Shaped'
  BY <1>0 DEF ToolCalls, Save, histVars, IInv, Shaped, SessionOf
<1>2. Reportable'
  BY <1>1, SaveAtWork DEF ToolCalls, histVars, IInv, Shaped, SessionOf, AtWork
<1> QED
  BY <1>0, <1>1, <1>2 DEF ToolCalls, histVars, IInv, Shaped, SessionOf, Accounted, GoesOn, LateOnce,
                          AtWork

(* The ways a turn ends by itself. *)
LEMMA Endings ==
  ASSUME \/ AbortSeen \/ Answered \/ ModelFails \/ ModelCancelled \/ Reported \/ Raises
         \/ Verdict /\ phase' = "none"
  PROVE  \E s \in Outcomes : EndWith(s)
<1>1. CASE AbortSeen \/ ModelFails \/ ModelCancelled \/ Reported \/ Raises
  BY <1>1 DEF AbortSeen, ModelFails, ModelCancelled, Reported, Raises
<1>2. CASE Answered
  BY <1>2 DEF Answered
<1>3. CASE Verdict /\ phase' = "none"
  BY <1>3 DEF Verdict, Finalize
<1> QED
  BY <1>1, <1>2, <1>3

(* A turn that is cut off leaves its sessions as they are, or a report. *)
LEMMA CutOffStep == ASSUME IInv, Disconnect \/ Crash PROVE IInv'
<1>1. Shaped'
  BY DEF Disconnect, Crash, Save, histVars, IInv, Shaped, SessionOf
<1> QED
  BY <1>1 DEF Disconnect, Crash, IInv, Accounted, GoesOn, LateOnce, AtWork, Reportable

(* Every step keeps the invariant. *)
LEMMA NextIInv == IInv /\ [Next]_vars => IInv'
<1> SUFFICES ASSUME IInv, [Next]_vars PROVE IInv'
  OBVIOUS
<1>1. CASE UNCHANGED vars
  BY <1>1 DEF vars, turnVars, histVars, IInv, Shaped, SessionOf, Accounted, GoesOn, LateOnce, AtWork,
              Reportable, Loaded
<1>2. CASE \E kind \in {"new", "repeated", "resume"} : StartTurn(kind)
  BY <1>2, StartStep
<1>3. CASE Runtime
  <2>1. CASE NextStep \/ Retry \/ FinalRetry \/ Asks
    BY <2>1, WaitStep
  <2>2. CASE AbortSeen \/ Answered \/ ModelFails \/ ModelCancelled \/ Reported \/ Raises
    BY <2>2, Endings, EndStep
  <2>3. CASE \E n \in 1..MaxBatch : ToolCalls(n)
    BY <2>3, ToolCallsStep
  <2>4. CASE LeaseExpires
    BY <2>4, FinalizeStep DEF LeaseExpires
  <2>5. CASE Verdict
    <3>1. CASE phase' = "none"
      BY <2>5, <3>1, Endings, EndStep
    <3>2. CASE phase' # "none"
      BY <2>5, <3>2, FinalizeStep DEF Verdict, EndWith
    <3> QED
      BY <3>1, <3>2
  <2>6. CASE StartTool \/ Allowed
    BY <2>6, ToolStarts
  <2>7. CASE CallDone
    BY <2>7, CallDoneStep
  <2>8. CASE Refuse \/ Conflict \/ PolicyDenies \/ Duplicate \/ NotAllowed \/ Tool
    BY <2>8, CallStep DEF Tool
  <2> QED
    BY <1>3, <2>1, <2>2, <2>3, <2>4, <2>5, <2>6, <2>7, <2>8 DEF Runtime, Model, Call
<1>4. CASE Abort \/ \E d \in {"allow", "deny"} : Approve(d)
  BY <1>4, WaitStep
<1>5. CASE Disconnect \/ Crash
  BY <1>5, CutOffStep
<1> QED
  BY <1>1, <1>2, <1>3, <1>4, <1>5 DEF Next

(* The invariant holds of all turns. *)
LEMMA Invariant == Spec => []IInv
BY InitIInv, NextIInv, PTL DEF Spec

-----------------------------------------------------------------------------
(* Between steps, and whenever the model is asked, every call the turn     *)
(* received has its one result: for any batches, limits and lease.         *)
THEOREM CallsAnswered == Spec => []NewCallsAnswered
<1>1. IInv => NewCallsAnswered
  BY DEF IInv, Shaped, SessionOf, Accounted, NewCallsAnswered
<1> QED
  BY <1>1, Invariant, PTL

(* A step that starts a tool. *)
LEMMA StartsTool ==
  ASSUME IInv, [Next]_vars, phase # "running", phase' = "running"
  PROVE  StartTool \/ Allowed
<1>1. phase' # "running" \/ StartTool \/ Allowed
  BY DEF Next, Runtime, Model, Call, Tool, StartTurn, NextStep, AbortSeen, ToolCalls, Answered,
         Retry, ModelFails, ModelCancelled, LeaseExpires, Finalize, FinalRetry, Reported, Refuse,
         Conflict, PolicyDenies, Duplicate, Asks, Raises, Approve, NotAllowed, Skip, Succeeds,
         Repeats, Fails, CallDone, Verdict, Abort, Disconnect, Crash, EndWith, Fruitless, Fruitful,
         Plain, Owe, Pay, Result, vars, turnVars, histVars
<1> QED
  BY <1>1

(* What stopped the tools, a limit, a conflict, a denial or an abort,      *)
(* stops them: after an abort one tool at most starts.                     *)
THEOREM StopsTools == Spec => StopMeansStop
<1>1. IInv /\ [Next]_vars
      => ((phase # "running" /\ phase' = "running") => ~stop /\ ~denied /\ late' <= 1)
  BY StartsTool DEF StartTool, Allowed, Starts, IInv, GoesOn, LateOnce
<1> QED
  BY <1>1, Invariant, PTL DEF Spec, StopMeansStop

-----------------------------------------------------------------------------
(***************************************************************************)
(* The types of the state.  Sessions keep lists of different pending       *)
(* actions, which bounds the lists' lengths.                               *)
(***************************************************************************)
(* The lists of pending actions, and the sessions with one. *)
Lists == {s \in Seq(Obligations) : IsInjective(s)}

ListSessions ==
  [state : {"IDLE"} \cup Working \cup Outcomes, open : Nat, orphaned : BOOLEAN, pending : Lists]

LEMMA ListsClosed ==
  /\ <<>> \in Lists
  /\ \A s \in Lists : ToSet(s) \subseteq Obligations
  /\ \A s \in Lists, o \in Obligations : Owing(s, o) \in Lists /\ Resolved(s, o) \in Lists
<1>1. <<>> \in Lists
  BY DEF Lists, IsInjective
<1>2. ASSUME NEW s \in Lists
      PROVE  ToSet(s) \subseteq Obligations
  BY DEF Lists, ToSet
<1>3. ASSUME NEW s \in Lists, NEW o \in Obligations
      PROVE  Owing(s, o) \in Lists /\ Resolved(s, o) \in Lists
  <2>1. s \in Seq(Obligations) /\ IsInjective(s)
    BY DEF Lists
  <2>2. Resolved(s, o) \in Lists
    BY <2>1, KeptElements DEF Resolved, Lists
  <2>3. Owing(s, o) \in Lists
    <3>1. CASE o \in ToSet(s)
      BY <3>1 DEF Owing
    <3>2. CASE o \notin ToSet(s)
      <4> DEFINE t == Append(s, o)
      <4>1. /\ t \in Seq(Obligations) /\ Len(t) = Len(s) + 1 /\ Len(s) \in Nat
            /\ IsInjective(t)
        BY <2>1, <3>2, OneMore
      <4> HIDE DEF t
      <4>2. t # <<>> /\ DOMAIN t = 1..Len(t)
        BY <4>1
      <4>3. /\ Tail(t) \in Seq(Obligations) /\ Len(Tail(t)) = Len(t) - 1
            /\ DOMAIN Tail(t) = 1..(Len(t) - 1)
            /\ \A i \in 1..Len(Tail(t)) : Tail(t)[i] = t[i + 1]
        BY <4>1, <4>2, HeadTailProperties
      <4>4. IsInjective(Tail(t))
        <5> SUFFICES ASSUME NEW i \in DOMAIN Tail(t), NEW j \in DOMAIN Tail(t), Tail(t)[i] = Tail(t)[j]
                     PROVE  i = j
          BY DEF IsInjective
        <5>1. i + 1 \in DOMAIN t /\ j + 1 \in DOMAIN t /\ t[i + 1] = t[j + 1]
          BY <4>1, <4>2, <4>3
        <5>2. i + 1 = j + 1
          BY <4>1, <5>1 DEF IsInjective
        <5> QED
          BY <4>1, <4>3, <5>2
      <4>5. t \in Lists /\ Tail(t) \in Lists
        BY <4>1, <4>3, <4>4 DEF Lists
      <4> QED
        BY <3>2, <4>5 DEF Owing, t
    <3> QED
      BY <3>1, <3>2
  <2> QED
    BY <2>2, <2>3
<1> QED
  BY <1>1, <1>2, <1>3

(* The types of what is not a session. *)
RestOK == /\ phase \in Phases
          /\ turn \in Nat /\ left \in Nat /\ attempt \in Nat /\ errors \in Nat /\ stalled \in Nat
          /\ ticks \in Nat /\ inherited \in Nat /\ late \in Nat
          /\ news \in BOOLEAN
          /\ stop \in BOOLEAN /\ denied \in BOOLEAN /\ aborted \in BOOLEAN
          /\ changed \in BOOLEAN /\ minding \in BOOLEAN
          /\ owed \subseteq Obligations
          /\ answer \in {"none", "allow", "deny"}
          /\ prior \in {"IDLE"} \cup Outcomes

Typed == mem \in ListSessions /\ saved \in ListSessions /\ RestOK

LEMMA TypesHold == Typed => TypeOK
<1>1. ListSessions \subseteq Sessions
  BY DEF ListSessions, Sessions, Lists
<1> QED
  BY <1>1 DEF Typed, RestOK, TypeOK

LEMMA InitTypes == Init => Typed
<1>2. Empty \in ListSessions
  BY ListsClosed DEF Empty, ListSessions
<1>3. Init => RestOK
  <2> SUFFICES ASSUME Init PROVE RestOK
    OBVIOUS
  <2>1. /\ stop \in BOOLEAN /\ denied \in BOOLEAN /\ aborted \in BOOLEAN
        /\ changed \in BOOLEAN /\ minding \in BOOLEAN
    BY DEF Init
  <2> QED
    BY <2>1 DEF Init, RestOK
<1> QED
  BY <1>2, <1>3 DEF Init, Typed

(* Where the session goes, its file goes or stays. *)
LEMMA SavedTypes ==
  ASSUME saved \in ListSessions, mem' \in ListSessions, Save \/ UNCHANGED saved
  PROVE  saved' \in ListSessions
BY DEF Save

LEMMA StartTypes ==
  ASSUME Typed, NEW kind \in {"new", "repeated", "resume"}, StartTurn(kind)
  PROVE  Typed'
<1>1. Loaded \in ListSessions /\ Loaded.state \in {"IDLE"} \cup Outcomes
  <2>1. CASE saved.state \in Working
    <3>1. Loaded = [saved EXCEPT !.state = "PARTIAL"]
      BY <2>1 DEF Loaded
    <3> QED
      BY <3>1 DEF Typed, RestOK, ListSessions
  <2>2. CASE saved.state \notin Working
    <3>1. Loaded = [saved EXCEPT !.state = saved.state]
      BY <2>2 DEF Loaded
    <3> QED
      BY <2>2, <3>1 DEF Typed, RestOK, ListSessions
  <2> QED
    BY <2>1, <2>2
<1>2. /\ mem' \in ListSessions
      /\ ToSet(mem'.pending) \subseteq Obligations
  <2>1. mem' \in ListSessions
    <3>1. /\ "RUNNING" \in {"IDLE"} \cup Working \cup Outcomes
          /\ 0 \in Nat
          /\ (Loaded.orphaned \/ Loaded.open > 0) \in BOOLEAN
      OBVIOUS
    <3> QED
      BY <1>1, <3>1 DEF StartTurn, ListSessions
  <2> QED
    BY <2>1, ListsClosed DEF ListSessions
<1>3. saved' \in ListSessions
  BY <1>2, SavedTypes DEF StartTurn, Typed
<1>4. mem'.open \in Nat
  BY <1>2 DEF ListSessions
<1>5. minding' \in BOOLEAN /\ owed' \subseteq Obligations
  BY <1>2 DEF StartTurn
<1>6. /\ stop' \in BOOLEAN /\ denied' \in BOOLEAN /\ aborted' \in BOOLEAN /\ changed' \in BOOLEAN
      /\ answer' \in {"none", "allow", "deny"} /\ prior' \in {"IDLE"} \cup Outcomes
  BY <1>1 DEF StartTurn
<1>7. RestOK'
  BY <1>4, <1>5, <1>6 DEF StartTurn, Typed, RestOK
<1> QED
  BY <1>2, <1>3, <1>7 DEF Typed

LEMMA EndTypes == ASSUME Typed, NEW s \in Outcomes, EndWith(s) PROVE Typed'
<1>1. mem' \in ListSessions
  BY DEF EndWith, Typed, RestOK, ListSessions
<1> QED
  BY <1>1, SavedTypes DEF EndWith, turnVars, histVars, Typed, RestOK, ListSessions

LEMMA FinalizeTypes ==
  ASSUME Typed, NEW n \in Nat, Finalize(n), stop' \in BOOLEAN
  PROVE  Typed'
<1>1. mem' \in ListSessions
  BY DEF Finalize, Typed, RestOK, ListSessions
<1> QED
  BY <1>1, SavedTypes DEF Finalize, histVars, Typed, RestOK, ListSessions

(* A result, and the pending actions as the call leaves them. *)
LEMMA ResultTypes ==
  ASSUME Typed, Accounted, phase \in {"call", "asking", "running"}, Plain \/ Fruitless \/ Fruitful
         \/ \E o \in Obligations : Owe(o) \/ Pay(o)
  PROVE  /\ mem' \in ListSessions /\ saved' \in ListSessions /\ left' \in Nat
         /\ phase' \in Phases /\ answer' = "none"
         /\ minding' \in BOOLEAN /\ owed' \subseteq Obligations
<1>0. /\ mem \in ListSessions /\ mem.pending \in Lists /\ mem.open \in Nat
      /\ inherited \in Nat
  BY DEF Typed, RestOK, ListSessions
<1>1. /\ mem.open - 1 \in Nat /\ left - 1 \in Nat
  BY <1>0 DEF Accounted
<1>2. ASSUME NEW p \in Lists, Result(p)
      PROVE  /\ mem' \in ListSessions /\ saved' \in ListSessions /\ left' \in Nat
             /\ phase' \in Phases /\ answer' = "none"
  <2>1. mem' \in ListSessions
    BY <1>0, <1>1, <1>2 DEF Result, ListSessions
  <2> QED
    BY <1>1, <1>2, <2>1, SavedTypes DEF Result, Typed
<1>3. CASE Plain
  BY <1>0, <1>2, <1>3 DEF Plain, Typed, RestOK, ListSessions
<1>4. ASSUME NEW o \in Obligations, Owe(o)
      PROVE  /\ \E p \in Lists : Result(p)
             /\ minding' \in BOOLEAN /\ owed' \subseteq Obligations
  BY <1>0, <1>4, ListsClosed DEF Owe, Typed, RestOK, ListSessions
<1>5. ASSUME NEW o \in Obligations, Pay(o)
      PROVE  /\ \E p \in Lists : Result(p)
             /\ minding' \in BOOLEAN /\ owed' \subseteq Obligations
  BY <1>0, <1>5, ListsClosed DEF Pay, Typed, RestOK, ListSessions
<1> QED
  BY <1>2, <1>3, <1>4, <1>5 DEF Fruitless, Fruitful

LEMMA CallTypes ==
  ASSUME Typed, Accounted,
         Refuse \/ Conflict \/ PolicyDenies \/ Duplicate \/ NotAllowed \/ Skip
         \/ Succeeds \/ Repeats \/ Fails
  PROVE  Typed'
<1>1. /\ phase \in {"call", "asking", "running"}
      /\ Plain \/ Fruitless \/ Fruitful \/ \E o \in Obligations : Owe(o) \/ Pay(o)
  BY DEF Refuse, Conflict, PolicyDenies, Duplicate, NotAllowed, Skip, Succeeds, Repeats, Fails,
         Fruitless, Fruitful
<1>2. /\ mem' \in ListSessions /\ saved' \in ListSessions /\ left' \in Nat
      /\ phase' \in Phases /\ answer' = "none"
      /\ minding' \in BOOLEAN /\ owed' \subseteq Obligations
  BY <1>1, ResultTypes
<1>3. /\ turn' \in Nat /\ attempt' \in Nat /\ errors' \in Nat /\ stalled' \in Nat
      /\ ticks' \in Nat /\ inherited' \in Nat /\ late' \in Nat
      /\ news' \in BOOLEAN
      /\ stop' \in BOOLEAN /\ denied' \in BOOLEAN /\ aborted' \in BOOLEAN /\ changed' \in BOOLEAN
      /\ prior' \in {"IDLE"} \cup Outcomes
  <2>1. CASE Refuse
    BY <2>1 DEF Refuse, CountError, histVars, Typed, RestOK, ListSessions
  <2>2. CASE Conflict
    BY <2>2 DEF Conflict, CountError, histVars, Typed, RestOK, ListSessions
  <2>3. CASE PolicyDenies
    BY <2>3 DEF PolicyDenies, CountError, CountStall, LimitReached, histVars, Typed, RestOK, ListSessions
  <2>4. CASE Duplicate
    BY <2>4 DEF Duplicate, CountStall, LimitReached, histVars, Typed, RestOK, ListSessions
  <2>5. CASE NotAllowed
    BY <2>5 DEF NotAllowed, histVars, Typed, RestOK, ListSessions
  <2>6. CASE Skip
    BY <2>6 DEF Skip, histVars, Typed, RestOK, ListSessions
  <2>7. CASE Succeeds
    <3>1. news' \in BOOLEAN /\ stop' \in BOOLEAN /\ changed' \in BOOLEAN
      BY <2>7, Zenon DEF Succeeds, Typed, RestOK
    <3> QED
      BY <2>7, <3>1 DEF Succeeds, histVars, Typed, RestOK
  <2>8. CASE Repeats \/ Fails
    <3>1. errors' \in Nat /\ stalled' \in Nat /\ ticks' \in Nat
      <4>1. errors \in Nat /\ stalled \in Nat /\ ticks \in Nat
        BY DEF Typed, RestOK
      <4>2. CASE Repeats
        BY <4>1, <4>2 DEF Repeats, Tick, CountStall
      <4>3. CASE Fails
        BY <4>1, <4>3 DEF Fails, Tick, CountError, CountStall
      <4> QED
        BY <2>8, <4>2, <4>3
    <3>2. stop' \in BOOLEAN
      BY <2>8 DEF Repeats, Fails, Typed, RestOK
    <3> QED
      BY <2>8, <3>1, <3>2 DEF Repeats, Fails, histVars, Typed, RestOK
  <2> QED
    BY <2>1, <2>2, <2>3, <2>4, <2>5, <2>6, <2>7, <2>8
<1> QED
  BY <1>2, <1>3 DEF Typed, RestOK, ListSessions

(* The steps that leave the pending actions alone. *)
LEMMA OtherTypes ==
  ASSUME Typed, Accounted,
         \/ NextStep \/ Retry \/ FinalRetry \/ Asks \/ Abort \/ StartTool \/ Allowed \/ CallDone
         \/ (\E d \in {"allow", "deny"} : Approve(d))
         \/ (\E n \in 1..MaxBatch : ToolCalls(n))
         \/ Disconnect \/ Crash \/ UNCHANGED vars
  PROVE  Typed'
<1>1. CASE NextStep
  <2>1. mem' \in ListSessions
    BY <1>1 DEF NextStep, Typed, RestOK, ListSessions
  <2> QED
    BY <1>1, <2>1, SavedTypes DEF NextStep, histVars, Typed, RestOK, ListSessions
<1>2. CASE Retry \/ FinalRetry
  BY <1>2 DEF Retry, FinalRetry, Tick, histVars, Typed, RestOK, ListSessions
<1>3. CASE Asks \/ Abort \/ StartTool \/ Allowed \/ Crash
  <2>1. /\ aborted' \in BOOLEAN /\ late' \in Nat /\ phase' \in Phases
        /\ answer' \in {"none", "allow", "deny"}
    <3>1. CASE StartTool \/ Allowed
      <4>1. late \in Nat
        BY DEF Typed, RestOK
      <4> QED
        BY <3>1, <4>1 DEF StartTool, Allowed, Starts, Typed, RestOK
    <3>2. CASE Asks \/ Abort \/ Crash
      BY <3>2 DEF Asks, Abort, Crash, turnVars, histVars, Typed, RestOK
    <3> QED
      BY <1>3, <3>1, <3>2
  <2> QED
    BY <1>3, <2>1 DEF Asks, Abort, StartTool, Allowed, Starts, Crash, turnVars, histVars, Typed, RestOK
<1>4. CASE \E d \in {"allow", "deny"} : Approve(d)
  BY <1>4 DEF Approve, histVars, Typed, RestOK, ListSessions
<1>5. CASE CallDone
  <2>1. CASE denied \/ aborted \/ stop
    <3>1. mem.open - left \in Nat
      BY <1>5 DEF CallDone, Typed, RestOK, ListSessions, Accounted
    <3>2. mem' \in ListSessions
      BY <1>5, <2>1, <3>1 DEF CallDone, Typed, RestOK, ListSessions
    <3> QED
      BY <1>5, <2>1, <3>2, SavedTypes DEF CallDone, histVars, Typed, RestOK, ListSessions
  <2>2. CASE ~(denied \/ aborted \/ stop)
    BY <1>5, <2>2 DEF CallDone, histVars, Typed, RestOK, ListSessions
  <2> QED
    BY <2>1, <2>2
<1>6. ASSUME NEW n \in 1..MaxBatch, ToolCalls(n)
      PROVE  Typed'
  <2>1. n \in Nat /\ mem.open + n \in Nat
    BY LimitsAssumption DEF Typed, RestOK, ListSessions
  <2>2. mem' \in ListSessions
    BY <1>6, <2>1 DEF ToolCalls, Typed, RestOK, ListSessions
  <2> QED
    BY <1>6, <2>1, <2>2, SavedTypes DEF ToolCalls, Tick, histVars, Typed, RestOK, ListSessions
<1>7. CASE Disconnect
  <2>1. mem' \in ListSessions
    BY <1>7 DEF Disconnect, Typed, RestOK, ListSessions
  <2> QED
    BY <1>7, <2>1, SavedTypes DEF Disconnect, turnVars, histVars, Typed, RestOK, ListSessions
<1>8. CASE UNCHANGED vars
  BY <1>8 DEF vars, turnVars, histVars, Typed, RestOK, ListSessions
<1> QED
  BY <1>1, <1>2, <1>3, <1>4, <1>5, <1>6, <1>7, <1>8

LEMMA NextTypes == Typed /\ IInv /\ [Next]_vars => Typed'
<1> SUFFICES ASSUME Typed, IInv, [Next]_vars PROVE Typed'
  OBVIOUS
<1>0. Accounted
  BY DEF IInv
<1>1. CASE \E kind \in {"new", "repeated", "resume"} : StartTurn(kind)
  BY <1>1, StartTypes
<1>2. CASE Runtime
  <2>1. CASE NextStep \/ Retry \/ FinalRetry \/ Asks \/ StartTool \/ Allowed \/ CallDone
             \/ \E n \in 1..MaxBatch : ToolCalls(n)
    BY <1>0, <2>1, OtherTypes
  <2>2. CASE AbortSeen \/ Answered \/ ModelFails \/ ModelCancelled \/ Reported \/ Raises
    BY <2>2, Endings, EndTypes
  <2>3. CASE LeaseExpires
    BY <2>3, FinalizeTypes DEF LeaseExpires
  <2>4. CASE Verdict
    <3>1. CASE phase' = "none"
      BY <2>4, <3>1, Endings, EndTypes
    <3>2. CASE phase' # "none"
      BY <2>4, <3>2, FinalizeTypes DEF Verdict, EndWith, Typed, RestOK, ListSessions
    <3> QED
      BY <3>1, <3>2
  <2>5. CASE Refuse \/ Conflict \/ PolicyDenies \/ Duplicate \/ NotAllowed \/ Tool
    BY <1>0, <2>5, CallTypes DEF Tool
  <2> QED
    BY <1>2, <2>1, <2>2, <2>3, <2>4, <2>5 DEF Runtime, Model, Call
<1>3. CASE Abort \/ (\E d \in {"allow", "deny"} : Approve(d)) \/ Disconnect \/ Crash
           \/ UNCHANGED vars
  BY <1>0, <1>3, OtherTypes
<1> QED
  BY <1>1, <1>2, <1>3 DEF Next

LEMMA TypedAlways == Spec => []Typed
BY InitTypes, NextTypes, Invariant, PTL DEF Spec

(* The state keeps its types: what is read back from the file, too.        *)
THEOREM TurnTypes == Spec => []TypeOK
BY TypedAlways, TypesHold, PTL

-----------------------------------------------------------------------------
(***************************************************************************)
(* What is owed is minded.                                                 *)
(***************************************************************************)
(* A session's list has room for everything a turn can owe. *)
CapSuffices == IsFiniteSet(Obligations) /\ Cardinality(Obligations) <= PendingCap

(* Nothing gives way in a list of different actions that could hold all.   *)
LEMMA OwingNotes ==
  ASSUME CapSuffices, NEW s \in Lists, NEW o \in Obligations
  PROVE  ToSet(Owing(s, o)) = ToSet(s) \cup {o}
<1>1. CASE o \in ToSet(s)
  BY <1>1 DEF Owing
<1>2. CASE o \notin ToSet(s)
  <2> DEFINE t == Append(s, o)
  <2>1. t \in Seq(Obligations) /\ IsInjective(t) /\ ToSet(t) = ToSet(s) \cup {o}
    BY <1>2, OneMore DEF Lists
  <2> HIDE DEF t
  <2>2. Len(t) \in Nat /\ t \in Injection(1..Len(t), Obligations)
    BY <2>1 DEF Injection
  <2>3. Cardinality(1..Len(t)) <= Cardinality(Obligations)
    BY <2>2, FS_Injection DEF CapSuffices
  <2>4. Cardinality(1..Len(t)) = Len(t)
    <3>1. 1 \in Int /\ Len(t) \in Int
      BY <2>2
    <3>2. Cardinality(1..Len(t)) = IF 1 > Len(t) THEN 0 ELSE Len(t) - 1 + 1
      BY <3>1, FS_Interval
    <3> QED
      BY <2>2, <3>2
  <2>5. PendingCap \in Nat /\ Cardinality(Obligations) \in Nat
    BY LimitsAssumption, FS_CardinalityType DEF CapSuffices
  <2>6. ~(Len(t) > PendingCap)
    BY <2>2, <2>3, <2>4, <2>5 DEF CapSuffices
  <2>7. Owing(s, o) = t
    BY <1>2, <2>6 DEF Owing, t
  <2> QED
    BY <2>1, <2>7
<1> QED
  BY <1>1, <1>2

(* A success settles what it settles, and nothing else. *)
LEMMA ResolvedSettles ==
  ASSUME NEW s \in Lists, NEW o
  PROVE  ToSet(Resolved(s, o)) = {a \in ToSet(s) : ~Settles(o, a)}
<1>1. s \in Seq(Obligations)
  BY DEF Lists
<1>2. ToSet(Resolved(s, o)) = {s[i] : i \in {k \in DOMAIN s : ~Settles(o, s[k])} \cap DOMAIN s}
  BY <1>1, KeptElements DEF Resolved
<1> QED
  BY <1>2 DEF ToSet

(* The steps between which the list and what is owed are the same. *)
LEMMA SameList ==
  ASSUME ObligationsKept, phase # "none", UNCHANGED <<owed, minding>>, mem'.pending = mem.pending
  PROVE  ObligationsKept'
BY DEF ObligationsKept, Pending

(* A result with the list that goes with what is owed. *)
LEMMA ResultKeeps ==
  ASSUME CapSuffices, Typed, ObligationsKept, phase # "none",
         Plain \/ Fruitless \/ Fruitful \/ \E o \in Obligations : Owe(o) \/ Pay(o)
  PROVE  ObligationsKept'
<1>0. mem \in ListSessions /\ mem.pending \in Lists
  BY DEF Typed, ListSessions
<1>1. ASSUME NEW p, Result(p)
      PROVE  mem'.pending = p
  BY <1>0, <1>1 DEF Result, ListSessions
<1>2. CASE Plain
  BY <1>1, <1>2, SameList DEF Plain
<1>3. ASSUME NEW o \in Obligations, Owe(o)
      PROVE  ObligationsKept'
  <2>1. /\ minding' = TRUE /\ owed' = owed \cup {o}
        /\ mem'.pending = Owing(mem.pending, o)
    BY <1>1, <1>3 DEF Owe
  <2>2. ToSet(mem'.pending) = ToSet(mem.pending) \cup {o}
    BY <1>0, <2>1, OwingNotes
  <2>3. owed \subseteq ToSet(mem.pending)
    BY DEF ObligationsKept, Pending
  <2> QED
    BY <2>1, <2>2, <2>3 DEF ObligationsKept, Pending
<1>4. ASSUME NEW o \in Obligations, Pay(o)
      PROVE  ObligationsKept'
  <2>1. /\ minding' = minding /\ owed' = {a \in owed : ~Settles(o, a)}
        /\ mem'.pending = Resolved(mem.pending, o)
    BY <1>1, <1>4 DEF Pay
  <2>2. ToSet(mem'.pending) = {a \in ToSet(mem.pending) : ~Settles(o, a)}
    BY <1>0, <2>1, ResolvedSettles
  <2>3. owed \subseteq IF minding THEN ToSet(mem.pending) ELSE {}
    BY DEF ObligationsKept, Pending
  <2> QED
    BY <2>1, <2>2, <2>3 DEF ObligationsKept, Pending
<1> QED
  BY <1>2, <1>3, <1>4 DEF Fruitless, Fruitful

LEMMA NextKeeps == CapSuffices /\ Typed /\ ObligationsKept /\ [Next]_vars => ObligationsKept'
<1> SUFFICES ASSUME CapSuffices, Typed, ObligationsKept, [Next]_vars PROVE ObligationsKept'
  OBVIOUS
<1>0. mem \in ListSessions
  BY DEF Typed
<1>1. CASE UNCHANGED vars
  BY <1>1 DEF vars, turnVars, ObligationsKept, Pending
<1>2. ASSUME NEW kind \in {"new", "repeated", "resume"}, StartTurn(kind)
      PROVE  ObligationsKept'
  <2>1. owed' = IF minding' THEN ToSet(mem'.pending) ELSE {}
    BY <1>2 DEF StartTurn
  <2> QED
    BY <2>1 DEF ObligationsKept, Pending
<1>3. CASE Runtime
  <2>1. CASE AbortSeen \/ Answered \/ ModelFails \/ ModelCancelled \/ Reported \/ Raises
    BY <2>1, Endings DEF EndWith, ObligationsKept
  <2>2. CASE NextStep \/ Retry \/ FinalRetry \/ Asks \/ StartTool \/ Allowed
    <3>1. phase # "none" /\ UNCHANGED <<owed, minding>> /\ mem'.pending = mem.pending
      BY <1>0, <2>2 DEF NextStep, Retry, FinalRetry, Asks, StartTool, Allowed, Starts, turnVars,
                        ListSessions
    <3> QED
      BY <3>1, SameList
  <2>3. CASE CallDone \/ (\E n \in 1..MaxBatch : ToolCalls(n)) \/ LeaseExpires
    <3>1. phase # "none" /\ UNCHANGED <<owed, minding>> /\ mem'.pending = mem.pending
      BY <1>0, <2>3 DEF CallDone, ToolCalls, LeaseExpires, Finalize, ListSessions
    <3> QED
      BY <3>1, SameList
  <2>4. CASE Refuse \/ Conflict \/ PolicyDenies \/ Duplicate \/ NotAllowed \/ Tool
    <3>1. /\ phase # "none"
          /\ Plain \/ Fruitless \/ Fruitful \/ \E o \in Obligations : Owe(o) \/ Pay(o)
      BY <2>4 DEF Tool, Refuse, Conflict, PolicyDenies, Duplicate, NotAllowed, Skip, Succeeds,
                  Repeats, Fails, Fruitless, Fruitful
    <3> QED
      BY <3>1, ResultKeeps
  <2>5. CASE Verdict
    <3>1. CASE phase' = "none"
      BY <3>1 DEF ObligationsKept
    <3>2. CASE phase' # "none"
      <4>1. phase # "none" /\ UNCHANGED <<owed, minding>> /\ mem'.pending = mem.pending
        BY <1>0, <2>5, <3>2 DEF Verdict, Finalize, EndWith, ListSessions
      <4> QED
        BY <4>1, SameList
    <3> QED
      BY <3>1, <3>2
  <2> QED
    BY <1>3, <2>1, <2>2, <2>3, <2>4, <2>5 DEF Runtime, Model, Call
<1>4. CASE Abort \/ \E d \in {"allow", "deny"} : Approve(d)
  BY <1>4, SameList DEF Abort, Approve, turnVars
<1>5. CASE Disconnect \/ Crash
  BY <1>5 DEF Disconnect, Crash, ObligationsKept
<1> QED
  BY <1>1, <1>2, <1>3, <1>4, <1>5 DEF Next

(* What the turn failed at, or was asked to resume, is minded until a      *)
(* success settles it, on every path through the turn, as long as the list *)
(* of pending actions has room for what the tools can leave undone: beyond *)
(* it, the oldest give way.                                                *)
THEOREM KeepsObligations == ASSUME CapSuffices PROVE Spec => []ObligationsKept
<1>1. Init => ObligationsKept
  BY DEF Init, ObligationsKept
<1>2. Typed /\ ObligationsKept /\ [Next]_vars => ObligationsKept'
  BY CapSuffices, NextKeeps
<1> QED
  BY <1>1, <1>2, TypedAlways, PTL DEF Spec

(* A turn that reports COMPLETE owes nothing. *)
THEOREM DeliversWhatCompletes == ASSUME CapSuffices PROVE Spec => CompleteMeansDelivered
<1>1. ASSUME Typed, ObligationsKept
      PROVE  Answered /\ mem'.state = "COMPLETE" => owed = {}
  <2> SUFFICES ASSUME Answered, mem'.state = "COMPLETE" PROVE owed = {}
    OBVIOUS
  <2>1. mem' = [mem EXCEPT !.state = IF Pending # {} THEN "PARTIAL" ELSE "COMPLETE"] /\ phase # "none"
    BY DEF Answered, EndWith
  <2>2. Pending = {}
    BY <1>1, <2>1 DEF Typed, ListSessions
  <2> QED
    BY <1>1, <2>1, <2>2 DEF ObligationsKept
<1>2. Typed /\ ObligationsKept /\ [Next]_vars
      => [Answered /\ mem'.state = "COMPLETE" => owed = {}]_vars
  BY <1>1
<1> QED
  BY <1>2, KeepsObligations, TypedAlways, PTL DEF Spec, CompleteMeansDelivered

-----------------------------------------------------------------------------
(***************************************************************************)
(* AgentTurn implements TurnLifecycle: one step of the life cycle, or      *)
(* none, for every step of the turn.                                       *)
(***************************************************************************)
USE DEF Reports

(* What is reported once a turn is over: its outcome, or, when that was    *)
(* not saved, what a turn that was cut off leaves.                         *)
LEMMA ReportedOutcome ==
  ASSUME IInv, NEW s \in Outcomes, EndWith(s), phase # "none"
  PROVE  Reports' \in {s, "PARTIAL", prior}
<1>1. PICK p : mem' \in SessionOf(p) /\ mem'.state = s
  BY DEF EndWith, IInv, Shaped, SessionOf
<1>2. CASE saved' = saved
  BY <1>2 DEF EndWith, Loaded, IInv, Reportable
<1>3. CASE saved' = mem'
  BY <1>1, <1>3 DEF EndWith, Loaded, SessionOf
<1> QED
  BY <1>2, <1>3 DEF EndWith, Save

(* A turn that is cut off reports PARTIAL, or what was reported before. *)
LEMMA ReportedCutOff ==
  ASSUME IInv, Disconnect \/ Crash
  PROVE  Reports' \in {"PARTIAL", prior}
<1>1. CASE saved' = saved
  BY <1>1 DEF Disconnect, Crash, Loaded, IInv, Reportable
<1>2. CASE saved' = mem' /\ phase = "final" /\ Disconnect
  <2>1. PICK p : mem' \in SessionOf(p) /\ mem'.state = "PARTIAL"
    BY <1>2 DEF Disconnect, IInv, Shaped, SessionOf
  <2> QED
    BY <1>2, <2>1 DEF Disconnect, Loaded, SessionOf
<1> QED
  BY <1>1, <1>2 DEF Disconnect, Crash, Save

(* The steps between which the report does not change. *)
LEMMA SameReport ==
  ASSUME IInv,
         \/ UNCHANGED vars
         \/ Retry \/ FinalRetry \/ Asks \/ Abort \/ StartTool \/ Allowed \/ CallDone
         \/ Refuse \/ Conflict \/ PolicyDenies \/ Duplicate \/ NotAllowed \/ Tool
         \/ (\E d \in {"allow", "deny"} : Approve(d))
         \/ (\E n \in 1..MaxBatch : ToolCalls(n))
  PROVE  UNCHANGED <<Reports, phase # "none", prior>>
<1>1. CASE UNCHANGED vars
  BY <1>1 DEF vars, histVars, Loaded
<1>2. CASE Retry \/ FinalRetry \/ Asks \/ StartTool \/ Allowed
  BY <1>2 DEF Retry, FinalRetry, Asks, StartTool, Allowed, Starts, histVars
<1>3. CASE Abort \/ \E d \in {"allow", "deny"} : Approve(d)
  BY <1>3 DEF Abort, Approve, histVars
<1>4. CASE CallDone \/ \E n \in 1..MaxBatch : ToolCalls(n)
  BY <1>4 DEF CallDone, ToolCalls, histVars, IInv, Shaped, SessionOf
<1>5. CASE Refuse \/ Conflict \/ PolicyDenies \/ Duplicate \/ NotAllowed \/ Tool
  <2>1. PICK p : Result(p)
    BY <1>5, OneResult DEF Tool, Refuse, Conflict, PolicyDenies, Duplicate, NotAllowed, Skip,
                           Succeeds, Repeats, Fails
  <2>2. phase # "none" /\ prior' = prior
    BY <1>5 DEF Tool, Refuse, Conflict, PolicyDenies, Duplicate, NotAllowed, Skip, Succeeds, Repeats,
                Fails, histVars
  <2> QED
    BY <2>1, <2>2 DEF Result, IInv, Shaped, SessionOf
<1> QED
  BY <1>1, <1>2, <1>3, <1>4, <1>5

USE DEF Lifecycle!Init, Lifecycle!Next, Lifecycle!lifeVars, Lifecycle!Active, Lifecycle!Terminal,
        Lifecycle!Begin, Lifecycle!Recover, Lifecycle!Stop, Lifecycle!Finish, Lifecycle!Interrupt

(* A turn begins. *)
LEMMA BeginStep ==
  ASSUME IInv, NEW kind \in {"new", "repeated", "resume"}, StartTurn(kind)
  PROVE  Lifecycle!Begin
<1>1. IInv'
  BY StartStep
<1>2. /\ phase = "none" /\ phase' = "top" /\ prior' = Loaded.state
      /\ mem'.state = "RUNNING"
  <2>1. PICK p : Loaded \in SessionOf(p)
    BY DEF Loaded, IInv, Shaped, SessionOf
  <2>2. CASE kind = "new"
    BY <2>1, <2>2 DEF StartTurn, SessionOf
  <2>3. CASE kind = "repeated"
    BY <2>1, <2>3 DEF StartTurn, SessionOf
  <2>4. CASE kind = "resume"
    BY <2>1, <2>4 DEF StartTurn, SessionOf
  <2> QED
    BY <2>2, <2>3, <2>4 DEF StartTurn
<1> QED
  BY <1>2

(* A turn that is stopped draws up its report. *)
LEMMA StopStep ==
  ASSUME IInv, NEW n, Finalize(n), phase \in {"model", "verdict"}
  PROVE  Lifecycle!Stop
BY DEF Finalize, histVars, IInv, Shaped, SessionOf, AtWork

(* A turn that ends reports its outcome, or counts as cut off. *)
LEMMA EndsStep ==
  ASSUME IInv, NEW s \in Outcomes, EndWith(s), phase # "none", phase = "final" => s = "PARTIAL"
  PROVE  Lifecycle!Finish \/ Lifecycle!Interrupt
BY ReportedOutcome DEF EndWith, histVars, IInv, AtWork

(* Every step of AgentTurn is one of the life cycle, or none. *)
LEMMA LifecycleStep == IInv /\ [Next]_vars => [Lifecycle!Next]_(Lifecycle!lifeVars)
<1> SUFFICES ASSUME IInv, [Next]_vars PROVE [Lifecycle!Next]_(Lifecycle!lifeVars)
  OBVIOUS
<1>1. CASE UNCHANGED vars
  BY <1>1, SameReport
<1>2. CASE \E kind \in {"new", "repeated", "resume"} : StartTurn(kind)
  BY <1>2, BeginStep
<1>3. CASE Abort \/ \E d \in {"allow", "deny"} : Approve(d)
  BY <1>3, SameReport
<1>4. CASE Disconnect \/ Crash
  BY <1>4, ReportedCutOff DEF Disconnect, Crash, histVars
<1>5. CASE Runtime
  <2>1. CASE NextStep
    BY <2>1 DEF NextStep, histVars, IInv, Shaped, SessionOf, AtWork
  <2>2. CASE LeaseExpires
    BY <2>2, StopStep DEF LeaseExpires
  <2>3. CASE Verdict
    <3>1. CASE phase' = "none"
      <4>1. PICK s \in Outcomes : EndWith(s)
        BY <2>3, <3>1, Endings
      <4> QED
        BY <2>3, <4>1, EndsStep DEF Verdict
    <3>2. CASE phase' # "none"
      BY <2>3, <3>2, StopStep DEF Verdict, EndWith
    <3> QED
      BY <3>1, <3>2
  <2>4. CASE AbortSeen \/ Answered \/ ModelFails \/ ModelCancelled \/ Raises
    <3>1. PICK s \in Outcomes : EndWith(s)
      BY <2>4, Endings
    <3>2. phase \notin {"none", "final"}
      BY <2>4 DEF AbortSeen, Answered, ModelFails, ModelCancelled, Raises
    <3> QED
      BY <3>1, <3>2, EndsStep
  <2>5. CASE Reported
    BY <2>5, EndsStep DEF Reported
  <2>6. CASE \/ Retry \/ FinalRetry \/ Asks \/ StartTool \/ Allowed \/ CallDone
             \/ Refuse \/ Conflict \/ PolicyDenies \/ Duplicate \/ NotAllowed \/ Tool
             \/ \E n \in 1..MaxBatch : ToolCalls(n)
    BY <2>6, SameReport
  <2> QED
    BY <1>5, <2>1, <2>2, <2>3, <2>4, <2>5, <2>6 DEF Runtime, Model, Call
<1> QED
  BY <1>1, <1>2, <1>3, <1>4, <1>5 DEF Next

(* The state that a session reports, while its turns run and are cut off,  *)
(* saved or not, is one that TurnLifecycle promises.                       *)
THEOREM RefinesLifecycle == Spec => LifecycleSpec
<1>1. Init => Lifecycle!Init
  BY DEF Init, Empty, Loaded
<1> QED
  BY <1>1, LifecycleStep, Invariant, PTL DEF Spec, LifecycleSpec, Lifecycle!Spec
=============================================================================
