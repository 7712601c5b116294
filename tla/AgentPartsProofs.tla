--------------------------- MODULE AgentPartsProofs ---------------------------
(***************************************************************************)
(* Proofs about the agent's parts around its turn loop: what lets a tool   *)
(* call pass (the gate, for any approval keys, grants and sequences of     *)
(* hooks, and the permission policy), what reaches the loop as it was said *)
(* (streams, pipes, compacted histories, the chat, the shell's backend),   *)
(* and the types of all of them.                                           *)
(***************************************************************************)
EXTENDS AgentRecordsProofs, SequenceTheorems

(* What a hook is taken to say is what the gate's properties mean by it.   *)
LEMMA HookIsTaken ==
  ASSUME NEW h \in HookRun
  PROVE  /\ HookVerdict(HookAnswer(h)) # "deny" =>
              /\ h.kind = "exit" /\ h.exit # 2
              /\ h.exit = 3 \/ (h.perm # "deny" /\ (h.block => h.perm = "ask"))
         /\ HookAnswer(h).input \in Keys \cup {None, Invalid}
  <1> USE GateAssumption DEF HookVerdict, HookAnswer, Answer
  <1>1. CASE h.kind # "exit"
    <2>1. HookAnswer(h) = Answer("deny", None, None)
      BY <1>1
    <2> QED BY <2>1
  <1>2. CASE h.kind = "exit"
    <2>1. h \in [kind : {"exit"}, exit : 0..3, block : BOOLEAN,
                 perm : {None, "allow", "deny", "ask"}, input : Keys \cup {None, Invalid}]
      BY <1>2 DEF HookRun
    <2>2. CASE h.exit = 2
      BY <1>2, <2>2
    <2>3. CASE h.exit = 3
      BY <1>2, <2>3
    <2>4. CASE h.exit \notin {2, 3}
      <3>1. HookAnswer(h) = Answer(IF h.block THEN "deny" ELSE "allow", h.perm, h.input)
        BY <1>2, <2>4
      <3> QED BY <1>2, <2>1, <2>4, <3>1
    <2> QED BY <2>2, <2>3, <2>4
  <1> QED BY <1>1, <1>2

(* The first hook that does not let the call pass decides: no hook after   *)
(* it is asked.                                                            *)
LEMMA FirstDecides ==
  ASSUME NEW hs \in Seq(HookRun), NEW n \in Consulted(hs),
         HookVerdict(HookAnswer(hs[n])) = "deny"
  PROVE  RunVerdict(hs) = "deny"
  <1> DEFINE V(m) == HookVerdict(HookAnswer(hs[m]))
  <1>1. n \in DOMAIN hs /\ DOMAIN hs = 1..Len(hs) /\ V(n) # "allow"
    BY DEF Consulted
  <1>2. \A m \in Consulted(hs) : V(m) # "allow" => m = n
    <2> SUFFICES ASSUME NEW m \in Consulted(hs), V(m) # "allow", m # n PROVE FALSE
      OBVIOUS
    <2>1. m \in DOMAIN hs
      BY DEF Consulted
    <2>2. CASE m < n
      <3>1. m \in 1..(n - 1)
        BY <1>1, <2>1, <2>2
      <3> QED BY <3>1 DEF Consulted
    <2>3. CASE n < m
      <3>1. n \in 1..(m - 1)
        BY <1>1, <2>1, <2>3
      <3> QED BY <1>1, <3>1 DEF Consulted
    <2> QED BY <1>1, <2>1, <2>2, <2>3
  <1>3. (CHOOSE m \in Consulted(hs) : V(m) # "allow") = n
    <2> HIDE DEF V
    <2> QED BY <1>1, <1>2
  <1> QED BY <1>1, <1>3 DEF RunVerdict

(* If a hook sets the arguments, one of those asked is the last to.        *)
LEMMA LastSetter ==
  ASSUME NEW hs \in Seq(HookRun), RunInput(hs) # None
  PROVE  \E n \in DOMAIN hs : RunInput(hs) = HookAnswer(hs[n]).input
  <1> DEFINE S == {n \in Consulted(hs) : HookAnswer(hs[n]).input # None}
             T == {Len(hs) - n : n \in S}
             R == OpToRel(<, Nat)
             Setter == CHOOSE n \in S : \A m \in S : m <= n
  <1>1. S # {} /\ S \subseteq 1..Len(hs) /\ DOMAIN hs = 1..Len(hs) /\ Len(hs) \in Nat
    BY DEF RunInput, Consulted
  <1>2. T \subseteq Nat /\ T # {}
    <2> HIDE DEF S
    <2>1. \A n \in S : Len(hs) - n \in Nat
      BY <1>1
    <2> QED BY <1>1, <2>1
  <1>3. PICK x \in T : \A y \in T : ~(<<y, x>> \in R)
    <2> HIDE DEF R, T
    <2> QED BY <1>2, NatLessThanWellFounded, WFMin DEF R
  <1>4. \A y \in T : ~(y < x)
    BY <1>2, <1>3 DEF OpToRel
  <1>5. \E n \in S : \A m \in S : m <= n
    <2> HIDE DEF S
    <2>1. PICK n \in S : x = Len(hs) - n
      OBVIOUS
    <2>2. \A m \in S : ~(Len(hs) - m < Len(hs) - n)
      BY <1>4, <2>1
    <2> QED BY <1>1, <2>1, <2>2
  <1>6. Setter \in S
    <2> HIDE DEF S
    <2> QED BY <1>5
  <1>7. RunInput(hs) = HookAnswer(hs[Setter]).input
    BY <1>1 DEF RunInput
  <1> HIDE DEF S, Setter
  <1> QED BY <1>1, <1>6, <1>7

(* A hook's arguments take the place of the model's.                       *)
LEMMA ArgumentsTyped ==
  ASSUME NEW hs \in HookRuns, NEW k \in Keys
  PROVE  ApprovalKey(k, hs) \in Keys \cup {Invalid}
  <1>1. hs \in Seq(HookRun)
    BY GateAssumption
  <1>2. CASE RunInput(hs) = None
    BY <1>2 DEF ApprovalKey
  <1>3. CASE RunInput(hs) # None
    <2>1. PICK n \in DOMAIN hs : RunInput(hs) = HookAnswer(hs[n]).input
      BY <1>1, <1>3, LastSetter
    <2>2. hs[n] \in HookRun
      BY <1>1
    <2> QED BY <1>3, <2>1, <2>2, HookIsTaken DEF ApprovalKey
  <1> QED BY <1>2, <1>3

-----------------------------------------------------------------------------
(* What makes the consent inductive: the runtime's memory holds what the   *)
(* user allowed to it, the session's approvals what was allowed under      *)
(* their grants; a call that was not refused fits the mode, was denied by  *)
(* no hook, and is shown as it would run.                                  *)
CallInv ==
  /\ call.args = call.shown
  /\ step \in {"awaiting", "ran"} =>
       /\ call.hooks \in HookRuns /\ call.allowed
       /\ RunVerdict(call.hooks) # "deny"
       /\ call.shown \in Keys

Recorded == memory = yesHere /\ approvals \subseteq yes

GateInv == GateTypeOK /\ CallInv /\ Recorded /\ RunsWithConsent

LEMMA InitGate == GateInit => GateInv
  BY GateAssumption
  DEF GateInit, NoCall, GateInv, GateTypeOK, CallInv, Recorded, RunsWithConsent

LEMMA ProposeKeeps ==
  ASSUME GateInv, NEW k \in Keys, NEW hs \in HookRuns, ProposeCall(k, hs)
  PROVE  GateInv'
  <1> DEFINE key == ApprovalKey(k, hs)
             ask == RunVerdict(hs) = "ask"
  <1>1. PICK needs \in BOOLEAN, fits \in BOOLEAN :
        /\ call' = [hooks |-> hs, shown |-> key, args |-> key, wanted |-> ask \/ needs,
                    allowed |-> fits, reply |-> None]
        /\ step' = IF key = Invalid \/ RunVerdict(hs) = "deny" \/ ~fits THEN "refused"
                   ELSE IF (ask \/ needs) /\ ~Approved(key) THEN "awaiting"
                   ELSE "ran"
        /\ UNCHANGED <<approvals, memory, grant, runtimes, yesHere, yes>>
    BY DEF ProposeCall, ApprovalKey
  <1>2. key \in Keys \cup {Invalid}
    BY ArgumentsTyped
  <1> HIDE DEF key, ask
  <1>3. GateTypeOK' /\ Recorded'
    BY <1>1 DEF GateInv, GateTypeOK, Recorded
  <1>4. CallInv'
    BY <1>1, <1>2 DEF CallInv
  <1>5. RunsWithConsent'
    <2> SUFFICES ASSUME step' = "ran", call'.wanted
                 PROVE  key \in yesHere \/ (grant # NoGrant /\ [key |-> key, grant |-> grant] \in yes)
      BY <1>1 DEF RunsWithConsent
    <2>1. Approved(key)
      BY <1>1
    <2> QED BY <2>1 DEF Approved, SessionApproval, GateInv, Recorded
  <1> QED BY <1>3, <1>4, <1>5 DEF GateInv

LEMMA ReplyKeeps ==
  ASSUME GateInv, NEW r \in {"allow_once", "allow_session", "deny"}, Reply(r)
  PROVE  GateInv'
  <1> USE DEF GateInv
  <1>1. /\ call' = [call EXCEPT !.reply = r]
        /\ step' = IF r = "deny" THEN "refused" ELSE "ran"
        /\ UNCHANGED <<grant, runtimes>>
        /\ step = "awaiting"
        /\ r # "allow_session" => UNCHANGED <<memory, yesHere, yes, approvals>>
    BY DEF Reply
  <1>2. call.shown \in Keys
    BY <1>1 DEF CallInv
  <1>3. GateTypeOK' /\ Recorded'
    <2>1. CASE r = "allow_session"
      <3>1. /\ memory' = memory \cup {call.shown} /\ yesHere' = yesHere \cup {call.shown}
            /\ yes' = yes \cup {[key |-> call.shown, grant |-> grant]}
            /\ approvals' \subseteq approvals \cup {[key |-> call.shown, grant |-> grant]}
            /\ grant = NoGrant => approvals' = approvals
        BY <2>1 DEF Reply
      <3> QED BY <1>1, <1>2, <3>1 DEF GateTypeOK, Recorded
    <2>2. CASE r # "allow_session"
      BY <1>1, <2>2 DEF GateTypeOK, Recorded
    <2> QED BY <2>1, <2>2
  <1>4. CallInv' /\ RunsWithConsent'
    BY <1>1 DEF CallInv, RunsWithConsent
  <1> QED BY <1>3, <1>4

LEMMA GateKept == GateInv /\ [GateNext]_gateVars => GateInv'
  <1> SUFFICES ASSUME GateInv, [GateNext]_gateVars PROVE GateInv'
    OBVIOUS
  <1>1. CASE NoReply
    BY <1>1 DEF NoReply, GateInv, GateTypeOK, CallInv, Recorded, RunsWithConsent
  <1>2. ASSUME NEW given \in Grants \cup {NoGrant}, NextRuntime(given) PROVE GateInv'
    <2>1. runtimes' \in 0..MaxRuntimes
      BY <1>2, GateAssumption DEF NextRuntime, GateInv, GateTypeOK
    <2>2. GateTypeOK' /\ Recorded'
      BY <1>2, <2>1 DEF NextRuntime, GateInv, GateTypeOK, Recorded
    <2>3. CallInv' /\ RunsWithConsent'
      BY <1>2 DEF NextRuntime, NoCall, CallInv, RunsWithConsent
    <2> QED BY <2>2, <2>3 DEF GateInv
  <1>3. CASE UNCHANGED gateVars
    BY <1>3 DEF gateVars, GateInv, GateTypeOK, CallInv, Recorded, RunsWithConsent
  <1> QED BY <1>1, <1>2, <1>3, ProposeKeeps, ReplyKeeps DEF GateNext

LEMMA GateInvariance == GateSpec => []GateInv
  BY InitGate, GateKept, PTL DEF GateSpec

-----------------------------------------------------------------------------
(* The gate's state keeps its types: what is approved is a key, also when  *)
(* hooks have replaced the arguments.                                      *)
THEOREM GateTypes == GateSpec => []GateTypeOK
  BY GateInvariance, PTL DEF GateInv

(* Nothing that asks for the user's consent runs without it.               *)
THEOREM ConsentIsGiven == GateSpec => []RunsWithConsent
  BY GateInvariance, PTL DEF GateInv

(* What the user allowed is what runs.                                     *)
THEOREM ShownIsRun == GateSpec => []AllowedIsRun
  <1>1. GateInv => AllowedIsRun
    BY DEF GateInv, CallInv, AllowedIsRun
  <1> QED BY <1>1, GateInvariance, PTL

(* Nothing runs against a hook's denial, however many hooks there are and  *)
(* in whatever way they deny.                                              *)
THEOREM DenialsHold == GateSpec => []DenialHolds
  <1>1. GateInv => DenialHolds
    <2> SUFFICES ASSUME GateInv, step = "ran", NEW n \in Consulted(call.hooks)
                 PROVE  /\ call.allowed
                        /\ LET h == call.hooks[n] IN
                             /\ h.kind = "exit" /\ h.exit # 2
                             /\ h.exit = 3 \/ (h.perm # "deny" /\ (h.block => h.perm = "ask"))
      <3>1. GateInv /\ step = "ran" => call.allowed
        BY DEF GateInv, CallInv
      <3> QED BY <3>1 DEF DenialHolds
    <2>1. call.allowed /\ call.hooks \in Seq(HookRun) /\ RunVerdict(call.hooks) # "deny"
      BY GateAssumption DEF GateInv, CallInv
    <2>2. call.hooks[n] \in HookRun
      BY <2>1 DEF Consulted
    <2>3. HookVerdict(HookAnswer(call.hooks[n])) # "deny"
      BY <2>1, FirstDecides
    <2> QED BY <2>1, <2>2, <2>3, HookIsTaken
  <1> QED BY <1>1, GateInvariance, PTL

-----------------------------------------------------------------------------
(* A question that may allow has a reason to.                              *)
LEMMA ReasonToAllow ==
  ASSUME NEW q \in Question, Authorize(q) = "allow"
  PROVE  /\ ~q.deniedTool /\ ~q.denyRule /\ q.override # "deny"
         /\ q.askRule \/ q.override = "ask" => q.prompter = "yes"
         /\ ~Covers(q.mode, q.required) =>
              q.prompter = "yes" \/ (q.allowRule /\ q.override = "none")
  <1> USE DEF Question
  <1>1. PromptOrDeny(q) = "allow" => q.prompter = "yes"
    BY DEF PromptOrDeny
  <1>2. ByMode(q) = "allow" => q.prompter = "yes" \/ Covers(q.mode, q.required)
    <2>1. CASE q.mode = "allow"
      BY <2>1 DEF Covers, Rank, Required
    <2>2. CASE q.mode # "allow"
      BY <1>1, <2>2 DEF ByMode
    <2> QED BY <2>1, <2>2
  <1>3. ~q.deniedTool /\ ~q.denyRule /\ q.override # "deny"
    BY DEF Authorize
  <1>4. CASE q.override = "ask" \/ q.askRule
    <2>1. Authorize(q) = PromptOrDeny(q)
      BY <1>3, <1>4 DEF Authorize
    <2> QED BY <1>1, <1>3, <2>1
  <1>5. CASE ~(q.override = "ask" \/ q.askRule)
    <2>1. Authorize(q) = IF q.override = "allow"
                           THEN IF Covers(q.mode, q.required) THEN "allow" ELSE PromptOrDeny(q)
                         ELSE IF q.allowRule THEN "allow" ELSE ByMode(q)
      BY <1>3, <1>5 DEF Authorize
    <2>2. q.override = "allow" \/ q.override = "none"
      BY <1>3, <1>5
    <2> QED BY <1>1, <1>2, <1>3, <1>5, <2>1, <2>2
  <1> QED BY <1>4, <1>5

(* The modes and how they are ordered.                                     *)
LEMMA ModesOrdered ==
  /\ \A m \in Modes : Rank(m) \in Nat
  /\ \A m \in Modes \ {"prompt"}, r \in Modes \ {"prompt"} :
       /\ r = "allow" /\ Covers(m, r) => m = "allow"
       /\ m = "allow" => Covers(m, r)
       /\ r = "danger-full-access" /\ Covers(m, r) => m \in {r, "allow"}
       /\ r = "workspace-write" /\ Covers(m, r) => m \in {r, "danger-full-access", "allow"}
  /\ ~Covers("workspace-write", "danger-full-access")
  <1>1. /\ Rank("read-only") = 0 /\ Rank("workspace-write") = 1
        /\ Rank("danger-full-access") = 2 /\ Rank("prompt") = 99 /\ Rank("allow") = 99
    BY DEF Rank
  <1> QED BY <1>1 DEF Covers, Modes, Required

(* What covers a mode that covers a tool, covers the tool.                 *)
LEMMA CoversOn ==
  ASSUME NEW m \in Modes, NEW l \in Modes, NEW r \in Modes, Covers(m, l), Covers(l, r)
  PROVE  Covers(m, r)
  <1>1. Rank(m) \in Nat /\ Rank(l) \in Nat /\ Rank(r) \in Nat
    BY ModesOrdered
  <1> QED BY <1>1 DEF Covers

(* The mode's word is kept by a wider mode.                                *)
LEMMA WiderByMode ==
  ASSUME NEW q \in Question, NEW m \in Modes \ {"prompt"},
         q.mode # "prompt", Covers(m, q.mode), ByMode(q) = "allow"
  PROVE  ByMode([q EXCEPT !.mode = m]) = "allow"
  <1> DEFINE w == [q EXCEPT !.mode = m]
  <1>1. /\ w.mode = m /\ w.required = q.required /\ PromptOrDeny(w) = PromptOrDeny(q)
        /\ q.mode \in Modes \ {"prompt"} /\ q.required \in Required
        /\ Required \subseteq Modes
    BY DEF Question, PromptOrDeny, Modes
  <1> SUFFICES ByMode(w) = "allow"
    OBVIOUS
  <1> HIDE DEF w
  <1>2. CASE m = "allow"
    BY <1>1, <1>2 DEF ByMode
  <1>3. CASE m # "allow"
    <2>1. m \in Required /\ q.mode \in Required
      BY <1>1, <1>3, ModesOrdered DEF Modes
    <2>2. CASE Covers(q.mode, q.required)
      <3>1. Covers(m, q.required)
        BY <1>1, <2>2, CoversOn
      <3> QED BY <1>1, <1>3, <2>1, <3>1, ModesOrdered DEF ByMode
    <2>3. CASE ~Covers(q.mode, q.required)
      <3>1. q.mode = "workspace-write" /\ q.required = "danger-full-access" /\ PromptOrDeny(q) = "allow"
        BY <1>1, <2>1, <2>3, ModesOrdered DEF ByMode, Required
      <3>2. m = "workspace-write" \/ m = "danger-full-access"
        BY <1>1, <1>3, <3>1, ModesOrdered
      <3>3. CASE Covers(m, q.required)
        BY <1>1, <1>3, <2>1, <3>3, ModesOrdered DEF ByMode
      <3>4. CASE ~Covers(m, q.required)
        <4>1. m = "workspace-write"
          <5>1. Covers("danger-full-access", "danger-full-access")
            BY DEF Covers, Rank
          <5> QED BY <3>1, <3>2, <3>4, <5>1
        <4> QED BY <1>1, <3>1, <3>4, <4>1 DEF ByMode
      <3> QED BY <3>3, <3>4
    <2> QED BY <2>2, <2>3
  <1> QED BY <1>2, <1>3

(* A wider mode allows what a narrower one allows.                         *)
LEMMA WiderAuthorizes ==
  ASSUME NEW q \in Question, NEW m \in Modes \ {"prompt"},
         q.mode # "prompt", Covers(m, q.mode), Authorize(q) = "allow"
  PROVE  Authorize([q EXCEPT !.mode = m]) = "allow"
  <1> DEFINE w == [q EXCEPT !.mode = m]
             Against(p) == p.deniedTool \/ p.denyRule \/ p.override = "deny"
             Asked(p) == p.override = "ask" \/ p.askRule
  <1>1. /\ w.mode = m /\ w.required = q.required /\ PromptOrDeny(w) = PromptOrDeny(q)
        /\ w.deniedTool = q.deniedTool /\ w.denyRule = q.denyRule /\ w.override = q.override
        /\ w.askRule = q.askRule /\ w.allowRule = q.allowRule
        /\ q.mode \in Modes /\ q.required \in Modes
    BY DEF Question, PromptOrDeny, Modes
  <1>2. ByMode(q) = "allow" => ByMode(w) = "allow"
    BY WiderByMode
  <1>3. Covers(q.mode, q.required) => Covers(m, q.required)
    BY <1>1, CoversOn
  <1> SUFFICES Authorize(w) = "allow"
    OBVIOUS
  <1> HIDE DEF w
  <1>4. ~Against(q)
    BY DEF Authorize
  <1>5. CASE Asked(q)
    <2>1. Authorize(q) = PromptOrDeny(q)
      BY <1>4, <1>5 DEF Authorize
    <2>2. Authorize(w) = PromptOrDeny(w)
      BY <1>1, <1>4, <1>5 DEF Authorize
    <2> QED BY <1>1, <2>1, <2>2
  <1>6. CASE ~Asked(q)
    <2>1. Authorize(q) = IF q.override = "allow"
                           THEN IF Covers(q.mode, q.required) THEN "allow" ELSE PromptOrDeny(q)
                         ELSE IF q.allowRule THEN "allow" ELSE ByMode(q)
      BY <1>4, <1>6 DEF Authorize
    <2>2. Authorize(w) = IF q.override = "allow"
                           THEN IF Covers(m, q.required) THEN "allow" ELSE PromptOrDeny(q)
                         ELSE IF q.allowRule THEN "allow" ELSE ByMode(w)
      BY <1>1, <1>4, <1>6 DEF Authorize
    <2> QED BY <1>2, <1>3, <2>1, <2>2
  <1> QED BY <1>5, <1>6

(* What the enforcer lets through without a hook's word or a prompter, the *)
(* policy allows with them.                                                *)
LEMMA EnforcedIsAuthorized ==
  ASSUME NEW q \in Question, q.mode # "prompt", Enforce(q),
         q.override = "none" \/ (q.override = "allow" /\ ~q.allowRule)
  PROVE  Authorize(q) = "allow"
  <1> DEFINE n == [q EXCEPT !.override = "none", !.prompter = "none"]
  <1>1. /\ n.mode = q.mode /\ n.required = q.required /\ PromptOrDeny(n) = "deny"
        /\ n.deniedTool = q.deniedTool /\ n.denyRule = q.denyRule /\ n.override = "none"
        /\ n.askRule = q.askRule /\ n.allowRule = q.allowRule
    BY DEF Question, PromptOrDeny
  <1>2. Authorize(n) = "allow"
    BY DEF Enforce
  <1> HIDE DEF n
  <1>3. ~q.deniedTool /\ ~q.denyRule /\ ~q.askRule
    BY <1>1, <1>2 DEF Authorize
  <1>4. q.allowRule \/ ByMode(n) = "allow"
    BY <1>1, <1>2, <1>3 DEF Authorize
  <1>5. ByMode(n) = "allow" => ByMode(q) = "allow" /\ Covers(q.mode, q.required)
    <2>1. CASE q.mode = "allow"
      <3>1. Covers("allow", q.required)
        BY ModesOrdered DEF Question, Modes, Required
      <3> QED BY <2>1, <3>1 DEF ByMode
    <2>2. CASE q.mode # "allow"
      BY <1>1, <2>2 DEF ByMode
    <2> QED BY <2>1, <2>2
  <1> QED BY <1>3, <1>4, <1>5 DEF Authorize

-----------------------------------------------------------------------------
PolicyInv ==
  asked # AnyMode =>
    asked \in Question /\ verdict = Authorize(asked) /\ check = Enforce(asked)

LEMMA PolicyKept == PolicyInv /\ [PolicyNext]_policyVars => PolicyInv'
  BY DEF PolicyInv, PolicyNext, Ask, policyVars

LEMMA PolicyInvariance == PolicySpec => []PolicyInv
  <1>1. PolicyInit => PolicyInv
    BY DEF PolicyInit, PolicyInv
  <1> QED BY <1>1, PolicyKept, PTL DEF PolicySpec

(* A wider mode lets through what the enforcer's checks let through.       *)
LEMMA WiderEnforces ==
  ASSUME NEW q \in Question, NEW m \in Modes \ {"prompt"}, q.mode # "prompt", Covers(m, q.mode),
         Enforce(q)
  PROVE  Enforce([q EXCEPT !.mode = m])
  <1> DEFINE n == [q EXCEPT !.override = "none", !.prompter = "none"]
             w == [q EXCEPT !.mode = m]
  <1>1. /\ n \in Question /\ n.mode = q.mode
        /\ [w EXCEPT !.override = "none", !.prompter = "none"] = [n EXCEPT !.mode = m]
    BY DEF Question
  <1>2. Authorize(n) = "allow"
    BY DEF Enforce
  <1> SUFFICES Enforce(w)
    OBVIOUS
  <1> HIDE DEF n, w
  <1>3. Authorize([n EXCEPT !.mode = m]) = "allow"
    BY <1>1, <1>2, WiderAuthorizes
  <1> QED BY <1>1, <1>3 DEF Enforce

LEMMA WiderChecks ==
  ASSUME NEW m \in Modes \ {"prompt"}, NEW l \in Modes \ {"prompt"}, Covers(m, l),
         NEW ok \in BOOLEAN
  PROVE  /\ MayWriteFile(l, ok) => MayWriteFile(m, ok)
         /\ MayRunBash(l, ok) => MayRunBash(m, ok)
  <1>1. l = "read-only" \/ l = "workspace-write" \/ l = "danger-full-access" \/ l = "allow"
    BY DEF Modes, Required
  <1>2. m = "read-only" => l = "read-only"
    <2>1. /\ ~Covers("read-only", "workspace-write") /\ ~Covers("read-only", "allow")
          /\ ~Covers("read-only", "danger-full-access")
      BY DEF Covers, Rank
    <2> QED BY <1>1, <2>1
  <1> QED BY <1>1, <1>2, ModesOrdered DEF MayWriteFile, MayRunBash

(* The policy allows for a reason, no less than its gate, and more in a    *)
(* wider mode, whatever it is asked.                                       *)
LEMMA PolicyAnswers == PolicyInv => AllowedForReason /\ GateIsNoWider /\ WiderModesAllowMore
  <1> SUFFICES ASSUME PolicyInv, asked # AnyMode
               PROVE  AllowedForReason /\ GateIsNoWider /\ WiderModesAllowMore
    BY DEF AllowedForReason, GateIsNoWider, WiderModesAllowMore
  <1>1. asked \in Question /\ verdict = Authorize(asked) /\ check = Enforce(asked)
    BY DEF PolicyInv
  <1>2. AllowedForReason
    BY <1>1, ReasonToAllow DEF AllowedForReason
  <1>3. GateIsNoWider
    BY <1>1, EnforcedIsAuthorized DEF GateIsNoWider
  <1>4. WiderModesAllowMore
    <2> DEFINE Policy(m) == verdict = "allow" => Authorize([asked EXCEPT !.mode = m]) = "allow"
               Gate(m) == check => Enforce([asked EXCEPT !.mode = m])
               Checks(m) == \A ok \in BOOLEAN :
                              /\ MayWriteFile(asked.mode, ok) => MayWriteFile(m, ok)
                              /\ MayRunBash(asked.mode, ok) => MayRunBash(m, ok)
    <2>1. ASSUME NEW m \in Modes \ {"prompt"}, asked.mode # "prompt", Covers(m, asked.mode)
          PROVE  Policy(m) /\ Gate(m) /\ Checks(m)
      <3>1. Policy(m)
        BY <1>1, <2>1, WiderAuthorizes
      <3>2. check => Enforce(asked)
        BY <1>1
      <3>3. Gate(m)
        BY <1>1, <2>1, <3>2, WiderEnforces
      <3>4. Checks(m)
        <4>1. asked.mode \in Modes \ {"prompt"}
          BY <1>1, <2>1 DEF Question
        <4> QED BY <2>1, <4>1, WiderChecks
      <3> HIDE DEF Policy, Gate, Checks
      <3> QED BY <3>1, <3>3, <3>4
    <2> QED BY <2>1 DEF WiderModesAllowMore
  <1> QED BY <1>2, <1>3, <1>4

-----------------------------------------------------------------------------
(***************************************************************************)
(* The stream of a provider: what is shown is what the response holds,     *)
(* over any broken connections.                                            *)
(***************************************************************************)

(* The pieces of one kind, in their order.                                 *)
KindIn(k, s) == Kept(s, {n \in DOMAIN s : s[n].kind = k})

LEMMA KindOneMore ==
  ASSUME NEW k, NEW s \in Seq(Pieces), NEW e \in Pieces
  PROVE  /\ KindIn(k, s) \in Seq(Pieces)
         /\ KindIn(k, Append(s, e)) = IF e.kind = k THEN Append(KindIn(k, s), e) ELSE KindIn(k, s)
  <1> DEFINE t == Append(s, e)
             K == {n \in DOMAIN t : t[n].kind = k}
             L == {n \in DOMAIN s : s[n].kind = k}
  <1>1. /\ Len(s) \in Nat /\ DOMAIN s = 1..Len(s) /\ DOMAIN t = 1..(Len(s) + 1)
        /\ t[Len(s) + 1] = e /\ \A n \in 1..Len(s) : t[n] = s[n]
    OBVIOUS
  <1>2. K \cap (1..Len(s)) = L \cap (1..Len(s)) /\ (Len(s) + 1 \in K <=> e.kind = k)
    <2> HIDE DEF t
    <2> QED BY <1>1
  <1>3. KindIn(k, s) = Kept(s, L) /\ KindIn(k, t) = Kept(t, K)
    BY DEF KindIn
  <1> HIDE DEF K, L
  <1>4. Kept(t, K) = IF Len(s) + 1 \in K THEN Append(Kept(s, L), e) ELSE Kept(s, L)
    BY <1>2, KeptOneMore
  <1>5. Kept(s, L) \in Seq(Pieces)
    <2>1. s \in Seq(Pieces)
      OBVIOUS
    <2> QED BY <2>1, KeptElements
  <1> QED BY <1>2, <1>3, <1>4, <1>5

LinesOf(s) == [n \in DOMAIN s |-> s[n].line]
PiecesOf(s) == [n \in DOMAIN s |-> s[n].piece]
Showings == [attempt : 1..2, piece : Pieces]

LEMMA AppendedIs ==
  ASSUME NEW S, NEW q \in Seq(S), NEW r \in Seq(S), NEW z \in S,
         Len(r) = Len(q) + 1, r[Len(q) + 1] = z, \A n \in 1..Len(q) : r[n] = q[n]
  PROVE  r = Append(q, z)
  <1>1. /\ Append(q, z) \in Seq(S) /\ Len(Append(q, z)) = Len(q) + 1 /\ Len(q) \in Nat
        /\ Append(q, z)[Len(q) + 1] = z /\ \A n \in 1..Len(q) : Append(q, z)[n] = q[n]
    BY AppendProperties, LenProperties
  <1>2. \A n \in 1..Len(r) : r[n] = Append(q, z)[n]
    BY <1>1
  <1> QED BY <1>1, <1>2, SeqEqual

LEMMA LinesOneMore ==
  ASSUME NEW s \in Seq(Pieces), NEW e \in Pieces
  PROVE  LinesOf(s) \in Seq(Nat) /\ LinesOf(Append(s, e)) = Append(LinesOf(s), e.line)
  <1>1. \A p \in Pieces : p.line \in Nat
    BY DEF Pieces
  <1> DEFINE t == Append(s, e)
             x == LinesOf(s)
             y == LinesOf(t)
  <1>2. /\ Len(s) \in Nat /\ DOMAIN s = 1..Len(s) /\ DOMAIN t = 1..(Len(s) + 1)
        /\ t[Len(s) + 1] = e /\ \A n \in 1..Len(s) : t[n] = s[n] /\ s[n] \in Pieces
    OBVIOUS
  <1> HIDE DEF t
  <1>3. x \in Seq(Nat) /\ Len(x) = Len(s) /\ \A n \in 1..Len(s) : x[n] = s[n].line
    BY <1>1, <1>2 DEF LinesOf
  <1>4. y \in [1..(Len(s) + 1) -> Nat] /\ \A n \in 1..(Len(s) + 1) : y[n] = t[n].line
    BY <1>1, <1>2 DEF LinesOf
  <1>5. y \in Seq(Nat) /\ Len(y) = Len(s) + 1
    BY <1>2, <1>4
  <1> HIDE DEF x, y
  <1>6. e.line \in Nat /\ y[Len(s) + 1] = e.line /\ \A n \in 1..Len(x) : y[n] = x[n]
    BY <1>1, <1>2, <1>3, <1>4
  <1>7. y = Append(x, e.line)
    BY <1>3, <1>5, <1>6, AppendedIs
  <1> QED BY <1>3, <1>7 DEF x, y, t

LEMMA PiecesOneMore ==
  ASSUME NEW s \in Seq(Showings), NEW e \in Showings
  PROVE  PiecesOf(s) \in Seq(Pieces) /\ PiecesOf(Append(s, e)) = Append(PiecesOf(s), e.piece)
  <1>1. \A p \in Showings : p.piece \in Pieces
    BY DEF Showings
  <1> DEFINE t == Append(s, e)
             x == PiecesOf(s)
             y == PiecesOf(t)
  <1>2. /\ Len(s) \in Nat /\ DOMAIN s = 1..Len(s) /\ DOMAIN t = 1..(Len(s) + 1)
        /\ t[Len(s) + 1] = e /\ \A n \in 1..Len(s) : t[n] = s[n] /\ s[n] \in Showings
    OBVIOUS
  <1> HIDE DEF t
  <1>3. x \in Seq(Pieces) /\ Len(x) = Len(s) /\ \A n \in 1..Len(s) : x[n] = s[n].piece
    BY <1>1, <1>2 DEF PiecesOf
  <1>4. y \in [1..(Len(s) + 1) -> Pieces] /\ \A n \in 1..(Len(s) + 1) : y[n] = t[n].piece
    BY <1>1, <1>2 DEF PiecesOf
  <1>5. y \in Seq(Pieces) /\ Len(y) = Len(s) + 1
    BY <1>2, <1>4
  <1> HIDE DEF x, y
  <1>6. e.piece \in Pieces /\ y[Len(s) + 1] = e.piece /\ \A n \in 1..Len(x) : y[n] = x[n]
    BY <1>1, <1>2, <1>3, <1>4
  <1>7. y = Append(x, e.piece)
    BY <1>3, <1>5, <1>6, AppendedIs
  <1> QED BY <1>3, <1>7 DEF x, y, t

(* The texts collected are the texts shown, on the one connection that has *)
(* shown any; the calls streamed to the turn are Ollama's whole ones.      *)
StreamInv ==
  /\ StreamTypeOK /\ ShownOnce
  /\ KindIn("text", blocks) = KindIn("text", PiecesOf(shown))
  /\ provider = "none" => wire = "idle" /\ blocks = <<>>
  /\ wire = "idle" => shown = <<>> /\ toolBlocks = <<>>
  /\ provider = "openai" /\ outcome # "response" => toolBlocks = <<>>
  /\ provider = "ollama" => toolBlocks = LinesOf(KindIn("call", blocks))
  /\ wire # "over" => outcome = ""
  /\ outcome = "response" => finished /\ toolBlocks = CallBlocks

LEMMA CallsOf ==
  /\ provider # "openai" => CallBlocks = LinesOf(KindIn("call", blocks))
  /\ CallBlocks \in Seq(Nat) \/ provider # "openai"
  <1>1. provider # "openai" => CallBlocks = LinesOf(KindIn("call", blocks))
    BY DEF CallBlocks, LinesOf, KindIn
  <1>2. provider = "openai" => CallBlocks \in Seq(Nat)
    <2> DEFINE indexes == [n \in 1..(MaxIndex + 1) |-> n - 1]
               K == {n \in DOMAIN indexes : indexes[n] \in NamedCalls}
    <2>1. indexes \in Seq(Nat)
      BY StreamAssumption
    <2>2. provider = "openai" => CallBlocks = Kept(indexes, K)
      BY DEF CallBlocks
    <2> HIDE DEF indexes, K
    <2>3. Kept(indexes, K) \in Seq(Nat)
      BY <2>1, KeptElements
    <2> QED BY <2>2, <2>3
  <1> QED BY <1>1, <1>2

(* The turn takes all the calls of the response, or none of them again.    *)
LEMMA MergedOnce ==
  ASSUME NEW ids \in Seq(Nat), toolBlocks = <<>> \/ toolBlocks = ids
  PROVE  Merged(ids) = ids
  <1> DEFINE K == {n \in DOMAIN ids : ids[n] \notin ToSet(toolBlocks)}
  <1>0. DOMAIN ids = 1..Len(ids)
    OBVIOUS
  <1>1. CASE toolBlocks = <<>>
    <2>1. ToSet(toolBlocks) = {}
      BY <1>1 DEF ToSet
    <2>2. 1..Len(ids) \subseteq K
      BY <1>0, <2>1
    <2> HIDE DEF K
    <2>3. Kept(ids, K) = ids
      BY <2>2, KeptOfAll
    <2>4. Merged(ids) = <<>> \o Kept(ids, K)
      BY <1>1 DEF Merged, K
    <2> QED BY <2>3, <2>4
  <1>2. CASE toolBlocks = ids
    <2>1. K \cap (1..Len(ids)) = {}
      BY <1>0, <1>2 DEF ToSet
    <2> HIDE DEF K
    <2>2. Kept(ids, K) = <<>>
      BY <2>1, KeptOfNone
    <2>3. Merged(ids) = ids \o Kept(ids, K)
      BY <1>2 DEF Merged, K
    <2> QED BY <2>2, <2>3
  <1> QED BY <1>1, <1>2

LEMMA NothingIn == KindIn("text", <<>>) = <<>> /\ KindIn("call", <<>>) = <<>>
                   /\ PiecesOf(<<>>) = <<>> /\ LinesOf(<<>>) = <<>>
  <1>1. <<>> \in Seq(Pieces) /\ Len(<<>>) = 0
    OBVIOUS
  <1>2. \A K : Kept(<<>>, K) = <<>>
    <2> TAKE K
    <2>1. K \cap (1..0) = {}
      OBVIOUS
    <2> QED BY <1>1, <2>1, KeptOfNone
  <1> QED BY <1>2 DEF KindIn, PiecesOf, LinesOf

LEMMA NoPlaces == DOMAIN <<>> = {}
  OBVIOUS

LEMMA NothingShown == shown = <<>> => ShownOnce
  BY NoPlaces DEF ShownOnce

LEMMA LineCounts ==
  ASSUME StreamTypeOK, lines < MaxLines
  PROVE  lines + 1 \in 1..MaxLines /\ lines + 1 \in 0..MaxLines /\ lines + 1 \in Nat
  <1>1. lines \in 0..MaxLines /\ MaxLines \in Nat
    BY StreamAssumption DEF StreamTypeOK
  <1> QED BY <1>1

LEMMA InitStream == StreamInit => StreamInv
  <1> SUFFICES ASSUME StreamInit PROVE StreamInv
    OBVIOUS
  <1>0. /\ <<>> \in Seq(Pieces) /\ <<>> \in Seq(Showings) /\ <<>> \in Seq(Nat)
        /\ <<>> \in Seq(Fragments)
    OBVIOUS
  <1>1. StreamTypeOK
    <2>1. calls \in [CallIndexes -> Seq(Fragments)]
      BY <1>0 DEF StreamInit
    <2>2. 0 \in 0..MaxLines
      BY StreamAssumption
    <2>3. shown \in Seq([attempt : 1..2, piece : Pieces])
      BY <1>0 DEF StreamInit, Showings
    <2>4. /\ blocks \in Seq(Pieces) /\ toolBlocks \in Seq(Nat) /\ lines \in 0..MaxLines
          /\ provider = "none" /\ attempt \in 1..2 /\ wire = "idle" /\ finished \in BOOLEAN
          /\ outcome = ""
      <3>1. blocks \in Seq(Pieces) /\ toolBlocks \in Seq(Nat)
        BY <1>0 DEF StreamInit
      <3>2. 1 \in 1..2 /\ FALSE \in BOOLEAN
        OBVIOUS
      <3>3. /\ lines = 0 /\ attempt = 1 /\ finished = FALSE /\ provider = "none" /\ wire = "idle"
            /\ outcome = ""
        BY DEF StreamInit
      <3> QED BY <2>2, <3>1, <3>2, <3>3
    <2> QED BY <2>1, <2>3, <2>4 DEF StreamTypeOK
  <1>2. ShownOnce
    BY NothingShown DEF StreamInit
  <1> QED BY <1>1, <1>2, NothingIn DEF StreamInit, StreamInv

(* A step that touches neither what was shown nor what was collected.      *)
LEMMA WireKeeps ==
  ASSUME StreamInv, StreamTypeOK',
         UNCHANGED <<provider, blocks, calls, shown, toolBlocks>>,
         provider = "none" => wire' = "idle",
         attempt' = attempt \/ shown = <<>>,
         wire' = "idle" => shown = <<>> /\ toolBlocks = <<>>,
         wire' # "over" => outcome' = "",
         outcome # "response", outcome' # "response"
  PROVE  StreamInv'
  <1>1. ShownOnce'
    <2>1. CASE attempt' = attempt
      BY <2>1 DEF StreamInv, ShownOnce
    <2>2. CASE shown = <<>>
      <3>1. shown' = <<>>
        BY <2>2
      <3> QED BY <3>1, NoPlaces DEF ShownOnce
    <2> QED BY <2>1, <2>2
  <1> QED BY <1>1 DEF StreamInv

LEMMA ConnectKeeps == ASSUME StreamInv, Connect PROVE StreamInv'
  <1>1. /\ provider # "none" /\ wire = "idle" /\ wire' = "open" /\ lines' = 0 /\ blocks' = <<>>
        /\ finished' = FALSE /\ calls' = [i \in CallIndexes |-> <<>>]
        /\ UNCHANGED <<provider, attempt, shown, toolBlocks, outcome>>
    BY DEF Connect, Fresh
  <1>2. shown = <<>> /\ toolBlocks = <<>> /\ outcome = ""
    BY <1>1 DEF StreamInv
  <1>3. /\ <<>> \in Seq(Pieces) /\ <<>> \in Seq(Fragments)
    OBVIOUS
  <1>4. StreamTypeOK'
    <2>1. calls' \in [CallIndexes -> Seq(Fragments)]
      BY <1>1, <1>3
    <2>2. lines' \in 0..MaxLines
      BY <1>1, StreamAssumption
    <2>3. StreamTypeOK
      BY DEF StreamInv
    <2> QED BY <1>1, <1>3, <2>1, <2>2, <2>3 DEF StreamTypeOK
  <1>5. ShownOnce'
    <2>1. shown' = <<>>
      BY <1>1, <1>2
    <2> QED BY <2>1, NoPlaces DEF ShownOnce
  <1> QED BY <1>1, <1>2, <1>4, <1>5, NothingIn DEF StreamInv

LEMMA PieceKeeps ==
  ASSUME StreamInv, NEW kind \in {"text", "thinking", "usage", "call"},
         kind = "call" => provider = "ollama", Piece(kind)
  PROVE  StreamInv'
  <1> DEFINE e == [kind |-> kind, line |-> lines + 1]
             x == [attempt |-> attempt, piece |-> e]
  <1>1. /\ wire = "open" /\ lines < MaxLines /\ lines' = lines + 1
        /\ shown' = Append(shown, x)
        /\ blocks' = IF kind \in Collected THEN Append(blocks, e) ELSE blocks
        /\ toolBlocks' = IF kind = "call" THEN Append(toolBlocks, lines + 1) ELSE toolBlocks
        /\ UNCHANGED <<provider, attempt, wire, calls, finished, outcome>>
    BY DEF Piece, Line, Show
  <1>2. /\ lines + 1 \in 1..MaxLines /\ lines + 1 \in 0..MaxLines /\ lines + 1 \in Nat
        /\ blocks \in Seq(Pieces) /\ shown \in Seq(Showings) /\ toolBlocks \in Seq(Nat)
        /\ attempt \in 1..2
    BY <1>1, LineCounts DEF StreamInv, StreamTypeOK, Showings
  <1>3. e \in Pieces /\ x \in Showings /\ e.kind = kind /\ e.line = lines + 1
        /\ x.piece = e /\ x.attempt = attempt
    BY <1>2 DEF Pieces, Showings
  <1>4. provider # "none" /\ outcome = ""
    BY <1>1 DEF StreamInv
  <1> HIDE DEF e, x
  <1>5. /\ shown' \in Seq(Showings) /\ blocks' \in Seq(Pieces) /\ toolBlocks' \in Seq(Nat)
    BY <1>1, <1>2, <1>3
  <1>6. StreamTypeOK'
    BY <1>1, <1>2, <1>5 DEF StreamInv, StreamTypeOK, Showings
  <1>7. ShownOnce'
    <2>1. \A n \in DOMAIN shown' : (n \in DOMAIN shown /\ shown'[n] = shown[n]) \/ shown'[n] = x
      <3>1. /\ Len(shown) \in Nat /\ DOMAIN shown = 1..Len(shown)
            /\ DOMAIN shown' = 1..(Len(shown) + 1) /\ shown'[Len(shown) + 1] = x
            /\ \A n \in 1..Len(shown) : shown'[n] = shown[n]
        BY <1>1, <1>2, <1>3
      <3> QED BY <3>1
    <2> QED BY <1>1, <1>3, <2>1 DEF StreamInv, ShownOnce
  <1>8. KindIn("text", blocks') = KindIn("text", PiecesOf(shown'))
    <2>1. PiecesOf(shown) \in Seq(Pieces) /\ PiecesOf(shown') = Append(PiecesOf(shown), e)
      BY <1>1, <1>2, <1>3, PiecesOneMore
    <2>2. KindIn("text", PiecesOf(shown'))
            = IF kind = "text" THEN Append(KindIn("text", PiecesOf(shown)), e)
                               ELSE KindIn("text", PiecesOf(shown))
      BY <1>3, <2>1, KindOneMore
    <2>3. KindIn("text", blocks')
            = IF kind = "text" THEN Append(KindIn("text", blocks), e) ELSE KindIn("text", blocks)
      <3>1. KindIn("text", Append(blocks, e))
              = IF kind = "text" THEN Append(KindIn("text", blocks), e) ELSE KindIn("text", blocks)
        BY <1>2, <1>3, KindOneMore
      <3>2. kind = "text" => kind \in Collected
        BY DEF Collected
      <3> QED BY <1>1, <3>1, <3>2
    <2>4. KindIn("text", blocks) = KindIn("text", PiecesOf(shown))
      BY DEF StreamInv
    <2> QED BY <2>2, <2>3, <2>4
  <1>9. provider = "ollama" => toolBlocks' = LinesOf(KindIn("call", blocks'))
    <2> SUFFICES ASSUME provider = "ollama" PROVE toolBlocks' = LinesOf(KindIn("call", blocks'))
      OBVIOUS
    <2>1. toolBlocks = LinesOf(KindIn("call", blocks))
      BY DEF StreamInv
    <2>2. /\ KindIn("call", blocks) \in Seq(Pieces)
          /\ KindIn("call", Append(blocks, e))
               = IF kind = "call" THEN Append(KindIn("call", blocks), e) ELSE KindIn("call", blocks)
      BY <1>2, <1>3, KindOneMore
    <2>3. CASE kind = "call"
      <3>1. blocks' = Append(blocks, e)
        BY <1>1, <2>3 DEF Collected
      <3>2. LinesOf(Append(KindIn("call", blocks), e)) = Append(toolBlocks, lines + 1)
        BY <1>3, <2>1, <2>2, LinesOneMore
      <3> QED BY <1>1, <2>2, <2>3, <3>1, <3>2
    <2>4. CASE kind # "call"
      BY <1>1, <2>1, <2>2, <2>4
    <2> QED BY <2>3, <2>4
  <1>10. provider = "openai" => toolBlocks' = toolBlocks
    BY <1>1
  <1> QED BY <1>1, <1>4, <1>6, <1>7, <1>8, <1>9, <1>10 DEF StreamInv

LEMMA RespondKeeps ==
  ASSUME StreamInv, wire = "open", Respond, finished',
         UNCHANGED <<provider, attempt, lines, blocks, calls, shown>>, finished' \in BOOLEAN
  PROVE  StreamInv'
  <1>1. wire' = "over" /\ outcome' = "response" /\ toolBlocks' = Merged(CallBlocks)
    BY DEF Respond, EndWith
  <1>2. /\ provider \in {"openai", "ollama"} /\ outcome = "" /\ StreamTypeOK
        /\ IF provider = "openai" THEN toolBlocks = <<>>
           ELSE toolBlocks = LinesOf(KindIn("call", blocks))
    BY DEF StreamInv, StreamTypeOK
  <1>3. CallBlocks \in Seq(Nat) /\ (toolBlocks = <<>> \/ toolBlocks = CallBlocks)
    BY <1>2, CallsOf DEF StreamTypeOK
  <1>4. toolBlocks' = CallBlocks
    BY <1>1, <1>3, MergedOnce
  <1>5. CallBlocks' = CallBlocks
    BY DEF CallBlocks, NamedCalls
  <1>6. StreamTypeOK'
    BY <1>1, <1>2, <1>3, <1>4 DEF StreamTypeOK
  <1>7. ShownOnce'
    BY DEF StreamInv, ShownOnce
  <1>8. provider = "ollama" => toolBlocks' = LinesOf(KindIn("call", blocks'))
    BY <1>4, CallsOf
  <1> QED BY <1>1, <1>2, <1>4, <1>5, <1>6, <1>7, <1>8 DEF StreamInv

LEMMA FragmentKeeps ==
  ASSUME StreamInv, NEW i \in CallIndexes, NEW piece \in {"name", "args"}, Fragment(i, piece)
  PROVE  StreamInv'
  <1>1. /\ wire = "open" /\ lines < MaxLines /\ lines' = lines + 1 /\ provider = "openai"
        /\ calls' = [calls EXCEPT ![i] = Append(@, [part |-> piece, line |-> lines + 1])]
        /\ UNCHANGED <<provider, attempt, wire, blocks, finished, shown, toolBlocks, outcome>>
    BY DEF Fragment, Line
  <1>2. lines + 1 \in 1..MaxLines /\ lines + 1 \in 0..MaxLines
    BY <1>1, LineCounts DEF StreamInv
  <1>3. [part |-> piece, line |-> lines + 1] \in Fragments
    BY <1>2 DEF Fragments
  <1>4. calls' \in [CallIndexes -> Seq(Fragments)]
    <2>1. calls \in [CallIndexes -> Seq(Fragments)]
      BY DEF StreamInv, StreamTypeOK
    <2>2. Append(calls[i], [part |-> piece, line |-> lines + 1]) \in Seq(Fragments)
      BY <1>3, <2>1
    <2> QED BY <1>1, <2>1, <2>2
  <1>5. StreamTypeOK'
    BY <1>1, <1>2, <1>4 DEF StreamInv, StreamTypeOK
  <1>6. ShownOnce'
    BY <1>1 DEF StreamInv, ShownOnce
  <1> QED BY <1>1, <1>5, <1>6 DEF StreamInv

LEMMA StreamKept == StreamInv /\ [StreamNext]_streamVars => StreamInv'
  <1> SUFFICES ASSUME StreamInv, [StreamNext]_streamVars PROVE StreamInv'
    OBVIOUS
  <1>1. ASSUME UNCHANGED streamVars PROVE StreamInv'
    <2>1. CallBlocks' = CallBlocks /\ StreamTypeOK' /\ ShownOnce'
      BY <1>1 DEF CallBlocks, NamedCalls, StreamInv, StreamTypeOK, ShownOnce, streamVars
    <2> QED BY <1>1, <2>1 DEF StreamInv, streamVars
  <1>2. ASSUME NEW p \in {"openai", "ollama"}, AskModel(p) PROVE StreamInv'
    <2>1. /\ provider = "none" /\ provider' = p /\ blocks = <<>> /\ toolBlocks = <<>>
          /\ UNCHANGED <<attempt, wire, lines, blocks, calls, finished, shown, toolBlocks, outcome>>
          /\ wire = "idle" /\ outcome = ""
      BY <1>2 DEF AskModel, Connection, StreamInv
    <2>2. StreamTypeOK' /\ ShownOnce'
      BY <2>1 DEF StreamInv, StreamTypeOK, ShownOnce
    <2> QED BY <2>1, <2>2, NothingIn DEF StreamInv
  <1>3. ASSUME TransportFails PROVE StreamInv'
    <2>1. /\ provider # "none" /\ wire # "over"
          /\ UNCHANGED <<provider, lines, blocks, calls, finished, shown, toolBlocks>>
      BY <1>3 DEF TransportFails, Connection
    <2>2. outcome = ""
      BY <2>1 DEF StreamInv
    <2>3. \/ /\ shown = <<>> /\ provider = "openai" /\ wire' = "idle" /\ outcome' = ""
             /\ attempt' = 2
          \/ /\ attempt' = attempt /\ wire' = "over"
             /\ outcome' \in {"api error", "transport error"}
      BY <1>3, <2>2 DEF TransportFails, EndWith, MayFallBack
    <2>4. StreamTypeOK'
      <3>1. /\ attempt' \in 1..2 /\ wire' \in {"idle", "open", "over"}
            /\ outcome' \in {"", "response", "api error", "transport error"}
        <4>1. attempt \in 1..2
          BY DEF StreamInv, StreamTypeOK
        <4>2. 2 \in 1..2
          OBVIOUS
        <4>3. attempt' \in 1..2
          BY <2>3, <4>1, <4>2
        <4>4. wire' \in {"idle", "open", "over"}
          BY <2>3
        <4>5. outcome' \in {"", "response", "api error", "transport error"}
          BY <2>3
        <4> QED BY <4>3, <4>4, <4>5
      <3> QED BY <2>1, <3>1 DEF StreamInv, StreamTypeOK
    <2> QED BY <2>1, <2>2, <2>3, <2>4, WireKeeps DEF StreamInv
  <1>4. ASSUME Rejected PROVE StreamInv'
    <2>1. /\ wire = "open" /\ wire' = "over" /\ outcome' = "api error"
          /\ UNCHANGED <<provider, attempt, lines, blocks, calls, finished, shown, toolBlocks>>
      BY <1>4 DEF Rejected, EndWith, Connection
    <2>2. StreamTypeOK' /\ outcome = "" /\ provider # "none"
      BY <2>1 DEF StreamInv, StreamTypeOK
    <2> QED BY <2>1, <2>2, WireKeeps
  <1>5. ASSUME FinishReason PROVE StreamInv'
    <2>1. /\ wire = "open" /\ lines < MaxLines /\ lines' = lines + 1 /\ finished' = TRUE
          /\ UNCHANGED <<provider, attempt, wire, blocks, calls, shown, toolBlocks, outcome>>
      BY <1>5 DEF FinishReason, Line
    <2>2. StreamTypeOK' /\ outcome = "" /\ provider # "none"
      <3>1. lines' \in 0..MaxLines /\ StreamTypeOK
        BY <2>1, LineCounts DEF StreamInv
      <3>2. StreamTypeOK'
        BY <2>1, <3>1 DEF StreamTypeOK
      <3> QED BY <2>1, <3>2 DEF StreamInv
    <2> QED BY <2>1, <2>2, WireKeeps
  <1>6. ASSUME Done PROVE StreamInv'
    <2>1. /\ wire = "open" /\ finished' = TRUE /\ Respond
          /\ UNCHANGED <<provider, attempt, lines, blocks, calls, shown>>
      BY <1>6 DEF Done
    <2> QED BY <2>1, RespondKeeps
  <1>7. ASSUME Hangup PROVE StreamInv'
    <2>1. /\ wire = "open" /\ WireEnds
          /\ UNCHANGED <<provider, attempt, lines, blocks, calls, finished, shown>>
      BY <1>7 DEF Hangup, Connection
    <2>2. CASE finished
      <3>1. Respond /\ finished' /\ finished' \in BOOLEAN
        BY <2>1, <2>2 DEF WireEnds, StreamInv, StreamTypeOK
      <3> QED BY <2>1, <3>1, RespondKeeps
    <2>3. CASE ~finished
      <3>1. wire' = "over" /\ outcome' = "api error" /\ UNCHANGED toolBlocks
        BY <2>1, <2>3 DEF WireEnds, EndWith
      <3>2. StreamTypeOK' /\ outcome = "" /\ provider # "none"
        BY <2>1, <3>1 DEF StreamInv, StreamTypeOK
      <3> QED BY <2>1, <3>1, <3>2, WireKeeps
    <2> QED BY <2>2, <2>3
  <1> QED BY <1>1, <1>2, <1>3, <1>4, <1>5, <1>6, <1>7, ConnectKeeps, PieceKeeps, FragmentKeeps
          DEF StreamNext

(* Over any broken connections, the texts shown of a stream are the texts  *)
(* its response holds, and they are shown once (openai_provider.py,        *)
(* ollama_provider.py).                                                    *)
THEOREM StreamInvariance == StreamSpec => []StreamInv
  BY InitStream, StreamKept, PTL DEF StreamSpec

LEMMA Faithful == StreamInv => StreamIsFaithful
  <1>1. KindIn("text", blocks) = TextOf(blocks) /\ PiecesOf(shown) = [n \in DOMAIN shown |-> shown[n].piece]
    BY DEF KindIn, TextOf, PiecesOf
  <1>2. KindIn("text", PiecesOf(shown)) = TextOf(PiecesOf(shown))
    BY DEF KindIn, TextOf
  <1> QED BY <1>1, <1>2 DEF StreamInv, StreamIsFaithful, ResponseIsWhole, CallsOnce

-----------------------------------------------------------------------------
(***************************************************************************)
(* The pipes of an MCP server: which message is where.                     *)
(***************************************************************************)

(* During the handshake no caller is there and the pipes hold at most one  *)
(* message, the request the start-up waits for or its answer.              *)
OneMessage ==
  LET own == <<Startup, request[Startup]>>
  IN  \/ stdin = <<>> /\ stdout = <<>>
      \/ stdin = <<own>> /\ stdout = <<>>
      \/ stdin = <<>> /\ stdout = <<own>>

(* No call is made before the handshake is over, and the handshake has at  *)
(* most one message under way.                                             *)
Handshake ==
  /\ lifecycle \in {"not_started", "initializing"} => \A c \in Callers : task[c] = "idle"
  /\ lifecycle = "not_started" =>
       /\ child = "none" /\ stdin = <<>> /\ stdout = <<>>
       /\ task[Startup] = "idle" /\ request[Startup] = 0
  /\ lifecycle = "initializing" =>
       /\ request[Startup] \in {1, 2} /\ task[Startup] # "idle" /\ OneMessage
  /\ lifecycle \notin {"not_started", "initializing"} => task[Startup] = "idle"

McpInv == McpTypeOK /\ Handshake /\ StartedRight

LEMMA InitMcp == McpInit => McpInv
  BY McpAssumption
  DEF McpInit, McpInv, McpTypeOK, Handshake, StartedRight, OneMessage, Tasks, Requests

(* The first message of a pipe is a request, and so are the others.        *)
LEMMA PipeRead ==
  ASSUME NEW s \in Seq(Requests), s # <<>>
  PROVE  Head(s) \in Requests /\ Tail(s) \in Seq(Requests)
  OBVIOUS

LEMMA WriteTypes ==
  ASSUME McpTypeOK, NEW t \in Tasks, request[t] < MaxCalls + 2, Write(t)
  PROVE  /\ task' \in [Tasks -> {"idle", "written", "reading"}]
         /\ request' \in [Tasks -> 0..(MaxCalls + 2)]
         /\ stdin' \in Seq(Requests)
  <1>1. MaxCalls \in Nat
    BY McpAssumption
  <1>2. request[t] + 1 \in 1..(MaxCalls + 2)
    BY <1>1 DEF McpTypeOK
  <1>3. <<t, request[t] + 1>> \in Requests
    BY <1>2 DEF Requests
  <1> QED BY <1>1, <1>2, <1>3 DEF McpTypeOK, Write

LEMMA McpKept == McpInv /\ [McpNext]_mcpVars => McpInv'
  <1> SUFFICES ASSUME McpInv, [McpNext]_mcpVars PROVE McpInv'
    OBVIOUS
  <1>0. Startup \in Tasks /\ Callers \subseteq Tasks /\ Startup \notin Callers /\ MaxCalls \in Nat
    BY McpAssumption DEF Tasks
  <1>e. <<>> \in Seq(Requests)
    OBVIOUS
  <1>1. ASSUME UNCHANGED mcpVars PROVE McpInv'
    BY <1>1 DEF McpInv, mcpVars, McpTypeOK, Handshake, StartedRight, OneMessage
  <1>2. ASSUME Start PROVE McpInv'
    <2>1. CASE child' = "up"
      <3>1. <<Startup, 1>> \in Requests
        BY <1>0 DEF Requests
      <3>2. /\ lifecycle = "not_started" /\ lifecycle' = "initializing"
            /\ stdin' = <<<<Startup, 1>>>> /\ stdout' = stdout /\ tools' = tools
            /\ request' = [request EXCEPT ![Startup] = 1]
            /\ task' = [task EXCEPT ![Startup] = "written"]
        BY <1>2, <2>1 DEF Start, McpInv, Handshake
      <3>3. request'[Startup] = 1 /\ task'[Startup] = "written" /\ \A c \in Callers : task'[c] = task[c]
        BY <1>0, <3>2 DEF McpInv, McpTypeOK
      <3>4. McpTypeOK'
        <4>1. <<<<Startup, 1>>>> \in Seq(Requests)
          BY <3>1
        <4> HIDE DEF Requests
        <4> QED BY <1>0, <2>1, <3>2, <4>1 DEF McpInv, McpTypeOK
      <3> QED BY <2>1, <3>2, <3>3, <3>4 DEF McpInv, Handshake, StartedRight, OneMessage
    <2>2. CASE lifecycle' = "failed"
      BY <1>2, <2>2 DEF Start, McpInv, McpTypeOK, Handshake, StartedRight, OneMessage
    <2> QED BY <1>2, <2>1, <2>2 DEF Start
  <1>3. ASSUME Initialized PROVE McpInv'
    <2>1. lifecycle = "initializing" /\ stdin = <<>> /\ stdout = <<<<Startup, 1>>>> /\ request[Startup] = 1
      BY <1>3 DEF Initialized, Takes, McpInv, Handshake, OneMessage, McpTypeOK
    <2>2. stdout' = <<>> /\ (stdin' = <<>> \/ stdin' = <<<<Startup, 2>>>>)
      BY <1>3, <2>1 DEF Initialized, Write
    <2>3. request'[Startup] = 2 /\ task'[Startup] = "written" /\ \A c \in Callers : task'[c] = task[c]
      BY <1>0, <1>3, <2>1 DEF Initialized, Write, McpInv, McpTypeOK
    <2>4. McpTypeOK'
      <3>1. Write(Startup) /\ UNCHANGED <<lifecycle, child, tools>>
        BY <1>3 DEF Initialized
      <3>2. stdout' \in Seq(Requests)
        BY <2>2
      <3>3. McpTypeOK /\ request[Startup] < MaxCalls + 2
        BY <1>0, <2>1 DEF McpInv
      <3> QED BY <1>0, <3>1, <3>2, <3>3, WriteTypes DEF McpTypeOK
    <2> QED BY <1>3, <2>1, <2>2, <2>3, <2>4 DEF Initialized, McpInv, Handshake, StartedRight, OneMessage
  <1>4. ASSUME ToolsListed PROVE McpInv'
    <2>1. lifecycle = "initializing" /\ stdin = <<>> /\ stdout = <<<<Startup, 2>>>>
      BY <1>4 DEF ToolsListed, Takes, McpInv, Handshake, OneMessage, McpTypeOK
    <2>2. stdout' = <<>> /\ tools' = <<Startup, 2>>
      BY <1>4, <2>1 DEF ToolsListed
    <2>3. <<Startup, 2>> \in Requests
      BY <1>0 DEF Requests
    <2>4. task'[Startup] = "idle"
      BY <1>0, <1>4 DEF ToolsListed, Return, McpInv, McpTypeOK
    <2>5. McpTypeOK'
      BY <1>e, <1>4, <2>2, <2>3 DEF ToolsListed, Return, McpInv, McpTypeOK
    <2> QED BY <1>4, <2>2, <2>4, <2>5 DEF ToolsListed, McpInv, Handshake, StartedRight
  <1>5. ASSUME StartFails PROVE McpInv'
    <2>1. task[Startup] # "idle" /\ lifecycle = "initializing"
      BY <1>5 DEF StartFails, NoAnswer, Refused, Closed, TimesOut, Takes, McpInv, Handshake, McpTypeOK
    <2>2. task'[Startup] = "idle"
      BY <1>0, <1>5 DEF StartFails, Return, McpInv, McpTypeOK
    <2>3. McpTypeOK'
      BY <1>e, <1>5 DEF StartFails, Return, Dispose, McpInv, McpTypeOK
    <2> QED BY <1>5, <2>2, <2>3 DEF StartFails, Dispose, McpInv, Handshake, StartedRight
  <1>6. ASSUME Shutdown PROVE McpInv'
    <2>1. McpTypeOK'
      BY <1>e, <1>6 DEF Shutdown, Dispose, McpInv, McpTypeOK
    <2> QED BY <1>6, <2>1 DEF Shutdown, McpInv, Handshake, StartedRight
  <1>7. ASSUME NEW t \in Tasks, Waits(t) PROVE McpInv'
    <2>1. McpTypeOK'
      BY <1>7 DEF Waits, McpInv, McpTypeOK
    <2>2. \A u \in Tasks : task'[u] = "idle" <=> task[u] = "idle"
      BY <1>7 DEF Waits, McpInv, McpTypeOK
    <2> QED BY <1>0, <1>7, <2>1, <2>2 DEF Waits, McpInv, Handshake, StartedRight, OneMessage
  <1>8. ASSUME NEW c \in Callers, Call(c) PROVE McpInv'
    <2>1. lifecycle = "ready" /\ Write(c) /\ UNCHANGED <<lifecycle, child, stdout, tools>>
          /\ request[c] < MaxCalls /\ c \in Tasks /\ c # Startup
      BY <1>0, <1>8 DEF Call
    <2>2. McpTypeOK'
      <3>1. McpTypeOK /\ request[c] < MaxCalls + 2
        BY <1>0, <2>1 DEF McpInv, McpTypeOK
      <3> QED BY <1>0, <2>1, <3>1, WriteTypes DEF McpTypeOK
    <2>3. task'[Startup] = task[Startup]
      BY <1>0, <2>1 DEF Write, McpInv, McpTypeOK
    <2> QED BY <2>1, <2>2, <2>3 DEF McpInv, Handshake, StartedRight
  <1>9. ASSUME NEW c \in Callers, Answered(c) \/ CallFails(c) PROVE McpInv'
    <2>1. task[c] # "idle" /\ c \in Tasks /\ c # Startup
      BY <1>0, <1>9 DEF Answered, Takes, CallFails, NoAnswer, Refused, Closed, TimesOut
    <2>2. lifecycle \notin {"not_started", "initializing"}
      BY <2>1 DEF McpInv, Handshake
    <2>3. Return(c) /\ UNCHANGED <<lifecycle, child, stdin, request, tools>> /\ stdout' \in Seq(Requests)
      BY <1>9, PipeRead DEF Answered, Takes, CallFails, McpInv, McpTypeOK
    <2>4. task'[Startup] = task[Startup]
      BY <1>0, <2>1, <2>3 DEF Return, McpInv, McpTypeOK
    <2>5. McpTypeOK'
      BY <2>3 DEF Return, McpInv, McpTypeOK
    <2> QED BY <2>2, <2>3, <2>4, <2>5 DEF McpInv, Handshake, StartedRight
  <1>10. ASSUME Serve PROVE McpInv'
    <2>1. stdout' \in Seq(Requests) /\ stdin' \in Seq(Requests)
      <3>1. Head(stdin) \in Requests /\ Tail(stdin) \in Seq(Requests) /\ stdout \in Seq(Requests)
        BY <1>10, PipeRead DEF Serve, McpInv, McpTypeOK
      <3> QED BY <1>10, <3>1 DEF Serve
    <2>2. McpTypeOK'
      BY <1>10, <2>1 DEF Serve, McpInv, McpTypeOK
    <2>3. lifecycle # "not_started"
      BY <1>10 DEF Serve, McpInv, Handshake
    <2>4. ASSUME lifecycle = "initializing" PROVE OneMessage'
      <3>1. stdin = <<<<Startup, request[Startup]>>>> /\ stdout = <<>>
        BY <1>10, <2>4 DEF Serve, McpInv, Handshake, OneMessage
      <3>2. stdin' = <<>> /\ stdout' = <<<<Startup, request[Startup]>>>> /\ request' = request
        BY <1>10, <3>1 DEF Serve
      <3> QED BY <3>2 DEF OneMessage
    <2> QED BY <1>10, <2>2, <2>3, <2>4 DEF Serve, McpInv, Handshake, StartedRight
  <1>11. ASSUME Die PROVE McpInv'
    <2>1. McpTypeOK'
      BY <1>11 DEF Die, McpInv, McpTypeOK
    <2>2. lifecycle # "not_started"
      BY <1>11 DEF Die, McpInv, Handshake
    <2> QED BY <1>11, <2>1, <2>2 DEF Die, McpInv, Handshake, StartedRight, OneMessage
  <1> QED
    BY <1>1, <1>2, <1>3, <1>4, <1>5, <1>6, <1>7, <1>8, <1>9, <1>10, <1>11 DEF McpNext

(* A server that is ready has gone through its handshake with the answers  *)
(* to its own requests (mcp/manager.py).                                   *)
THEOREM McpInvariance == McpSpec => []McpInv
  BY InitMcp, McpKept, PTL DEF McpSpec

-----------------------------------------------------------------------------
(***************************************************************************)
(* The compaction of a history: each stage keeps the order of what it is   *)
(* given and forgets nothing, whatever the thresholds and similarities are. *)
(***************************************************************************)

(* The messages a history and its compaction can hold. *)
AnyCall == UNION {ToSet(asks) : asks \in CallSets}

MessageSet == [role : {"speech", "tool", "system"}, text : Texts \cup {NoText, Gist},
               long : BOOLEAN, calls : Seq(AnyCall),
               stands : (SUBSET (1 .. MaxMessages)) \ {{}}]

(* Pairs of messages the first of which stands for earlier places. *)
Before == {pair \in MessageSet \X MessageSet :
             /\ pair[1].stands \cap pair[2].stands = {}
             /\ First(pair[1].stands) < First(pair[2].stands)}

StandsInOrder(s) == \A i, j \in DOMAIN s : i < j => <<s[i], s[j]>> \in Before

LEMMA CallsAreSequences ==
  ASSUME NEW asks \in CallSets
  PROVE  asks \in Seq(AnyCall) /\ asks # <<>>
<1>1. asks \in Seq(ToSet(asks)) /\ asks # <<>>
  BY CompactionAssumption
<1>2. ToSet(asks) \subseteq AnyCall
  BY DEF AnyCall
<1> HIDE DEF AnyCall
<1>3. Seq(ToSet(asks)) \subseteq Seq(AnyCall)
  BY <1>2
<1> QED
  BY <1>1, <1>3

LEMMA FirstIs ==
  ASSUME NEW S, S \subseteq Nat, S # {}
  PROVE  First(S) \in S /\ \A j \in S : First(S) <= j
<1>1. \E i \in S : \A j \in S : i <= j
  BY LeastNumber
<1> QED
  BY <1>1 DEF First

LEMMA FirstIsUnique ==
  ASSUME NEW S, S \subseteq Nat, NEW i \in S, \A j \in S : i <= j
  PROVE  First(S) = i
<1>1. First(S) \in S /\ First(S) <= i
  BY FirstIs
<1>2. First(S) \in Nat /\ i \in Nat /\ i <= First(S)
  BY <1>1
<1> QED
  BY <1>1, <1>2

LEMMA LastNumber ==
  ASSUME NEW m \in Nat, NEW S, S \subseteq 1..m, S # {}
  PROVE  \E i \in S : \A j \in S : j <= i
<1> DEFINE T == {m - i : i \in S}
<1>1. T \subseteq Nat /\ T # {}
  <2>1. \A i \in 1..m : m - i \in Nat
    OBVIOUS
  <2> QED
    BY <2>1
<1>2. PICK k \in T : \A j \in T : k <= j
  <2> HIDE DEF T
  <2> QED
    BY <1>1, LeastNumber
<1>3. PICK i \in S : k = m - i
  BY <1>2
<1>4. ASSUME NEW j \in S
      PROVE  j <= i
  <2>1. m - j \in T
    OBVIOUS
  <2>2. m - i <= m - j
    BY <1>2, <1>3, <2>1
  <2>3. i \in Int /\ j \in Int
    OBVIOUS
  <2> QED
    BY <2>2, <2>3
<1> QED
  BY <1>4

(* What a sequence stands for, by its elements. *)
LEMMA StandsByElements ==
  ASSUME NEW s
  PROVE  StandsFor(s) = UNION {m.stands : m \in ToSet(s)}
BY DEF StandsFor, ToSet

(* Two messages of a sequence in order share no place. *)
LEMMA Apart ==
  ASSUME NEW s \in Seq(MessageSet), StandsInOrder(s), NEW i \in DOMAIN s, NEW j \in DOMAIN s, i # j
  PROVE  s[i].stands \cap s[j].stands = {}
<1>1. i \in Int /\ j \in Int
  OBVIOUS
<1>2. i < j \/ j < i
  BY <1>1
<1>3. \A k, l \in DOMAIN s : k < l => s[k].stands \cap s[l].stands = {}
  BY DEF StandsInOrder, Before
<1> QED
  BY <1>2, <1>3

LEMMA StandsAreNumbers ==
  ASSUME NEW m \in MessageSet
  PROVE  m.stands \subseteq Nat /\ m.stands # {} /\ m.stands \subseteq 1 .. MaxMessages
<1>1. m.stands \in (SUBSET (1 .. MaxMessages)) \ {{}}
  BY DEF MessageSet
<1>2. MaxMessages \in Nat
  BY CompactionAssumption
<1> QED
  BY <1>1, <1>2

LEMMA SummaryIs ==
  ASSUME NEW s \in Seq(MessageSet), NEW group, group \subseteq DOMAIN s, group # {}
  PROVE  /\ Summary(s, group) \in MessageSet
         /\ Summary(s, group).stands = UNION {s[i].stands : i \in group}
<1>1. ASSUME NEW i \in group
      PROVE  s[i].stands # {} /\ s[i].stands \subseteq 1 .. MaxMessages
  <2>1. s[i] \in MessageSet
    OBVIOUS
  <2> QED
    BY <2>1, StandsAreNumbers
<1>2. UNION {s[i].stands : i \in group} \in (SUBSET (1 .. MaxMessages)) \ {{}}
  BY <1>1
<1>3. <<>> \in Seq(AnyCall)
  OBVIOUS
<1> QED
  BY <1>2, <1>3 DEF Summary, MessageSet

(* What stands at a place that is left over: the message that stood there, *)
(* or the summary of the group it is the first of.                         *)
LEMMA CondensedIsSound ==
  ASSUME NEW s \in Seq(MessageSet), StandsInOrder(s), NEW groups,
         \A G \in groups : G # {} /\ G \subseteq DOMAIN s,
         \A G, H \in groups : G # H => G \cap H = {}
  PROVE  /\ Condensed(s, groups) \in Seq(MessageSet) /\ StandsInOrder(Condensed(s, groups))
         /\ StandsFor(Condensed(s, groups)) = StandsFor(s)
<1> DEFINE of(i) == {group \in groups : i \in group}
           standing == [i \in DOMAIN s |->
                       IF of(i) = {} THEN s[i] ELSE Summary(s, CHOOSE group \in of(i) : TRUE)]
           later == {i \in DOMAIN s : \E group \in of(i) : i # First(group)}
           K == DOMAIN s \ later
           c == Condensed(s, groups)
           P(i) == IF of(i) = {} THEN {i} ELSE CHOOSE group \in of(i) : TRUE
<1>0. Len(s) \in Nat /\ DOMAIN s = 1..Len(s) /\ \A i \in DOMAIN s : s[i] \in MessageSet
  OBVIOUS
<1>1. c = Kept(standing, K)
  <2>1. DOMAIN standing = DOMAIN s
    OBVIOUS
  <2>2. c = Kept(standing, DOMAIN standing \ later)
    BY DEF Condensed, WithoutAt
  <2> QED
    BY <2>1, <2>2, Zenon
<1>2. ASSUME NEW i \in DOMAIN s
      PROVE  /\ P(i) \subseteq DOMAIN s /\ i \in P(i)
             /\ P(i) = {i} \/ P(i) \in groups
             /\ standing[i] \in MessageSet
             /\ standing[i].stands = UNION {s[k].stands : k \in P(i)}
  <2>1. CASE of(i) = {}
    <3>1. P(i) = {i} /\ standing[i] = s[i]
      BY <2>1, Zenon
    <3> HIDE DEF standing, P
    <3> QED
      BY <1>0, <3>1
  <2>2. CASE of(i) # {}
    <3> DEFINE G == CHOOSE group \in of(i) : TRUE
    <3>1. G \in of(i)
      BY <2>2
    <3>2. standing[i] = Summary(s, G) /\ P(i) = G
      BY <2>2, Zenon
    <3>3. G \in groups /\ i \in G
      BY <3>1
    <3> HIDE DEF standing, P, G, of
    <3>4. G # {} /\ G \subseteq DOMAIN s
      BY <3>3
    <3>5. /\ Summary(s, G) \in MessageSet
          /\ Summary(s, G).stands = UNION {s[k].stands : k \in G}
      BY <3>4, SummaryIs
    <3> QED
      BY <3>2, <3>3, <3>4, <3>5
  <2> QED
    BY <2>1, <2>2
<1>3. standing \in Seq(MessageSet) /\ Len(standing) = Len(s) /\ DOMAIN standing = DOMAIN s
  <2>1. DOMAIN standing = 1..Len(s)
    BY <1>0
  <2>2. \A i \in 1..Len(s) : standing[i] \in MessageSet
    BY <1>0, <1>2
  <2>3. standing = [i \in 1..Len(s) |-> standing[i]]
    BY <1>0
  <2> HIDE DEF standing
  <2>4. standing \in [1..Len(s) -> MessageSet]
    BY <2>1, <2>2, <2>3
  <2> QED
    BY <1>0, <2>1, <2>4
<1>4. ASSUME NEW i \in K, NEW k \in P(i)
      PROVE  i <= k
  <2>1. CASE of(i) = {}
    BY <2>1, <1>0
  <2>2. CASE of(i) # {}
    <3>1. P(i) \in of(i)
      BY <2>2
    <3>2. i = First(P(i))
      BY <3>1
    <3>3. P(i) \in groups
      BY <3>1
    <3> HIDE DEF P, of
    <3>4. P(i) \subseteq Nat /\ P(i) # {}
      BY <1>0, <3>3
    <3> QED
      BY <3>2, <3>4, FirstIs
  <2> QED
    BY <2>1, <2>2
<1>5. ASSUME NEW i \in K, NEW j \in K, i # j
      PROVE  P(i) \cap P(j) = {}
  <2> SUFFICES ASSUME NEW k \in P(i), k \in P(j) PROVE FALSE
    OBVIOUS
  <2>1. P(i) # P(j)
    <3>1. i \in P(j) => j <= i
      BY <1>4
    <3>2. j \in P(i) => i <= j
      BY <1>4
    <3>3. i \in Int /\ j \in Int /\ i \in P(i) /\ j \in P(j)
      BY <1>0, <1>2
    <3> HIDE DEF P
    <3> QED
      BY <1>5, <3>1, <3>2, <3>3
  <2>2. P(i) = {i} \/ P(i) \in groups
    BY <1>2
  <2>3. P(j) = {j} \/ P(j) \in groups
    BY <1>2
  <2>4. P(i) = {i} => of(i) = {} \/ {i} \in groups
    OBVIOUS
  <2>5. P(j) = {j} => of(j) = {} \/ {j} \in groups
    OBVIOUS
  <2>6. P(i) \in groups /\ P(j) \in groups => FALSE
    <3> HIDE DEF P
    <3> QED
      BY <2>1
  <2>7. ASSUME of(i) = {}
        PROVE  P(j) \notin groups
    <3>1. P(i) = {i}
      BY <2>7
    <3>2. i \in P(j)
      BY <3>1
    <3> HIDE DEF P
    <3> QED
      BY <2>7, <3>2
  <2>8. ASSUME of(j) = {}
        PROVE  P(i) \notin groups
    <3>1. P(j) = {j}
      BY <2>8
    <3>2. j \in P(i)
      BY <3>1
    <3> HIDE DEF P
    <3> QED
      BY <2>8, <3>2
  <2> HIDE DEF P, of
  <2> QED
    BY <1>5, <2>2, <2>3, <2>4, <2>5, <2>6, <2>7, <2>8
<1>6. ASSUME NEW i \in K
      PROVE  First(standing[i].stands) = First(s[i].stands)
  <2>1. s[i] \in MessageSet /\ standing[i] \in MessageSet
    BY <1>0, <1>2
  <2>2. /\ s[i].stands \subseteq Nat /\ s[i].stands # {}
        /\ standing[i].stands \subseteq Nat
    BY <2>1, StandsAreNumbers
  <2>3. First(s[i].stands) \in s[i].stands /\ \A x \in s[i].stands : First(s[i].stands) <= x
    BY <2>2, FirstIs
  <2>4. standing[i].stands = UNION {s[k].stands : k \in P(i)} /\ i \in P(i) /\ P(i) \subseteq DOMAIN s
    BY <1>2
  <2>5. ASSUME NEW x \in standing[i].stands
        PROVE  First(s[i].stands) <= x
    <3>1. PICK k \in P(i) : x \in s[k].stands
      <4> HIDE DEF P, standing
      <4> QED
        BY <2>4
    <3>2. CASE k = i
      BY <2>3, <3>1, <3>2
    <3>3. CASE k # i
      <4>1. k \in DOMAIN s /\ i < k
        <5>1. i <= k
          BY <1>4
        <5>2. k \in DOMAIN s
          BY <2>4
        <5> QED
          BY <1>0, <3>3, <5>1, <5>2
      <4>2. <<s[i], s[k]>> \in Before
        BY <4>1 DEF StandsInOrder
      <4>3. First(s[i].stands) < First(s[k].stands)
        BY <4>2 DEF Before
      <4>4. s[k].stands \subseteq Nat /\ s[k].stands # {}
        BY <1>0, <4>1, StandsAreNumbers
      <4>5. First(s[k].stands) \in s[k].stands /\ First(s[k].stands) <= x
        BY <3>1, <4>4, FirstIs
      <4>6. First(s[i].stands) \in Nat /\ First(s[k].stands) \in Nat /\ x \in Nat
        BY <2>2, <2>3, <3>1, <4>4, <4>5
      <4> QED
        BY <4>3, <4>5, <4>6
    <3> QED
      BY <3>2, <3>3
  <2>6. First(s[i].stands) \in standing[i].stands
    <3> HIDE DEF P, standing
    <3> QED
      BY <2>3, <2>4
  <2> HIDE DEF standing
  <2> QED
    BY <2>2, <2>5, <2>6, FirstIsUnique
<1>7. ASSUME NEW i \in K \cap (1..Len(standing)), NEW j \in K \cap (1..Len(standing)), i < j
      PROVE  <<standing[i], standing[j]>> \in Before
  <2>1. i \in DOMAIN s /\ j \in DOMAIN s /\ i # j /\ <<s[i], s[j]>> \in Before
    BY <1>0, <1>7 DEF StandsInOrder
  <2>2. First(standing[i].stands) < First(standing[j].stands)
    <3>1. First(s[i].stands) < First(s[j].stands)
      BY <2>1 DEF Before
    <3>2. First(standing[i].stands) = First(s[i].stands)
      BY <1>6
    <3>3. First(standing[j].stands) = First(s[j].stands)
      BY <1>6
    <3> QED
      BY <3>1, <3>2, <3>3, Zenon
  <2>3. standing[i] \in MessageSet /\ standing[j] \in MessageSet
    BY <1>2, <2>1
  <2>4. standing[i].stands \cap standing[j].stands = {}
    <3> SUFFICES ASSUME NEW x, x \in standing[i].stands, x \in standing[j].stands PROVE FALSE
      BY Zenon
    <3>1. standing[i].stands = UNION {s[k].stands : k \in P(i)}
      BY <1>2, <2>1
    <3>2. standing[j].stands = UNION {s[k].stands : k \in P(j)}
      BY <1>2, <2>1
    <3>3. P(i) \subseteq DOMAIN s /\ P(j) \subseteq DOMAIN s
      BY <1>2, <2>1
    <3>4. P(i) \cap P(j) = {}
      BY <1>5, <2>1
    <3> HIDE DEF P, standing
    <3>5. PICK k \in P(i) : x \in s[k].stands
      BY <3>1
    <3>6. PICK l \in P(j) : x \in s[l].stands
      BY <3>2
    <3>7. k # l /\ k \in DOMAIN s /\ l \in DOMAIN s
      BY <3>3, <3>4
    <3> QED
      BY <3>5, <3>6, <3>7, Apart
  <2> HIDE DEF standing
  <2> QED
    BY <2>2, <2>3, <2>4 DEF Before
<1>8. StandsFor(c) = StandsFor(s)
  <2>1. ToSet(c) = {standing[i] : i \in K \cap DOMAIN standing}
    <3> HIDE DEF standing, K, c
    <3> QED
      BY <1>1, <1>3, KeptElements
  <2>2. StandsFor(c) = UNION {standing[i].stands : i \in K}
    <3>1. K \cap DOMAIN standing = K
      BY <1>3
    <3>2. ToSet(c) = {standing[i] : i \in K}
      BY <2>1, <3>1, Zenon
    <3> HIDE DEF standing, K, c
    <3> QED
      BY <3>2, StandsByElements
  <2>3. ASSUME NEW x \in StandsFor(c)
        PROVE  x \in StandsFor(s)
    <3>1. PICK i \in K : x \in standing[i].stands
      <4> HIDE DEF standing, K, c
      <4> QED
        BY <2>2
    <3>2. i \in DOMAIN s
      OBVIOUS
    <3>3. standing[i].stands = UNION {s[k].stands : k \in P(i)} /\ P(i) \subseteq DOMAIN s
      BY <1>2, <3>2
    <3> HIDE DEF standing, K, c, P
    <3> QED
      BY <3>1, <3>3 DEF StandsFor
  <2>4. ASSUME NEW x \in StandsFor(s)
        PROVE  x \in StandsFor(c)
    <3>1. PICK i \in DOMAIN s : x \in s[i].stands
      BY DEF StandsFor
    <3>2. PICK k \in K : i \in P(k)
      <4>1. CASE of(i) = {}
        <5>1. i \in K /\ P(i) = {i}
          BY <4>1
        <5> HIDE DEF P, K
        <5> QED
          BY <5>1
      <4>2. CASE of(i) # {}
        <5>1. PICK G \in groups : i \in G
          BY <4>2
        <5> DEFINE k == First(G)
        <5>2. G \subseteq Nat /\ G # {} /\ G \subseteq DOMAIN s
          BY <1>0, <5>1
        <5>3. k \in G
          BY <5>2, FirstIs
        <5>4. of(k) = {G}
          <6> HIDE DEF k
          <6>1. G \in of(k)
            BY <5>3
          <6>2. \A H \in of(k) : H = G
            BY <5>3
          <6> HIDE DEF of
          <6> QED
            BY <6>1, <6>2
        <5>5. P(k) = G
          <6> HIDE DEF k, of
          <6> QED
            BY <5>4
        <5>6. k \in K
          <6>1. k \in DOMAIN s
            BY <5>2, <5>3
          <6>2. \A group \in of(k) : First(group) = k
            BY <5>4
          <6> HIDE DEF k, of
          <6> QED
            BY <6>1, <6>2
        <5> HIDE DEF P, K, k
        <5> QED
          BY <5>1, <5>5, <5>6
      <4> HIDE DEF P, K
      <4> QED
        BY <4>1, <4>2
    <3>3. k \in DOMAIN s
      OBVIOUS
    <3>4. standing[k].stands = UNION {s[l].stands : l \in P(k)}
      BY <1>2, <3>3
    <3> HIDE DEF standing, K, c, P
    <3> QED
      BY <2>2, <3>1, <3>2, <3>4
  <2> HIDE DEF c
  <2> QED
    BY <2>3, <2>4
<1>9. c \in Seq(MessageSet)
  <2> HIDE DEF standing, K, c
  <2> QED
    BY <1>1, <1>3, KeptElements
<1>10. StandsInOrder(c)
  <2> HIDE DEF standing, K
  <2>1. \A i, j \in K \cap (1..Len(standing)) : i < j => <<standing[i], standing[j]>> \in Before
    BY <1>7, Zenon
  <2>2. \A i, j \in DOMAIN Kept(standing, K) :
          i < j => <<Kept(standing, K)[i], Kept(standing, K)[j]>> \in Before
    BY <1>3, <2>1, KeptInOrder, Zenon
  <2> HIDE DEF c
  <2> QED
    BY <1>1, <2>2, Zenon DEF StandsInOrder
<1> QED
  BY <1>8, <1>9, <1>10

-----------------------------------------------------------------------------
(* Stage 2 and what is older than the last messages. *)
LEMMA RunsArePartition ==
  ASSUME NEW s \in Seq(MessageSet)
  PROVE  /\ \A G \in ChattyRuns(s) : G # {} /\ G \subseteq DOMAIN s
         /\ \A G, H \in ChattyRuns(s) : G # H => G \cap H = {}
<1> DEFINE chatty == {i \in DOMAIN s : Chatty(s[i])}
           runOf(i) == {j \in chatty : i..j \subseteq chatty /\ j..i \subseteq chatty}
<1>1. chatty \subseteq DOMAIN s /\ chatty \subseteq Int
  OBVIOUS
<1>2. ChattyRuns(s) = {runOf(i) : i \in chatty}
  BY DEF ChattyRuns
<1> HIDE DEF chatty
<1>3. \A i \in chatty : i \in runOf(i) /\ runOf(i) \subseteq DOMAIN s
  BY <1>1
<1>4. ASSUME NEW i \in chatty, NEW j \in chatty, NEW k \in runOf(i), k \in runOf(j), NEW l \in runOf(i)
      PROVE  l \in runOf(j)
  <2>1. /\ i \in Int /\ j \in Int /\ k \in Int /\ l \in Int /\ l \in chatty
        /\ i..k \subseteq chatty /\ k..i \subseteq chatty
        /\ j..k \subseteq chatty /\ k..j \subseteq chatty
        /\ i..l \subseteq chatty /\ l..i \subseteq chatty
    BY <1>1, <1>4
  <2>2. ASSUME NEW x \in j..l
        PROVE  x \in chatty
    <3>1. x \in j..k \/ x \in k..i \/ x \in i..l
      BY <2>1
    <3> QED
      BY <2>1, <3>1
  <2>3. ASSUME NEW x \in l..j
        PROVE  x \in chatty
    <3>1. x \in k..j \/ x \in i..k \/ x \in l..i
      BY <2>1
    <3> QED
      BY <2>1, <3>1
  <2> QED
    BY <2>1, <2>2, <2>3
<1>5. ASSUME NEW i \in chatty, NEW j \in chatty, NEW k \in runOf(i), k \in runOf(j)
      PROVE  runOf(i) = runOf(j)
  <2>1. \A l \in runOf(i) : l \in runOf(j)
    BY <1>4, <1>5
  <2>2. \A l \in runOf(j) : l \in runOf(i)
    BY <1>4, <1>5
  <2> QED
    BY <2>1, <2>2
<1> HIDE DEF runOf
<1> QED
  BY <1>2, <1>3, <1>5

(* What each stage makes of messages in order is in order, and stands for  *)
(* the same places.                                                        *)
SoundFrom(r, s) == r \in Seq(MessageSet) /\ StandsInOrder(r) /\ StandsFor(r) = StandsFor(s)

LEMMA CollapseIsSound ==
  ASSUME NEW s \in Seq(MessageSet), StandsInOrder(s)
  PROVE  SoundFrom(Collapse(s), s)
<1> DEFINE groups == {G \in ChattyRuns(s) : Cardinality(G) >= CollapseAt}
<1>1. /\ \A G \in groups : G # {} /\ G \subseteq DOMAIN s
      /\ \A G, H \in groups : G # H => G \cap H = {}
  BY RunsArePartition
<1>2. Collapse(s) = s \/ Collapse(s) = Condensed(s, groups)
  BY Zenon DEF Collapse
<1> HIDE DEF groups
<1>3. SoundFrom(Condensed(s, groups), s)
  BY <1>1, CondensedIsSound DEF SoundFrom
<1>4. SoundFrom(s, s)
  BY DEF SoundFrom
<1> QED
  BY <1>2, <1>3, <1>4, Zenon

LEMMA CompactSessionIsSound ==
  ASSUME NEW s \in Seq(MessageSet), StandsInOrder(s)
  PROVE  SoundFrom(CompactSession(s), s)
<1> DEFINE split == Len(s) - KeepLast
<1>1. KeepLast \in Nat /\ Len(s) \in Nat /\ DOMAIN s = 1..Len(s)
  BY CompactionAssumption
<1>2. \/ CompactSession(s) = s
      \/ split > 0 /\ CompactSession(s) = Condensed(s, {1..split})
  <2>1. split <= 0 \/ split > 0
    BY <1>1
  <2> HIDE DEF split
  <2> QED
    BY <2>1, Zenon DEF CompactSession, split
<1>3. ASSUME split > 0
      PROVE  SoundFrom(Condensed(s, {1..split}), s)
  <2>1. 1..split # {} /\ 1..split \subseteq DOMAIN s
    <3>1. split \in Int /\ split <= Len(s)
      BY <1>1
    <3> HIDE DEF split
    <3>2. 1 \in 1..split
      BY <1>3, <3>1
    <3>3. 1..split \subseteq 1..Len(s)
      BY <1>1, <3>1
    <3> QED
      BY <1>1, <3>2, <3>3
  <2> HIDE DEF split
  <2> DEFINE groups == {1..split}
  <2>2. /\ \A G \in groups : G # {} /\ G \subseteq DOMAIN s
        /\ \A G, H \in groups : G # H => G \cap H = {}
    BY <2>1
  <2> HIDE DEF groups
  <2>3. SoundFrom(Condensed(s, groups), s)
    BY <2>2, CondensedIsSound DEF SoundFrom
  <2> QED
    BY <2>3 DEF groups
<1>4. SoundFrom(s, s)
  BY DEF SoundFrom
<1> HIDE DEF split
<1> QED
  BY <1>2, <1>3, <1>4, Zenon

-----------------------------------------------------------------------------
(* Stage 3: clusters that share no message. *)
Grouped(s, groups) ==
  /\ \A G \in groups : G # {} /\ G \subseteq Spoken(s)
  /\ \A G, H \in groups : G # H => G \cap H = {}

LEMMA GatheredIsGrouped ==
  ASSUME NEW s, NEW clusters, Grouped(s, clusters), NEW i
  PROVE  Grouped(s, Gathered(s, clusters, i))
<1> DEFINE free == Spoken(s) \ UNION clusters
           members == {j \in free : j = i \/ (j > i /\ Alike(s, i, j))}
<1>1. \/ Gathered(s, clusters, i) = clusters
      \/ i \in free /\ Gathered(s, clusters, i) = clusters \cup {members}
  BY DEF Gathered
<1>2. ASSUME i \in free
      PROVE  Grouped(s, clusters \cup {members})
  <2>1. i \in members /\ members \subseteq Spoken(s)
    BY <1>2
  <2>2. \A G \in clusters : G \cap members = {}
    OBVIOUS
  <2> HIDE DEF members, free
  <2> QED
    BY <2>1, <2>2 DEF Grouped
<1> HIDE DEF members, free
<1> QED
  BY <1>1, <1>2

(* gs gathers one place after the other, up to m. *)
GatheredBy(gs, s, m) ==
  gs = [n \in 0..m |-> IF n = 0 THEN {} ELSE Gathered(s, gs[n - 1], n)]

LEMMA GatheredExists ==
  ASSUME NEW s, NEW m \in Nat
  PROVE  \E gs : GatheredBy(gs, s, m)
<1> DEFINE Bad == {k \in 0..m : ~ \E gs : GatheredBy(gs, s, k)}
<1>1. 0 \notin Bad
  <2>1. GatheredBy([n \in 0..0 |-> {}], s, 0)
    BY DEF GatheredBy
  <2> QED
    BY <2>1
<1>2. ASSUME NEW k \in 1..m, k - 1 \notin Bad
      PROVE  k \notin Bad
  <2>1. k - 1 \in 0..m
    OBVIOUS
  <2>2. PICK gs : GatheredBy(gs, s, k - 1)
    BY <1>2, <2>1
  <2> DEFINE h == [n \in 0..k |-> IF n < k THEN gs[n] ELSE Gathered(s, gs[k - 1], k)]
  <2>3. ASSUME NEW n \in 0..k
        PROVE  h[n] = IF n = 0 THEN {} ELSE Gathered(s, h[n - 1], n)
    <3>1. CASE n < k
      <4>1. n \in 0..(k - 1) /\ (n # 0 => n - 1 \in 0..k /\ n - 1 < k)
        BY <3>1
      <4>2. h[n] = gs[n] /\ (n # 0 => h[n - 1] = gs[n - 1])
        BY <3>1, <4>1
      <4>3. gs[n] = IF n = 0 THEN {} ELSE Gathered(s, gs[n - 1], n)
        BY <2>2, <4>1, Zenon DEF GatheredBy
      <4> QED
        BY <4>2, <4>3
    <3>2. CASE n = k
      <4>1. k # 0 /\ k - 1 \in 0..k /\ k - 1 < k /\ ~(k < k)
        OBVIOUS
      <4> QED
        BY <3>2, <4>1
    <3> QED
      BY <3>1, <3>2
  <2>4. GatheredBy(h, s, k)
    BY <2>3 DEF GatheredBy
  <2> HIDE DEF h
  <2> QED
    BY <2>4
<1>3. Bad = {}
  <2>1. Bad \subseteq 0..m
    OBVIOUS
  <2> HIDE DEF Bad
  <2> QED
    BY <1>1, <1>2, <2>1, NoneFails
<1> QED
  BY <1>3

LEMMA ClustersAreGrouped ==
  ASSUME NEW s \in Seq(MessageSet)
  PROVE  Grouped(s, Clusters(s))
<1> DEFINE m == Len(s)
<1>0. m \in Nat
  OBVIOUS
<1>1. PICK gs : /\ GatheredBy(gs, s, m)
               /\ Clusters(s) = IF Cardinality(Spoken(s)) < ClusterMin THEN {} ELSE gs[m]
  <2>1. \E gs : GatheredBy(gs, s, m)
    BY <1>0, GatheredExists
  <2> QED
    BY <2>1 DEF Clusters, GatheredBy
<1>2. \A n \in 0..m : gs[n] = IF n = 0 THEN {} ELSE Gathered(s, gs[n - 1], n)
  BY <1>1, Zenon DEF GatheredBy
<1> HIDE DEF m
<1> DEFINE Bad == {n \in 0..m : ~Grouped(s, gs[n])}
<1>3. Grouped(s, {})
  BY DEF Grouped
<1>4. 0 \notin Bad
  <2>1. gs[0] = {}
    BY <1>0, <1>2
  <2> QED
    BY <1>3, <2>1
<1>5. ASSUME NEW n \in 1..m, n - 1 \notin Bad
      PROVE  n \notin Bad
  <2>1. n \in 0..m /\ n - 1 \in 0..m /\ n # 0
    BY <1>0
  <2>2. Grouped(s, gs[n - 1])
    BY <1>5, <2>1
  <2>3. gs[n] = Gathered(s, gs[n - 1], n)
    BY <1>2, <2>1
  <2>4. Grouped(s, Gathered(s, gs[n - 1], n))
    BY <2>2, GatheredIsGrouped
  <2> QED
    BY <2>3, <2>4
<1>6. Bad = {}
  <2>1. Bad \subseteq 0..m
    OBVIOUS
  <2> HIDE DEF Bad
  <2> QED
    BY <1>0, <1>4, <1>5, <2>1, NoneFails
<1>7. Grouped(s, gs[m])
  BY <1>0, <1>6
<1> QED
  BY <1>1, <1>3, <1>7

LEMMA ClusterIsSound ==
  ASSUME NEW s \in Seq(MessageSet), StandsInOrder(s)
  PROVE  SoundFrom(Cluster(s), s)
<1> DEFINE groups == Clusters(s)
<1>1. Grouped(s, groups)
  BY ClustersAreGrouped
<1>2. Spoken(s) \subseteq DOMAIN s
  BY DEF Spoken
<1> HIDE DEF groups
<1>3. SoundFrom(Condensed(s, groups), s)
  BY <1>1, <1>2, CondensedIsSound DEF Grouped, SoundFrom
<1> QED
  BY <1>3 DEF Cluster, groups

-----------------------------------------------------------------------------
(* Stage 1: a history, and what of it is obsolete. *)

(* A result of the call that stands before it, at most as many after the   *)
(* message as it makes calls.                                              *)
Answers(h, i) ==
  \E k \in DOMAIN h : /\ k < i /\ h[k].role = "speech" /\ i - k <= Len(h[k].calls)

IsHistory(h) ==
  /\ h \in Seq(MessageSet) /\ Len(h) <= MaxMessages
  /\ \A i \in DOMAIN h : /\ h[i].stands = {i}
                         /\ h[i].role = "tool" => Answers(h, i)

LEMMA HistoryInOrder ==
  ASSUME NEW h, IsHistory(h)
  PROVE  StandsInOrder(h) /\ StandsFor(h) = DOMAIN h
<1>1. /\ h \in Seq(MessageSet) /\ DOMAIN h \subseteq Nat /\ \A i \in DOMAIN h : h[i] \in MessageSet
      /\ \A i \in DOMAIN h : h[i].stands = {i}
  BY DEF IsHistory
<1>2. ASSUME NEW i \in DOMAIN h
      PROVE  First(h[i].stands) = i
  BY <1>1, FirstIsUnique
<1>3. ASSUME NEW i \in DOMAIN h, NEW j \in DOMAIN h, i < j
      PROVE  <<h[i], h[j]>> \in Before
  <2>1. i \in Nat /\ j \in Nat /\ i # j
    BY <1>1, <1>3
  <2>2. h[i].stands \cap h[j].stands = {}
    BY <1>1, <2>1
  <2>3. First(h[i].stands) < First(h[j].stands)
    BY <1>2, <1>3
  <2> QED
    BY <1>1, <2>2, <2>3 DEF Before
<1>4. StandsFor(h) = DOMAIN h
  <2>1. \A x \in StandsFor(h) : x \in DOMAIN h
    BY <1>1 DEF StandsFor
  <2>2. \A i \in DOMAIN h : i \in h[i].stands
    BY <1>1
  <2>3. \A i \in DOMAIN h : i \in StandsFor(h)
    BY <2>2 DEF StandsFor
  <2> QED
    BY <2>1, <2>3
<1>5. StandsInOrder(h)
  BY <1>3 DEF StandsInOrder
<1> QED
  BY <1>4, <1>5

LEMMA SupersedeKeeps ==
  ASSUME NEW h, IsHistory(h)
  PROVE  /\ Supersede(h) \in Seq(MessageSet) /\ StandsInOrder(Supersede(h))
         /\ ToSet(Supersede(h)) = {h[i] : i \in DOMAIN h \ Obsolete(h)}
         /\ StandsFor(Supersede(h)) = DOMAIN h \ Obsolete(h)
<1> DEFINE K == DOMAIN h \ Obsolete(h)
           c == Supersede(h)
<1>1. h \in Seq(MessageSet) /\ StandsInOrder(h) /\ DOMAIN h = 1..Len(h)
      /\ \A i \in DOMAIN h : h[i].stands = {i}
  BY HistoryInOrder DEF IsHistory
<1>2. c = Kept(h, K)
  BY DEF Supersede, WithoutAt
<1>3. K \cap DOMAIN h = K /\ K \subseteq DOMAIN h
  OBVIOUS
<1> HIDE DEF K, c
<1>4. c \in Seq(MessageSet) /\ ToSet(c) = {h[i] : i \in K}
  <2>1. h \in Seq(MessageSet)
    BY <1>1
  <2>2. c \in Seq(MessageSet) /\ ToSet(c) = {h[i] : i \in K \cap DOMAIN h}
    BY <1>2, <2>1, KeptElements
  <2> QED
    BY <1>3, <2>2
<1>5. StandsInOrder(c)
  <2>1. \A i, j \in K \cap (1..Len(h)) : i < j => <<h[i], h[j]>> \in Before
    BY <1>1 DEF StandsInOrder
  <2>2. \A i, j \in DOMAIN Kept(h, K) : i < j => <<Kept(h, K)[i], Kept(h, K)[j]>> \in Before
    BY <1>1, <2>1, KeptInOrder, Zenon
  <2> QED
    BY <1>2, <2>2, Zenon DEF StandsInOrder
<1>6. StandsFor(c) = K
  <2>1. StandsFor(c) = UNION {m.stands : m \in ToSet(c)}
    BY StandsByElements
  <2>2. \A i \in K : h[i].stands = {i}
    BY <1>1, <1>3
  <2> QED
    BY <1>4, <2>1, <2>2
<1> QED
  BY <1>4, <1>5, <1>6 DEF K, c

(* As long as no message makes two calls and no result reads like an       *)
(* operation.                                                              *)
Single(h) == \A i \in DOMAIN h : /\ Len(h[i].calls) <= 1
                                 /\ h[i].role = "tool" => h[i].calls = <<>>

LEMMA TouchesOne ==
  ASSUME NEW h, IsHistory(h), Single(h), NEW i \in DOMAIN h, NEW path, NEW ops,
         Touches(h[i], path, ops)
  PROVE  /\ h[i].calls # <<>> /\ h[i].calls[1].path = path
         /\ h[i].calls[1].op \in ops /\ 1 \in DOMAIN h[i].calls
<1>1. h[i] \in MessageSet
  BY DEF IsHistory
<1>2. h[i].calls \in Seq(AnyCall) /\ Len(h[i].calls) <= 1
  BY <1>1 DEF MessageSet, Single
<1> DEFINE asks == h[i].calls
<1> HIDE DEF asks
<1>3. PICK k \in DOMAIN asks : asks[k].op \in ops /\ asks[k].path = path
  BY DEF Touches, asks
<1>4. k = 1 /\ asks # <<>>
  BY <1>2, <1>3 DEF asks
<1> QED
  BY <1>3, <1>4 DEF asks

(* The last write of a path is not obsolete. *)
LEMMA LastWriteStays ==
  ASSUME NEW h, IsHistory(h), Single(h), NEW path,
         \E i \in DOMAIN h : Touches(h[i], path, {"write"})
  PROVE  \E i \in DOMAIN h \ Obsolete(h) : Touches(h[i], path, {"write"})
<1> DEFINE W == {i \in DOMAIN h : Touches(h[i], path, {"write"})}
<1>1. Len(h) \in Nat /\ DOMAIN h = 1..Len(h)
  BY DEF IsHistory
<1>2. PICK l \in W : \A j \in W : j <= l
  <2>1. W \subseteq 1..Len(h) /\ W # {}
    BY <1>1
  <2> HIDE DEF W
  <2> QED
    BY <1>1, <2>1, LastNumber
<1>3. l \in DOMAIN h /\ Touches(h[l], path, {"write"})
  OBVIOUS
<1>4. h[l].calls # <<>> /\ h[l].calls[1].path = path
  BY <1>3, TouchesOne
<1>5. ASSUME l \in Superseded(h)
      PROVE  FALSE
  <2>1. PICK other \in Paths(h), j \in DOMAIN h :
          Touches(h[l], other, {"read", "write"}) /\ l < j /\ Touches(h[j], other, {"write"})
    BY <1>5 DEF Superseded
  <2>2. h[l].calls[1].path = other
    BY <1>3, <2>1, TouchesOne
  <2>3. j \in W
    BY <1>4, <2>1, <2>2
  <2>4. j <= l /\ l \in Int /\ j \in Int
    BY <1>1, <1>2, <2>3
  <2> QED
    BY <2>1, <2>4
<1>6. ASSUME l \in ResultsAfter(h, Superseded(h))
      PROVE  FALSE
  <2>1. h[l].role = "tool"
    BY <1>6 DEF ResultsAfter
  <2> QED
    BY <1>3, <1>4, <2>1 DEF Single
<1>7. l \notin Obsolete(h)
  BY <1>5, <1>6 DEF Obsolete
<1> QED
  BY <1>3, <1>7

(* A call and its result are obsolete together. *)
LEMMA CallAndResult ==
  ASSUME NEW h, IsHistory(h), Single(h), NEW i \in DOMAIN h, h[i].role = "tool"
  PROVE  i - 1 \in DOMAIN h /\ (i \in Obsolete(h) <=> i - 1 \in Obsolete(h))
<1>0. Len(h) \in Nat /\ DOMAIN h = 1..Len(h) /\ h[i] \in MessageSet
  BY DEF IsHistory
<1>1. PICK k \in DOMAIN h : k < i /\ h[k].role = "speech" /\ i - k <= Len(h[k].calls)
  BY DEF IsHistory, Answers
<1>2. Len(h[k].calls) <= 1 /\ Len(h[k].calls) \in Nat
  <2>1. h[k] \in MessageSet
    BY DEF IsHistory
  <2>2. h[k].calls \in Seq(AnyCall)
    BY <2>1 DEF MessageSet
  <2>3. Len(h[k].calls) <= 1
    BY DEF Single
  <2> QED
    BY <2>2, <2>3
<1>3. k = i - 1
  <2> DEFINE n == Len(h[k].calls)
  <2> HIDE DEF n
  <2>1. n \in Nat /\ n <= 1 /\ i - k <= n /\ k < i /\ i \in Int /\ k \in Int
    BY <1>0, <1>1, <1>2 DEF n
  <2> QED
    BY <2>1
<1>4. h[i].calls = <<>>
  BY DEF Single
<1>5. i \notin Superseded(h)
  <2> SUFFICES ASSUME i \in Superseded(h) PROVE FALSE
    OBVIOUS
  <2>1. PICK path \in Paths(h) : Touches(h[i], path, {"read", "write"})
    BY DEF Superseded
  <2> QED
    BY <1>4, <2>1, TouchesOne
<1>6. i \in Obsolete(h) <=> k \in Superseded(h)
  BY <1>3, <1>5 DEF Obsolete, ResultsAfter
<1>7. k \in Obsolete(h) <=> k \in Superseded(h)
  BY <1>1 DEF Obsolete, ResultsAfter
<1> QED
  BY <1>3, <1>6, <1>7

-----------------------------------------------------------------------------
(* The inductive invariant. *)
IsCompacted(c) ==
  /\ c \in [from : Seq(MessageSet), first : Seq(MessageSet), result : Seq(MessageSet)]
  /\ IsHistory(c.from) /\ c.first \in {c.from, Supersede(c.from)}
  /\ SoundFrom(c.result, c.first)

CompactionInv == IsHistory(history) /\ IsCompacted(compacted)

LEMMA NoMessages == <<>> \in Seq(MessageSet) /\ DOMAIN <<>> = {} /\ Len(<<>>) = 0
OBVIOUS

LEMMA InitCompaction == CompactionInit => CompactionInv
<1> SUFFICES ASSUME CompactionInit PROVE CompactionInv
  OBVIOUS
<1>1. history = <<>> /\ compacted = [from |-> <<>>, first |-> <<>>, result |-> <<>>]
  BY DEF CompactionInit
<1>2. IsHistory(<<>>)
  <2>1. 0 <= MaxMessages
    BY CompactionAssumption
  <2> QED
    BY <2>1, NoMessages DEF IsHistory
<1>3. SoundFrom(<<>>, <<>>)
  BY <1>2, HistoryInOrder, NoMessages DEF SoundFrom
<1>4. IsCompacted([from |-> <<>>, first |-> <<>>, result |-> <<>>])
  BY <1>2, <1>3, NoMessages DEF IsCompacted
<1> QED
  BY <1>1, <1>2, <1>4 DEF CompactionInv

LEMMA SpeakKeeps ==
  ASSUME IsHistory(history), NEW text \in Texts, NEW long \in BOOLEAN, Speak(text, long)
  PROVE  IsHistory(history') /\ compacted' = compacted
<1> DEFINE n == Len(history)
           m == Said("speech", text, long, <<>>, n + 1)
<1>1. /\ n \in Nat /\ n < MaxMessages /\ MaxMessages \in Nat /\ n + 1 \in 1 .. MaxMessages
      /\ history \in Seq(MessageSet) /\ DOMAIN history = 1..n
      /\ \A i \in DOMAIN history : /\ history[i].stands = {i}
                                   /\ history[i].role = "tool" => Answers(history, i)
  BY CompactionAssumption DEF IsHistory, Speak
<1>2. m \in MessageSet /\ m.stands = {n + 1} /\ m.role = "speech"
  <2>1. <<>> \in Seq(AnyCall)
    OBVIOUS
  <2>2. {n + 1} \in (SUBSET (1 .. MaxMessages)) \ {{}}
    BY <1>1
  <2> HIDE DEF n
  <2> QED
    BY <2>1, <2>2 DEF Said, MessageSet
<1>3. history' = Append(history, m) /\ compacted' = compacted
  BY DEF Speak
<1> HIDE DEF m
<1>4. /\ history' \in Seq(MessageSet) /\ Len(history') = n + 1 /\ DOMAIN history' = 1..(n + 1)
      /\ history'[n + 1] = m /\ \A i \in 1..n : history'[i] = history[i]
  BY <1>1, <1>2, <1>3
<1> HIDE DEF n
<1>5. ASSUME NEW i \in DOMAIN history, Answers(history, i)
      PROVE  Answers(history', i)
  <2>1. PICK k \in DOMAIN history :
          k < i /\ history[k].role = "speech" /\ i - k <= Len(history[k].calls)
    BY <1>5 DEF Answers
  <2>2. k \in DOMAIN history' /\ history'[k] = history[k]
    BY <1>1, <1>4
  <2> QED
    BY <2>1, <2>2 DEF Answers
<1>6. ASSUME NEW i \in DOMAIN history'
      PROVE  history'[i].stands = {i} /\ (history'[i].role = "tool" => Answers(history', i))
  <2>1. CASE i = n + 1
    BY <1>2, <1>4, <2>1
  <2>2. CASE i # n + 1
    <3>1. i \in DOMAIN history /\ history'[i] = history[i]
      BY <1>1, <1>4, <2>2
    <3> QED
      BY <1>1, <1>5, <3>1
  <2> QED
    BY <2>1, <2>2
<1>7. Len(history') <= MaxMessages
  BY <1>1, <1>4
<1> QED
  BY <1>3, <1>4, <1>6, <1>7 DEF IsHistory

LEMMA CallToolsKeeps ==
  ASSUME IsHistory(history), NEW text \in Texts \cup {NoText}, NEW asks \in CallSets,
         NEW reads \in BOOLEAN, CallTools(text, asks, reads)
  PROVE  IsHistory(history') /\ compacted' = compacted
<1> DEFINE n == Len(history)
           c == Len(asks)
           m == Said("speech", text, FALSE, asks, n + 1)
           result(i) == Said("tool", NoText, FALSE, IF reads THEN <<asks[i]>> ELSE <<>>, n + 1 + i)
           results == [i \in DOMAIN asks |-> result(i)]
<1>1. /\ n \in Nat /\ MaxMessages \in Nat
      /\ history \in Seq(MessageSet) /\ DOMAIN history = 1..n
      /\ \A i \in DOMAIN history : /\ history[i].stands = {i}
                                   /\ history[i].role = "tool" => Answers(history, i)
  BY CompactionAssumption DEF IsHistory
<1>2. c \in Nat /\ asks \in Seq(AnyCall) /\ DOMAIN asks = 1..c
  <2>1. asks \in Seq(AnyCall)
    BY CallsAreSequences
  <2> QED
    BY <2>1
<1>3. /\ n + 1 + c <= MaxMessages /\ history' = history \o <<m>> \o results
      /\ compacted' = compacted
  BY DEF CallTools
<1>4. m \in MessageSet /\ m.stands = {n + 1} /\ m.role = "speech" /\ m.calls = asks
  <2>1. {n + 1} \in (SUBSET (1 .. MaxMessages)) \ {{}}
    <3>1. n + 1 \in 1 .. MaxMessages
      BY <1>1, <1>2, <1>3
    <3> QED
      BY <3>1
  <2> HIDE DEF n
  <2> QED
    BY <1>2, <2>1 DEF Said, MessageSet
<1>5. ASSUME NEW i \in 1..c
      PROVE  result(i) \in MessageSet /\ result(i).stands = {n + 1 + i}
  <2>1. n + 1 + i \in 1 .. MaxMessages
    BY <1>1, <1>2, <1>3
  <2>2. asks[i] \in AnyCall
    BY <1>2
  <2> DEFINE readAs == IF reads THEN <<asks[i]>> ELSE <<>>
  <2>3. readAs \in Seq(AnyCall)
    BY <2>2
  <2> DEFINE place == n + 1 + i
  <2>4. {place} \in (SUBSET (1 .. MaxMessages)) \ {{}}
    BY <2>1
  <2> HIDE DEF readAs, place
  <2>5. Said("tool", NoText, FALSE, readAs, place) \in MessageSet
        /\ Said("tool", NoText, FALSE, readAs, place).stands = {place}
    BY <2>3, <2>4 DEF Said, MessageSet
  <2> QED
    BY <2>5 DEF readAs, place
<1> DEFINE k == n + 1
<1>6. /\ results \in Seq(MessageSet) /\ Len(results) = c
      /\ \A i \in 1..c : results[i].stands = {k + i}
  <2> HIDE DEF result
  <2>1. results \in [1..c -> MessageSet]
    BY <1>2, <1>5
  <2>2. results \in Seq(MessageSet) /\ Len(results) = c
    BY <1>2, <2>1
  <2>3. \A i \in 1..c : results[i] = result(i)
    BY <1>2
  <2> QED
    BY <1>5, <2>2, <2>3
<1> HIDE DEF m, results, result, c
<1>7. /\ history' \in Seq(MessageSet) /\ Len(history') = k + c /\ DOMAIN history' = 1..(k + c)
      /\ history'[k] = m /\ \A i \in 1..n : history'[i] = history[i]
      /\ \A i \in 1..c : history'[k + i] = results[i]
  <2> DEFINE s == history \o <<m>>
  <2>1. /\ s \in Seq(MessageSet) /\ Len(s) = k /\ DOMAIN s = 1..k
        /\ s[k] = m /\ \A i \in 1..n : s[i] = history[i]
    BY <1>1, <1>4
  <2>2. history' = s \o results
    BY <1>3
  <2> HIDE DEF s
  <2>3. k \in Nat /\ n = k - 1 /\ k \in 1..k /\ \A i \in 1..n : i \in 1..k
    BY <1>1
  <2> HIDE DEF k, n
  <2>4. /\ history' \in Seq(MessageSet) /\ Len(history') = k + c /\ DOMAIN history' = 1..(k + c)
        /\ \A i \in 1..k : history'[i] = s[i]
        /\ \A i \in 1..c : history'[k + i] = results[i]
    <3>1. Len(s) = k /\ Len(results) = c
      BY <1>6, <2>1
    <3>2. s \in Seq(MessageSet) /\ results \in Seq(MessageSet)
      BY <1>6, <2>1
    <3> DEFINE t == s \o results
    <3>3. /\ t \in Seq(MessageSet) /\ Len(t) = k + c /\ DOMAIN t = 1..(k + c)
          /\ \A i \in 1..k : t[i] = s[i]
          /\ \A i \in 1..c : t[k + i] = results[i]
      <4>1. /\ t \in Seq(MessageSet) /\ Len(t) = Len(s) + Len(results)
            /\ DOMAIN t = 1..(Len(s) + Len(results))
            /\ \A i \in 1..Len(s) : t[i] = s[i]
            /\ \A i \in 1..Len(results) : t[Len(s) + i] = results[i]
        <5>1. t \in Seq(MessageSet) /\ Len(t) = Len(s) + Len(results)
          BY <3>2
        <5>2. \A i \in 1..Len(s) : t[i] = s[i]
          BY <3>2
        <5>3. \A i \in 1..Len(results) : t[Len(s) + i] = results[i]
          BY <3>2
        <5> QED
          BY <5>1, <5>2, <5>3
      <4> HIDE DEF t
      <4> QED
        BY <3>1, <4>1
    <3> HIDE DEF t
    <3> QED
      BY <2>2, <3>3 DEF t
  <2> QED
    BY <2>1, <2>3, <2>4
<1>8. k \in Nat /\ n = k - 1 /\ k >= 1
  BY <1>1
<1> HIDE DEF k, n
<1>9. ASSUME NEW i \in DOMAIN history, Answers(history, i)
      PROVE  Answers(history', i)
  <2>1. PICK l \in DOMAIN history :
          l < i /\ history[l].role = "speech" /\ i - l <= Len(history[l].calls)
    BY <1>9 DEF Answers
  <2>2. l \in DOMAIN history' /\ history'[l] = history[l]
    BY <1>1, <1>2, <1>7, <1>8
  <2> QED
    BY <2>1, <2>2 DEF Answers
<1>10. ASSUME NEW j \in 1..c
       PROVE  Answers(history', k + j)
  <2>1. k \in DOMAIN history' /\ k < k + j /\ (k + j) - k <= c
    BY <1>2, <1>7, <1>8
  <2>2. history'[k].role = "speech" /\ Len(history'[k].calls) = c
    BY <1>4, <1>7 DEF c
  <2> DEFINE i == k + j
  <2> HIDE DEF i
  <2> QED
    BY <2>1, <2>2 DEF Answers, i
<1>11. ASSUME NEW i \in DOMAIN history'
       PROVE  history'[i].stands = {i} /\ (history'[i].role = "tool" => Answers(history', i))
  <2>1. CASE i = k
    <3>1. m.stands = {k}
      BY <1>4 DEF k
    <3> QED
      BY <1>4, <1>7, <2>1, <3>1
  <2>2. CASE i \in 1..n
    <3>1. i \in DOMAIN history /\ history'[i] = history[i]
      BY <1>1, <1>7, <2>2
    <3> QED
      BY <1>1, <1>9, <3>1
  <2>3. CASE \E j \in 1..c : i = k + j
    <3>1. PICK j \in 1..c : i = k + j
      BY <2>3
    <3>2. history'[i] = results[j] /\ results[j].stands = {i}
      BY <1>6, <1>7, <3>1
    <3> QED
      BY <1>10, <3>1, <3>2
  <2>4. i = k \/ i \in 1..n \/ \E j \in 1..c : i = k + j
    <3>1. i \in 1..(k + c)
      BY <1>7
    <3>2. i > k => i - k \in 1..c /\ i = k + (i - k)
      BY <1>2, <1>8, <3>1
    <3> QED
      BY <1>8, <3>1, <3>2
  <2> QED
    BY <2>1, <2>2, <2>3, <2>4
<1>12. Len(history') <= MaxMessages
  BY <1>3, <1>7 DEF k
<1> QED
  BY <1>3, <1>7, <1>11, <1>12 DEF IsHistory

LEMMA SoundThrough ==
  ASSUME NEW q, NEW r, NEW s, SoundFrom(q, r), SoundFrom(r, s)
  PROVE  SoundFrom(q, s)
BY DEF SoundFrom

LEMMA CompactKeeps ==
  ASSUME IsHistory(history), NEW supersede \in BOOLEAN, NEW collapse \in BOOLEAN,
         NEW cluster \in BOOLEAN, Compact(supersede, collapse, cluster)
  PROVE  history' = history /\ IsCompacted(compacted')
<1> DEFINE first  == IF supersede THEN Supersede(history) ELSE history
           second == IF collapse THEN Collapse(first) ELSE first
           third  == IF cluster THEN Cluster(second) ELSE second
<1>1. /\ compacted' = [from |-> history, first |-> first, result |-> CompactSession(third)]
      /\ history' = history
  BY DEF Compact
<1>2. history \in Seq(MessageSet) /\ StandsInOrder(history)
  BY HistoryInOrder DEF IsHistory
<1>3. /\ first \in {history, Supersede(history)}
      /\ first \in Seq(MessageSet) /\ StandsInOrder(first)
  BY <1>2, SupersedeKeeps
<1> HIDE DEF first
<1>4. SoundFrom(first, first)
  BY <1>3 DEF SoundFrom
<1>5. SoundFrom(second, first)
  BY <1>3, <1>4, CollapseIsSound
<1> HIDE DEF second
<1>6. SoundFrom(third, second)
  <2>1. second \in Seq(MessageSet) /\ StandsInOrder(second)
    BY <1>5 DEF SoundFrom
  <2>2. SoundFrom(second, second)
    BY <2>1 DEF SoundFrom
  <2> QED
    BY <2>1, <2>2, ClusterIsSound
<1> HIDE DEF third
<1>7. SoundFrom(CompactSession(third), third)
  <2>1. third \in Seq(MessageSet) /\ StandsInOrder(third)
    BY <1>6 DEF SoundFrom
  <2> QED
    BY <2>1, CompactSessionIsSound
<1>8. SoundFrom(CompactSession(third), first)
  <2>1. SoundFrom(third, first)
    BY <1>5, <1>6, SoundThrough
  <2> QED
    BY <1>7, <2>1, SoundThrough
<1> DEFINE result == CompactSession(third)
<1> HIDE DEF result
<1>9. result \in Seq(MessageSet) /\ SoundFrom(result, first)
  BY <1>8 DEF SoundFrom, result
<1>10. compacted' = [from |-> history, first |-> first, result |-> result]
  BY <1>1 DEF result
<1> QED
  BY <1>1, <1>2, <1>3, <1>9, <1>10 DEF IsCompacted

LEMMA CompactionKept == CompactionInv /\ [CompactionNext]_compactionVars => CompactionInv'
<1> SUFFICES ASSUME CompactionInv, [CompactionNext]_compactionVars PROVE CompactionInv'
  OBVIOUS
<1>0. IsHistory(history) /\ IsCompacted(compacted)
  BY DEF CompactionInv
<1>1. CASE UNCHANGED compactionVars
  <2>1. history' = history /\ compacted' = compacted
    BY <1>1 DEF compactionVars
  <2> QED
    BY <1>0, <2>1 DEF CompactionInv
<1>2. ASSUME NEW text \in Texts, NEW long \in BOOLEAN, Speak(text, long)
      PROVE  CompactionInv'
  BY <1>0, <1>2, SpeakKeeps DEF CompactionInv
<1>3. ASSUME NEW text \in Texts \cup {NoText}, NEW asks \in CallSets, NEW reads \in BOOLEAN,
             CallTools(text, asks, reads)
      PROVE  CompactionInv'
  BY <1>0, <1>3, CallToolsKeeps DEF CompactionInv
<1>4. ASSUME NEW supersede \in BOOLEAN, NEW collapse \in BOOLEAN, NEW cluster \in BOOLEAN,
             Compact(supersede, collapse, cluster)
      PROVE  CompactionInv'
  BY <1>0, <1>4, CompactKeeps DEF CompactionInv
<1> QED
  BY <1>1, <1>2, <1>3, <1>4 DEF CompactionNext

(* In every reachable state the history is one and the last compaction of  *)
(* it is sound.                                                            *)
THEOREM CompactionInvariance == CompactionSpec => []CompactionInv
<1>1. CompactionInit => CompactionInv
  BY InitCompaction
<1>2. CompactionInv /\ [CompactionNext]_compactionVars => CompactionInv'
  BY CompactionKept
<1> QED
  BY <1>1, <1>2, PTL DEF CompactionSpec

-----------------------------------------------------------------------------
LEMMA CompactionIsSound == CompactionInv => CompactionSound
<1> SUFFICES ASSUME CompactionInv PROVE CompactionSound
  OBVIOUS
<1> DEFINE from == compacted.from
           first == compacted.first
           result == compacted.result
           kept == StandsFor(first)
<1>1. /\ IsHistory(from) /\ from \in Seq(MessageSet) /\ first \in {from, Supersede(from)}
      /\ result \in Seq(MessageSet) /\ StandsInOrder(result) /\ StandsFor(result) = kept
  BY DEF CompactionInv, IsCompacted, SoundFrom
<1> HIDE DEF from, first, result
<1>2. /\ DOMAIN from \ Obsolete(from) \subseteq kept
      /\ kept = DOMAIN from \/ kept = DOMAIN from \ Obsolete(from)
      /\ \A i \in DOMAIN from \ Obsolete(from) : from[i] \in ToSet(first)
  <2>1. CASE first = from
    <3>1. kept = DOMAIN from
      BY <1>1, <2>1, HistoryInOrder
    <3> QED
      BY <2>1, <3>1 DEF ToSet
  <2>2. CASE first = Supersede(from)
    <3>1. /\ kept = DOMAIN from \ Obsolete(from)
          /\ ToSet(first) = {from[i] : i \in DOMAIN from \ Obsolete(from)}
      BY <1>1, <2>2, SupersedeKeeps
    <3> QED
      BY <3>1
  <2> QED
    BY <1>1, <2>1, <2>2
<1>3. \A i, j \in DOMAIN result :
        i < j => /\ result[i].stands \cap result[j].stands = {}
                 /\ First(result[i].stands) < First(result[j].stands)
  BY <1>1 DEF StandsInOrder, Before
<1>4. {i \in DOMAIN from : i \notin kept} \subseteq Obsolete(from)
  BY <1>2
<1>5. ASSUME Single(from), NEW path \in Paths(from),
             \E i \in DOMAIN from : Touches(from[i], path, {"write"})
      PROVE  \E i \in DOMAIN first : Touches(first[i], path, {"write"})
  <2>1. PICK i \in DOMAIN from \ Obsolete(from) : Touches(from[i], path, {"write"})
    BY <1>1, <1>5, LastWriteStays
  <2>2. from[i] \in ToSet(first)
    BY <1>2
  <2>3. PICK j \in DOMAIN first : first[j] = from[i]
    BY <2>2 DEF ToSet
  <2> QED
    BY <2>1, <2>3
<1>6. ASSUME Single(from), NEW i \in DOMAIN from, from[i].role = "tool"
      PROVE  i \in kept <=> i - 1 \in kept
  <2>1. i - 1 \in DOMAIN from /\ (i \in Obsolete(from) <=> i - 1 \in Obsolete(from))
    BY <1>1, <1>6, CallAndResult
  <2> HIDE DEF kept
  <2> QED
    BY <1>2, <2>1
<1>7. (\A i \in DOMAIN from : /\ Len(from[i].calls) <= 1
                              /\ from[i].role = "tool" => from[i].calls = <<>>) <=> Single(from)
  BY DEF Single
<1> QED
  BY <1>1, <1>3, <1>4, <1>5, <1>6, <1>7, Zenon DEF CompactionSound, from, first, result

LEMMA CompactionTypes == CompactionInv => CompactionTypeOK
<1> SUFFICES ASSUME CompactionInv,
                    NEW messages \in {history, compacted.from, compacted.first, compacted.result},
                    NEW i \in DOMAIN messages
             PROVE  /\ messages[i].role \in {"speech", "tool", "system"}
                    /\ messages[i].text \in Texts \cup {NoText, Gist}
                    /\ messages[i].stands # {} /\ messages[i].stands \subseteq 1 .. MaxMessages
  BY DEF CompactionTypeOK
<1>1. messages \in Seq(MessageSet)
  BY DEF CompactionInv, IsCompacted, IsHistory
<1>2. messages[i] \in MessageSet
  BY <1>1
<1>3. messages[i].stands # {} /\ messages[i].stands \subseteq 1 .. MaxMessages
  BY <1>2, StandsAreNumbers
<1> QED
  BY <1>2, <1>3 DEF MessageSet

-----------------------------------------------------------------------------
(***************************************************************************)
(* The chat in the window: whose cards and whose conversation are shown.   *)
(***************************************************************************)

ChatRecords ==
  /\ ChatTypeOK
  /\ server \in [known : SUBSET Conversations, asker : [Events -> Conversations \cup {Unset}]]
  /\ chatLog \in [shown : Conversations \cup {Unset}, crossed : BOOLEAN, sends : 0..MaxSends,
                  latest : Events \cup {Unset}, settled : SUBSET Events, rerun : BOOLEAN]

(* A run whose session has started knows it, as long as its message is in  *)
(* the list; a message is asked for again only before that.                *)
RunKnown ==
  /\ sendRun.at \in {"hashing", "posting", "streaming"} => sendRun.attempt <= MaxRetries
  /\ sendRun.at = "streaming" => sendRun.on \in Conversations
  /\ sendRun.started /\ sendRun.listed => runSession = sendRun.on /\ runSession # Unset
  /\ runSession # Unset => sendRun.at # "idle" /\ sendRun.started
  /\ sendRun.at \in {"hashing", "posting"} /\ sendRun.started => ~sendRun.listed

(* The one card kept for a session is the card that is shown, and it is of *)
(* the session that runs.                                                  *)
CardKnown ==
  /\ card # Unset =>
       /\ server.asker[card.event] = card.session
       /\ sendRun.at # "idle" => card.session = runSession
  /\ \A s \in Conversations : keptCard[s] # Unset => card = [event |-> keptCard[s], session |-> s]
  /\ CardsAreCurrent

(* Unless a conversation was opened meanwhile, what is shown is the        *)
(* session that runs, or what the next message goes to.                    *)
ShownKnown ==
  /\ ~chatLog.rerun
  /\ ~chatLog.crossed =>
       /\ sendRun.at # "idle" => sendRun.listed
       /\ IF sendRun.at = "idle" \/ sendRun.selection \/ runSession = Unset
          THEN conversation = chatLog.shown ELSE chatLog.shown = runSession

ChatInv == ChatRecords /\ RunKnown /\ CardKnown /\ ShownKnown

SendRuns == [at : {"idle", "hashing", "posting", "streaming", "broken", "over"},
             attempt : 0..(MaxRetries + 1), selection : BOOLEAN, listed : BOOLEAN,
             started : BOOLEAN, stopped : BOOLEAN, on : Conversations \cup {Unset}]

ChatLogs == [shown : Conversations \cup {Unset}, crossed : BOOLEAN, sends : 0..MaxSends,
         latest : Events \cup {Unset}, settled : SUBSET Events, rerun : BOOLEAN]

LEMMA InitChat == ChatInit => ChatInv
  BY ChatAssumption
  DEF ChatInit, ChatInv, ChatRecords, ChatTypeOK, RunKnown, CardKnown, CardsAreCurrent, ShownKnown,
      AtRest, MaxRetries, Cards

(* Clear leaves a card of another event alone, or no card at all.          *)
LEMMA Cleared ==
  ASSUME ChatInv, NEW which \in Events \cup {AnyCard}, Clear(which)
  PROVE  /\ card' \in Cards \cup {Unset} /\ keptCard' \in [Conversations -> Events \cup {Unset}]
         /\ \/ /\ UNCHANGED <<card, keptCard>> /\ which # AnyCard
               /\ card = Unset \/ card.event # which
            \/ /\ card' = Unset /\ \A s \in Conversations : keptCard'[s] = Unset
               /\ which = AnyCard \/ (card # Unset /\ card.event = which)
  <1>1. /\ card \in Cards \cup {Unset} /\ keptCard \in [Conversations -> Events \cup {Unset}]
        /\ runSession \in Conversations \cup {Unset}
        /\ \A s \in Conversations : keptCard[s] # Unset => card = [event |-> keptCard[s], session |-> s]
    BY DEF ChatInv, ChatRecords, ChatTypeOK, CardKnown
  <1>2. CASE which # AnyCard /\ (card = Unset \/ card.event # which)
    BY <1>1, <1>2 DEF Clear
  <1>3. CASE ~(which # AnyCard /\ (card = Unset \/ card.event # which))
    <2> DEFINE owner == IF card # Unset THEN card.session ELSE runSession
    <2>1. /\ card' = Unset
          /\ keptCard' = IF owner = Unset THEN keptCard ELSE [keptCard EXCEPT ![owner] = Unset]
      BY <1>3 DEF Clear
    <2>2. \A s \in Conversations : keptCard[s] # Unset => card # Unset /\ card.session = s /\ owner = s
      <3> SUFFICES ASSUME NEW s \in Conversations, keptCard[s] # Unset
                   PROVE  card # Unset /\ card.session = s
        OBVIOUS
      <3>1. card = [event |-> keptCard[s], session |-> s] /\ keptCard[s] \in Events
        BY <1>1
      <3>2. card \in Cards
        BY <3>1 DEF Cards
      <3> QED BY <3>1, <3>2, ChatAssumption DEF Cards
    <2> HIDE DEF owner
    <2>3. keptCard' \in [Conversations -> Events \cup {Unset}]
      BY <1>1, <2>1
    <2>4. \A s \in Conversations : keptCard'[s] = Unset
      BY <1>1, <2>1, <2>2, ChatAssumption
    <2> QED BY <1>3, <2>1, <2>3, <2>4
  <1> QED BY <1>2, <1>3

(* Cards and what was decided stay as they are.                            *)
CardsRest ==
  /\ UNCHANGED <<card, keptCard>>
  /\ server'.asker = server.asker
  /\ chatLog'.latest = chatLog.latest /\ chatLog'.settled = chatLog.settled

LEMMA CardsStay ==
  ASSUME ChatInv, CardsRest,
         sendRun'.at # "idle" => sendRun.at # "idle" /\ (runSession' = runSession \/ card = Unset)
  PROVE  CardKnown'
  BY DEF CardsRest, ChatInv, CardKnown, CardsAreCurrent

(* Nothing is shown or sent to another conversation.                       *)
LEMMA ShownStays ==
  ASSUME ChatInv, conversation' = conversation, runSession' = runSession,
         sendRun'.selection = sendRun.selection, sendRun'.listed = sendRun.listed,
         sendRun'.at = "idle" <=> sendRun.at = "idle",
         chatLog'.shown = chatLog.shown, chatLog'.crossed = chatLog.crossed, ~chatLog'.rerun
  PROVE  ShownKnown'
  BY DEF ChatInv, ShownKnown

LEMMA RunTypes ==
  ASSUME ChatInv
  PROVE  /\ sendRun \in SendRuns /\ chatLog \in ChatLogs
         /\ server \in [known : SUBSET Conversations, asker : [Events -> Conversations \cup {Unset}]]
         /\ awaited \in [loads : SUBSET Conversations, abort : BOOLEAN, decisions : SUBSET Events]
         /\ AtRest \in SendRuns
  BY DEF ChatInv, ChatRecords, ChatTypeOK, SendRuns, ChatLogs, AtRest, MaxRetries

(* A run that ends leaves the next message to the conversation it was on,  *)
(* unless it was about a selection.                                        *)
LEMMA EndKeeps ==
  ASSUME ChatInv, sendRun.at # "idle", EndRun(sendRun),
         UNCHANGED <<card, keptCard, awaited, server, chatLog>>
  PROVE  ChatInv'
  <1>1. /\ sendRun' \in SendRuns /\ sendRun'.at = "idle" /\ ~sendRun'.started /\ ~sendRun'.selection
        /\ sendRun'.listed = sendRun.listed
    <2>1. sendRun' = [AtRest EXCEPT !.listed = sendRun.listed]
      BY DEF EndRun, Ended
    <2>2. sendRun.listed \in BOOLEAN
      BY RunTypes DEF SendRuns
    <2> QED BY <2>1, <2>2, RunTypes DEF AtRest, SendRuns
  <1>2. /\ runSession' = Unset
        /\ conversation' = IF ~sendRun.selection /\ runSession # Unset THEN runSession ELSE conversation
    BY DEF EndRun, Ended
  <1>3. ChatRecords'
    BY <1>1, <1>2 DEF ChatInv, ChatRecords, ChatTypeOK, SendRuns
  <1>4. RunKnown'
    BY <1>1, <1>2 DEF RunKnown
  <1>5. CardKnown'
    BY <1>1, CardsStay DEF CardsRest
  <1>6. ShownKnown'
    BY <1>1, <1>2 DEF ChatInv, ShownKnown
  <1> QED BY <1>3, <1>4, <1>5, <1>6 DEF ChatInv

LEMMA FailedTypes ==
  ASSUME ChatInv, Failed, sendRun.attempt <= MaxRetries
  PROVE  /\ sendRun' \in SendRuns /\ sendRun'.at = "broken"
         /\ sendRun'.started = sendRun.started /\ sendRun'.listed = sendRun.listed
         /\ sendRun'.selection = sendRun.selection /\ sendRun'.on = sendRun.on
         /\ UNCHANGED <<conversation, runSession>>
  <1>1. sendRun.attempt + 1 \in 0..(MaxRetries + 1)
    BY RunTypes DEF SendRuns, MaxRetries
  <1> QED BY <1>1, RunTypes DEF Failed, SendRuns

LEMMA FailKeeps ==
  ASSUME ChatInv, Failed, sendRun.at \in {"hashing", "posting", "streaming"},
         UNCHANGED <<card, keptCard, awaited, server, chatLog>>
  PROVE  ChatInv'
  <1>1. sendRun.attempt <= MaxRetries
    BY DEF ChatInv, RunKnown
  <1>2. ChatRecords'
    BY <1>1, FailedTypes DEF ChatInv, ChatRecords, ChatTypeOK, SendRuns
  <1>3. RunKnown'
    BY <1>1, FailedTypes DEF ChatInv, RunKnown
  <1>4. CardKnown'
    BY <1>1, FailedTypes, CardsStay DEF CardsRest
  <1>5. ShownKnown'
    BY <1>1, FailedTypes, ShownStays DEF ChatInv, ShownKnown
  <1> QED BY <1>2, <1>3, <1>4, <1>5 DEF ChatInv

LEMMA PostKeeps == ASSUME ChatInv, Post PROVE ChatInv'
  <1>1. sendRun.at \in {"hashing", "posting"} /\ UNCHANGED <<card, keptCard, awaited>>
    BY DEF Post
  <1>2. CASE Failed /\ UNCHANGED <<server, chatLog>>
    BY <1>1, <1>2, FailKeeps
  <1>3. CASE EndRun(sendRun) /\ UNCHANGED <<server, chatLog>>
    BY <1>1, <1>3, EndKeeps
  <1>4. ASSUME NEW s \in IF Target = Unset THEN Conversations \ server.known ELSE {Target}, Served(s)
        PROVE  ChatInv'
    <2>1. s \in Conversations
      BY <1>4 DEF Target, ChatInv, ChatRecords, ChatTypeOK
    <2>2. /\ sendRun' = [sendRun EXCEPT !.at = "streaming", !.on = s]
          /\ server' = [server EXCEPT !.known = @ \cup {s}]
          /\ chatLog' = [chatLog EXCEPT !.rerun = @ \/ (sendRun.started /\ ~chatLog.crossed)]
          /\ UNCHANGED <<conversation, runSession>>
      BY <1>4 DEF Served
    <2>3. /\ sendRun' \in SendRuns /\ sendRun'.at = "streaming" /\ sendRun'.on = s
          /\ sendRun'.started = sendRun.started /\ sendRun'.listed = sendRun.listed
          /\ sendRun'.selection = sendRun.selection /\ sendRun'.attempt = sendRun.attempt
      BY <2>1, <2>2, RunTypes DEF SendRuns
    <2>4. /\ server' \in [known : SUBSET Conversations, asker : [Events -> Conversations \cup {Unset}]]
          /\ server'.asker = server.asker
      BY <2>1, <2>2, RunTypes
    <2>5. ~chatLog.rerun /\ ~(sendRun.started /\ ~chatLog.crossed)
      BY <1>1 DEF ChatInv, RunKnown, ShownKnown
    <2>6. /\ chatLog' \in ChatLogs /\ ~chatLog'.rerun /\ chatLog'.shown = chatLog.shown
          /\ chatLog'.crossed = chatLog.crossed
          /\ chatLog'.latest = chatLog.latest /\ chatLog'.settled = chatLog.settled
      <3>1. chatLog' = [chatLog EXCEPT !.rerun = FALSE]
        BY <2>2, <2>5
      <3> QED BY <3>1, RunTypes DEF ChatLogs
    <2>7. ChatRecords'
      BY <1>1, <2>2, <2>3, <2>4, <2>6 DEF ChatInv, ChatRecords, ChatTypeOK, SendRuns, ChatLogs
    <2>8. RunKnown'
      BY <1>1, <2>1, <2>2, <2>3 DEF ChatInv, RunKnown
    <2>9. CardKnown'
      BY <1>1, <2>2, <2>4, <2>6, CardsStay DEF CardsRest
    <2>10. ShownKnown'
      BY <1>1, <2>2, <2>3, <2>6, ShownStays
    <2> QED BY <2>7, <2>8, <2>9, <2>10 DEF ChatInv
  <1> QED BY <1>2, <1>3, <1>4 DEF Post

LEMMA TryKeeps == ASSUME ChatInv, TryAgain PROVE ChatInv'
  <1>1. /\ sendRun.at = "broken" /\ sendRun.attempt <= MaxRetries
        /\ UNCHANGED <<conversation, runSession, card, keptCard, awaited, server, chatLog>>
    BY DEF TryAgain
  <1>2. /\ sendRun' \in SendRuns /\ sendRun'.at # "idle" /\ sendRun'.at # "hashing"
        /\ sendRun'.at # "broken" => sendRun'.attempt <= MaxRetries
        /\ sendRun'.started = sendRun.started /\ sendRun'.listed = sendRun.listed
        /\ sendRun'.selection = sendRun.selection
        /\ sendRun'.on = sendRun.on \/ (sendRun'.on = runSession /\ runSession # Unset)
        /\ sendRun'.at = "streaming" => sendRun'.on = runSession /\ runSession # Unset
        /\ sendRun'.at = "posting" => ~MayResume
    <2>1. sendRun \in SendRuns /\ runSession \in Conversations \cup {Unset}
          /\ sendRun.attempt + 1 \in 0..(MaxRetries + 1)
      BY <1>1, RunTypes DEF SendRuns, MaxRetries, ChatInv, ChatRecords, ChatTypeOK
    <2>2. CASE sendRun' = [sendRun EXCEPT !.at = "streaming", !.on = runSession] /\ MayResume
      BY <1>1, <2>1, <2>2 DEF SendRuns, MayResume
    <2>3. CASE sendRun' = [sendRun EXCEPT !.attempt = @ + 1]
      BY <1>1, <2>1, <2>3 DEF SendRuns
    <2>4. CASE sendRun' = [sendRun EXCEPT !.at = "posting"] /\ ~MayResume
      BY <1>1, <2>1, <2>4 DEF SendRuns
    <2> QED BY <2>2, <2>3, <2>4 DEF TryAgain
  <1>3. ChatRecords'
    BY <1>1, <1>2 DEF ChatInv, ChatRecords, ChatTypeOK, SendRuns
  <1>4. RunKnown'
    BY <1>1, <1>2 DEF ChatInv, RunKnown, ChatRecords, ChatTypeOK, MayResume
  <1>5. CardKnown'
    BY <1>1, <1>2, CardsStay DEF CardsRest
  <1>6. ShownKnown'
    BY <1>1, <1>2, ShownStays DEF ChatInv, ShownKnown
  <1> QED BY <1>3, <1>4, <1>5, <1>6 DEF ChatInv

LEMMA StartedKeeps == ASSUME ChatInv, SessionStarted PROVE ChatInv'
  <1>1. /\ sendRun.at = "streaming" /\ UNCHANGED <<conversation, awaited, server>>
        /\ sendRun' = [sendRun EXCEPT !.started = TRUE] /\ sendRun.on \in Conversations
    BY DEF SessionStarted, Streams, ChatInv, RunKnown
  <1>2. /\ sendRun' \in SendRuns /\ sendRun'.at = "streaming" /\ sendRun'.started
        /\ sendRun'.listed = sendRun.listed /\ sendRun'.selection = sendRun.selection
        /\ sendRun'.on = sendRun.on /\ sendRun'.attempt = sendRun.attempt
    BY <1>1, RunTypes DEF SendRuns
  <1>3. CASE ~sendRun.listed
    <2>1. UNCHANGED <<runSession, card, keptCard, chatLog>>
      BY <1>3 DEF SessionStarted
    <2>2. ChatRecords'
      BY <1>1, <1>2, <2>1 DEF ChatInv, ChatRecords, ChatTypeOK, SendRuns
    <2>3. RunKnown'
      BY <1>1, <1>2, <1>3, <2>1 DEF ChatInv, RunKnown
    <2>4. CardKnown'
      BY <1>1, <1>2, <2>1, CardsStay DEF CardsRest
    <2>5. ShownKnown'
      BY <1>1, <1>2, <2>1, ShownStays DEF ChatInv, ShownKnown
    <2> QED BY <2>2, <2>3, <2>4, <2>5 DEF ChatInv
  <1>4. CASE sendRun.listed
    <2>1. /\ runSession' = sendRun.on
          /\ IF runSession = sendRun.on THEN UNCHANGED <<card, keptCard>> ELSE Restored(sendRun.on)
          /\ chatLog' = IF sendRun.selection THEN chatLog ELSE [chatLog EXCEPT !.shown = sendRun.on]
      BY <1>4 DEF SessionStarted
    <2>2. UNCHANGED <<card, keptCard>> /\ (runSession' = runSession \/ card = Unset)
      <3>1. CASE runSession = sendRun.on
        BY <2>1, <3>1
      <3>2. CASE runSession # sendRun.on
        <4>1. runSession = Unset
          BY <1>4, <3>2 DEF ChatInv, RunKnown
        <4>2. card = Unset
          <5> SUFFICES ASSUME card # Unset PROVE FALSE
            OBVIOUS
          <5>1. card.session = Unset /\ card \in Cards
            BY <1>1, <4>1 DEF ChatInv, CardKnown, ChatRecords, ChatTypeOK
          <5> QED BY <5>1, ChatAssumption DEF Cards
        <4>3. keptCard[sendRun.on] = Unset
          <5> SUFFICES ASSUME keptCard[sendRun.on] # Unset PROVE FALSE
            OBVIOUS
          <5>1. Unset = [event |-> keptCard[sendRun.on], session |-> sendRun.on]
            BY <1>1, <4>2 DEF ChatInv, CardKnown
          <5>2. keptCard[sendRun.on] \in Events
            BY <1>1 DEF ChatInv, ChatRecords, ChatTypeOK
          <5> QED BY <1>1, <5>1, <5>2, ChatAssumption
        <4> QED BY <2>1, <3>2, <4>2, <4>3 DEF Restored
      <3> QED BY <3>1, <3>2
    <2>3. /\ chatLog' \in ChatLogs /\ chatLog'.rerun = chatLog.rerun /\ chatLog'.crossed = chatLog.crossed
          /\ chatLog'.latest = chatLog.latest /\ chatLog'.settled = chatLog.settled
          /\ chatLog'.shown = IF sendRun.selection THEN chatLog.shown ELSE sendRun.on
      <3>1. CASE sendRun.selection
        BY <2>1, <3>1, RunTypes
      <3>2. CASE ~sendRun.selection
        BY <1>1, <2>1, <3>2, RunTypes DEF ChatLogs
      <3> QED BY <3>1, <3>2
    <2>4. ChatRecords'
      BY <1>1, <1>2, <2>1, <2>2, <2>3 DEF ChatInv, ChatRecords, ChatTypeOK, SendRuns, ChatLogs
    <2>5. RunKnown'
      BY <1>1, <1>2, <1>4, <2>1, ChatAssumption DEF ChatInv, RunKnown
    <2>6. CardKnown'
      BY <1>1, <1>2, <2>2, <2>3, CardsStay DEF CardsRest
    <2>7. ShownKnown'
      BY <1>1, <1>2, <2>1, <2>3, ChatAssumption DEF ChatInv, ShownKnown
    <2> QED BY <2>4, <2>5, <2>6, <2>7 DEF ChatInv
  <1> QED BY <1>3, <1>4

(* Cards go as Clear and Settle say, and the run stays where it was or     *)
(* goes on with its session.                                               *)
LEMMA SettledKeeps ==
  ASSUME ChatInv, NEW which \in Events \cup {AnyCard}, Clear(which),
         Settle(IF which = AnyCard THEN Events ELSE {which}),
         server'.asker = server.asker,
         sendRun'.at # "idle" => sendRun.at # "idle", runSession' = runSession
  PROVE  /\ CardKnown'
         /\ chatLog' \in ChatLogs /\ chatLog'.rerun = chatLog.rerun
         /\ chatLog'.shown = chatLog.shown /\ chatLog'.crossed = chatLog.crossed
  <1> DEFINE events == IF which = AnyCard THEN Events ELSE {which}
  <1>1. events \subseteq Events
    OBVIOUS
  <1>2. chatLog' = [chatLog EXCEPT !.settled = @ \cup events]
    BY DEF Settle
  <1> HIDE DEF events
  <1>3. /\ chatLog' \in ChatLogs /\ chatLog'.rerun = chatLog.rerun
        /\ chatLog'.shown = chatLog.shown /\ chatLog'.crossed = chatLog.crossed
        /\ chatLog'.latest = chatLog.latest /\ chatLog'.settled = chatLog.settled \cup events
    BY <1>1, <1>2, RunTypes DEF ChatLogs
  <1>4. CASE /\ UNCHANGED <<card, keptCard>> /\ which # AnyCard
             /\ card = Unset \/ card.event # which
    <2>1. events = {which}
      BY <1>4 DEF events
    <2>2. CardsAreCurrent'
      BY <1>3, <1>4, <2>1 DEF ChatInv, CardKnown, CardsAreCurrent
    <2> QED BY <1>3, <1>4, <2>2 DEF ChatInv, CardKnown
  <1>5. CASE /\ card' = Unset /\ \A s \in Conversations : keptCard'[s] = Unset
             /\ which = AnyCard \/ (card # Unset /\ card.event = which)
    <2>1. chatLog.latest \in Events \cup {Unset}
      BY RunTypes DEF ChatLogs
    <2>2. CardsAreCurrent'
      <3>1. CASE which = AnyCard
        <4>1. events = Events
          BY <3>1 DEF events
        <4> QED BY <1>3, <1>5, <2>1, <4>1 DEF CardsAreCurrent
      <3>2. CASE which # AnyCard /\ card # Unset /\ card.event = which
        <4>1. events = {which}
          BY <3>2 DEF events
        <4> QED BY <1>3, <1>5, <3>2, <4>1 DEF ChatInv, CardKnown, CardsAreCurrent
      <3> QED BY <1>5, <3>1, <3>2
    <2>3. CardKnown'
      BY <1>5, <2>2 DEF CardKnown
    <2> QED BY <1>3, <2>3
  <1> QED BY <1>3, <1>4, <1>5, Cleared

LEMMA RaiseKeeps == ASSUME ChatInv, NEW e \in Events, AwaitApproval(e) PROVE ChatInv'
  <1>1. /\ sendRun.at = "streaming" /\ sendRun.started /\ server.asker[e] = Unset
        /\ server' = [server EXCEPT !.asker[e] = sendRun.on] /\ sendRun.on \in Conversations
        /\ UNCHANGED <<conversation, runSession, sendRun, awaited>>
    BY DEF AwaitApproval, Streams, ChatInv, RunKnown
  <1>2. /\ server' \in [known : SUBSET Conversations, asker : [Events -> Conversations \cup {Unset}]]
        /\ \A x \in Events : server'.asker[x] = IF x = e THEN sendRun.on ELSE server.asker[x]
    BY <1>1, RunTypes
  <1>3. card # Unset => card.event \in Events /\ card.event # e
    <2> SUFFICES ASSUME card # Unset PROVE card.event \in Events /\ card.event # e
      OBVIOUS
    <2>1. card \in Cards /\ server.asker[card.event] = card.session
      BY DEF ChatInv, ChatRecords, ChatTypeOK, CardKnown
    <2> QED BY <1>1, <2>1, ChatAssumption DEF Cards
  <1>4. RunKnown'
    BY <1>1 DEF ChatInv, RunKnown
  <1>5. CASE ~sendRun.listed
    <2>1. UNCHANGED <<card, keptCard, chatLog>>
      BY <1>5 DEF AwaitApproval
    <2>2. ChatRecords'
      BY <1>1, <1>2, <2>1 DEF ChatInv, ChatRecords, ChatTypeOK
    <2>3. CardKnown'
      BY <1>1, <1>2, <1>3, <2>1 DEF ChatInv, CardKnown, CardsAreCurrent
    <2>4. ShownKnown'
      BY <1>1, <2>1 DEF ChatInv, ShownKnown
    <2> QED BY <1>4, <2>2, <2>3, <2>4 DEF ChatInv
  <1>6. CASE sendRun.listed
    <2>1. /\ card' = [event |-> e, session |-> runSession]
          /\ keptCard' = [keptCard EXCEPT ![runSession] = e]
          /\ chatLog' = [chatLog EXCEPT !.latest = e, !.settled = @ \ {e}]
      BY <1>6 DEF AwaitApproval, Raise
    <2>2. runSession = sendRun.on
      BY <1>1, <1>6 DEF ChatInv, RunKnown
    <2>3. card' \in Cards /\ card' # Unset /\ card'.event = e /\ card'.session = runSession
      BY <1>1, <2>1, <2>2, ChatAssumption DEF Cards
    <2>4. keptCard' \in [Conversations -> Events \cup {Unset}]
      BY <2>1 DEF ChatInv, ChatRecords, ChatTypeOK
    <2>5. /\ chatLog' \in ChatLogs /\ chatLog'.rerun = chatLog.rerun /\ chatLog'.shown = chatLog.shown
          /\ chatLog'.crossed = chatLog.crossed
          /\ chatLog'.latest = e /\ chatLog'.settled = chatLog.settled \ {e}
      BY <2>1, RunTypes DEF ChatLogs
    <2>6. \A s \in Conversations : keptCard'[s] # Unset => card' = [event |-> keptCard'[s], session |-> s]
      <3> SUFFICES ASSUME NEW s \in Conversations, keptCard'[s] # Unset
                   PROVE  keptCard'[s] = e /\ s = runSession
        BY <2>1
      <3>1. CASE s = runSession
        BY <2>1, <3>1 DEF ChatInv, ChatRecords, ChatTypeOK
      <3>2. CASE s # runSession
        <4>1. keptCard[s] # Unset
          BY <2>1, <3>2 DEF ChatInv, ChatRecords, ChatTypeOK
        <4>2. keptCard[s] \in Events /\ card = [event |-> keptCard[s], session |-> s]
          BY <4>1 DEF ChatInv, ChatRecords, ChatTypeOK, CardKnown
        <4>3. card # Unset /\ card.session = s
          BY <4>2, ChatAssumption
        <4>4. card.session = runSession
          BY <1>1, <4>3 DEF ChatInv, CardKnown
        <4> QED BY <3>2, <4>3, <4>4
      <3> QED BY <3>1, <3>2
    <2>7. CardKnown'
      BY <1>1, <1>2, <2>2, <2>3, <2>5, <2>6 DEF CardKnown, CardsAreCurrent
    <2>8. ChatRecords'
      BY <1>1, <1>2, <2>3, <2>4, <2>5 DEF ChatInv, ChatRecords, ChatTypeOK, ChatLogs
    <2>9. ShownKnown'
      BY <1>1, <2>5 DEF ChatInv, ShownKnown
    <2> QED BY <1>4, <2>7, <2>8, <2>9 DEF ChatInv
  <1> QED BY <1>5, <1>6

LEMMA LastKeeps == ASSUME ChatInv, LastEvent PROVE ChatInv'
  <1>1. /\ sendRun.at = "streaming" /\ UNCHANGED <<conversation, runSession, awaited, server>>
        /\ sendRun' = [sendRun EXCEPT !.at = "over"]
    BY DEF LastEvent, Streams
  <1>2. /\ sendRun' \in SendRuns /\ sendRun'.at = "over" /\ sendRun'.started = sendRun.started
        /\ sendRun'.listed = sendRun.listed /\ sendRun'.selection = sendRun.selection
        /\ sendRun'.on = sendRun.on
    BY <1>1, RunTypes DEF SendRuns
  <1>3. RunKnown'
    BY <1>1, <1>2 DEF ChatInv, RunKnown
  <1>4. CASE UNCHANGED <<card, keptCard, chatLog>>
    <2>1. ChatRecords'
      BY <1>1, <1>2, <1>4 DEF ChatInv, ChatRecords, ChatTypeOK, SendRuns
    <2>2. CardKnown'
      BY <1>1, <1>4, CardsStay DEF CardsRest
    <2>3. ShownKnown'
      BY <1>1, <1>2, <1>4, ShownStays DEF ChatInv, ShownKnown
    <2> QED BY <1>3, <2>1, <2>2, <2>3 DEF ChatInv
  <1>5. CASE Clear(AnyCard) /\ Settle(Events)
    <2>1. /\ CardKnown'
          /\ chatLog' \in ChatLogs /\ chatLog'.rerun = chatLog.rerun
          /\ chatLog'.shown = chatLog.shown /\ chatLog'.crossed = chatLog.crossed
      BY <1>1, <1>5, SettledKeeps
    <2>2. card' \in Cards \cup {Unset} /\ keptCard' \in [Conversations -> Events \cup {Unset}]
      BY <1>5, Cleared
    <2>3. ChatRecords'
      BY <1>1, <1>2, <2>1, <2>2 DEF ChatInv, ChatRecords, ChatTypeOK, SendRuns, ChatLogs
    <2>4. ShownKnown'
      BY <1>1, <1>2, <2>1, ShownStays DEF ChatInv, ShownKnown
    <2> QED BY <1>3, <2>1, <2>3, <2>4 DEF ChatInv
  <1> QED BY <1>4, <1>5 DEF LastEvent

(* An answer about a card changes the cards and no more.                   *)
LEMMA AnswerKeeps ==
  ASSUME ChatInv, NEW which \in Events \cup {AnyCard}, Clear(which),
         Settle(IF which = AnyCard THEN Events ELSE {which}),
         sendRun' \in SendRuns, sendRun'.at = sendRun.at,
         sendRun'.attempt = sendRun.attempt, sendRun'.on = sendRun.on,
         sendRun'.started = sendRun.started, sendRun'.listed = sendRun.listed,
         sendRun'.selection = sendRun.selection,
         UNCHANGED <<conversation, runSession, server>>,
         awaited' \in [loads : SUBSET Conversations, abort : BOOLEAN, decisions : SUBSET Events]
  PROVE  ChatInv'
  <1>1. /\ CardKnown'
        /\ chatLog' \in ChatLogs /\ chatLog'.rerun = chatLog.rerun
        /\ chatLog'.shown = chatLog.shown /\ chatLog'.crossed = chatLog.crossed
    BY SettledKeeps
  <1>2. card' \in Cards \cup {Unset} /\ keptCard' \in [Conversations -> Events \cup {Unset}]
    BY Cleared
  <1>3. ChatRecords'
    BY <1>1, <1>2 DEF ChatInv, ChatRecords, ChatTypeOK, SendRuns, ChatLogs
  <1>4. RunKnown'
    BY DEF ChatInv, RunKnown
  <1>5. ShownKnown'
    BY <1>1, ShownStays DEF ChatInv, ShownKnown
  <1> QED BY <1>1, <1>3, <1>4, <1>5 DEF ChatInv

(* A step that leaves the cards, the log and the run's course alone.       *)
LEMMA RestKeeps ==
  ASSUME ChatInv, sendRun' \in SendRuns, sendRun'.at = sendRun.at,
         sendRun'.attempt = sendRun.attempt, sendRun'.on = sendRun.on,
         sendRun'.started = sendRun.started, sendRun'.listed = sendRun.listed,
         sendRun'.selection = sendRun.selection,
         UNCHANGED <<conversation, runSession, card, keptCard, server, chatLog>>,
         awaited' \in [loads : SUBSET Conversations, abort : BOOLEAN, decisions : SUBSET Events]
  PROVE  ChatInv'
  <1>1. ChatRecords'
    BY DEF ChatInv, ChatRecords, ChatTypeOK, SendRuns
  <1>2. RunKnown'
    BY DEF ChatInv, RunKnown
  <1>3. CardKnown'
    BY CardsStay DEF CardsRest
  <1>4. ShownKnown'
    BY ShownStays DEF ChatInv, ShownKnown
  <1> QED BY <1>1, <1>2, <1>3, <1>4 DEF ChatInv

LEMMA StoppedTypes ==
  ASSUME ChatInv, Stopped
  PROVE  /\ sendRun' \in SendRuns /\ sendRun'.at = sendRun.at
         /\ sendRun'.attempt = sendRun.attempt /\ sendRun'.on = sendRun.on
         /\ sendRun'.started = sendRun.started /\ sendRun'.listed = sendRun.listed
         /\ sendRun'.selection = sendRun.selection
  BY RunTypes DEF Stopped, SendRuns

LEMMA UserKeeps ==
  ASSUME ChatInv,
         \/ AbortSession \/ AbortAnswered \/ SendApproval
         \/ \E e \in Events : ApprovalReceived(e) \/ ApprovalAnswered(e)
         \/ \E s \in Conversations : LoadWorkflow(s) \/ LoadFailed(s)
  PROVE  ChatInv'
  <1> DEFINE Awaits == [loads : SUBSET Conversations, abort : BOOLEAN, decisions : SUBSET Events]
  <1>0. awaited \in Awaits /\ sendRun \in SendRuns
    BY RunTypes
  <1>1. CASE AbortSession
    <2>1. UNCHANGED <<conversation, runSession, card, keptCard, server, chatLog>>
      BY <1>1 DEF AbortSession
    <2>2. awaited' \in Awaits
      BY <1>0, <1>1 DEF AbortSession
    <2>3. Stopped \/ UNCHANGED sendRun
      BY <1>1 DEF AbortSession
    <2> HIDE DEF Awaits
    <2> QED BY <1>0, <2>1, <2>2, <2>3, StoppedTypes, RestKeeps DEF Awaits
  <1>2. CASE AbortAnswered
    <2>1. /\ UNCHANGED <<conversation, runSession, server>> /\ Stopped
          /\ awaited' = [awaited EXCEPT !.abort = FALSE]
      BY <1>2 DEF AbortAnswered
    <2>2. awaited' \in Awaits
      BY <1>0, <2>1
    <2>3. (Clear(AnyCard) /\ Settle(Events)) \/ UNCHANGED <<card, keptCard, chatLog>>
      BY <1>2 DEF AbortAnswered
    <2> QED BY <2>1, <2>2, <2>3, StoppedTypes, RestKeeps, AnswerKeeps
  <1>3. CASE SendApproval
    <2>1. /\ card # Unset /\ awaited' = [awaited EXCEPT !.decisions = @ \cup {card.event}]
          /\ UNCHANGED <<conversation, runSession, card, keptCard, sendRun, server, chatLog>>
      BY <1>3 DEF SendApproval
    <2>2. card.event \in Events
      BY <2>1 DEF ChatInv, ChatRecords, ChatTypeOK, Cards
    <2>3. awaited' \in Awaits
      BY <1>0, <2>1, <2>2
    <2> QED BY <1>0, <2>1, <2>3, RestKeeps
  <1>4. ASSUME NEW e \in Events, ApprovalReceived(e) PROVE ChatInv'
    <2>1. /\ UNCHANGED <<conversation, runSession, sendRun, awaited, server>>
          /\ (Clear(e) /\ Settle({e})) \/ UNCHANGED <<card, keptCard, chatLog>>
      BY <1>4 DEF ApprovalReceived
    <2>2. e # AnyCard
      BY ChatAssumption DEF AnyCard
    <2> QED BY <1>0, <2>1, <2>2, RestKeeps, AnswerKeeps
  <1>5. ASSUME NEW e \in Events, ApprovalAnswered(e) PROVE ChatInv'
    <2>1. /\ UNCHANGED <<conversation, runSession, sendRun, server>>
          /\ awaited' = [awaited EXCEPT !.decisions = @ \ {e}]
          /\ (Clear(e) /\ Settle({e})) \/ UNCHANGED <<card, keptCard, chatLog>>
      BY <1>5 DEF ApprovalAnswered
    <2>2. awaited' \in Awaits
      BY <1>0, <2>1
    <2>3. e # AnyCard
      BY ChatAssumption DEF AnyCard
    <2> QED BY <1>0, <2>1, <2>2, <2>3, RestKeeps, AnswerKeeps
  <1>6. ASSUME NEW s \in Conversations, LoadWorkflow(s) \/ LoadFailed(s) PROVE ChatInv'
    <2>1. UNCHANGED <<conversation, runSession, card, keptCard, sendRun, server, chatLog>>
      BY <1>6 DEF LoadWorkflow, LoadFailed
    <2>2. awaited' \in Awaits
      BY <1>0, <1>6 DEF LoadWorkflow, LoadFailed
    <2> QED BY <1>0, <2>1, <2>2, RestKeeps
  <1> QED BY <1>1, <1>2, <1>3, <1>4, <1>5, <1>6

LEMMA SendKeeps == ASSUME ChatInv, NEW edit \in BOOLEAN, SendMessage(edit) PROVE ChatInv'
  <1>1. /\ sendRun.at = "idle" /\ chatLog.sends < MaxSends /\ Clear(AnyCard)
        /\ sendRun' = [AtRest EXCEPT !.at = "hashing", !.selection = edit, !.listed = TRUE]
        /\ chatLog' = [chatLog EXCEPT !.sends = @ + 1, !.settled = Events]
        /\ UNCHANGED <<conversation, runSession, awaited, server>>
    BY DEF SendMessage
  <1>2. /\ sendRun' \in SendRuns /\ sendRun'.at = "hashing" /\ sendRun'.listed
        /\ ~sendRun'.started /\ sendRun'.attempt = 0
    BY <1>1, RunTypes DEF AtRest, SendRuns
  <1>3. runSession = Unset
    BY <1>1 DEF ChatInv, RunKnown
  <1>4. /\ card' = Unset /\ \A s \in Conversations : keptCard'[s] = Unset
        /\ keptCard' \in [Conversations -> Events \cup {Unset}]
    BY <1>1, Cleared
  <1>5. /\ chatLog' \in ChatLogs /\ chatLog'.rerun = chatLog.rerun /\ chatLog'.settled = Events
        /\ chatLog'.shown = chatLog.shown /\ chatLog'.crossed = chatLog.crossed
        /\ chatLog'.latest \in Events \cup {Unset}
    <2>1. chatLog.sends + 1 \in 0..MaxSends
      BY <1>1, RunTypes, ChatAssumption DEF ChatLogs
    <2> QED BY <1>1, <2>1, RunTypes DEF ChatLogs
  <1>6. ChatRecords'
    BY <1>1, <1>2, <1>4, <1>5 DEF ChatInv, ChatRecords, ChatTypeOK, SendRuns, ChatLogs
  <1>7. RunKnown'
    BY <1>1, <1>2, <1>3 DEF RunKnown, MaxRetries
  <1>8. CardKnown'
    <2>1. CardsAreCurrent'
      BY <1>4, <1>5 DEF CardsAreCurrent
    <2> QED BY <1>4, <2>1 DEF CardKnown
  <1>9. ShownKnown'
    BY <1>1, <1>2, <1>3, <1>5 DEF ChatInv, ShownKnown
  <1> QED BY <1>6, <1>7, <1>8, <1>9 DEF ChatInv

LEMMA LoadedKeeps == ASSUME ChatInv, NEW s \in Conversations, WorkflowLoaded(s) PROVE ChatInv'
  <1>1. /\ awaited' = [awaited EXCEPT !.loads = @ \ {s}] /\ Clear(AnyCard) /\ conversation' = s
        /\ sendRun' = [sendRun EXCEPT !.listed = FALSE]
        /\ chatLog' = [chatLog EXCEPT !.shown = s, !.settled = Events, !.crossed = sendRun.at # "idle"]
        /\ UNCHANGED <<runSession, server>>
    BY DEF WorkflowLoaded
  <1>2. /\ sendRun' \in SendRuns /\ sendRun'.at = sendRun.at /\ ~sendRun'.listed
        /\ sendRun'.started = sendRun.started /\ sendRun'.attempt = sendRun.attempt
        /\ sendRun'.on = sendRun.on
    BY <1>1, RunTypes DEF SendRuns
  <1>3. awaited' \in [loads : SUBSET Conversations, abort : BOOLEAN, decisions : SUBSET Events]
    BY <1>1, RunTypes
  <1>4. /\ card' = Unset /\ \A x \in Conversations : keptCard'[x] = Unset
        /\ keptCard' \in [Conversations -> Events \cup {Unset}]
    BY <1>1, Cleared
  <1>5. /\ chatLog' \in ChatLogs /\ chatLog'.rerun = chatLog.rerun /\ chatLog'.settled = Events
        /\ chatLog'.shown = s /\ chatLog'.crossed = (sendRun.at # "idle")
        /\ chatLog'.latest \in Events \cup {Unset}
    BY <1>1, RunTypes DEF ChatLogs
  <1>6. ChatRecords'
    BY <1>1, <1>2, <1>3, <1>4, <1>5 DEF ChatInv, ChatRecords, ChatTypeOK, SendRuns, ChatLogs
  <1>7. RunKnown'
    BY <1>1, <1>2 DEF ChatInv, RunKnown
  <1>8. CardKnown'
    <2>1. CardsAreCurrent'
      BY <1>4, <1>5 DEF CardsAreCurrent
    <2> QED BY <1>4, <2>1 DEF CardKnown
  <1>9. ShownKnown'
    BY <1>1, <1>2, <1>5 DEF ChatInv, ShownKnown
  <1> QED BY <1>6, <1>7, <1>8, <1>9 DEF ChatInv

LEMMA NewKeeps == ASSUME ChatInv, StartNew PROVE ChatInv'
  <1>1. /\ sendRun.at = "idle" /\ card = Unset /\ conversation' = Unset /\ runSession' = Unset
        /\ Clear(AnyCard) /\ sendRun' = AtRest
        /\ chatLog' = [chatLog EXCEPT !.shown = Unset, !.crossed = FALSE]
        /\ UNCHANGED <<awaited, server>>
    BY DEF StartNew
  <1>2. sendRun' \in SendRuns /\ sendRun'.at = "idle" /\ ~sendRun'.started
    BY <1>1, RunTypes DEF AtRest
  <1>3. /\ card' = Unset /\ \A x \in Conversations : keptCard'[x] = Unset
        /\ keptCard' \in [Conversations -> Events \cup {Unset}]
    BY <1>1, Cleared
  <1>4. /\ chatLog' \in ChatLogs /\ chatLog'.rerun = chatLog.rerun /\ chatLog'.settled = chatLog.settled
        /\ chatLog'.shown = Unset /\ chatLog'.latest = chatLog.latest
    BY <1>1, RunTypes DEF ChatLogs
  <1>5. ChatRecords'
    BY <1>1, <1>2, <1>3, <1>4 DEF ChatInv, ChatRecords, ChatTypeOK, SendRuns, ChatLogs
  <1>6. RunKnown'
    BY <1>1, <1>2 DEF RunKnown
  <1>7. CardKnown'
    <2>1. CardsAreCurrent'
      BY <1>1, <1>3, <1>4 DEF ChatInv, CardKnown, CardsAreCurrent
    <2> QED BY <1>3, <2>1 DEF CardKnown
  <1>8. ShownKnown'
    BY <1>1, <1>2, <1>4 DEF ChatInv, ShownKnown
  <1> QED BY <1>5, <1>6, <1>7, <1>8 DEF ChatInv

LEMMA ChatKept == ChatInv /\ [ChatNext]_chatVars => ChatInv'
  <1> SUFFICES ASSUME ChatInv, [ChatNext]_chatVars PROVE ChatInv'
    OBVIOUS
  <1>1. ASSUME UNCHANGED chatVars PROVE ChatInv'
    BY <1>1, RunTypes, RestKeeps DEF chatVars
  <1>2. ASSUME RunGivesUp \/ RunReturns PROVE ChatInv'
    <2>1. sendRun.at # "idle" /\ EndRun(sendRun) /\ UNCHANGED <<card, keptCard, awaited, server, chatLog>>
      BY <1>2 DEF RunGivesUp, RunReturns
    <2> QED BY <2>1, EndKeeps
  <1>3. ASSUME BreakOff PROVE ChatInv'
    <2>1. /\ sendRun.at = "streaming" /\ Failed
          /\ UNCHANGED <<card, keptCard, awaited, server, chatLog>>
      BY <1>3 DEF BreakOff, Streams
    <2> QED BY <2>1, FailKeeps
  <1> QED BY <1>1, <1>2, <1>3, SendKeeps, PostKeeps, TryKeeps, StartedKeeps, LastKeeps, RaiseKeeps,
             UserKeeps, NewKeeps, LoadedKeeps DEF ChatNext

(* The run, the card and what is shown in the window belong together,      *)
(* whatever answers come late (useAgentChat.ts).                           *)
THEOREM ChatInvariance == ChatSpec => []ChatInv
  BY InitChat, ChatKept, PTL DEF ChatSpec

LEMMA Coherent == ChatInv => ChatIsCoherent
  BY DEF ChatInv, CardKnown, RunKnown, ShownKnown, ChatIsCoherent, ApprovalReachesAsker, Route,
         ConversationGoesOn

-----------------------------------------------------------------------------
(***************************************************************************)
(* The backend of the desktop shell.                                       *)
(***************************************************************************)

(* What the shell has reported and lost.                                   *)
ShellLogs == [ready : 0..MaxBackends, stray : SUBSET Backends,
         answer : {"none", "running", "started", "stopped"}]

(* A child that is being started is not kept yet, and nothing is kept      *)
(* while one is started or the window is closed; the Ollama that the shell *)
(* runs is kept.                                                           *)
KeptOrStarted ==
  /\ IF start.at = "wait" THEN start.child \in Backends ELSE start.child = 0
  /\ start.at # "none" => python = 0 /\ shellLog.ready = 0 /\ window.open
  /\ ~window.open => python = 0 /\ shellLog.ready = 0 /\ ~ollama.kept
  /\ ollama.own => ollama.kept

(* The backend reported ready is the one kept; on Windows it listens as    *)
(* long as it lives.                                                       *)
OwnOnWindows ==
  shellLog.ready # 0 =>
     /\ python = shellLog.ready
     /\ OnWindows => (Alive(python) => backend[python] = "listening")

ShellInv == ShellTypeOK /\ shellLog \in ShellLogs /\ KeptOrStarted /\ NoneIsLost /\ OwnOnWindows

LEMMA InitShell == ShellInit => ShellInv
  BY ShellAssumption
  DEF ShellInit, ShellInv, ShellTypeOK, ShellLogs, KeptOrStarted, NoneIsLost, OwnOnWindows, Alive,
      NoStart, Backends

(* Killing some of the backends leaves the others as they were.            *)
LEMMA KillTypes ==
  ASSUME ShellTypeOK, NEW S, Kill(S)
  PROVE  /\ backend' \in [Backends -> {"unborn", "loading", "listening", "gone"}]
         /\ \A p \in Backends : backend'[p] = IF p \in S THEN "gone" ELSE backend[p]
         /\ \A p \in Backends : Alive(p)' <=> Alive(p) /\ p \notin S
  <1>1. \A p \in Backends : backend'[p] = IF p \in S THEN "gone" ELSE backend[p]
    BY DEF Kill
  <1>2. backend' \in [Backends -> {"unborn", "loading", "listening", "gone"}]
    BY DEF Kill, ShellTypeOK
  <1> QED BY <1>1, <1>2 DEF Alive, ShellTypeOK

LEMMA BackendNumbers == /\ MaxBackends \in Nat /\ 0 \in 0..MaxBackends /\ 0 \notin Backends
                 /\ \A p \in Backends : p \in 0..MaxBackends
  BY ShellAssumption DEF Backends

LEMMA StartKeeps ==
  ASSUME ShellInv, Launch \/ RestartBackend \/ PortReleased \/ PortChecked \/ BackendStartFails
                   \/ ChildExited \/ Ready \/ NotReady
  PROVE  ShellInv'
  <1> USE BackendNumbers DEF NoStart
  <1>1. CASE Launch
    <2>1. /\ ~window.open /\ window.launches \in 0..MaxLaunches /\ window.launches < MaxLaunches
          /\ MaxLaunches \in Nat
      BY <1>1, ShellAssumption DEF Launch, ShellInv, ShellTypeOK
    <2>2. window' \in [open : BOOLEAN, launches : 0..MaxLaunches] /\ window'.open
      BY <1>1, <2>1 DEF Launch
    <2> QED BY <1>1, <2>1, <2>2
            DEF Launch, ShellInv, ShellTypeOK, KeptOrStarted, NoneIsLost, OwnOnWindows, Alive
  <1>2. CASE RestartBackend
    <2>1. Kill({python}) /\ python' = 0 /\ window' = window /\ ollama' = ollama
          /\ start' = [at |-> "release", child |-> 0] /\ start.child = 0 /\ window.open
          /\ shellLog' = [shellLog EXCEPT !.ready = 0]
      BY <1>2 DEF RestartBackend, ShellInv, KeptOrStarted
    <2>2. shellLog' \in ShellLogs /\ shellLog'.ready = 0 /\ shellLog'.stray = shellLog.stray
      BY <2>1 DEF ShellInv, ShellLogs
    <2>3. ShellTypeOK'
      BY <2>1, <2>2, KillTypes DEF ShellInv, ShellTypeOK, ShellLogs
    <2>4. NoneIsLost'
      BY <2>1, <2>2, KillTypes DEF ShellInv, NoneIsLost
    <2> QED BY <2>1, <2>2, <2>3, <2>4 DEF ShellInv, KeptOrStarted, OwnOnWindows
  <1>3. CASE PortReleased \/ PortChecked
    <2>1. PICK next \in {"check", "spawn"} :
          /\ start.at \in {"release", "check"} /\ start' = [start EXCEPT !.at = next]
          /\ Kill(Listeners) /\ UNCHANGED <<python, window, ollama, shellLog>>
      BY <1>3 DEF PortReleased, PortChecked, FreePort
    <2>2. start' = [at |-> next, child |-> 0] /\ start.child = 0
      BY <2>1 DEF ShellInv, KeptOrStarted, ShellTypeOK
    <2>3. ShellTypeOK'
      BY <2>1, <2>2, KillTypes DEF ShellInv, ShellTypeOK
    <2>4. NoneIsLost'
      BY <2>1, <2>2, KillTypes DEF ShellInv, NoneIsLost
    <2> QED BY <2>1, <2>2, <2>3, <2>4 DEF ShellInv, KeptOrStarted, OwnOnWindows, ShellLogs
  <1>4. CASE BackendStartFails \/ ChildExited
    <2>1. Quit /\ start.at # "none" /\ \A p \in Backends : Alive(p) => p # start.child
      BY <1>4 DEF BackendStartFails, ChildExited, ShellInv, KeptOrStarted, Alive
    <2> QED BY <2>1
            DEF Quit, ShellInv, ShellTypeOK, ShellLogs, KeptOrStarted, NoneIsLost, OwnOnWindows, Alive
  <1>5. CASE Ready
    <2>1. /\ start.child \in Backends /\ python = 0 /\ window.open
          /\ python' = start.child /\ start' = [at |-> "none", child |-> 0]
          /\ shellLog' = [shellLog EXCEPT !.ready = start.child]
          /\ UNCHANGED <<backend, window, ollama>>
          /\ OnWindows => backend[start.child] = "listening"
      BY <1>5 DEF Ready, OwnListener, Listeners, ShellInv, KeptOrStarted
    <2>2. /\ shellLog' \in ShellLogs /\ shellLog'.ready = start.child
          /\ shellLog'.stray = shellLog.stray
      BY <2>1 DEF ShellInv, ShellLogs
    <2>3. ShellTypeOK'
      BY <2>1, <2>2 DEF ShellInv, ShellTypeOK, ShellLogs
    <2> QED BY <2>1, <2>2, <2>3 DEF ShellInv, KeptOrStarted, NoneIsLost, OwnOnWindows, Alive
  <1>6. CASE NotReady
    <2>1. Kill({start.child}) /\ start' = [at |-> "none", child |-> 0] /\ window.open
          /\ UNCHANGED <<python, window, ollama, shellLog>> /\ shellLog.ready = 0
      BY <1>6 DEF NotReady, GiveUpOn, ShellInv, KeptOrStarted
    <2>2. ShellTypeOK'
      BY <2>1, KillTypes DEF ShellInv, ShellTypeOK
    <2>3. NoneIsLost'
      BY <2>1, KillTypes DEF ShellInv, NoneIsLost
    <2> QED BY <2>1, <2>2, <2>3 DEF ShellInv, KeptOrStarted, OwnOnWindows, ShellLogs
  <1> QED BY <1>1, <1>2, <1>3, <1>4, <1>5, <1>6

LEMMA BackendKeeps ==
  ASSUME ShellInv, NEW p \in Backends, Spawn(p) \/ Bind(p) \/ Crash(p)
  PROVE  ShellInv'
  <1> USE BackendNumbers
  <1>1. CASE Spawn(p)
    <2>1. /\ backend' = [backend EXCEPT ![p] = "loading"] /\ start' = [at |-> "wait", child |-> p]
          /\ start.child = 0 /\ start.at # "none" /\ UNCHANGED <<python, window, ollama, shellLog>>
      BY <1>1 DEF Spawn, ShellInv, KeptOrStarted
    <2>2. ShellTypeOK'
      BY <2>1 DEF ShellInv, ShellTypeOK
    <2>3. NoneIsLost'
      BY <2>1 DEF ShellInv, ShellTypeOK, NoneIsLost, Alive
    <2> QED BY <2>1, <2>2, <2>3 DEF ShellInv, KeptOrStarted, OwnOnWindows, ShellLogs
  <1>2. CASE Bind(p)
    <2>1. /\ backend[p] = "loading" /\ UNCHANGED <<python, start, window, ollama, shellLog>>
          /\ backend' = [backend EXCEPT ![p] = IF Listeners = {} THEN "listening" ELSE "gone"]
      BY <1>2 DEF Bind
    <2>2. ShellTypeOK'
      BY <2>1 DEF ShellInv, ShellTypeOK
    <2>3. NoneIsLost'
      BY <2>1 DEF ShellInv, ShellTypeOK, NoneIsLost, Alive
    <2>4. OwnOnWindows'
      BY <2>1 DEF ShellInv, ShellTypeOK, OwnOnWindows, Alive
    <2> QED BY <2>1, <2>2, <2>3, <2>4 DEF ShellInv, KeptOrStarted, ShellLogs
  <1>3. CASE Crash(p)
    <2>1. Alive(p) /\ Kill({p}) /\ UNCHANGED <<python, start, window, ollama, shellLog>>
      BY <1>3 DEF Crash
    <2>2. ShellTypeOK'
      BY <2>1, KillTypes DEF ShellInv, ShellTypeOK
    <2>3. NoneIsLost'
      BY <2>1, KillTypes DEF ShellInv, NoneIsLost
    <2>4. OwnOnWindows'
      <3> SUFFICES ASSUME shellLog.ready # 0
                   PROVE  python = shellLog.ready
                          /\ (OnWindows => (Alive(python)' => backend'[python] = "listening"))
        BY <2>1 DEF OwnOnWindows
      <3>1. python = shellLog.ready /\ python \in Backends
            /\ (OnWindows => (Alive(python) => backend[python] = "listening"))
        BY DEF OwnOnWindows, ShellInv, ShellTypeOK, Backends
      <3> QED BY <2>1, <3>1, KillTypes DEF ShellInv
    <2> QED BY <2>1, <2>2, <2>3, <2>4 DEF ShellInv, KeptOrStarted, ShellLogs
  <1> QED BY <1>1, <1>2, <1>3

LEMMA OllamaKeeps ==
  ASSUME ShellInv, StartOllama \/ StopOllama \/ OllamaChanges
  PROVE  ShellInv'
  <1>1. UNCHANGED <<backend, python, start, window>>
    BY DEF StartOllama, StopOllama, OllamaChanges
  <1>2. /\ ollama' \in [kept : BOOLEAN, own : BOOLEAN, foreign : BOOLEAN]
        /\ ollama'.own => ollama'.kept
        /\ ~window.open => ~ollama'.kept
    <2>1. /\ ollama \in [kept : BOOLEAN, own : BOOLEAN, foreign : BOOLEAN]
          /\ ollama.own => ollama.kept
          /\ ~window.open => ~ollama.kept
      BY DEF ShellInv, ShellTypeOK, KeptOrStarted
    <2>2. CASE StartOllama
      BY <2>1, <2>2 DEF StartOllama
    <2>3. CASE StopOllama
      BY <2>1, <2>3 DEF StopOllama
    <2>4. CASE OllamaChanges
      BY <2>1, <2>4 DEF OllamaChanges
    <2> QED BY <2>2, <2>3, <2>4
  <1>3. /\ shellLog' \in ShellLogs /\ shellLog'.ready = shellLog.ready
        /\ shellLog'.stray = shellLog.stray
    <2>1. PICK x \in {"none", "running", "started", "stopped"} :
            shellLog' = [shellLog EXCEPT !.answer = x]
      BY DEF StartOllama, StopOllama, OllamaChanges
    <2> QED BY <2>1 DEF ShellInv, ShellLogs
  <1> QED BY <1>1, <1>2, <1>3
          DEF ShellInv, ShellTypeOK, KeptOrStarted, NoneIsLost, OwnOnWindows, Alive

LEMMA CloseKeeps == ASSUME ShellInv, CloseWindow PROVE ShellInv'
  <1> USE BackendNumbers DEF NoStart
  <1> DEFINE gone == {p \in {start.child} \ {0} : Alive(p)}
  <1>1. /\ window' = [window EXCEPT !.open = FALSE]
        /\ Kill({python}) /\ python' = 0 /\ start' = [at |-> "none", child |-> 0]
        /\ ollama' = [ollama EXCEPT !.kept = FALSE, !.own = @ /\ ~ollama.kept]
        /\ shellLog' = [ready |-> 0, answer |-> "none", stray |-> shellLog.stray \cup gone]
    BY DEF CloseWindow
  <1>2. window' \in [open : BOOLEAN, launches : 0..MaxLaunches] /\ ~window'.open
    BY <1>1 DEF ShellInv, ShellTypeOK
  <1>3. ollama' \in [kept : BOOLEAN, own : BOOLEAN, foreign : BOOLEAN] /\ ~ollama'.kept /\ ~ollama'.own
    BY <1>1 DEF ShellInv, ShellTypeOK, KeptOrStarted
  <1>4. gone \subseteq Backends /\ \A p \in Backends : Alive(p) /\ p = start.child => p \in gone
    BY DEF ShellInv, KeptOrStarted
  <1> HIDE DEF gone
  <1>5. shellLog' \in ShellLogs /\ shellLog'.ready = 0 /\ shellLog'.stray = shellLog.stray \cup gone
    BY <1>1, <1>4 DEF ShellInv, ShellLogs
  <1>6. ShellTypeOK'
    BY <1>1, <1>2, <1>3, <1>5, KillTypes DEF ShellInv, ShellTypeOK, ShellLogs
  <1>7. NoneIsLost'
    BY <1>1, <1>4, <1>5, KillTypes DEF ShellInv, NoneIsLost
  <1> QED BY <1>1, <1>2, <1>3, <1>5, <1>6, <1>7 DEF ShellInv, KeptOrStarted, OwnOnWindows

LEMMA ShellKept == ShellInv /\ [ShellNext]_shellVars => ShellInv'
  <1>1. UNCHANGED shellVars => (ShellInv => ShellInv')
    BY DEF ShellInv, ShellTypeOK, ShellLogs, KeptOrStarted, NoneIsLost, OwnOnWindows, Alive, shellVars
  <1> QED BY <1>1, StartKeeps, BackendKeeps, OllamaKeeps, CloseKeeps DEF ShellNext

(* No backend the shell started is lost, and the one reported ready is the *)
(* one it keeps (main.rs).                                                 *)
THEOREM ShellInvariance == ShellSpec => []ShellInv
  BY InitShell, ShellKept, PTL DEF ShellSpec

LEMMA Tidy == ShellInv => /\ NothingLeftBehind /\ NoneIsLost
                          /\ OnWindows => ReadyIsOwn
  <1> SUFFICES ASSUME ShellInv PROVE NothingLeftBehind /\ NoneIsLost /\ (OnWindows => ReadyIsOwn)
    OBVIOUS
  <1>1. NoneIsLost /\ (OnWindows => ReadyIsOwn)
    BY DEF ShellInv, OwnOnWindows, ReadyIsOwn
  <1>2. ASSUME ~window.open
        PROVE  ~ollama.own /\ \A p \in Backends : Alive(p) => p \in shellLog.stray
    <2>1. start.at = "none" /\ start.child = 0 /\ python = 0 /\ ~ollama.own
      BY <1>2 DEF ShellInv, KeptOrStarted
    <2> QED BY <2>1, BackendNumbers DEF ShellInv, NoneIsLost
  <1> QED BY <1>1, <1>2 DEF NothingLeftBehind

-----------------------------------------------------------------------------
(***************************************************************************)
(* The types of the raters' files.                                         *)
(***************************************************************************)
Filling == Contents \cup {Unfilled}

LockOf(k) ==
  /\ k \in [rater : Raters, pair : 1..(PairCount + 1), checked : BOOLEAN, records : {k.records}]
  /\ k.records \in [1..(k.pair - 1) -> Filling]
  /\ k.checked => k.pair \in RatedPairs

RatingTyped ==
  /\ published = Void \/ published \in [eligible : SUBSET RatedPairs, technical : BOOLEAN]
  /\ forms \in [Raters -> [RatedPairs -> Filling]]
  /\ protected \subseteq Raters /\ tampered \in BOOLEAN /\ fills \in 0..MaxFills
  /\ locks \in [Raters -> [RatedPairs -> Filling] \cup {Void}]
  /\ locking = Void \/ LockOf(locking)
  /\ selection \in Labels \cup {Void, "blocked"}

LEMMA InitRatingTypes == RatingInit => RatingTyped
  <1> SUFFICES ASSUME RatingInit PROVE RatingTyped
    OBVIOUS
  <1>1. 0 \in 0..MaxFills
    BY RatingAssumption
  <1>2. Unfilled \in Filling
    BY DEF Filling
  <1> HIDE DEF Filling
  <1>3. forms \in [Raters -> [RatedPairs -> Filling]]
    BY <1>2 DEF RatingInit
  <1> QED BY <1>1, <1>3 DEF RatingInit, RatingTyped

(* Whoever wins, the decision is a label or that there is none.            *)
LEMMA DecisionTypes == Decision(forms) \in Labels \cup {"blocked"}
  <1> DEFINE one == CHOOSE l \in Labels : TRUE
             other == CHOOSE l \in Labels : l # one
             winner == IF Wins(forms, one) > Wins(forms, other) THEN one
                       ELSE IF Wins(forms, other) > Wins(forms, one) THEN other
                       ELSE IF Unsupported(forms, one) < Unsupported(forms, other) THEN one
                       ELSE IF Unsupported(forms, other) < Unsupported(forms, one) THEN other
                       ELSE Prior
  <1>1. Prior \in Labels /\ \E l, m \in Labels : l # m
    BY RatingAssumption
  <1>2. one \in Labels /\ other \in Labels
    BY <1>1
  <1>3. winner \in Labels
    <2> HIDE DEF one, other
    <2> QED BY <1>1, <1>2
  <1>4. Decision(forms) = winner \/ Decision(forms) = "blocked"
    BY Zenon DEF Decision
  <1> HIDE DEF winner
  <1> QED BY <1>3, <1>4

LEMMA RatingTypesKept == RatingTyped /\ [RatingNext]_ratingVars => RatingTyped'
  <1> SUFFICES ASSUME RatingTyped, [RatingNext]_ratingVars PROVE RatingTyped'
    OBVIOUS
  <1>0. PairCount \in Nat /\ PairCount >= 1 /\ MaxFills \in Nat /\ RatedPairs = 1..PairCount
    BY RatingAssumption DEF RatedPairs
  <1>1. ASSUME NEW eligible \in SUBSET RatedPairs, NEW technical \in BOOLEAN, Publish(eligible, technical)
        PROVE  RatingTyped'
    <2>1. published' \in [eligible : SUBSET RatedPairs, technical : BOOLEAN]
          /\ UNCHANGED <<forms, protected, locks, locking, tampered, selection, fills>>
      BY <1>1 DEF Publish
    <2> QED BY <2>1 DEF RatingTyped
  <1>2. ASSUME NEW r \in Raters, NEW p \in RatedPairs, NEW content \in Contents, Fill(r, p, content)
        PROVE  RatingTyped'
    <2>1. /\ forms' = [forms EXCEPT ![r][p] = content]
          /\ forms[r][p] # Unfilled => fills < MaxFills
          /\ fills' = IF forms[r][p] = Unfilled THEN fills ELSE fills + 1
          /\ UNCHANGED <<published, protected, locks, locking, tampered, selection>>
      BY <1>2 DEF Fill
    <2>2. content \in Filling /\ forms \in [Raters -> [RatedPairs -> Filling]] /\ fills \in 0..MaxFills
      BY DEF RatingTyped, Filling
    <2>3. fills' \in 0..MaxFills
      BY <1>0, <2>1, <2>2
    <2> HIDE DEF Filling
    <2>4. forms' \in [Raters -> [RatedPairs -> Filling]]
      BY <2>1, <2>2
    <2> QED BY <2>1, <2>3, <2>4 DEF RatingTyped
  <1>3. CASE Tamper \/ LockKilled
    BY <1>3 DEF Tamper, LockKilled, RatingTyped
  <1>4. ASSUME NEW r \in Raters, LockStart(r)
        PROVE  RatingTyped'
    <2>1. /\ locking' = [rater |-> r, pair |-> 1, checked |-> FALSE, records |-> [p \in {} |-> Unfilled]]
          /\ UNCHANGED <<published, forms, protected, locks, tampered, selection, fills>>
      BY <1>4 DEF LockStart
    <2>2. [p \in {} |-> Unfilled] \in [1..0 -> Filling] /\ 1 \in 1..(PairCount + 1) /\ 1 - 1 = 0
      BY <1>0
    <2> HIDE DEF Filling
    <2>3. LockOf(locking')
      BY <2>1, <2>2 DEF LockOf
    <2> QED BY <2>1, <2>3 DEF RatingTyped
  <1>5. CASE LockCheck
    <2>1. /\ LockOf(locking) /\ locking.pair \in RatedPairs
          /\ locking' = [locking EXCEPT !.checked = TRUE] \/ locking' = Void
          /\ UNCHANGED <<published, forms, protected, locks, tampered, selection, fills>>
      BY <1>5 DEF LockCheck, RatingTyped
    <2>2. locking' = Void \/ LockOf(locking')
      BY <2>1 DEF LockOf
    <2> QED BY <2>1, <2>2 DEF RatingTyped
  <1>6. CASE LockRecord
    <2> DEFINE k == locking
               read == [q \in 1..k.pair |-> IF q = k.pair THEN forms[k.rater][k.pair] ELSE k.records[q]]
    <2>1. /\ LockOf(k) /\ k.checked
          /\ locking' = [k EXCEPT !.checked = FALSE, !.pair = k.pair + 1, !.records = read]
          /\ UNCHANGED <<published, forms, protected, locks, tampered, selection, fills>>
      BY <1>6 DEF LockRecord, RatingTyped
    <2>2. /\ k \in [rater : Raters, pair : 1..(PairCount + 1), checked : BOOLEAN, records : {k.records}]
          /\ k.pair \in 1..PairCount /\ k.records \in [1..(k.pair - 1) -> Filling]
      BY <1>0, <2>1 DEF LockOf
    <2>3. k.pair \in Nat /\ k.pair + 1 \in 1..(PairCount + 1) /\ (k.pair + 1) - 1 = k.pair
      BY <1>0, <2>2
    <2>4. read \in [1..k.pair -> Filling]
      <3>1. ASSUME NEW q \in 1..k.pair
            PROVE  read[q] \in Filling
        <4>1. CASE q = k.pair
          <5>1. k.rater \in Raters /\ k.pair \in RatedPairs
            BY <1>0, <2>2
          <5>2. forms[k.rater][k.pair] \in Filling
            BY <5>1 DEF RatingTyped
          <5> QED BY <4>1, <5>2
        <4>2. CASE q # k.pair
          <5>1. q \in 1..(k.pair - 1)
            BY <2>3, <4>2
          <5> HIDE DEF Filling
          <5>2. k.records[q] \in Filling
            BY <2>2, <5>1
          <5> QED BY <4>2, <5>2
        <4> QED BY <4>1, <4>2
      <3> HIDE DEF Filling
      <3> QED BY <3>1
    <2> HIDE DEF read, Filling
    <2>5. LockOf(locking')
      <3>1. /\ locking'.rater = k.rater /\ locking'.pair = k.pair + 1 /\ locking'.checked = FALSE
            /\ locking'.records = read
            /\ locking' \in [rater : Raters, pair : 1..(PairCount + 1), checked : BOOLEAN, records : {read}]
        BY <2>1, <2>2, <2>3
      <3> QED BY <2>3, <2>4, <3>1 DEF LockOf
    <2> QED BY <2>1, <2>5 DEF RatingTyped
  <1>7. CASE LockWrite
    <2>1. /\ LockOf(locking) /\ locking.pair = PairCount + 1
          /\ locks' = [locks EXCEPT ![locking.rater] = locking.records]
          /\ UNCHANGED <<published, forms, protected, locking, tampered, selection, fills>>
      BY <1>7 DEF LockWrite, RatingTyped
    <2>2. locking.rater \in Raters /\ locking.records \in [1..(locking.pair - 1) -> Filling]
      BY <2>1 DEF LockOf
    <2>3. locking.pair - 1 = PairCount
      BY <1>0, <2>1
    <2>4. locking.records \in [RatedPairs -> Filling]
      BY <1>0, <2>2, <2>3
    <2> HIDE DEF Filling
    <2>5. locks' \in [Raters -> [RatedPairs -> Filling] \cup {Void}]
      BY <2>1, <2>4 DEF RatingTyped
    <2> QED BY <2>1, <2>5 DEF RatingTyped
  <1>8. CASE LockProtect
    <2>1. /\ LockOf(locking) /\ protected' = protected \cup {locking.rater} /\ locking' = Void
          /\ UNCHANGED <<published, forms, locks, tampered, selection, fills>>
      BY <1>8 DEF LockProtect, RatingTyped
    <2>2. locking.rater \in Raters
      BY <2>1 DEF LockOf
    <2> QED BY <2>1, <2>2 DEF RatingTyped
  <1>9. CASE Select
    <2>1. /\ selection' = Decision(forms)
          /\ UNCHANGED <<published, forms, protected, locks, locking, tampered, fills>>
      BY <1>9 DEF Select
    <2>2. selection' \in Labels \cup {Void, "blocked"}
      BY <2>1, DecisionTypes
    <2> QED BY <2>1, <2>2 DEF RatingTyped
  <1>10. CASE UNCHANGED ratingVars
    BY <1>10 DEF ratingVars, RatingTyped
  <1> QED BY <1>1, <1>2, <1>3, <1>4, <1>5, <1>6, <1>7, <1>8, <1>9, <1>10 DEF RatingNext

LEMMA RatingTypesHold == RatingTyped => RatingTypeOK
  <1> SUFFICES ASSUME RatingTyped PROVE RatingTypeOK
    OBVIOUS
  <1>1. \A r \in Raters, p \in RatedPairs : forms[r][p] \in Contents \cup {Unfilled}
    BY DEF RatingTyped, Filling
  <1>2. \A r \in Raters : locks[r] = Void \/ DOMAIN locks[r] = RatedPairs
    BY DEF RatingTyped
  <1>3. locking = Void \/ DOMAIN locking.records = 1..(locking.pair - 1)
    BY DEF RatingTyped, LockOf
  <1> QED BY <1>1, <1>2, <1>3 DEF RatingTyped, RatingTypeOK

-----------------------------------------------------------------------------
(***************************************************************************)
(* The parts of the agent share no state: a behaviour of all of them is    *)
(* one of each.                                                            *)
(***************************************************************************)
LEMMA StepsOfTalk ==
  /\ Init => /\ GateInit /\ PolicyInit /\ StreamInit /\ McpInit /\ CompactionInit /\ ChatInit /\ ShellInit
  /\ [Next]_allVars => /\ [GateNext]_gateVars /\ [PolicyNext]_policyVars /\ [StreamNext]_streamVars
                       /\ [McpNext]_mcpVars /\ [CompactionNext]_compactionVars /\ [ChatNext]_chatVars
                       /\ [ShellNext]_shellVars
  <1>1. Init => /\ GateInit /\ PolicyInit /\ StreamInit /\ McpInit /\ CompactionInit /\ ChatInit /\ ShellInit
    BY DEF Init
  <1>2. [Next]_allVars => [GateNext]_gateVars
    BY DEF Next, allVars
  <1>3. [Next]_allVars => [PolicyNext]_policyVars
    BY DEF Next, allVars
  <1>4. [Next]_allVars => [StreamNext]_streamVars
    BY DEF Next, allVars
  <1>5. [Next]_allVars => [McpNext]_mcpVars
    BY DEF Next, allVars
  <1>6. [Next]_allVars => [CompactionNext]_compactionVars
    BY DEF Next, allVars
  <1>7. [Next]_allVars => [ChatNext]_chatVars
    BY DEF Next, allVars
  <1>8. [Next]_allVars => [ShellNext]_shellVars
    BY DEF Next, allVars
  <1> QED BY <1>1, <1>2, <1>3, <1>4, <1>5, <1>6, <1>7, <1>8

LEMMA HasTalk ==
  Spec => /\ GateSpec /\ PolicySpec /\ StreamSpec /\ McpSpec /\ CompactionSpec /\ ChatSpec /\ ShellSpec
  BY StepsOfTalk, PTL DEF Spec, GateSpec, PolicySpec, StreamSpec, McpSpec, CompactionSpec, ChatSpec, ShellSpec

(* A call runs only with the consent it needs, against nobody's denial, as *)
(* it was shown; and the policy allows for a reason, in wider modes no     *)
(* less: for any keys, grants, hooks and questions.                        *)
THEOREM CallsAllowed == Spec => []CallsAreAllowed
  <1>1. RunsWithConsent /\ DenialHolds /\ AllowedIsRun /\ AllowedForReason /\ GateIsNoWider
          /\ WiderModesAllowMore => CallsAreAllowed
    BY DEF CallsAreAllowed
  <1> QED BY <1>1, HasTalk, ConsentIsGiven, DenialsHold, ShownIsRun, PolicyInvariance,
             PolicyAnswers, PTL

(* What reaches the turn loop, the window and the user is what was said:   *)
(* for any pieces of a stream and breaks of its connection, any callers of *)
(* an MCP server, any history, similarity and thresholds of a compaction,  *)
(* any conversations and approvals of the chat, and any launches of the    *)
(* shell - where the owner of the port can be asked for, which the code    *)
(* does on Windows only.                                                   *)
THEOREM TalkStaysFaithful ==
  ASSUME OnWindows
  PROVE  Spec => []TalkIsFaithful
  <1>1. StreamInv /\ McpInv /\ CompactionInv /\ ChatInv /\ ShellInv => TalkIsFaithful
    <2> SUFFICES ASSUME StreamInv, McpInv, CompactionInv, ChatInv, ShellInv PROVE TalkIsFaithful
      OBVIOUS
    <2>1. StreamIsFaithful
      BY Faithful
    <2>2. StartedRight
      BY DEF McpInv
    <2>3. CompactionSound
      BY CompactionIsSound
    <2>4. ChatIsCoherent
      BY Coherent
    <2>5. ShellIsTidy
      BY Tidy DEF ShellIsTidy
    <2> QED BY <2>1, <2>2, <2>3, <2>4, <2>5 DEF TalkIsFaithful
  <1> QED BY <1>1, HasTalk, StreamInvariance, McpInvariance, CompactionInvariance, ChatInvariance,
             ShellInvariance, PTL

(* The state of each part has the type it is meant to have, for all values *)
(* of the constants.                                                       *)
THEOREM PartsAreTyped == Spec => []PartTypesOK
  <1> DEFINE Typed == /\ GateTypeOK /\ SkillTypeOK /\ StoreTypeOK /\ StreamTypeOK /\ McpTypeOK /\ SubTypeOK
                      /\ ConfigTypeOK /\ CompactionTypeOK /\ ChatTypeOK /\ ShellTypeOK /\ RatingTypeOK
                      /\ ScreenTypeOK /\ AnchorTypeOK
  <1>1. Typed => PartTypesOK
    BY DEF PartTypesOK
  <1>2. /\ (SkillInv => SkillTypeOK) /\ (McpInv => McpTypeOK) /\ (ShellInv => ShellTypeOK)
        /\ (StreamInv => StreamTypeOK) /\ (ChatInv => ChatTypeOK) /\ (CompactionInv => CompactionTypeOK)
        /\ (ScreenInv => ScreenTypeOK) /\ (AnchorInv => AnchorTypeOK)
    <2>1. SkillInv => SkillTypeOK
      BY DEF SkillInv
    <2>2. (McpInv => McpTypeOK) /\ (ShellInv => ShellTypeOK)
      BY DEF McpInv, ShellInv
    <2>3. (StreamInv => StreamTypeOK) /\ (ChatInv => ChatTypeOK)
      BY DEF StreamInv, ChatInv, ChatRecords
    <2>4. ScreenInv => ScreenTypeOK
      BY DEF ScreenInv, ScreenTypes
    <2>5. AnchorInv => AnchorTypeOK
      <3> SUFFICES ASSUME AnchorInv PROVE AnchorTypeOK
        OBVIOUS
      <3>1. AnchorTypes
        BY DEF AnchorInv
      <3>2. freeze = MissingFile \/ freeze.cases \in CaseFiles
        BY <3>1 DEF AnchorTypes, Frozen
      <3> QED BY <3>1, <3>2 DEF AnchorTypes, AnchorTypeOK
    <2> QED BY <2>1, <2>2, <2>3, <2>4, <2>5, CompactionTypes
  <1>3. Spec => [](RatingTyped /\ ScreenInv)
    BY StepsOfParts, InitRatingTypes, RatingTypesKept, ScreenBegins, ScreenStep, PTL DEF Spec
  <1>4. Spec => []Typed
    BY <1>2, <1>3, HasTalk, HasParts, GateTypes, SkillInvariance, StoreTypes, StreamInvariance,
       McpInvariance, SubTypes, ConfigTypes, CompactionInvariance, ChatInvariance, ShellInvariance,
       RatingTypesHold, AnchorInvariance, PTL
  <1> HIDE DEF Typed
  <1> QED BY <1>1, <1>4, PTL
===============================================================================
