------------------------------- MODULE ToolGate -------------------------------
(***************************************************************************)
(* What stands between a tool call of the model and its execution: the     *)
(* PreToolUse hooks (HookRunner.run), the permission policy and the        *)
(* approval by the user, with the approvals that hold for a session.       *)
(*                                                                         *)
(* A call is known by its approval key (_approval_key: the tool and, by    *)
(* its scope, the path, the domain or the exact arguments).  A hook may    *)
(* replace the arguments, hence the key.  A grant is the token of one      *)
(* opening of the project; a request without one has the grant NoGrant.    *)
(***************************************************************************)
EXTENDS Naturals, Sequences

CONSTANTS
  Keys,         \* approval keys
  Grants,       \* tokens of openings of the project
  NoGrant,      \* the request came without one
  None,         \* no override, no new input, no answer
  Invalid,      \* an updated input that is not an object
  HookRuns,     \* bound: sequences of what the registered hooks do at a call
  MaxRuntimes   \* bound: requests, each with a runtime of its own

VARIABLES
  approvals,    \* session.meta.session_approvals
  memory,       \* _session_approved_actions of the runtime
  grant,        \* workspace_grant of the runtime
  runtimes,     \* number of runtimes so far
  step,         \* "idle", "awaiting" an approval, "ran", "refused"
  call,         \* the call at hand
  yesHere,      \* history: keys the user allowed for the session, to this runtime
  yes           \* history: [key, grant] the user allowed for the session

gateVars == <<approvals, memory, grant, runtimes, step, call, yesHere, yes>>

-----------------------------------------------------------------------------
(* Hooks.  A hook raises, runs out of time, or ends: with an exit code and *)
(* JSON that may block, override the permission and replace the input.     *)
HookRun == [kind : {"raises", "timeout"}]
             \cup [kind : {"exit"}, exit : 0..3, block : BOOLEAN,
                   perm : {None, "allow", "deny", "ask"}, input : Keys \cup {None, Invalid}]

ASSUME GateAssumption ==
  /\ HookRuns \subseteq Seq(HookRun)
  /\ None \notin {"allow", "deny", "ask"} \cup Keys /\ Invalid \notin Keys
  /\ NoGrant \notin Grants
  /\ MaxRuntimes \in Nat

Answer(d, o, i) == [decision |-> d, override |-> o, input |-> i]

(* Mutant: a hook that raises or runs out of time is as good as none.      *)
HookAnswerOpen(h) ==
  IF h.kind # "exit" THEN Answer("allow", None, None)
  ELSE CASE h.exit = 2 -> Answer("deny", None, None)
         [] h.exit = 3 -> Answer("ask", None, None)
         [] OTHER      -> Answer(IF h.block THEN "deny" ELSE "allow", h.perm, h.input)

(* _execute_hook and _parse_shell_hook_output, before a tool.              *)
HookAnswer(h) ==
  IF h.kind # "exit" THEN Answer("deny", None, None)
  ELSE CASE h.exit = 2 -> Answer("deny", None, None)
         [] h.exit = 3 -> Answer("ask", None, None)
         [] OTHER      -> Answer(IF h.block THEN "deny" ELSE "allow", h.perm, h.input)

(* An override other than "allow" comes before the decision.               *)
HookVerdict(a) == IF a.override \in {"deny", "ask"} THEN a.override ELSE a.decision

(* Hooks run in the order of their priorities, up to the first that denies *)
(* or asks.                                                                *)
Consulted(hs) ==
  {n \in DOMAIN hs : \A m \in 1..(n - 1) : HookVerdict(HookAnswer(hs[m])) = "allow"}

RunVerdict(hs) ==
  IF \A n \in DOMAIN hs : HookVerdict(HookAnswer(hs[n])) = "allow" THEN "allow"
  ELSE LET n == CHOOSE n \in Consulted(hs) : HookVerdict(HookAnswer(hs[n])) # "allow"
       IN  HookVerdict(HookAnswer(hs[n]))

(* The last of the inputs they set, the deciding hook's included.          *)
RunInput(hs) ==
  LET setters == {n \in Consulted(hs) : HookAnswer(hs[n]).input # None}
  IN  IF setters = {} THEN None
      ELSE HookAnswer(hs[CHOOSE n \in setters : \A m \in setters : m <= n]).input

-----------------------------------------------------------------------------
NoCall == [hooks |-> <<>>, shown |-> None, args |-> None, wanted |-> FALSE,
           allowed |-> TRUE, reply |-> None]

GateInit ==
  /\ approvals = {} /\ memory = {}
  /\ grant = NoGrant /\ runtimes = 0
  /\ step = "idle" /\ call = NoCall
  /\ yesHere = {} /\ yes = {}

(* has_session_approval: none without a grant.                             *)
SessionApproval(k) == grant # NoGrant /\ [key |-> k, grant |-> grant] \in approvals

(* Mutant: an approval for the session is looked up by its key alone.      *)
ApprovedAnyGrant(k) == k \in memory \/ \E a \in approvals : a.key = k

Approved(k) == k \in memory \/ SessionApproval(k)

(* Mutant: the key is made of the arguments as the model gave them.        *)
ApprovalKeyOriginal(k, hs) == k

(* The arguments as the hooks left them: they are what is executed.        *)
ApprovalKey(k, hs) == IF RunInput(hs) = None THEN k ELSE RunInput(hs)

(* _execute_tool up to the approval.  needs: the tool requires approval    *)
(* (and auto_approve is off); fits: the policy's mode covers the tool.     *)
ProposeCall(k, hs) ==
  /\ runtimes > 0 /\ step # "awaiting"
  /\ LET input   == RunInput(hs)
         args    == IF input = None THEN k ELSE input
         key     == ApprovalKey(k, hs)
         verdict == RunVerdict(hs)
     IN \E needs, fits \in BOOLEAN :
       LET wanted == verdict = "ask" \/ needs
       IN  /\ call' = [hooks |-> hs, shown |-> key, args |-> args,
                       wanted |-> wanted, allowed |-> fits, reply |-> None]
           /\ step' = IF args = Invalid \/ verdict = "deny" \/ ~fits THEN "refused"
                      ELSE IF wanted /\ ~Approved(key) THEN "awaiting"
                      ELSE "ran"
  /\ UNCHANGED <<approvals, memory, grant, runtimes, yesHere, yes>>

(* The user's reply; allow_session is kept in the runtime and, under a     *)
(* grant, in the session, where it takes the place of one for this key.    *)
Reply(r) ==
  /\ step = "awaiting"
  /\ call' = [call EXCEPT !.reply = r]
  /\ step' = IF r = "deny" THEN "refused" ELSE "ran"
  /\ LET k == call.shown
         entry == [key |-> k, grant |-> grant]
     IN  IF r = "allow_session"
         THEN /\ memory' = memory \cup {k} /\ yesHere' = yesHere \cup {k}
              /\ yes' = yes \cup {entry}
              /\ approvals' = IF grant = NoGrant THEN approvals
                              ELSE {a \in approvals : a.key # k} \cup {entry}
         ELSE UNCHANGED <<memory, yesHere, yes, approvals>>
  /\ UNCHANGED <<grant, runtimes>>

(* The approval times out, or the session is aborted.                      *)
NoReply ==
  /\ step = "awaiting"
  /\ step' = "refused"
  /\ UNCHANGED <<approvals, memory, grant, runtimes, call, yesHere, yes>>

(* The next request, perhaps after the project was opened again or the     *)
(* process restarted: a new runtime for the session as it was saved.  A    *)
(* save that failed has lost the last approvals.                           *)
NextRuntime(g) ==
  /\ runtimes < MaxRuntimes
  /\ runtimes' = runtimes + 1
  /\ grant' = g
  /\ memory' = {} /\ yesHere' = {}
  /\ \E kept \in SUBSET approvals : approvals' = kept
  /\ step' = "idle" /\ call' = NoCall
  /\ UNCHANGED yes

GateNext ==
  \/ \E k \in Keys, hs \in HookRuns : ProposeCall(k, hs)
  \/ \E r \in {"allow_once", "allow_session", "deny"} : Reply(r)
  \/ NoReply
  \/ \E g \in Grants \cup {NoGrant} : NextRuntime(g)

GateSpec == GateInit /\ [][GateNext]_gateVars

-----------------------------------------------------------------------------
(* Types of the state.                                                     *)
GateTypeOK ==
  /\ approvals \subseteq [key : Keys, grant : Grants]
  /\ memory \subseteq Keys
  /\ grant \in Grants \cup {NoGrant}
  /\ runtimes \in 0..MaxRuntimes
  /\ step \in {"idle", "awaiting", "ran", "refused"}

(* What ran although a hook or the tool asked for the user's consent has   *)
(* it: for this call, or for the session, given to this runtime or under   *)
(* this very opening of the project.                                       *)
RunsWithConsent ==
  step = "ran" /\ call.wanted =>
    \/ call.reply \in {"allow_once", "allow_session"}
    \/ call.args \in yesHere
    \/ grant # NoGrant /\ [key |-> call.args, grant |-> grant] \in yes

(* Nothing runs against a hook that was asked and said no, in whatever     *)
(* way: by its exit code, its JSON, by raising or by not answering.  (A    *)
(* hook that blocks and asks in one answer asks.)                          *)
DenialHolds ==
  step = "ran" =>
    /\ call.allowed
    /\ \A n \in Consulted(call.hooks) :
         LET h == call.hooks[n] IN
           /\ h.kind = "exit" /\ h.exit # 2
           /\ h.exit = 3 \/ (h.perm # "deny" /\ (h.block => h.perm = "ask"))

(* What the user allowed is what is executed, whatever the hooks made of   *)
(* the arguments before.                                                   *)
AllowedIsRun == step = "ran" /\ call.reply # None => call.args = call.shown

(* "other=fail": a hook that ends with an exit code it has no meaning for  *)
(* has failed, and hooks before a tool fail closed.                        *)
FailedHookStops ==
  step = "ran" => \A n \in Consulted(call.hooks) :
                    call.hooks[n].kind = "exit" => call.hooks[n].exit \in {0, 2, 3}
=============================================================================
