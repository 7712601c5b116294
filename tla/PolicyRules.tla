------------------------------ MODULE PolicyRules ------------------------------
(***************************************************************************)
(* PermissionPolicy.authorize (runtime/permissions.py) and the checks that *)
(* PermissionEnforcer puts in front of it (runtime/permission_enforcer.py).*)
(*                                                                         *)
(* A question is what the two look at: the policy's mode, the mode the     *)
(* tool requires, which kinds of rules match the tool and its subject, the *)
(* override of a hook, and the prompter, if there is one, with its reply.  *)
(* The state is the question last asked and the answers to it.             *)
(***************************************************************************)
EXTENDS Naturals

CONSTANTS AnyMode   \* no question yet

Required == {"read-only", "workspace-write", "danger-full-access"}
Modes    == Required \cup {"prompt", "allow"}

Question == [mode : Modes, required : Required,
             deniedTool : BOOLEAN, denyRule : BOOLEAN, askRule : BOOLEAN, allowRule : BOOLEAN,
             override : {"none", "allow", "deny", "ask"},
             prompter : {"none", "yes", "no", "raises"}]

VARIABLES asked, verdict, check

policyVars == <<asked, verdict, check>>

-----------------------------------------------------------------------------
(* PermissionMode.__lt__: the modes "prompt" and "allow" are above all.    *)
Rank(m) == CASE m = "read-only" -> 0 [] m = "workspace-write" -> 1
             [] m = "danger-full-access" -> 2 [] OTHER -> 99

Covers(m, r) == Rank(m) >= Rank(r)

(* Without a prompter, and when it raises, the tool is denied.             *)
PromptOrDeny(q) == IF q.prompter = "yes" THEN "allow" ELSE "deny"

(* Mutant: allow rules are looked at before ask rules.                     *)
AuthorizeAllowFirst(q) ==
  IF q.deniedTool \/ q.denyRule \/ q.override = "deny" THEN "deny"
  ELSE IF q.allowRule THEN "allow"
  ELSE IF q.override = "ask" \/ q.askRule THEN PromptOrDeny(q)
  ELSE IF q.mode = "allow" \/ (q.mode # "prompt" /\ Covers(q.mode, q.required)) THEN "allow"
  ELSE PromptOrDeny(q)

(* The mode has the last word, when no rule and no hook had it.            *)
ByMode(q) ==
  CASE q.mode = "allow"  -> "allow"
    [] q.mode = "prompt" -> PromptOrDeny(q)
    [] q.mode \in Required /\ Covers(q.mode, q.required) -> "allow"
    [] q.mode = "workspace-write" /\ q.required = "danger-full-access" -> PromptOrDeny(q)
    [] OTHER -> "deny"

Authorize(q) ==
  CASE q.deniedTool \/ q.denyRule \/ q.override = "deny" -> "deny"
    [] ~(q.deniedTool \/ q.denyRule \/ q.override = "deny")
       /\ (q.override = "ask" \/ q.askRule) -> PromptOrDeny(q)
    [] OTHER ->
       IF q.override = "allow"
         THEN IF Covers(q.mode, q.required) THEN "allow" ELSE PromptOrDeny(q)
       ELSE IF q.allowRule THEN "allow" ELSE ByMode(q)

(* Mutant: the check uses the prompter of nobody's request as a yes.        *)
EnforceAsking(q) ==
  q.mode = "prompt" \/ Authorize([q EXCEPT !.override = "none", !.prompter = "yes"]) = "allow"

(* PermissionEnforcer.check: prompt mode is left to the caller; otherwise  *)
(* the policy decides, without a hook's override and without a prompter.   *)
Enforce(q) ==
  q.mode = "prompt" \/ Authorize([q EXCEPT !.override = "none", !.prompter = "none"]) = "allow"

(* check_file_write, for a path inside the workspace or not.               *)
MayWriteFile(mode, inside) ==
  \/ mode \in {"allow", "danger-full-access"}
  \/ mode = "workspace-write" /\ inside

(* Mutant: the workspace mode, too, runs reading commands only.            *)
BashUnlessPrompt(mode, reads) == mode # "prompt"  /\ (mode # "workspace-write" \/ reads)

(* check_bash, for a command that only reads or another.                   *)
MayRunBash(mode, reads) == mode # "prompt" /\ (mode = "read-only" => reads)

-----------------------------------------------------------------------------
PolicyInit == asked = AnyMode /\ verdict = "deny" /\ check = FALSE

Ask(q) == asked = AnyMode /\ asked' = q /\ verdict' = Authorize(q) /\ check' = Enforce(q)

PolicyNext == \E q \in Question : Ask(q)

PolicySpec == PolicyInit /\ [][PolicyNext]_policyVars

-----------------------------------------------------------------------------
(* What is allowed is allowed by somebody who may: no rule, list or hook   *)
(* against it; if a rule or a hook wants it to be asked for, the user said *)
(* yes; and if it needs more than the mode gives, a rule for it or a yes.  *)
AllowedForReason ==
  asked # AnyMode /\ verdict = "allow" =>
    /\ ~asked.deniedTool /\ ~asked.denyRule /\ asked.override # "deny"
    /\ asked.askRule \/ asked.override = "ask" => asked.prompter = "yes"
    /\ ~Covers(asked.mode, asked.required) =>
         asked.prompter = "yes" \/ (asked.allowRule /\ asked.override = "none")

(* What the gate lets through without asking, the policy does not refuse   *)
(* once there is somebody to ask, or a hook that allows it.  (But for a    *)
(* tool beyond the mode that has an allow rule: with the override of a     *)
(* hook, the rule is not looked at.)                                       *)
GateIsNoWider ==
  asked # AnyMode /\ check /\ asked.mode # "prompt"
    /\ (asked.override = "none" \/ (asked.override = "allow" /\ ~asked.allowRule))
    => verdict = "allow"

(* A wider mode takes nothing away: what a policy allows, and what the     *)
(* enforcer's checks of files and commands let through, they allow in each *)
(* mode that covers it, as long as that mode does not ask for everything.  *)
WiderModesAllowMore ==
  \A mode \in Modes \ {"prompt"} :
    asked # AnyMode /\ asked.mode # "prompt" /\ Covers(mode, asked.mode) =>
      /\ verdict = "allow" => Authorize([asked EXCEPT !.mode = mode]) = "allow"
      /\ check => Enforce([asked EXCEPT !.mode = mode])
      /\ \A yes \in BOOLEAN :
           /\ MayWriteFile(asked.mode, yes) => MayWriteFile(mode, yes)
           /\ MayRunBash(asked.mode, yes) => MayRunBash(mode, yes)
=============================================================================
