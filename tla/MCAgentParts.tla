----------------------------- MODULE MCAgentParts -----------------------------
(***************************************************************************)
(* The agent's parts around its turn loop and the evaluation scripts', for *)
(* TLC.  They share no state: a behaviour chooses one of them and the      *)
(* others stand still.                                                     *)
(***************************************************************************)
EXTENDS ToolGate, PolicyRules, SkillProposals, SessionStore, ProviderStream,
        McpPipes, SubAgentRun, ConfigFiles, Compaction,
        AgentChat, DesktopShell, BlindRating, ScreenRun, AnchorRun

CONSTANTS Part,     \* the parts explored
          a, b,     \* texts
          f, g      \* paths

VARIABLE part

-----------------------------------------------------------------------------
(* Values of the constants.                                                *)

HookSays(code, refuses, says, alters) ==
  [kind |-> "exit", exit |-> code, block |-> refuses, perm |-> says, input |-> alters]

(* No hook, hooks of each kind, and two of which the first alters the     *)
(* arguments or lets the call pass.                                        *)
MCHookRuns ==
  LET Alters == HookSays(0, FALSE, None, CHOOSE key \in Keys : TRUE)
      Passes == HookSays(1, FALSE, "allow", None)
      Asks   == HookSays(0, FALSE, "ask", None)
      Alone  == {Alters, [kind |-> "raises"], HookSays(2, FALSE, None, None),
                 HookSays(0, TRUE, "ask", None), HookSays(3, FALSE, "deny", None),
                 HookSays(0, FALSE, None, Invalid)}
  IN  {<<>>, <<Alters, Asks>>, <<Passes, Alters>>} \cup {<<h>> : h \in Alone}

(* Two sessions of one workspace and one of another.                      *)
MCWorkspaceOf ==
  LET Shared == CHOOSE w \in Workspaces : TRUE
      Alone  == CHOOSE x \in Sessions : TRUE
  IN  [x \in Sessions |-> IF x = Alone THEN CHOOSE w \in Workspaces : w # Shared ELSE Shared]

(* The gist of a cluster reads like its texts, and like b.                 *)
MCSimilar == {<<a, a>>, <<b, b>>, <<Gist, Gist>>, <<b, Gist>>, <<Gist, b>>}

MCCallSets ==
  LET Op(does, path) == [op |-> does, path |-> path]
  IN  {<<Op("read", f)>>, <<Op("write", f)>>, <<Op("write", f), Op("other", g)>>}

(* A tie, a win for M2, a win for M1 with an unsupported claim of M1's.    *)
MCContents ==
  LET Filled(p, m1, m2) == [preference |-> p,
                            unsupported |-> [l \in Labels |-> IF l = "M1" THEN m1 ELSE m2]]
  IN  {Filled("M2", 0, 0), Filled("M1", 1, 0), Filled("tie", 0, 1)}

-----------------------------------------------------------------------------
Init ==
  /\ part \in Part
  /\ GateInit /\ PolicyInit /\ SkillInit /\ StoreInit /\ StreamInit
  /\ McpInit /\ SubInit /\ ConfigInit /\ CompactionInit /\ ChatInit /\ ShellInit
  /\ RatingInit /\ ScreenInit /\ AnchorInit

Next ==
  /\ UNCHANGED part
  /\ IF part = "policy" THEN PolicyNext ELSE UNCHANGED policyVars
  /\ IF part = "store" THEN StoreNext ELSE UNCHANGED storeVars
  /\ IF part = "stream" THEN StreamNext ELSE UNCHANGED streamVars
  /\ IF part = "mcp" THEN McpNext ELSE UNCHANGED mcpVars
  /\ IF part = "sub" THEN SubNext ELSE UNCHANGED subVars
  /\ IF part = "compaction" THEN CompactionNext ELSE UNCHANGED compactionVars
  /\ IF part = "shell" THEN ShellNext ELSE UNCHANGED shellVars
  /\ IF part = "anchor run" THEN AnchorNext ELSE UNCHANGED anchorVars
  /\ IF part = "rating" THEN RatingNext ELSE UNCHANGED ratingVars
  /\ IF part = "screen" THEN ScreenNext ELSE UNCHANGED screenVars
  /\ IF part = "skills" THEN SkillNext ELSE UNCHANGED skillVars
  /\ IF part = "config" THEN ConfigNext ELSE UNCHANGED configVars
  /\ IF part = "chat" THEN ChatNext ELSE UNCHANGED chatVars
  /\ IF part = "gate" THEN GateNext ELSE UNCHANGED gateVars

allVars ==
  <<part, gateVars, policyVars, skillVars, storeVars, streamVars, mcpVars, subVars,
    configVars, compactionVars, chatVars, shellVars, ratingVars, screenVars, anchorVars>>

Spec == Init /\ [][Next]_allVars

-----------------------------------------------------------------------------
(* Types of the state: each part's, while it is the one that steps.        *)
PartTypesOK ==
  CASE part = "gate"       -> GateTypeOK
    [] part = "skills"     -> SkillTypeOK
    [] part = "store"      -> StoreTypeOK
    [] part = "stream"     -> StreamTypeOK
    [] part = "mcp"        -> McpTypeOK
    [] part = "sub"        -> SubTypeOK
    [] part = "config"     -> ConfigTypeOK
    [] part = "compaction" -> CompactionTypeOK
    [] part = "chat"       -> ChatTypeOK
    [] part = "shell"      -> ShellTypeOK
    [] part = "rating"     -> RatingTypeOK
    [] part = "screen"     -> ScreenTypeOK
    [] part = "anchor run" -> AnchorTypeOK
    [] OTHER               -> TRUE

(* A tool call runs only as hooks, policy and user allow it: with the      *)
(* consent that was asked for and for the arguments it was given for,      *)
(* against no hook's denial (hooks.py, conversation.py), for a reason the  *)
(* permission policy has, and in each wider mode as well (permissions.py,  *)
(* permission_enforcer.py).                                                *)
CallsAreAllowed ==
  /\ part = "gate"   => RunsWithConsent /\ DenialHolds /\ AllowedIsRun
  /\ part = "policy" => AllowedForReason /\ GateIsNoWider /\ WiderModesAllowMore

(* What the agent's parts keep on disk tells the truth across failures,    *)
(* crashes and side-by-side requests: the rotation chain of the session    *)
(* files, the records of sub-agent runs, proposals and their skills, the   *)
(* two configuration files.                                                *)
RecordsKept ==
  /\ part = "store"  => NewestFirst /\ NewestKept /\ DeletedIsGone
  /\ part = "sub"    => SubRunsRecorded
  /\ part = "skills" => SkillDecisions
  /\ part = "config" => ConfigIsWhole

(* What reaches the turn loop is what was said: a provider's stream over   *)
(* broken connections, the tools of an MCP server over its pipes, a        *)
(* history after its compaction, the chat in the window, whose cards and   *)
(* conversation belong to the session that runs, and the backend the shell *)
(* reports ready.                                                          *)
TalkIsFaithful ==
  /\ part = "stream" => StreamIsFaithful
  /\ part = "mcp" => StartedRight
  /\ part = "compaction" => CompactionSound
  /\ part = "chat" => ChatIsCoherent
  /\ part = "shell" => ShellIsTidy

(* No step takes back what was settled: an old session version does not    *)
(* come to the front, a rotation drops no more than the oldest, a skill    *)
(* the user edited is not replaced, a result of the anchor study is not    *)
(* written twice.                                                          *)
NothingTakenBack ==
  NeverRollsBack /\ OnlyOldestDropped /\ ApprovalSparesEdits /\ ResultsStand

(* The evaluation's results can be relied on: the model was selected by    *)
(* the rule on locked forms, every request is paid once and audited, and   *)
(* a manifest vouches only for what was there before it.                   *)
EvidenceStands ==
  /\ part = "rating" => SelectionByRule
  /\ part = "screen" => SpendingIsAudited
  /\ part = "anchor run" => RunsAreWhole
=============================================================================
