SPECIFICATION Spec
CONSTANTS
  Part = {"gate", "policy", "skills", "store", "stream", "mcp", "sub", "config", "compaction", "chat",
          "shell", "rating", "screen", "anchor run"}
  a = a
  b = b
  f = f
  g = g
  \* ToolGate
  Keys = {k1, k2}
  Grants = {g1, g2}
  NoGrant = NoGrant
  None = None
  Invalid = Invalid
  HookRuns <- MCHookRuns
  MaxRuntimes = 2
  \* PolicyRules
  AnyMode = AnyMode
  \* SkillProposals
  Skills = {s}
  Documents = {d1, d2, d3}
  Sessions = {s1, s2, s3}
  Workspaces = {w1, w2}
  WorkspaceOf <- MCWorkspaceOf
  NoDocument = NoDocument
  MaxProposals = 2
  MaxUserEdits = 1
  \* SessionStore
  MaxRotated = 3
  MaxSaves = 6
  \* ProviderStream
  MaxIndex = 1
  MaxLines = 4
  \* McpPipes
  Callers = {c1, c2}
  Startup = Startup
  Nothing = Nothing
  MaxCalls = 2
  \* SubAgentRun
  Runs = {r1, r2}
  NoFile = NoFile
  \* ConfigFiles
  Savers = {t1, t2}
  Settings = {x, y}
  BadSettings = {y}
  ApiKeys = {k}
  Blank = Blank
  Masked = Masked
  NotSent = NotSent
  EnvKey = Blank
  NoConfig = NoConfig
  MaxTemplates = 3
  \* Compaction
  Texts = {a, b}
  NoText = NoText
  Gist = Gist
  Similar <- MCSimilar
  CallSets <- MCCallSets
  CollapseAt = 2
  ClusterMin = 2
  KeepLast = 2
  Threshold = 3
  MaxMessages = 4
  \* AgentChat
  Conversations = {s1, s2}
  Saved = {s1}
  Events = {e1, e2}
  Unset = Unset
  MaxSends = 2
  \* DesktopShell
  OnWindows = TRUE
  MaxBackends = 3
  MaxLaunches = 2
  \* BlindRating
  PairCount = 2
  Raters = {A, B}
  Labels = {"M1", "M2"}
  Prior = "M2"
  Void = Void
  MinPairs = 1
  MaxFills = 1
  Contents <- MCContents
  \* ScreenRun
  PairsPlanned = 2
  MinSlots = 1
  MinCommon = 1
  Versions = {v}
  NoReport = NoReport
  MaxCommands = 2
  \* AnchorRun
  MissingFile = MissingFile
  MaxEdits = 2
  MaxRuns = 5
CHECK_DEADLOCK FALSE
INVARIANTS PartTypesOK CallsAreAllowed RecordsKept TalkIsFaithful EvidenceStands
PROPERTIES NothingTakenBack
