SPECIFICATION Spec
CONSTANTS
  Part = {"blocks", "rag", "projects", "library", "packing", "pages", "glossary",
          "citation", "edit", "exports", "graph", "ledger", "review", "anchor",
          "runner", "calls", "view"}
  j1 = j1
  j2 = j2
  j3 = j3
  w1 = w1
  w2 = w2
  w3 = w3
  n1 = n1
  n2 = n2
  tx = tx
  ty = ty
  k1 = k1
  k2 = k2
  wa = wa
  wb = wb
  wc = wc
  \* BlockResults
  Sizes <- MCSizes
  Plain <- MCPlain
  Severe = 5
  MaxDocRuns = 2
  MaxBlockRetries = 2
  \* RagStore
  Jobs = {j1, j2, j3}
  Documents = {d1, d2}
  Translations = {t}
  Length <- MCLength
  MaxIngests = 2
  \* ProjectFiles: creation
  Creators = {r1, r2}
  RecentTasks = {q1}
  Directories = {p1, p2}
  Empty = Empty
  MaxRecent = 2
  MaxRemovals = 1
  \* ProjectFiles: sources
  Workers = {w1, w2, w3}
  NoSource = NoSource
  NameOf <- MCNameOf
  MaxExports = 1
  \* ChunkPacking
  Sentences <- MCSentences
  BlockLengths = {1, 2, 3, 7}
  MaxChars = 6
  Overlaps = {0, 3}
  RecursionLimit = 4
  MaxItems = 4
  \* PageExtraction
  Pdfs <- MCPdfs
  MaxNative = 4
  ScannedBelow = 2
  MinRecognized = 2
  \* GlossaryTerms
  Terms = {1, 2}
  Targets = {tx, ty}
  Replacements <- MCReplacements
  Malformed = Malformed
  NoTerm = NoTerm
  PromptSize = 1
  MaxPuts = 1
  \* CitationFlow
  PaperCount = 2
  Broken = {1}
  CiteKeys = {k1, k2}
  CiteKeyOf <- MCCiteKeyOf
  PageLimit = 1
  NoPaper = NoPaper
  MaxWords = 3
  \* EditorAssist
  Tabs = {ta, tb}
  Output = Output
  Notice = Notice
  NoEdit = NoEdit
  MaxCells = 3
  MaxTokens = 2
  MaxEdits = 1
  Exports = {e1, e2}
  NoExport = NoExport
  Expiry = 2
  Period = 1
  MaxAge = 4
  \* ArgumentGraph
  NodeIds = {n1, n2}
  EdgeIds = {e1, e2}
  NodeTypes = {"claim", "grounds", "rebuttal"}
  NoGraph = NoGraph
  \* PromiseLedger
  Builds = {b1, b2}
  Manual = {m}
  NoLedger = NoLedger
  \* ReviewSessions
  Reviews = {v1, v2}
  Rebuttals = {a1, a2}
  Perspectives <- MCPerspectives
  Disputed = {"writing"}
  \* TextAnchors
  TextWords = {wa, wb, wc}
  Drafts <- MCDrafts
  MaxTextEdits = 2
  NoPlace = NoPlace
  ContextSize = 2
  MinStrength = 2
  MaxGap = 3
  FuzzyPercent = 62
  ContextPercent = 40
  CombinedPercent = 68
  MaxTextWords = 4
  \* ChunkRunner
  N = 5
  Concurrency = 2
  \* ModelCalls
  Threads <- MCThreads
  KindsOf <- MCKindsOf
  LimiterKeys = {"k1", "k2"}
  KeyOf <- MCKeyOf
  Nobody = Nobody
  MaxEntries = 1
  MaxRetries = 1
  Interval = 1
  \* TranslateView
  Files = {f1, f2}
  Parts = {1}
  Blankness = Blankness
  StoredBefore = f1
  MaxReconnects = 1
  MaxDrops = 2
CHECK_DEADLOCK FALSE
INVARIANTS PartTypesOK StoresAgree TextInPlace NotesFitTheText ChunksInOrder RequestsSpaced
PROPERTIES TermsAreAuthoritative
