# Scholar Assistant: specifications

TLA+ specifications of Scholar Assistant (`src/`): the writing Agent's runtime, which edits
the user's files and can undo what it did; the translation service; the parts around both,
in the server, the window and the desktop shell; and the scripts of its evaluation. TLC
checks them on small instances, TLAPS proves the theorems in the `*Proofs` modules for all
values of the constants.

Contents: [the system](#the-system), [modules](#modules-and-the-code), [runs](#runs),
[what the code does not keep](#what-the-code-does-not-keep), [proofs](#proofs),
[not modelled](#not-modelled), [plan](#plan).

## The system

A Vue window, in a Tauri shell or a browser, talks HTTP and server-sent events to one
Python process (FastAPI, one event loop). Work that blocks runs in worker threads; plain
(`def`) endpoints run in a thread pool. Nothing is shared with other processes except files:
the workspace's documents, which the user's editor and other programs write as well, and
the process's own data. The evaluation's scripts are commands that share only their files.

| Part | State | Operations | Hard because | Modules |
|---|---|---|---|---|
| Edit journal, Undo `conversation.py`, `session.py`, `router.py` | records with pre- and post-images; editor snapshots | check, approve, capture, write, read back, record, save, undo | three writers of one file; crash between write, record and save | `MutationJournal` |
| Session pool `agent_v2/router.py` | session id to runtime | chat, resume, approve, abort, delete, clean-up | entries are popped by id, whoever put them there | `SessionPool` |
| Turn loop `conversation.py` | flags, counters, pending actions, the session | `turn`, `_llm_turn`, `_execute_tool`, `abort` | aborts, leases and retries fall in any await | `AgentTurn`, `TurnLifecycle` |
| Session files `session.py`, `atomic_io.py` | JSONL file, rotations `.1` to `.3` | save, rotate, load, delete | a crash between any two renames | `SessionStore` |
| Hooks, approvals, grants `hooks.py`, `conversation.py` | a call on its way; grants of the session | run hooks, ask, approve | precedence; a hook that alters the arguments | `ToolGate` |
| Permissions `permissions.py`, `permission_enforcer.py` | rules and mode | `authorize`, checks of files and commands | precedence of rules, modes, overrides | `PolicyRules` |
| Compaction `compact.py`, `trident.py` | the history | supersede, collapse, cluster, summarise | every stage renumbers what it leaves | `Compaction` |
| Providers `providers/` | a stream | lines to pieces and one response | broken streams, fragments out of order, a fallback client | `ProviderStream` |
| Sub-agents | a session file of their own | run, record the outcome | time-out against cancellation | `SubAgentRun` |
| Skill learning `skill_learning.py` | SKILL.md files, proposals | review, propose, decide | the user edits the same files | `SkillProposals` |
| MCP servers `mcp/manager.py` | child process, two pipes | start, call, dispose | answers late on a shared pipe | `McpPipes` |
| Chat in the window `useAgentChat.ts` | module-level refs | send, events, cards, load, abort | answers of an earlier conversation | `AgentChat` |
| Configuration `utils/config.py`, `routers/config.py` | two files and a cache | load, save, PUT | masked keys, crash between two files | `ConfigFiles` |
| Desktop shell `src-tauri/src/main.rs` | child processes | start, restart, wait, close | a listener that is not its own | `DesktopShell` |
| Translation tasks `routers/translate.py` | the `tasks` dict | upload, connect, clean-up | one slot, given back by a finally clause | `TranslateTasks` |
| Chunk runners `block_translator.py`, `parallel_runner.py` | results by chunk | translate in parallel, yield in order | out-of-order ends, exceptions, close | `ChunkRunner` |
| Model calls `cloud_client.py`, `ollama_client.py`, `llm_client.py` | limiters by key | wait, attempt, retry, fall back | eviction while a caller waits | `ModelCalls`, `ChunkCalls` |
| Block results, memory | texts, counters, output, memory | pipeline, `retry_block` | a failure between two of the stores | `BlockResults` |
| Glossary | terms, suggestions | import, PUT, prompt, check, learn | replaced item by item during translations | `GlossaryTerms` |
| Parsing `parser/`, chunking `chunker/` | none | pages to text; text to chunks | boundaries; fallbacks per page | `PageExtraction`, `ChunkPacking` |
| RAG store `routers/rag.py` | collection, index, file | upload, delete, ingest | two ingestions of a document | `RagStore` |
| Argument graph `argument/` | graph and its file | edit, extract, critique, flatten | edits while the model is asked | `ArgumentGraph` |
| Companion `argument/` | ledger, sessions, rebuttals, anchors | build, review, reply, relocate | user edits beside builds; moved text | `PromiseLedger`, `ReviewSessions`, `TextAnchors` |
| Projects, sources `routers/project.py` | directories, manifests, list | create, import, delete, export | threads without a lock | `ProjectFiles` |
| Editor `editor.py`, `MonacoEditor.vue` | tabs, Word exports | AI edit, undo, export, reap | the text changes under the edit | `EditorAssist` |
| Translation in the window `useTranslate.ts` | one reactive state | drop, reset, stream, retry, restore | late events of an earlier task | `TranslateView` |
| Citations, Zotero | index; pages of a library | fetch, number, replace | probe against request | `CitationFlow` |
| Reviewer validation `methods/reviewer_validation` | forms, locks, audit, manifests | rate, select, run, score | forms change between two reads; paid requests | `BlindRating`, `ScreenRun`, `AnchorRun` |

How they interact: the turn loop asks a provider, sends each call through `ToolGate` and
`PolicyRules`, journals what the tools write, and saves through `SessionStore`; the pool
maps requests to runtimes; the window's chat sees all that only as events. A translation
goes from pages to chunks to `ChunkRunner`, whose threads call `ModelCalls`; what comes
back becomes `BlockResults`, learned terms and a document in `RagStore`.

What makes the core correct:

- *turn loop*: every call of the model gets one result; what stops the tools stops them;
  COMPLETE means that every failed file mutation was made good; the turn ends unless its tools
  report something new for ever; the state a session reports is one its turn reached.
- *journal*: what the Agent wrote is recorded; the journal on disk only grows; a write never
  replaces text the editor does not know of; undo restores what the turn found and replaces
  nothing the turn did not write; a turn is undone as a whole.
- *pool*: approve and abort reach the runtime that streams; no session stays active for
  ever; a save wipes out nobody's turn.
- *gate*: nothing runs without the consent that was asked, against a hook's denial, or with
  other arguments than those shown.
- *files*: a load finds the last save; what several stores say of one thing agrees.
- *translation*: one task has the slot and it comes back; results come in order, all of
  them, with bounded concurrency; no text is lost or doubled on its way.

## Modules and the code

Every `await` (or `yield` to a client) of a coroutine that lies between two accesses to
shared state is a step boundary; code between two of them is one action, with the saves it
makes. `asyncio` locks whose bodies contain no `await` add no boundary. In code that runs in
threads each access to a shared file or dict is a step. `PROJECT.json` ("map") gives the
lines of each definition. Many modules hold further `Mutant:` operators, plausible errors
of the code next to the definition they would replace.

### The core

**`MutationJournal`**: one session's file mutations. `disk` is the workspace, `snap` the
hashes the editor sent (`_editor_files`), `journal` the runtime's records, `saved` those in
the session file, `tool` the mutation in flight. A hash is the content itself. The actions
follow `_execute_tool`: `Propose` (already applied? conflict? approved for the session?),
`Approve`/`Deny`, `Capture`, `Execute`, `RecordMutation`, `Report`, `Advance`; `ExecuteFails`
and `Detach` are the calls that fail or are cancelled, the latter leaving a thread that
still writes (`ThreadWrite`). `UndoSucceeds`, `UndoDiverges`, `UndoFails` and `UndoCrashes`
are the outcomes of `undo_last_turn`. `UserEdit`, `Crash` and `Abort` may come between any
two steps, and any save may fail (`AutoSave`), for errors are only logged.

**`SessionPool`**: the pool entry of one session and the runtimes that requests make for
it, from the request (`opened`, `resuming`) through the stream to its end; a stream whose
client is gone before it begins runs no finally clause (`leaked`). The session's content is
the set of runtimes whose turn it records, so that a lost turn shows.

**`TurnLifecycle`, `AgentTurn`**: the first is what a session promises about `meta.state`.
The second is the turn loop: `phase` is the await the coroutine is in, `mem` and `saved` are
the session with its open calls and pending actions. Model and tools answer anything; a report
of a tool is one the turn has had (`Repeats`), or new (`Succeeds`), which renews the lease and the stall
count. A tick of the lease is one awaited operation. `AgentTurn` implements `TurnLifecycle` under the
mapping of `Lifecycle`: between turns the reported state is what `Session.load` makes of
the file.

**`TranslateTasks`**: the `tasks` dict in its order (`listed`), statuses, ages in the
classes expiry distinguishes (30 s, 30 min), and the pipelines each task's connections
started: `opened` (slot acquired, stream not begun), `working`, `ending` (status set, the
last event and the finally clause to come). `Cleaned` is `_cleanup_tasks`.

**`ChunkRunner`**: `translate_block_chunks_parallel`, a task per chunk under a semaphore,
the generator's `Wake`, `Yield`, `Pull`, `Loop`, and `Close` when its consumer is gone, which
cancels tasks but not threads (`ThreadEnds`). `parallel_runner.py` has the same loop.

**`ModelCalls`, `ChunkCalls`**: a call with its limiter (by key, evicted when there are too
many), attempts, statuses, back-offs and fallbacks; time is relative. `ChunkCalls` joins the
two: the runner's thread for chunk `c` is caller `c`. The runner alone assumes that threads
return; the composition, which assumes only that a thread goes on, implements it with that
assumption (`ImplementsRunner`).

### The parts around the Agent

`SessionStore` has one file operation per step, each of which may fail or be the last before a
crash; versions are numbers. `ToolGate` follows one call from the model to its execution, with
the hooks' exits and answers and what they merge to (`HookRun`), over several runtimes of a
session. `PolicyRules` has no behaviour of its own: its state is a question and the answers,
and the initial states and steps run through all of them. `ProviderStream` reads one line at a
time and keeps what was shown apart from the response. `SubAgentRun` has the model's answer,
time-out, cancellation and saves meet in any order. `SkillProposals` takes a document for its
hash. A review looks for the skill's file, compares it and stores a proposal of its workspace; a
decision checks the file, writes it and marks the proposal; the steps of one of them follow each
other on the event loop, and the user's editor saves between any two (`hand` is the one under way). `McpPipes` has the two pipes as sequences of ids. `Compaction` keeps, with each message,
which positions of the original history it stands for; a result may read like an operation
(`_path_from_output`). `AgentChat` and `DesktopShell` are the
window's chat and the shell's processes: every answer of the server or of the system may come
late. `ConfigFiles` splits a PUT at each file it reads or writes.

### The parts around a document

`PageExtraction` and `ChunkPacking` are loops over pages, sentences and blocks; a word is a
run of text with its place, a sentence a sequence of pieces with lengths. `BlockResults` follows a
document's runs and retries through block states, counters, output file and memory.
`GlossaryTerms` has a PUT beside one chunk's prompt, translation and check. `RagStore` has one
operation on collection, index or file per step. `ProjectFiles` has two independent parts:
creation, in a thread per request, with the list of recent projects read and written back
(`WriteBack`) and a user who removes directories meanwhile; and the source library, whose imports
hold the event loop while exports and translations come in between, and where sources of one
name share the file of their translation. `CitationFlow`, `ArgumentGraph`, `PromiseLedger`,
`ReviewSessions` and `TextAnchors` follow the modules of the same purpose; the model answers
anything of a small set. `EditorAssist` keeps, for each cell of a text, whether it was
selected, so that what an edit removes can be told apart. `TranslateView` has a call of
`translate()` per dropped file, each at one of its awaits, over one shared state.

### The evaluation's scripts

`BlindRating` (forms, locks, selection), `ScreenRun` (the paid run and its audit) and
`AnchorRun` (generate, freeze, run, score): commands that read and write several files and
may die between any two, with people editing the inputs.

### Composites

The core modules do not share variables. They meet at abstractions: `MutationJournal` assumes
one runtime per session and leaves two of them to `SessionPool`; `AgentTurn` takes a mutation
for one call with an outcome; `TranslateTasks` takes a pipeline for one stage.

`ListFilter` has two operators that many modules share: `Kept`, a list without the elements
that are taken out, as Python's comprehensions keep them (the pending actions of a turn, the `tasks`
dict, the list of recent projects, the blocks of a response, the messages of a history, citations,
captions, the context of an anchor), and `SumOf`, the sum of a list (the length of a chunk).

`MCAgentParts` and `MCDocumentParts` check the other modules. Their parts share no state either, so a
behaviour chooses one (`part`) and the others stand still at their initial state: the reachable
states are the sum of the parts', not the product, and an invariant of the composite is
the conjunction of the parts' invariants. Each part's properties are defined, with comments,
in its own module.

## Runs

All runs disable deadlock checking: each system may stop, when its requests, turns, tasks or
edits are used up; only `chunk_calls` must go on to an end, which is a property of its own.

| Run | Bounds | Shows |
|---|---|---|
| `journal_turns` | 1 file, 2 texts, 2 turns, 3 records | types; turns undone as a whole; the journal on disk only grows; undo marks last |
| `journal_races` | 1 file, 2 texts and a content that is not text, 1 turn, 2 records, 2 user edits | written means recorded; no blind overwrite; undo spares the user's text and restores what the turn found, threads included |
| `pool` | 3 runtimes, fair | types; `PoolHolds` (no stale entry, the pool tells who streams, no lost turn, approvals have turns); sessions do not stay active; streams end |
| `turn_calls` | batches of 2, limits and lease 2, 2 turns, fair | one result per call; stop means stop; a turn ends unless its tools report something new for ever |
| `turn_delivery` | 1 tool that writes, 1 file and "unknown", limits 1, lease 2, 2 turns | COMPLETE means delivered; obligations kept; refinement of `TurnLifecycle` |
| `translate` | 2 tasks, 2 connections each, 1 finished task kept, fair | types; slot and pipelines; files; slot released; a retry gets it |
| `chunk_calls` | 2 chunks at once and a third caller, one limiter, 1 retry, fair | the calls end; the generator ends with no thread left; refinement of `ChunkRunner` |
| `agent` | 14 parts, below | types, consent, records on disk, what is heard and shown, evidence, nothing taken back |
| `documents` | 17 parts, below | types, agreeing stores, text in place, notes, order of chunks, spacing of requests, authority of terms |

The other three runs are about [what the code does not keep](#what-the-code-does-not-keep).

`agent`, by part: 2 approval keys, 2 grants and 2 runtimes with up to two hooks (`gate`); all
questions (`policy`); one skill, 3 documents, 3 sessions in 2 workspaces, 2 proposals and 1 edit (`skills`);
3 rotations and 6 versions, which is two more than the chain holds (`store`); 4 lines with 2
call indexes (`stream`); 2 callers with 2 calls (`mcp`); 2 runs (`sub`); 2 savers, a good and
a refused setting, a key (`config`); histories of 4 messages, stages that act from 2 (`compaction`);
2 conversations, one of them stored, 2 messages and 2 events (`chat`); 3 backends, 2 launches (`shell`);
2 pairs and 2 raters (`rating`); 2 pairs, 2 commands (`screen`); 5 commands, 2 edits (`anchor run`).

`documents`, by part: 2 chunks of 2 blocks, 2 runs, 2 retries (`blocks`); 3 jobs, one of them
a translation, with 1 to 3 chunks, 2 ingestions (`rag`); 2 creators of 2 directories (`projects`); 3
requests, two of whose sources have one name (`library`); up to 4 sentences or blocks, at, below and above the limit (`packing`);
2 or 3 pages of each kind (`pages`); 2 terms, 1 PUT (`glossary`); 2 papers, texts of 3 words
(`citation`); 2 tabs, 3 cells, 2 tokens and 1 user edit (`edit`); 2 exports (`exports`); 2 nodes
and edges (`graph`); 2 builds and a manual promise (`ledger`); 2 reviews, 2 answers of the author to
points of one sort (`Disputed`), the same point or two (`review`); texts of
up to 4 words, 2 edits (`anchor`); 5 chunks, 2 at a time (`runner`); 3 callers, 2 keys and
room for one limiter (`calls`); 2 files, 2 drops, 1 reconnect (`view`).

Why the bounds are enough for the cases of interest: undo and the journal treat files
separately but for the turn they belong to, and the hazards need one file written twice,
two turns, and an edit on each side of a write. The pool's hazards need the runtime that
was displaced, the one in its place and one that pops the entry. Limits of 2 are met, and
exceeded by one, within a batch. Two tasks give one that holds the slot and one that waits,
is restarted or, when done, pushes the other out of the limit. Five chunks, two at a time,
let later results wait behind an earlier one while the semaphore is full. In the parts a
race needs two requests, and one more where a third reads what they leave; a limit is
always one less than what is thrown at it.

Symmetry is used where the constants are interchangeable and no liveness is checked: the
contents that are text (`TextSymmetry`).

History variables (`base`, `wrote`, `pre`, `raced`; `displaced`; `owed`, `inherited`, `late`, `news`,
`prior`; `expired`, `restarted`; in the parts `intact`, `created`, `removed`, `deleted`, `installed`,
`owned`, `strayed`, `yes`, `newest` and others) are read by no guard. They say what the code has no record
of: which text the Agent put into a file, which runtime was taken out of the pool, which cells were
selected.

Each property has one listed mutant: an error of the code under which its run fails.

### Exemptions

Where the code has a race that no order of its steps could exclude, the invariants exempt
exactly the state it leaves behind: `raced` (somebody else wrote the file *during* the
mutation; the pre-image and the read-back cannot be atomic with the write), `displaced` (an
abort, delete or refused resume took a runtime out of the pool), `expired`/`restarted` (two
pipelines of one task), `intact` (the last job on the document was answered with success), `Writers`
(a PUT of the configuration is under way), `removed` (the user deleted the project's directory),
`raced` of `SkillProposals` (the user saved the skill between a decision's check and its write),
`strayed` (an edit from an old window, or a relocation beside a merge, parted a promise from its
anchor).

Some hazards therefore stay uncovered, and their entries in `PROJECT.json` say so: a pre-image that
is read too early, a save while an approval is awaited, a repeated mutation matched with the wrong
one, the marks an aborted runtime takes back.

### Fairness

- *SessionPool*: a stream begins or its client is seen to be gone; the wait for an approval
  has a timeout (`_APPROVAL_TIMEOUT`, weak); a turn has a lease and limits, which is what
  `AgentTurn` shows (`TurnEnds`), so that its end is possible again and again (strong on `End`).
  This leaves out a turn whose tools report something new for ever, which holds its stream as long;
  the clean-up loop runs every ten minutes (weak on `Evict`). Clients need not answer.
- *AgentTurn*: the event loop runs a coroutine that can go on (weak on `Runtime`, which has
  `NotAllowed`, the approval's timeout). The model's choices are not fair.
- *TranslateTasks*: pipelines that have begun end (clients of the model time out; a disconnect
  is seen), time passes, and for `RetryGetsSlot` the user tries again. Nothing is assumed of
  streams that have not begun, nor that an upload is ever connected to.
- *ChunkCalls*: the event loop runs the generator and the tasks, time passes, and a thread
  whose request can go on (its answer or its client's time-out) does (weak on `ThreadStep` and
  `OtherStep`). That threads return is not assumed: it follows.
- `agent` and `documents` check safety only.

## What the code does not keep

Each of these runs checks one sentence of the repository and ends in a counterexample;
`PROJECT.json` ("findings") quotes the sentence.

| Run | Property | What happens |
|---|---|---|
| `pool_two_turns` | `OneTurnAtATime` | chat, abort, chat |
| `turn_paired` | `PairedHistory` | a turn cut off within a batch; the next turn sends the open calls |
| `edit_stale_range` | `EditKeepsTheRest` | the user types before the selection while an AI edit is under way |

The models have more behaviours of this kind, without a run of their own. Where a name is
given, it is a documented definition of the module that its run does not check.

The Agent:

- `MutationJournal!NoConflictAtWrite`: the user saves while the approval is awaited; the
  conflict is not checked again (`conversation.py:1219`, against `router.py:751`). `Undo` is
  let in while an aborted turn winds down, whose last save takes the marks back ("Cannot undo
  while the session is active", `router.py:1748`); "mutation chain diverged" is found in the second
  pass, after later records were restored (`session.py:666`); a crash between `rotate` and `save`
  leaves no main file, the only one undo looks at (`session.py:856`). `Capture` takes a file that
  is not UTF-8 for a missing one (`conversation.py:1358`); `Advance` adopts what the user saved
  after the write (`conversation.py:1797`).
- `SessionPool`: `End` and `RefusedEnds` pop the entry of the next request, which may be in its
  turn (`tests/agent_v2/test_session_cleanup.py:70`); `Delete` asks the pooled runtime only
  (`router.py:1535`), and an aborted turn saves afterwards.
- `AgentTurn`: no hard stop. Each report of a tool that is new to the turn renews the lease and the stall
  count (`conversation.py:1694-1714`), and nothing counts the calls of the model or of tools, so that a
  turn with ever new reports goes on until it is aborted; `docs/agent-v2-repair-standard.md:141-142` and
  `:261` speak of a hard stop by model calls and active time. `TurnEnds` says so: a turn ends, or
  its tools report something new again and again.
- `AgentTurn`: `Owe` keeps the last 20 pending actions (`session.py:454`); an older one is
  forgotten. `ObligationsKept` and `CompleteMeansDelivered` hold where the list has room for all of
  them (`CapSuffices`).
- `SkillProposals`: the store looks for the same candidate in one workspace (`skill_learning.py:151`), the
  skills are those of the installation (`router.py:80`): two workspaces may each have an open proposal
  of one document. What the user saves between a decision's check (`skill_learning.py:221-230`) and its
  write (`:231`) is overwritten.
- `ToolGate!FailedHookStops`: a hook that exits with a code without meaning lets the call pass.
- `Compaction!LatestWriteKept`: a message with several calls can be dropped with the latest write of
  a file in it (`trident.py`; production does not call it).
- `McpPipes!OwnAnswer`: the answer to a call that timed out is taken by the next one.
- `SubAgentRun`: the usage of an empty answer is not reported.
- `AgentChat!ShownGoesOn`: a conversation may be loaded while another runs, and the next message
  then goes to one that is not shown; a late answer to an abort ends a newer run and clears its card.
- `ConfigFiles`: two PUTs lose one's change; a load between two writes sees half of a save; a
  crash between the template and the local file loses the key; `update_config` takes
  settings that `_validate_config` refuses.
- `DesktopShell!RunningIsTrue`: "already running" is answered for a child that has ended; off
  Windows `ReadyIsOwn` does not hold, for the owner of the port is not asked for.

Translation:

- `TranslateTasks!OneTaskRuns`: a pipeline of more than 30 minutes goes on when its task is expired
  (`translate.py:215`, against :210). The finally clause of a failed pipeline marks a
  task that was restarted since (`translate.py:1034`); the stream sets `running` again outside
  the lock (`Start`); uploads do not expire stale tasks (against "so a stuck task doesn't permanently
  block the slot", `translate.py:212`).
- `ChunkRunner!NothingUntranslated`: an exception of one chunk's task keeps back the results
  after it (`block_translator.py:521`, against `translate.py:835`).
- `BlockResults!EmptyIsFailed`: a failed chunk is stored in the memory as blank and taken for a
  translation in the next run.
- `ModelCalls`: with more than 256 keys a limiter that was looked up may be evicted before it is
  taken, a KeyError (`Fetch`), or made anew while a caller waits on the old one.
- `ChunkPacking!SplittingReturns`: a long piece that cannot be cut recurses until Python gives up.
- `RagStore!OneTranslation`: two ingestions of one text leave chunks of both.
- `GlossaryTerms`: PUT clears the terms and refills them in a thread; a chunk sees any part.
- `TranslateView!ErrorsAreOwn`: a dropped file's aborted fetch reports its error in the next
  translation's view; counters are not reset on a reconnect; a late answer of `retryBlock`
  or of an upload is applied to the task that is shown.

Documents and companion:

- `ProjectFiles!OneCreator`: two creators of one place are both told that they created it
  (`project.py:811`); two changes of a manifest lose one; a source is unlinked before the manifest
  is written; sources of the same stem share a file.
- `EditorAssist`: an error message, "not configured" or half an answer replaces the selection;
  undo restores into the tab that is active; a download races the reaper.
- `ArgumentGraph!EdgesAllowed`, `IssuesOfNodes`: a node's type may change under its edges; a
  critique's issues name nodes that were deleted while the model was asked.
- `PromiseLedger!RebuildKeepsOverrides`: overrides made during the rebuild are lost. A promise that a
  rebuild replaced is added again, without its anchor, by an edit from a window that still
  shows the old ledger (`companion_store.py:136-140`); a relocation in one thread drops the anchors
  a merge keeps in another (`routers/argument.py:475`, `ledger.py:746-749`).
- `ReviewSessions`: when the file of a session cannot be written, the review or the rebuttal ends with
  an error, and its points or turn stand in memory all the same (`companion_store.py:156-159`).
- `ReviewSessions!RelatedWorkReported`: a review that dies before its last stage loses the
  deterministic point (`reviewer.py:203`).
- `TextAnchors`: context words that occur repeatedly can make an anchor lost though its quote is
  in place.
- `CitationFlow!NumberedAsTheyAppear`: `[key]` is counted in the index but never replaced;
  `[@key, pp. 1-2]` is not matched; two papers may share a key; an export stops at 100.
- `BlindRating!SelectedIsEligible`: the technical verdict is not read when a model is selected.

## Proofs

TLAPS checks every theorem to the last leaf. The proofs assume only the `ASSUME`s of the
modules (named, on constants) and, where a theorem says so, a hypothesis of its own; bounds such
as `MaxTurns` may be any naturals. Most of the assumptions give bounds their sort and keep
markers (`Absent`, `Missing`, `NoSource`, `Blank`, `MissingFile`, `NoLedger`) apart from the values they
stand beside. Some say something of the system: documents of the API and documents of
translations have different ids in the RAG store (`RagAssumption`), a blind rating has two raters
and two labels (`RatingAssumption`, as the selection requires), the words of a page stand in different
places and, in two columns, in one of them (`ExtractionAssumption`), and the reaper comes round before a
file's age is at its bound (`EditorAssumption`).

**`MutationJournalProofs`.** `JournalTypes`; `TurnsUndoneTogether`; `JournalGrows`; `MarksLast`;
`WritesAreJournaled`; `WritesAreSighted` (no blind overwrite); `UserTextSurvivesUndo`;
`UndoGivesBack` (undo restores what the turn found). A save replaces the file by the runtime's
journal, so the invariant
relates the two: while a turn runs, the saved journal is, but for the marks, a prefix of the
one in memory (`MemoryCoversDisk`); no record is of a later turn than the current one
(`TurnsPast`), whose records in memory are unmarked (`CurrentTurnLive`); and as long as the
runtime has not been aborted it knows all marks on disk (`MarksKnown`). From these a save keeps
every record and, unless aborted, every mark, and undo, which marks a whole turn, leaves none
half marked. `WritesAreJournaled` adds that a text the Agent wrote is in the journal, or in the
hands of the mutation or thread that wrote it (`WInv`). The last three theorems relate journal and
disk to the histories (`OInv`): every record is of a text the Agent wrote, and the first record of a
turn for a file has what the turn found (`RInv`); what the Agent knows of a file is what the editor
sent and what is on the disk, through the check, the approval and the write, but for the files
somebody else wrote during a mutation (`CInv`). An undo that gets through has compared every record it
restores, so that the text it replaces is the turn's own and the text it puts back the one before.

**`ServerProofs`.** Of `SessionPool`: `PoolTypes`, `NothingStale`, `ApprovalsHaveTurns`,
`PoolIsAuthoritative`, `TurnsSurviveSaves`, and all of them as the run has them, `PoolIsSound`. The
invariant (`PoolInv`) extends the last two from runtimes that stream to those about to: `Busy`
runtimes are the pool's entry, and know what is on disk, as long as none was displaced.

Of `TranslateTasks`: `TaskTypes`, `TasksHaveForm`, `DoneIsDownloadable`, `SlotHasOneTask`,
`OrderlyPipelinesAlone`, `SlotStaysOrderly`. The strengthening is `Single`: an orderly task has
at most one pipeline, and is running from the request on until that pipeline sets a status.
Without the restriction to orderly tasks it is false: the stream sets `running` outside the lock.
`TasksHaveForm` is the whole type invariant: the dict lists the tasks that have a status, each once,
which the clean-up keeps as it drops ids and statuses together.

**`AgentTurnProofs`.** `TurnTypes`, `CallsAnswered`, `StopsTools`, `KeepsObligations`,
`DeliversWhatCompletes`, `RefinesLifecycle`. `NewCallsAnswered`
speaks of the phases between steps only; in the middle of a batch the open calls are the
inherited ones and those at hand (`Accounted`). A turn that goes on was neither stopped nor
denied (`GoesOn`), and the one tool that may start after an abort does not lead to another
(`LateOnce`). `KeepsObligations` and `DeliversWhatCompletes` (COMPLETE means delivered) have the
hypothesis `CapSuffices`: there are no more different obligations than the list keeps (20 in the
code); without it they are false, see above. The lists have no element twice (`Lists`), and
then nothing gives way when one is added, by the pigeonhole principle
(`OwingNotes`). The run of `turn_delivery` has one tool; that a success of one tool settles what
another owes on the file is in the theorem. For the refinement the state in memory follows the phase (`AtWork`), and what is
on disk before the first save is the report of before (`Reportable`).

**`ListFilter`.** `Kept` with lemmas on its elements, its places, its order and its repetitions; `SumOf`
and `FlattenSeq` with what one more element adds. These are recursive functions; induction over the
length is replaced by its least counterexample (`LeastNumber`, from the well-foundedness of `<`), so
that the lemmas hold for lists of any length.

**`AgentRecordsProofs`.** `RecordsAreKept`, `NothingIsTakenBack` and `EvidenceHolds` are the three
properties of `agent` about what the parts and the evaluation keep on disk; `StepsOfParts` projects the composite on each part, with one
invariant per part:

- session files, chains of any length: `StoreTypes`, `ChainIsOrdered`, `LastSaveIsKept`,
  `DeletedStaysGone`, `RotationDropsOldest`, `RepresentativeNeverRollsBack`. The invariant adds where
  the chain has a hole while a rotation or a deletion is under way (`Shifted`), and that no file is
  newer than the last save begun, nor than the last that succeeded (`Bounded`);
- sub-agents: `SubTypes`, `RunsRecorded`; what is in the file follows from where the run is, whichever of
  its saves failed (`RunInv`);
- skills: `SkillsDecided`, `EditsSpared`; what a review or a decision has in hand fits the proposals, and
  the file unless the user saved it since (`InHand`, in `SkillInv`);
- configuration: `ConfigTypes`, `ConfigKept`; what a PUT has read and has yet to write, by the file it
  is at (`SaverOK`), with one writer and with several;
- the anchor study: `ResultsKept`; a manifest is of the predictions and metrics that the command under
  way wrote before it (`CommandInv`);
- blind rating: the code counts wins and unsupported claims and breaks ties in order, the protocol states
  a preference between two models; `RuleDecides` shows that they agree on any finished sheets. A selection
  finds the forms as locked, and nothing it rests on is written again (`RatingRests`);
- the paid run: while a command runs, the audit counts the requests of the slots recorded and those let
  out for the slot under way, and is ahead of what was sent by the one request about to go out
  (`UnderWay`); the summary's sum is over a list of any length (`OneSlotMore`, by the least
  place at which two sums would differ).

**`AgentPartsProofs`** (extends `AgentRecordsProofs`). `ConsentIsGiven`, `ShownIsRun`, `DenialsHold`,
for any hooks. The strengthening says that the runtime's memory and the session's approvals hold what
the user allowed (`Recorded`), and that a call which was not refused fits the mode, was denied by no
hook and is shown as it would run (`CallInv`). With the policy, whose answers are determined by the
question (rules, modes, the gate of files and commands), this gives `CallsAllowed`.

`TalkStaysFaithful` is the property of `agent` about what is heard and shown, with one invariant per
part. Its hypothesis is `OnWindows`, and only the shell needs it: elsewhere the owner of the port is
not asked for, and `ReadyIsOwn` is false.

- providers (`StreamInv`): the texts collected are the texts shown, on the one connection that has
  shown any; an OpenAI-compatible stream has shown no call before its response, and Ollama's are those
  of the lines collected. The fallback client starts only before anything was shown;
- MCP (`McpInv`): until the handshake is over no caller has sent anything, and at most one
  message, the start-up's own, is in either pipe (`Handshake`, `OneMessage`);
- compaction (`CompactionInv`): each result covers the positions of the history it was made from,
  each once and in order (`SoundFrom`); `Supersede` drops a read or write only behind a later write of its
  path. Collapse and cluster are one operator, `Condensed`, which puts a summary in the place of
  a group's first message: their lemma is about any disjoint groups;
- chat (`ChatInv`): a run whose session has started knows it while its message is listed (`RunKnown`), the
  one card is that session's (`CardKnown`), and unless a conversation was opened meanwhile what is
  shown is what runs (`ShownKnown`);
- shell (`ShellInv`): a process that lives is the one kept, the one being started, or was left by an
  earlier launch (`NoneIsLost`), and on Windows the one kept listens (`OwnOnWindows`).

`PartsAreTyped` is the type invariant of `agent`, from the invariants of its fourteen parts.

**`DocumentProofs`.** `RunnerTypes`, `ResultsInOrder`, `NothingKeptBack`, `WakeUpsKept`,
`CallsBounded` and `RunnerIsOrderly`, for any number of chunks and any concurrency. The order
rests on `OneEnd` (a task has one end), `Reported` (the wait has reported only tasks that ended)
and `Settled` (the generator ends by itself only when nothing is left to yield). `CallTypes` and
`SpacesRequests`: a caller goes on only when the last request its limiter let pass is an interval
old, for any callers, keys, registry size and interval; a caller that sleeps holds its limiter (`SleepersHold`) and its
wait is the rest of the interval since the limiter's last request (`WaitIsRest`).

`StoresStayAgreed` and `NotesKeepFitting` are two properties of `documents`, each the conjunction of what
its parts keep:

- blocks (`ResultInv`): the fallbacks counted are no more than the chunks with a failed block,
  while blocks fail and are made good (`CauseCounts`), and the model's texts are not originals;
- RAG store (`RagInv`): one job is between collection, index and file of a document of the API, and how far
  the three differ follows from where that job stands (`Underway`, `Halfway`);
- projects (`CreationInv`): a temporary directory is as its request left it, and a place moved to is
  there until the user removes it (`MovedThere`); lists, on disk or read by a request, name a project once;
- library (`LibraryInv`): no manifest, on disk or in a request's hands, names an original but of an
  import that succeeded (`Imported`);
- view (`ViewInv`): until two calls overlap, at most one call of `translate()` goes on,
  it is the one shown, and a status in progress has one (`Quiet`);
- in `TextProofs`, graph (`GraphShape`), ledger (`LedgerInv`: also of what a rebuild or a
  relocation holds aside, but for the promises that strayed), and sessions
  (`ReviewInv`: a session that is named by another review is of a review that is done, `NamedByDone`).

`TermsStand` is the action property of `documents` about the glossary, for any terms, lists and
translations; items wait to be put only while a replacement runs (`TermsInv`).

`DocumentsAreTyped` is the type invariant of `documents`: the invariants of the seventeen parts and what those
lack (`PartTypes`). Three of its bounds take an argument of their own. The view's streams: a
call that uploads has its streams before it, the current call those of the attempts it has left, and no
other starts one (`StreamsLeft`). A prompt: each of the first n terms has fewer than n before it, and no
two the same number (`FirstAreFew`). Recent lists: a filtered list is no longer than the list (`KeptNoLonger`).

**`TextProofs`.** `TextStaysInPlace` (in `DocumentProofs`) is the property of `documents` about a text on its
way, the conjunction of five theorems, for any documents, texts and limits:

- `CitationsStayNumbered` (`CitationInv`): the index is the one of the text it was made of; that
  numbering a list of keys gives each its own place, in the order of first occurrence, is a fact about
  `Numbered` proved for any list;
- `EditsAreKept` (`AssistInv`, `ExportInv`): while nobody has touched the text, the range of the edit holds
  what was selected (`RangeStands`), and the page has the last delta of a stream that ended well
  or is still to read it (`AnswerComes`); a sweep leaves no file older than the reaper allows;
- `PackingLosesNothing` (`PackInv`): the chunks and the one being filled are a chain (`Chain`): each begins with
  the end of the one before and goes on, without a gap, to the last segment dealt with; without overlap
  the packer's `size` is the length of its chunk (`SizeKnown`);
- `PagesStayInPlace` (`ExtractionInv`): the pages parsed have the text the extractor makes of them, in
  order, and what an engine read is of the page it is numbered for (`Parsed`, `ReadPages`). That the lines of
  a page hold every word once (`Lines`, by cardinalities) needs that no two words stand in one place, which the
  assumption on `Pdfs` says;
- `NotesStayAnchored` (`AnchorInv`): after every step the anchor is what `Located` makes of it. The lemmas
  follow the code's cascade: same place, both sides, one side, fuzzy, lost; a quotation with its
  whole context, of which no piece occurs twice, is found by the first of them that applies.

Model-checked only: everything under fairness (`PoolDrains`, `StreamsEnd`, `TurnEnds`,
`SlotReleased`, `RetryGetsSlot`, `Ends`, `CallsComeToAnEnd`, `ImplementsRunner`), because liveness
and ENABLED are out of the prover's reach. Every other property of a passing run is proved.

## Not modelled

- Texts, hashes, messages and prompts are opaque values; a hash collision cannot happen.
  Preemption within a coroutine does not exist; what threads do beside it is modelled, at the
  grain of whole saves: a rebuilt ledger is merged in one step, one relocation runs at a time, and the
  companion's files are not read again after a restart.
- In the journal the tools' validation of arguments is part of `ExecuteFails`; turns that edit
  a selection (`edit_scope`) are left out there and in `AgentTurn`. `UndoFails` and `UndoCrashes` lose
  the session file as a whole; the chain itself is in `SessionStore`. Hook matchers and hooks
  after a tool decide nothing. `bash_validation.py` is an input of `PolicyRules`; the sandbox
  and the grants' signatures are left out.
- `TranslateTasks`: exports and downloads; files that a dropped task's pipeline still writes stay,
  and no property speaks of them. `ChunkRunner`: the sequential path.
- *Event stream adapter, message types, runtime helpers, quality checks, cleaning and
  formatting, Pandoc templates and reports*: functions from values to values, without state;
  what they do is wording, which no property here tells apart.
- *Vision and local OCR*: clients of external services; `vision_client.py:89` is a syntax error, so
  that it cannot be imported.
- *Mind map, other window state, views*: mirrors of the server and rendering; the guards of
  the buttons that matter are in `AgentChat`, `TranslateView` and `DesktopShell`.
- Within modelled parts: the other providers' wire formats, the content of plugins, ghost
  completions and compiling in the editor, similarity search of the memory, the layout heuristics
  of the parser, the experiment suggestions of the companion, bibliography styles, the HTTP rate
  limiter, the health monitor of the shell, `resumeSession` of the window (no component calls
  it), the study's statistics.

## Plan

Done: the core, the parts, their composites, and the proofs above. What would come next:

1. `MutationJournal` over `SessionStore`: `saved` as a refinement of the rotation chain, so that
   `UndoFails` distinguishes the points of a crash.
2. Exports and downloads of a task beside its retries; the sequential chunk path.
3. `edit_scope` turns in `AgentTurn`.
4. Theorems: the steps of `ImplementsRunner` without its fairness; `McpPipes` beyond its start (which
   call an answer reaches, given the time-outs).
