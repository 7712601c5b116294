----------------------------- MODULE BlockResults -----------------------------
(***************************************************************************)
(* What a translation leaves behind: the texts of the blocks, the counters *)
(* and the status of the task, the output file and the translation memory, *)
(* through the pipeline of routers/translate.py, the alignment of          *)
(* translator/block_translator.py and the retry of single blocks.          *)
(*                                                                         *)
(* One document is uploaded again and again; each run has a task of its    *)
(* own, the translation memory stays.  A text is what a block was given:   *)
(* nothing, its own translation, its original, or some other piece of text *)
(* (two paragraphs merged, a cut by length, a similar chunk's).            *)
(***************************************************************************)
EXTENDS Naturals, Sequences, FiniteSets

CONSTANTS
  Sizes,         \* number of blocks of each chunk, as a sequence
  Plain,         \* blocks <<chunk, number>> that are not to be translated
  Severe,        \* tenths of a chunk's blocks that may lack a paragraph (3)
  MaxDocRuns,    \* bound: runs of the document
  MaxBlockRetries \* bound: retries of blocks per run

DocChunk == DOMAIN Sizes
Block    == {<<c, i>> : c \in DocChunk, i \in 1..4} \cap
            UNION {{c} \X (1..Sizes[c]) : c \in DocChunk}
Of(c)    == {b \in Block : b[1] = c}
Todo(c)  == Of(c) \ Plain
Texts    == {"none", "own", "orig", "other"}

ASSUME ResultsAssumption ==
  /\ Sizes \in Seq(1..4) /\ Plain \subseteq Block /\ Severe \in 0..10
  /\ MaxDocRuns \in Nat /\ MaxBlockRetries \in Nat

VARIABLES
  memory,     \* translation memory: for each chunk the blocks' texts, or no entry
  docRuns,    \* number of runs begun
  task,       \* status: "none", "running", "error", "done", "warned"
  reached,    \* chunks that have been dealt with in this run
  byModel,    \* those of them the model was asked for
  text,       \* of each block
  failed,     \* blocks with status "failed", all others are "ok"
  fallback,   \* fallback_count
  misalign,   \* misalign_count
  file,       \* the text each block has in the output file; NoFile
  retries     \* number of retries so far

resVars == <<memory, docRuns, task, reached, byModel, text, failed,
             fallback, misalign, file, retries>>

NoEntry == <<>>
NoFile  == <<>>
Blank   == [b \in Block |-> "none"]

ResInit ==
  /\ memory = [c \in DocChunk |-> NoEntry]
  /\ docRuns = 0 /\ task = "none" /\ reached = 0 /\ byModel = {}
  /\ text = Blank /\ failed = {}
  /\ fallback = 0 /\ misalign = 0
  /\ file = NoFile /\ retries = 0

-----------------------------------------------------------------------------
BeginRun ==
  /\ task # "running" /\ docRuns < MaxDocRuns
  /\ docRuns' = docRuns + 1 /\ task' = "running"
  /\ reached' = 0 /\ byModel' = {}
  /\ text' = Blank /\ failed' = {} /\ fallback' = 0 /\ misalign' = 0
  /\ file' = NoFile /\ retries' = 0
  /\ UNCHANGED memory

(* Chunk c gets the texts t; those of f have failed.                       *)
Gets(c, t, f) ==
  /\ text' = [b \in Block |-> IF b \in Of(c) THEN t[b] ELSE text[b]]
  /\ failed' = failed \cup f
  /\ reached' = c

(* _align_translation_to_blocks: which texts the blocks of a chunk may get *)
(* from a translation of p paragraphs, the j-th of them a whole block's    *)
(* own when in place.  Paragraphs too many are merged; with too few the    *)
(* text is cut by the lengths of the originals.                            *)
Aligned(c, p, inPlace) ==
  LET n     == Cardinality(Todo(c))
      given == IF p = 0 THEN {"none"} ELSE IF p < n THEN {"other", "none"}
               ELSE IF p > n THEN {"own", "other"}
               ELSE IF inPlace THEN {"own"} ELSE {"own", "other"}
  IN  {t \in [Of(c) -> Texts] :
         /\ \A b \in Of(c) : IF b \in Plain THEN t[b] = "orig" ELSE t[b] \in given
         /\ p > 0 /\ n > 0 => \E b \in Todo(c) : t[b] # "none"
         /\ p > n /\ n > 0 => \E b \in Todo(c) : t[b] = "other"}

(* The paragraphs of a stored text: of all blocks that have one.           *)
Paragraphs(c) == Cardinality({b \in Of(c) : memory[c][b] # "none"})
InPlace(c)    == Of(c) \cap Plain = {} /\ \A b \in Of(c) : memory[c][b] = "own"

(* The memory has the chunk: its text is aligned, and all blocks are ok.   *)
Hit(c) ==
  /\ memory[c] # NoEntry
  /\ \E t \in Aligned(c, Paragraphs(c), InPlace(c)) : Gets(c, t, {})
  /\ UNCHANGED <<byModel, fallback, misalign>>

(* A similar chunk of the memory is close enough.                          *)
FuzzyHit(c) ==
  /\ memory[c] = NoEntry
  /\ \E d \in DocChunk : memory[d] # NoEntry
       /\ \E t \in Aligned(c, Paragraphs(d), FALSE) :
            Gets(c, [b \in Of(c) |-> IF t[b] = "own" THEN "other" ELSE t[b]], {})
  /\ UNCHANGED <<byModel, fallback, misalign>>

Asked(c) == memory[c] = NoEntry /\ byModel' = byModel \cup {c}

(* A block whose text is empty, or its original, is marked as failed.      *)
MarkFailed(c, t, same) ==
  LET bad == same \cup {b \in Todo(c) : t[b] = "none"}
  IN  Gets(c, [b \in Of(c) |-> IF b \in bad THEN "none" ELSE t[b]], bad)

(* The model's answer has p paragraphs; in some of them it left the block  *)
(* as it was: if in all, the chunk is a fallback.                          *)
Answered(c) ==
  /\ Asked(c) /\ Todo(c) # {}
  /\ \E p \in 0..(Sizes[c] + 1) :
       LET n == Cardinality(Todo(c)) IN
       /\ p >= n \/ 10 * (n - p) <= Severe * n
       /\ \E t \in Aligned(c, p, TRUE), same \in SUBSET Todo(c) :
            /\ p < n => same = {}
            /\ MarkFailed(c, t, same)
            /\ fallback' = IF same = Todo(c) THEN fallback + 1 ELSE fallback
            /\ misalign' = IF p < n THEN misalign + 1 ELSE misalign

(* Far too few paragraphs: its blocks are translated one by one.           *)
OneByOne(c) ==
  /\ Asked(c) /\ Todo(c) # {}
  /\ \E p \in 0..Sizes[c] :
       LET n == Cardinality(Todo(c)) IN p < n /\ 10 * (n - p) > Severe * n
  /\ \E bad \in SUBSET Todo(c) :
       /\ MarkFailed(c, [b \in Of(c) |-> IF b \in Plain THEN "orig" ELSE "own"], bad)
       /\ fallback' = IF bad # {} THEN fallback + 1 ELSE fallback
  /\ UNCHANGED misalign

(* The client gave up: all of the chunk has failed, formulas included.     *)
ChunkFails(c) ==
  /\ Asked(c) /\ Todo(c) # {}
  /\ Gets(c, Blank, Of(c))
  /\ fallback' = fallback + 1
  /\ UNCHANGED misalign

(* Nothing to translate in the chunk, or its result was never yielded: the *)
(* blocks stand for themselves, and of a lost result nothing is stored.    *)
NothingToDo(c) ==
  /\ memory[c] = NoEntry
  /\ Gets(c, [b \in Of(c) |-> "orig"], {})
  /\ byModel' = IF Todo(c) = {} THEN byModel \cup {c} ELSE byModel
  /\ UNCHANGED <<fallback, misalign>>

DealWith(c) ==
  /\ task = "running" /\ c = reached + 1 /\ c \in DocChunk
  /\ Hit(c) \/ FuzzyHit(c) \/ Answered(c) \/ OneByOne(c) \/ ChunkFails(c) \/ NothingToDo(c)
  /\ UNCHANGED <<memory, docRuns, task, file, retries>>

-----------------------------------------------------------------------------
(* The joined text of a chunk is empty only if its one block's is: between *)
(* the empty texts of several there are separators.                        *)
JoinedEmpty(c) == Sizes[c] = 1 /\ \A b \in Of(c) : text[b] = "none"

(* Mutant: every chunk's text is stored, as the output has it.             *)
StoreAll == memory' = [c \in DocChunk |-> [b \in Of(c) |-> text[b]]]

Store == memory' = [c \in DocChunk |-> IF c \in byModel /\ ~JoinedEmpty(c)
                                         THEN [b \in Of(c) |-> text[b]] ELSE memory[c]]

Conclude ==
  /\ task = "running" /\ reached = Len(Sizes)
  /\ Store
  /\ file' = text
  /\ task' = IF fallback > 0 \/ misalign > 0 THEN "warned" ELSE "done"
  /\ UNCHANGED <<docRuns, reached, byModel, text, failed, fallback, misalign, retries>>

(* An exception or a disconnect: the results are not kept.                 *)
CutOff ==
  /\ task = "running"
  /\ task' = "error"
  /\ UNCHANGED <<memory, docRuns, reached, byModel, text, failed, fallback, misalign, file, retries>>

-----------------------------------------------------------------------------
Retrying == task \in {"done", "warned"} /\ retries < MaxBlockRetries /\ retries' = retries + 1

(* The result is empty, its original or too short.                         *)
RetryRejected(b) ==
  /\ Retrying
  /\ text' = [text EXCEPT ![b] = "none"]
  /\ failed' = failed \cup {b}
  /\ UNCHANGED <<memory, docRuns, task, reached, byModel, fallback, misalign, file>>

(* Mutant: the failed blocks are looked at before this one is taken out.   *)
CountBefore(b) ==
  IF b \in failed /\ failed \cap Of(b[1]) = {} /\ fallback > 0 THEN fallback - 1 ELSE fallback

(* The retry of the chunk's last failed block takes one from the count.    *)
CountAfter(b) ==
  IF b \in failed /\ failed' \cap Of(b[1]) = {} /\ fallback > 0 THEN fallback - 1 ELSE fallback

(* Mutant: the file is written before the block has its new text.          *)
RewriteOld == file' = text

Rewrite == file' = text'

RetrySucceeds(b) ==
  /\ Retrying
  /\ text' = [text EXCEPT ![b] = "own"]
  /\ failed' = failed \ {b}
  /\ Rewrite
  /\ fallback' = CountAfter(b)
  /\ task' = IF fallback' = 0 /\ misalign = 0 THEN "done" ELSE task
  /\ UNCHANGED <<memory, docRuns, reached, byModel, misalign>>

(* The client raises, or after the result is in, the file cannot be        *)
(* opened: the block has failed, and keeps the text that it has by then.   *)
RetryRaises(b) ==
  /\ Retrying
  /\ \E t \in {"own", text[b]} : text' = [text EXCEPT ![b] = t]
  /\ failed' = failed \cup {b}
  /\ UNCHANGED <<memory, docRuns, task, reached, byModel, fallback, misalign, file>>

ResNext ==
  \/ BeginRun \/ Conclude \/ CutOff
  \/ \E c \in DocChunk : DealWith(c)
  \/ \E b \in Block : RetryRejected(b) \/ RetrySucceeds(b) \/ RetryRaises(b)

ResSpec == ResInit /\ [][ResNext]_resVars

-----------------------------------------------------------------------------
(* Types of the state.                                                     *)
ResTypeOK ==
  /\ \A c \in DocChunk : memory[c] = NoEntry \/ memory[c] \in [Of(c) -> Texts]
  /\ docRuns \in 0..MaxDocRuns /\ retries \in 0..MaxBlockRetries
  /\ task \in {"none", "running", "error", "done", "warned"}
  /\ reached \in 0..Len(Sizes) /\ byModel \subseteq 1..reached
  /\ text \in [Block -> Texts] /\ failed \subseteq Block
  /\ fallback \in 0..Len(Sizes) /\ misalign \in 0..Len(Sizes)
  /\ file = NoFile \/ file \in [Block -> Texts]

(* The count of fallbacks never says more chunks than have a block left to *)
(* retry, whatever is retried, in whatever order and with whatever result: *)
(* a warning the user has dealt with goes away.                            *)
WarningHasCause ==
  task # "none" =>
    fallback <= Cardinality({c \in DocChunk : failed \cap Of(c) # {}})

(* The output file has the text of every block that is ok: also when other *)
(* blocks failed, or were retried without success, before the last time    *)
(* that it was written.                                                    *)
FileShowsBlocks ==
  file # NoFile => \A b \in Block \ failed : file[b] = text[b]

(* The original of a block that should be translated never gets into the   *)
(* memory as its translation: what the model left as it was and what the   *)
(* pipeline put in for a lost result are kept out.                         *)
MemoryHasNoOriginals ==
  \A c \in DocChunk : memory[c] # NoEntry => \A b \in Todo(c) : memory[c][b] # "orig"

(* "Mark blocks as failed when translation is empty or identical to        *)
(* original".  A chunk of several blocks that has failed is stored in the  *)
(* memory as blank; the next run takes it for a translation.               *)
EmptyIsFailed ==
  task \in {"done", "warned"} => \A b \in Block \ Plain : text[b] = "none" => b \in failed
=============================================================================
