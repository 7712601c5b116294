---------------------------- MODULE MCDocumentParts ----------------------------
(***************************************************************************)
(* A document's way through translation, library and editor, and the       *)
(* writing companion's notes on it, for TLC.  The parts share no state: a  *)
(* behaviour chooses one of them and the others stand still.               *)
(***************************************************************************)
EXTENDS BlockResults, RagStore, ProjectFiles, ChunkPacking,
        PageExtraction, GlossaryTerms, CitationFlow, EditorAssist,
        ArgumentGraph, PromiseLedger, ReviewSessions, TextAnchors,
        ChunkRunner, ModelCalls, TranslateView

CONSTANTS Part,             \* the parts explored
          j1, j2, j3,       \* ingestion jobs
          w1, w2, w3,       \* requests to the source library
          n1, n2,           \* names of sources
          tx, ty,           \* targets of terms
          k1, k2,           \* citation keys
          wa, wb, wc        \* words

VARIABLE part

-----------------------------------------------------------------------------
(* Values of the constants.                                                *)

(* Two chunks of two blocks; a formula is the last of them.                *)
MCSizes == <<2, 2>>
MCPlain == {<<2, 2>>}

(* Three ingestions whose texts make two chunks, one and three.            *)
MCLength == [j \in {j1, j2, j3} |-> IF j = j1 THEN 2 ELSE IF j = j2 THEN 1 ELSE 3]

(* The first two sources have the same name.                               *)
MCNameOf == [w \in {w1, w2, w3} |-> IF w = w3 THEN n2 ELSE n1]

(* Sentences of clauses: short, with a word or a sign to cut at, too long. *)
MCSentences ==
  LET Piece(n, sort) == [len |-> n, mark |-> sort]
  IN  {<<Piece(2, "plain")>>, <<Piece(7, "plain")>>,
       <<Piece(3, "plain"), Piece(2, "word")>>, <<Piece(2, "plain"), Piece(5, "sep")>>,
       <<Piece(2, "plain"), Piece(3, "sep")>>}

(* Pages with two columns or one, with and without lost spaces; one that   *)
(* has a running head only, and a scanned one.                             *)
MCPdfs ==
  LET On(row, col, where, cap) == [row |-> row, col |-> col, place |-> where, caption |-> cap]
      Sheet(two, lost, clear, content) ==
        [dual |-> two, collapsed |-> lost, legible |-> clear, words |-> content]
      Running == On(1, 1, "head", FALSE)
      TwoColumns == <<Running, On(2, 1, "body", FALSE), On(2, 2, "body", FALSE),
                      On(3, 1, "body", FALSE), On(3, 2, "body", TRUE)>>
      Bitmap  == Sheet(FALSE, FALSE, FALSE, <<>>)
      Samples == {Sheet(TRUE, FALSE, FALSE, TwoColumns), Sheet(TRUE, TRUE, TRUE, TwoColumns),
                Sheet(FALSE, FALSE, FALSE,
                     <<Running, On(2, 1, "body", FALSE), On(5, 1, "foot", FALSE)>>),
                Sheet(FALSE, TRUE, TRUE, <<On(2, 1, "body", FALSE), On(2, 2, "body", FALSE)>>),
                Sheet(FALSE, FALSE, FALSE, <<Running>>), Bitmap}
  IN  {<<p, q>> : p, q \in Samples} \cup {<<Bitmap, p, Bitmap>> : p \in Samples}

(* A locked and an unlocked term; a malformed one between two locked ones. *)
MCReplacements ==
  LET Listed(t, lock) == [term |-> t, target |-> tx, locked |-> lock]
  IN  {<<Listed(1, TRUE), Listed(2, FALSE)>>, <<Listed(2, TRUE), Malformed, Listed(1, TRUE)>>}

(* Two papers with the same author and year.                               *)
MCCiteKeyOf == [p \in {1, 2} |-> k1]

MCPerspectives == <<"method", "writing">>

MCDrafts == {<<wa, wb, wc>>, <<wa, wb, wc, wb>>, <<wb, wb, wa>>}

(* Two threads translate with one cloud key, a third caller has another    *)
(* key, or Ollama, or the companion's calls.                               *)
MCThreads == {"t1", "t2", "t3"}
MCKindsOf == [t \in MCThreads |-> IF t = "t3" THEN {"cloud", "ollama", "chat", "chat cloud"}
                                               ELSE {"cloud"}]
MCKeyOf   == [t \in MCThreads |-> IF t = "t3" THEN "k2" ELSE "k1"]

-----------------------------------------------------------------------------
Init ==
  /\ part \in Part
  /\ ResInit /\ RagInit /\ CreationInit /\ LibraryInit /\ PackInit
  /\ ExtractionInit /\ GlossaryInit /\ CitationInit /\ EditorInit
  /\ GraphInit /\ LedgerInit /\ ReviewInit /\ TextAnchorInit
  /\ RunnerInit /\ CallsInit /\ ViewInit

Next ==
  /\ UNCHANGED part
  /\ IF part = "blocks"   THEN ResNext        ELSE UNCHANGED resVars
  /\ IF part = "rag"      THEN RagNext        ELSE UNCHANGED ragVars
  /\ IF part = "projects" THEN CreationNext   ELSE UNCHANGED creationVars
  /\ IF part = "packing"  THEN PackNext       ELSE UNCHANGED packVars
  /\ IF part = "pages"    THEN ExtractionNext ELSE UNCHANGED extractionVars
  /\ IF part = "edit"     THEN AssistNext     ELSE UNCHANGED assistVars
  /\ IF part = "exports"  THEN ExportNext     ELSE UNCHANGED exportVars
  /\ IF part = "ledger"   THEN LedgerNext     ELSE UNCHANGED ledgerVars
  /\ IF part = "anchor"   THEN TextAnchorNext ELSE UNCHANGED textAnchorVars
  /\ IF part = "runner"   THEN RunnerNext     ELSE UNCHANGED runnerVars
  /\ IF part = "review"   THEN ReviewNext     ELSE UNCHANGED reviewVars
  /\ IF part = "library"  THEN LibraryNext    ELSE UNCHANGED libraryVars
  /\ IF part = "glossary" THEN GlossaryNext   ELSE UNCHANGED glossaryVars
  /\ IF part = "calls"    THEN CallsNext      ELSE UNCHANGED callVars
  /\ IF part = "view"     THEN ViewNext       ELSE UNCHANGED viewVars
  /\ IF part = "citation" THEN CitationNext   ELSE UNCHANGED citationVars
  /\ IF part = "graph"    THEN GraphNext      ELSE UNCHANGED graphVars

allVars ==
  <<part, resVars, ragVars, creationVars, libraryVars, packVars, extractionVars,
    glossaryVars, citationVars, assistVars, exportVars, graphVars, ledgerVars,
    reviewVars, textAnchorVars, runnerVars, callVars, viewVars>>

Spec == Init /\ [][Next]_allVars

-----------------------------------------------------------------------------
(* Types of the state: each part's, while it is the one that steps.        *)
PartTypesOK ==
  CASE part = "blocks"   -> ResTypeOK
    [] part = "rag"      -> RagTypeOK
    [] part = "projects" -> CreationTypeOK
    [] part = "library"  -> LibraryTypeOK
    [] part = "packing"  -> PackTypeOK
    [] part = "pages"    -> ExtractionTypeOK
    [] part = "glossary" -> GlossaryTypeOK
    [] part = "citation" -> CitationTypeOK
    [] part = "edit"     -> EditorTypeOK
    [] part = "exports"  -> EditorTypeOK
    [] part = "graph"    -> GraphTypeOK
    [] part = "ledger"   -> LedgerTypeOK
    [] part = "review"   -> ReviewTypeOK
    [] part = "anchor"   -> AnchorsTypeOK
    [] part = "runner"   -> RunnerTypeOK
    [] part = "view"     -> ViewTypeOK
    [] OTHER             -> CallsTypeOK

(* What is stored in several places agrees, through overlapping requests,  *)
(* failures and crashes: the blocks of a translation with its counters,    *)
(* file and memory (translate.py), the chunks and the index of the RAG     *)
(* store (rag.py), projects and their lists, the files and entries of the  *)
(* source library (project.py); and what the window shows of a translation *)
(* is one task's, and goes on (useTranslate.ts).                           *)
StoresAgree ==
  /\ part = "blocks"   => WarningHasCause /\ FileShowsBlocks /\ MemoryHasNoOriginals
  /\ part = "rag"      => OneText /\ IndexAgrees
  /\ part = "projects" => ProjectsKept
  /\ part = "library"  => LibraryKept
  /\ part = "view"     => ViewIsTrue

(* No text gets lost, doubled or out of place on its way: from the pages   *)
(* of a PDF (parser), into the chunks for the model (chunker), through the *)
(* numbering of citations (citation), and under an edit by the model       *)
(* (editor.py, MonacoEditor.vue); and the companion's quotes point to      *)
(* their places in an edited text (argument/anchor.py).                    *)
TextInPlace ==
  /\ part = "pages"    => PagesInPlace
  /\ part = "packing"  => PackingIsSound
  /\ part = "citation" => CitationsNumbered
  /\ part \in {"edit", "exports"} => EditorKept
  /\ part = "anchor"   => AnchorsPoint

(* The companion's notes fit the text and each other: edges and nodes, the *)
(* draft and its graph, promises and anchors, and sessions, reviews and    *)
(* replies.                                                                *)
NotesFitTheText ==
  /\ part = "graph"  => EdgesJoinNodes /\ DraftIsComplete
  /\ part = "ledger" => PromisesAnchored
  /\ part = "review" => SessionsHoldReviews /\ RepliesFollow
=============================================================================
