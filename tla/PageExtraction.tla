--------------------------- MODULE PageExtraction ---------------------------
(* How a PDF becomes the text of its pages: the extractor for plain text   *)
(* (columns, running heads, lost word spaces), the one that keeps the      *)
(* layout, and the character recognition both fall back on for pages       *)
(* without text.  A word stands for a run of text with its place.          *)
EXTENDS Integers, FiniteSets, ListFilter

CONSTANTS
  Pdfs,         \* documents: sequences of pages
  MaxNative,    \* _MAX_NATIVE_TEXT_CHARS_FOR_OCR, in words
  ScannedBelow, \* _OCR_CHAR_THRESHOLD, in words for each page
  MinRecognized \* _MIN_OCR_CHARS, in words

(* dual: what _detect_columns finds; collapsed: the words have lost their  *)
(* spaces; legible: the characters give about as much text as the words.   *)
PageWords == [row : Nat, col : Nat, place : {"head", "body", "foot"}, caption : BOOLEAN]
Pages == [dual : BOOLEAN, collapsed : BOOLEAN, legible : BOOLEAN, words : Seq(PageWords)]

(* No two words stand in one place.  In two columns every word of the body *)
(* is in one of them, and not all are captions: the font most of the body  *)
(* has is the body's.                                                      *)
OnePlaceEach(page) ==
  \A i, j \in DOMAIN page.words :
    page.words[i].row = page.words[j].row /\ page.words[i].col = page.words[j].col => i = j
BodyInColumns(page) ==
  LET body == {i \in DOMAIN page.words : page.words[i].place = "body"}
  IN  page.dual => /\ \A i \in body : page.words[i].col \in {1, 2}
                   /\ body # {} => \E i \in body : ~page.words[i].caption

ASSUME ExtractionAssumption ==
  /\ Pdfs \subseteq Seq(Pages)
  /\ \A document \in Pdfs : \A i \in DOMAIN document :
       OnePlaceEach(document[i]) /\ BodyInColumns(document[i])
  /\ MaxNative \in Nat /\ ScannedBelow \in Nat /\ MinRecognized \in Nat

VARIABLES
  pageStage,      \* what runs: "idle", "words", "layout", an engine, "fill", "done", "failed"
  extractor,  \* "words" or "layout"
  pdf,        \* the document
  texts,      \* one text, a sequence of words, for each page parsed so far
  boxes,      \* the text blocks with their places (layout only)
  recognized, \* the pages the engine that runs has read so far: number, text
  replaced    \* numbers of the pages that got their text from an engine

extractionVars == <<pageStage, extractor, pdf, texts, boxes, recognized, replaced>>

ExtractionInit ==
  /\ pageStage = "idle" /\ extractor = "words" /\ pdf = <<>> /\ texts = <<>>
  /\ boxes = <<>> /\ recognized = <<>> /\ replaced = {}

OpenPdf(kind, document) ==
  /\ pageStage = "idle"
  /\ pageStage' = kind /\ extractor' = kind /\ pdf' = document
  /\ UNCHANGED <<texts, boxes, recognized, replaced>>

(***************************************************************************)
(* The text of one page                                                    *)
(***************************************************************************)
Above(v, w) == v.row < w.row \/ (v.row = w.row /\ v.col < w.col)

(* Line by line, each line from left to right: every word behind those     *)
(* above it.                                                               *)
Lines(words) ==
  [k \in 1 .. Cardinality(words) |->
     CHOOSE w \in words : Cardinality({v \in words : Above(v, w)}) = k - 1]
Words(page) == ToSet(page.words)
Body(words) == {w \in words : w.place = "body"}

(* One column after the other.                                             *)
Columns(words) == Lines({w \in words : w.col = 1}) \o Lines({w \in words : w.col = 2})

(* Words that are smaller than the body's font allows are captions.        *)
DualText(page) == Columns({w \in Body(Words(page)) : ~w.caption})

(* The body alone, unless nothing is in it.                                *)
SingleText(page) ==
  Lines(IF Body(Words(page)) = {} THEN Words(page) ELSE Body(Words(page)))

InterleavedChars(page) == Lines(Body(Words(page)))

DualChars(page) == Columns(Body(Words(page)))
SingleChars(page) == Lines(Body(Words(page)))

CharText(page) == IF page.dual THEN DualChars(page) ELSE SingleChars(page)
WordText(page) == IF page.dual THEN DualText(page) ELSE SingleText(page)

PlainText(page) ==
  IF page.collapsed /\ page.legible /\ CharText(page) # <<>> THEN CharText(page)
  ELSE WordText(page)

(* PyMuPDF's lines in the order of the file, without head and foot.        *)
Placed(page) == Kept(page.words, {i \in DOMAIN page.words : page.words[i].place = "body"})

NextPage == Len(texts) + 1

ParseWords ==
  /\ pageStage = "words" /\ NextPage <= Len(pdf)
  /\ texts' = Append(texts, PlainText(pdf[NextPage]))
  /\ UNCHANGED <<pageStage, extractor, pdf, boxes, recognized, replaced>>

ParseLayout ==
  /\ pageStage = "layout" /\ NextPage <= Len(pdf)
  /\ texts' = Append(texts, Placed(pdf[NextPage]))
  /\ boxes' = boxes \o [i \in DOMAIN Placed(pdf[NextPage]) |->
                          [page |-> NextPage, word |-> Placed(pdf[NextPage])[i]]]
  /\ UNCHANGED <<pageStage, extractor, pdf, recognized, replaced>>

ParseFails ==
  /\ pageStage \in {"words", "layout"} /\ NextPage <= Len(pdf)
  /\ pageStage' = "failed"
  /\ UNCHANGED <<extractor, pdf, texts, boxes, recognized, replaced>>

(***************************************************************************)
(* Recognition of pages without text                                       *)
(***************************************************************************)
Native == FoldSeq(LAMBDA text, n : n + Len(text), 0, texts)
EmptyPages == {i \in DOMAIN texts : texts[i] = <<>>}

NeedsRecognition ==
  /\ EmptyPages # {}
  /\ Native < MaxNative
  /\ Native < ScannedBelow * Len(texts)

EndParsing ==
  /\ pageStage \in {"words", "layout"} /\ NextPage > Len(pdf)
  /\ pageStage' = IF NeedsRecognition THEN "paddleocr" ELSE "done"
  /\ UNCHANGED <<extractor, pdf, texts, boxes, recognized, replaced>>

Scan(i, n) == [k \in 1 .. n |-> [image |-> i, part |-> k]]

(* An engine renders every page in turn; one it cannot read counts as      *)
(* empty and keeps its number.                                             *)
PageResult(i, n) == <<[page |-> i, text |-> Scan(i, n)]>>

RecognizePage(n) ==
  /\ pageStage \in {"paddleocr", "tesseract"} /\ Len(recognized) < Len(pdf)
  /\ recognized' = recognized \o PageResult(Len(recognized) + 1, n)
  /\ UNCHANGED <<pageStage, extractor, pdf, texts, boxes, replaced>>

Enough == FoldSeq(LAMBDA page, n : n + Len(page.text), 0, recognized) >= MinRecognized

(* After the last page, or when rendering breaks off (what was read is     *)
(* kept), or at once when the engine is not installed.                     *)
EngineEnds ==
  /\ pageStage \in {"paddleocr", "tesseract"}
  /\ CASE Enough -> pageStage' = "fill" /\ UNCHANGED recognized
       [] ~Enough /\ pageStage = "paddleocr" -> pageStage' = "tesseract" /\ recognized' = <<>>
       [] OTHER -> pageStage' = "done" /\ recognized' = <<>>
  /\ UNCHANGED <<extractor, pdf, texts, boxes, replaced>>

(* The text recognised under a page's number.                              *)
Candidate(i) ==
  LET found == Kept(recognized, {k \in DOMAIN recognized : recognized[k].page = i})
  IN  IF found = <<>> THEN <<>> ELSE Last(found).text

AnyRecognized == {i \in DOMAIN texts : Candidate(i) # <<>>}

FilledIn == {i \in EmptyPages : Candidate(i) # <<>>}

FillPages ==
  /\ pageStage = "fill"
  /\ replaced' = FilledIn
  /\ texts' = [i \in DOMAIN texts |-> IF i \in FilledIn THEN Candidate(i) ELSE texts[i]]
  /\ boxes' = Kept(boxes, {k \in DOMAIN boxes : boxes[k].page \notin FilledIn})
  /\ pageStage' = "done"
  /\ UNCHANGED <<extractor, pdf, recognized>>

ClosePdf ==
  /\ pageStage \in {"done", "failed"}
  /\ pageStage' = "idle" /\ extractor' = "words" /\ pdf' = <<>> /\ texts' = <<>>
  /\ boxes' = <<>> /\ recognized' = <<>> /\ replaced' = {}

ExtractionNext ==
  \/ \E kind \in {"words", "layout"}, document \in Pdfs : OpenPdf(kind, document)
  \/ ParseWords \/ ParseLayout \/ ParseFails \/ EndParsing
  \/ \E n \in 0 .. MinRecognized : RecognizePage(n)
  \/ EngineEnds \/ FillPages \/ ClosePdf

ExtractionSpec == ExtractionInit /\ [][ExtractionNext]_extractionVars

(***************************************************************************)
(* Properties                                                              *)
(***************************************************************************)
(* The stages of an extraction and what belongs to them: recognised pages  *)
(* are there only while an engine runs or afterwards.                      *)
ExtractionTypeOK ==
  /\ pageStage \in {"idle", "words", "layout", "paddleocr", "tesseract", "fill",
                "done", "failed"}
  /\ extractor \in {"words", "layout"}
  /\ Len(texts) <= Len(pdf) /\ Len(recognized) <= Len(pdf)
  /\ replaced \subseteq DOMAIN texts
  /\ pageStage \in {"idle", "words", "layout"} => recognized = <<>> /\ replaced = {}

(* The words of a body in the order in which a reader takes them.          *)
ReadBefore(page, v, w) ==
  IF page.dual /\ v.col # w.col THEN v.col < w.col ELSE Above(v, w)

InReadingOrder(page, text) ==
  \A i, j \in DOMAIN text : i < j => ReadBefore(page, text[i], text[j])

(* An extraction that ends (extract_pages, extract_document_with_layout)   *)
(* has every page under its own number.  A page with text of its own keeps *)
(* it, all of its body and, for plain text, one column before the other    *)
(* even where lost spaces forced the way over single characters; a page    *)
(* without text has what an engine read on that very page, although        *)
(* engines fail, stop early or take over from each other; and the blocks   *)
(* to be overlaid are exactly the text of the pages that were not scanned. *)
PagesInPlace ==
  pageStage = "done" =>
    /\ Len(texts) = Len(pdf)
    /\ \A i \in DOMAIN pdf :
         IF i \in replaced
         THEN Placed(pdf[i]) = <<>> /\ \A k \in DOMAIN texts[i] : texts[i][k].image = i
         ELSE /\ {w \in Body(Words(pdf[i])) : ~w.caption} \subseteq ToSet(texts[i])
              /\ ToSet(texts[i]) \subseteq Words(pdf[i])
              /\ extractor = "words" => InReadingOrder(pdf[i], texts[i])
    /\ extractor = "layout" =>
         FlattenSeq([i \in DOMAIN texts |-> IF i \in replaced THEN <<>> ELSE texts[i]])
           = [k \in DOMAIN boxes |-> boxes[k].word]
=============================================================================
