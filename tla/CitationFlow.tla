----------------------------- MODULE CitationFlow -----------------------------
(* References from the Zotero library to the numbered citations of a       *)
(* manuscript.  The library is asked through the cloud or, without a key,  *)
(* through the desktop program, which may go away between the probe and    *)
(* the request; the index numbers the citations of the text and replaces   *)
(* them.  A text is a sequence of citations and of other words.            *)
EXTENDS Integers, FiniteSets, ListFilter

CONSTANTS
  PaperCount, \* number of items in the library
  Broken,     \* those whose data _parse_item cannot read
  CiteKeys,   \* citation keys
  CiteKeyOf,      \* paper -> its citation_key (first author and year)
  PageLimit,  \* the most items one search returns
  NoPaper,
  MaxWords    \* bound: words of a manuscript

Papers == 1 .. PaperCount    \* the items, in the library's order

(* [@key] and [@key, p. 1], [key], and [@key, pp. 1-2], which no pattern   *)
(* matches: it stays like any other word.                                  *)
Forms == {"at", "bare", "range"}
Word == [form : Forms, key : CiteKeys]

ASSUME CitationAssumption ==
  /\ PaperCount \in Nat /\ Broken \subseteq Papers
  /\ CiteKeyOf \in [Papers -> CiteKeys]
  /\ PageLimit \in Nat /\ MaxWords \in Nat /\ NoPaper \notin Papers

VARIABLES
  cloudKey,     \* the configuration has a key and a user
  desktop,      \* the desktop program answers
  request,      \* the request that runs: its operation, mode and items
  library,      \* the papers the last request gave
  bibliography, \* citation key -> the paper it stands for, or NoPaper
  manuscript,   \* the text with its citations
  indexed       \* what /api/citation/index made of the text, until that changes

citationVars == <<cloudKey, desktop, request, library, bibliography, manuscript, indexed>>

NoRequest == [op |-> "none", mode |-> "unavailable", papers |-> {}]
NotIndexed == [from |-> <<>>, text |-> <<>>, keys |-> <<>>, found |-> {}]

CitationInit ==
  /\ cloudKey = FALSE /\ desktop = TRUE
  /\ request = NoRequest /\ library = <<>>
  /\ bibliography = [k \in CiteKeys |-> NoPaper]
  /\ manuscript = <<>> /\ indexed = NotIndexed

Configure ==
  /\ cloudKey' = ~cloudKey
  /\ UNCHANGED <<desktop, request, library, bibliography, manuscript, indexed>>

DesktopToggles ==
  /\ desktop' = ~desktop
  /\ UNCHANGED <<cloudKey, request, library, bibliography, manuscript, indexed>>

(***************************************************************************)
(* The library                                                             *)
(***************************************************************************)
Mode == CASE cloudKey -> "cloud" [] ~cloudKey /\ desktop -> "local" [] OTHER -> "unavailable"

(* A request resolves its mode first; without one it is refused.           *)
Ask(op, papers) ==
  /\ request = NoRequest /\ Mode # "unavailable"
  /\ request' = [op |-> op, mode |-> Mode, papers |-> papers]
  /\ UNCHANGED <<cloudKey, desktop, library, bibliography, manuscript, indexed>>

ById(papers) == Kept([p \in Papers |-> p], papers)
Readable(papers) == papers \ Broken
FirstPage(papers) == {p \in papers : Cardinality({q \in papers : q < p}) < PageLimit}

(* A search gives one page of what matches; items asked for by their keys  *)
(* come all.  An item that cannot be read is left out.                     *)
Given(op, papers) ==
  ById(Readable(IF op = "items" THEN papers ELSE FirstPage(papers)))

Answer ==
  /\ request # NoRequest
  /\ request.mode = "local" => desktop
  /\ library' = Given(request.op, request.papers)
  /\ request' = NoRequest
  /\ UNCHANGED <<cloudKey, desktop, bibliography, manuscript, indexed>>

AnswerFails ==
  /\ request # NoRequest
  /\ request' = NoRequest
  /\ UNCHANGED <<cloudKey, desktop, library, bibliography, manuscript, indexed>>

(***************************************************************************)
(* The manuscript                                                          *)
(***************************************************************************)
Write(word) ==
  /\ Len(manuscript) < MaxWords
  /\ manuscript' = Append(manuscript, word) /\ indexed' = NotIndexed
  /\ UNCHANGED <<cloudKey, desktop, request, library, bibliography>>

(* The entries the page passes on, by citation key: of two papers with the *)
(* same key the later one stays.                                           *)
Bibliography(papers) ==
  [k \in CiteKeys |->
     LET same == Kept(papers, {i \in DOMAIN papers : CiteKeyOf[papers[i]] = k})
     IN  IF same = <<>> THEN NoPaper ELSE Last(same)]

SetBibliography ==
  /\ library # <<>>
  /\ bibliography' = Bibliography(library)
  /\ UNCHANGED <<cloudKey, desktop, request, library, manuscript, indexed>>

KeysOf(text, form) ==
  LET found == Kept(text, {i \in DOMAIN text : text[i].form = form})
  IN  [i \in DOMAIN found |-> found[i].key]

(* The citations with @ first, then those without.                         *)
Extracted(text) == KeysOf(text, "at") \o KeysOf(text, "bare")

EveryKeyCounts(keys) == keys

(* Each key once, at its first place; its number is its position.          *)
Numbered(keys) ==
  Kept(keys, {i \in DOMAIN keys : \A j \in 1 .. i - 1 : keys[j] # keys[i]})

NumberOf(key, keys) == SelectInSeq(keys, LAMBDA k : k = key)

Shown(word, keys) ==
  IF word.form = "at" THEN [form |-> "number", number |-> NumberOf(word.key, keys)]
  ELSE word

IndexOf(text) ==
  LET keys == Numbered(Extracted(text))
  IN  [from |-> text, text |-> [i \in DOMAIN text |-> Shown(text[i], keys)],
       keys |-> keys, found |-> {k \in CiteKeys : bibliography[k] # NoPaper}]

IndexCitations ==
  /\ manuscript # <<>>
  /\ indexed' = IndexOf(manuscript)
  /\ UNCHANGED <<cloudKey, desktop, request, library, bibliography, manuscript>>

CitationNext ==
  \/ Configure \/ DesktopToggles
  \/ \E op \in {"search", "items"}, papers \in SUBSET Papers : Ask(op, papers)
  \/ Answer \/ AnswerFails
  \/ \E word \in Word : Write(word)
  \/ SetBibliography \/ IndexCitations

CitationSpec == CitationInit /\ [][CitationNext]_citationVars

(***************************************************************************)
(* Properties                                                              *)
(***************************************************************************)
(* Requests, library, texts and index have their types; what the library   *)
(* gave can be read.                                                       *)
CitationTypeOK ==
  /\ request.op \in {"none", "search", "items"}
  /\ request.mode \in {"cloud", "local", "unavailable"}
  /\ ToSet(library) \subseteq Papers \ Broken
  /\ bibliography \in [CiteKeys -> Papers \cup {NoPaper}]
  /\ manuscript \in Seq(Word) /\ Len(manuscript) <= MaxWords
  /\ ToSet(indexed.keys) \subseteq CiteKeys

(* In an indexed text (CitationIndexer.process) two citations with @ carry *)
(* the same number exactly when they cite the same key; the numbers of the *)
(* reference list are used up without gaps or repeats; every number in the *)
(* text has its line in the list; citations with @ are numbered in their   *)
(* order of appearance among themselves; and all else stays as it was.     *)
CitationsNumbered ==
  LET at == {i \in DOMAIN indexed.from : indexed.from[i].form = "at"}
      number(i) == indexed.text[i].number
  IN  /\ \A i \in DOMAIN indexed.from \ at : indexed.text[i] = indexed.from[i]
      /\ \A i, j \in at :
           (number(i) = number(j)) <=> (indexed.from[i].key = indexed.from[j].key)
      /\ IsInjective(indexed.keys)
      /\ \A i \in at : number(i) \in DOMAIN indexed.keys
      /\ \A j \in at : \A n \in 1 .. number(j) - 1 : \E i \in at : i < j /\ number(i) = n

(* build_index numbers the citations "by order of appearance".             *)
NumberedAsTheyAppear ==
  LET cites == {i \in DOMAIN indexed.from : indexed.from[i].form \in {"at", "bare"}}
      number(i) == NumberOf(indexed.from[i].key, indexed.keys)
  IN  \A j \in cites : \A n \in 1 .. number(j) - 1 : \E i \in cites : i < j /\ number(i) = n
=============================================================================
