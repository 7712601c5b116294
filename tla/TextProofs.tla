----------------------------- MODULE TextProofs -----------------------------
(***************************************************************************)
(* Proofs about a text on its way from the pages of a PDF to the chunks,   *)
(* through citations and the editor, and about the anchors of notes in it: *)
(* that nothing of it gets lost, doubled or out of place; and about what   *)
(* is noted of a text: the argument graph, the promise ledger and the      *)
(* reviews.  Each part has an inductive invariant of its own.              *)
(***************************************************************************)
EXTENDS CitationFlow, EditorAssist, ChunkPacking, PageExtraction, TextAnchors,
        ArgumentGraph, PromiseLedger, ReviewSessions,
        FiniteSetTheorems, SequenceTheorems, TLAPS

-----------------------------------------------------------------------------
(***************************************************************************)
(* Citations.                                                              *)
(***************************************************************************)
(* A non-empty list of keys filtered: it comes as a sequence of such keys. *)
LEMMA KeysAreKeys ==
  ASSUME NEW text \in Seq(Word), NEW form
  PROVE  /\ KeysOf(text, form) \in Seq(CiteKeys)
         /\ \E at : /\ at \in [1..Len(KeysOf(text, form)) -> DOMAIN text]
                    /\ \A p \in 1..Len(KeysOf(text, form)) :
                         text[at[p]].form = form /\ KeysOf(text, form)[p] = text[at[p]].key
                    /\ \A i \in DOMAIN text :
                         text[i].form = form => \E p \in 1..Len(KeysOf(text, form)) : at[p] = i
                    /\ \A p, q \in 1..Len(KeysOf(text, form)) : p < q => at[p] < at[q]
<1> DEFINE K == {i \in DOMAIN text : text[i].form = form}
           found == Kept(text, K)
           keys == KeysOf(text, form)
<1>1. found \in Seq(Word) /\ Len(text) \in Nat /\ DOMAIN text = 1..Len(text)
  BY KeptIsList
<1>2. PICK at : /\ at \in [1..Len(found) -> K \cap (1..Len(text))]
                /\ \A p \in 1..Len(found) : found[p] = text[at[p]]
                /\ \A i \in K \cap (1..Len(text)) : \E p \in 1..Len(found) : at[p] = i
                /\ \A p, q \in 1..Len(found) : p < q => at[p] < at[q]
  BY KeptPlaces
<1>3. keys = [i \in DOMAIN found |-> found[i].key]
  BY DEF KeysOf
<1>4. K \cap (1..Len(text)) = K
  BY <1>1
<1>5. \A i \in K : i \in DOMAIN text /\ text[i].form = form
  OBVIOUS
<1>6. \A i \in DOMAIN text : text[i].form = form => i \in K
  OBVIOUS
<1> HIDE DEF K, keys
<1>7. /\ Len(found) \in Nat /\ DOMAIN found = 1..Len(found)
      /\ \A i \in 1..Len(found) : found[i] \in Word
  BY <1>1
<1> HIDE DEF found
<1>8. \A w \in Word : w.key \in CiteKeys
  BY DEF Word
<1>9. keys \in Seq(CiteKeys) /\ Len(keys) = Len(found)
  <2>1. keys \in [1..Len(found) -> CiteKeys]
    BY <1>3, <1>7, <1>8
  <2> QED
    BY <1>7, <2>1
<1>10. /\ at \in [1..Len(keys) -> DOMAIN text]
       /\ \A p \in 1..Len(keys) : text[at[p]].form = form /\ keys[p] = text[at[p]].key
       /\ \A i \in DOMAIN text : text[i].form = form => \E p \in 1..Len(keys) : at[p] = i
       /\ \A p, q \in 1..Len(keys) : p < q => at[p] < at[q]
  <2>1. at \in [1..Len(keys) -> DOMAIN text]
    BY <1>2, <1>4, <1>5, <1>9
  <2>2. ASSUME NEW p \in 1..Len(keys)
        PROVE  text[at[p]].form = form /\ keys[p] = text[at[p]].key
    <3>1. at[p] \in K /\ found[p] = text[at[p]] /\ keys[p] = found[p].key
      BY <1>2, <1>3, <1>4, <1>7, <1>9
    <3> QED
      BY <1>5, <3>1
  <2>3. \A i \in DOMAIN text : text[i].form = form => \E p \in 1..Len(keys) : at[p] = i
    BY <1>2, <1>4, <1>6, <1>9
  <2> QED
    BY <1>2, <1>9, <2>1, <2>2, <2>3
<1> QED
  BY <1>9, <1>10 DEF keys

(* Where the keys of a numbered list come from: from their first places,   *)
(* in their order, and no key is left out.                                 *)
FirstPlaces(pos, list, keys) ==
  /\ pos \in [1..Len(list) -> 1..Len(keys)]
  /\ \A p \in 1..Len(list) : /\ list[p] = keys[pos[p]]
                              /\ \A i \in 1..Len(keys) : keys[i] = keys[pos[p]] => pos[p] <= i
  /\ \A i \in 1..Len(keys) : \E p \in 1..Len(list) : list[p] = keys[i]
  /\ \A p, q \in 1..Len(list) : p < q => pos[p] < pos[q]

(* The numbered list has each key of the text once; a key that comes       *)
(* earlier in the list has its first place earlier.                        *)
LEMMA EachKeyOnce ==
  ASSUME NEW S, NEW keys \in Seq(S)
  PROVE  /\ Numbered(keys) \in Seq(S)
         /\ IsInjective(Numbered(keys))
         /\ \E pos : FirstPlaces(pos, Numbered(keys), keys)
<1> DEFINE K == {i \in DOMAIN keys : \A j \in 1 .. i - 1 : keys[j] # keys[i]}
           list == Kept(keys, K)
           n == Len(keys)
<1>0. n \in Nat /\ DOMAIN keys = 1..n
  OBVIOUS
<1>1. list \in Seq(S) /\ Len(list) \in Nat /\ DOMAIN list = 1..Len(list)
  BY KeptIsList
<1>2. PICK pos : /\ pos \in [1..Len(list) -> K \cap (1..n)]
                 /\ \A p \in 1..Len(list) : list[p] = keys[pos[p]]
                 /\ \A i \in K \cap (1..n) : \E p \in 1..Len(list) : pos[p] = i
                 /\ \A p, q \in 1..Len(list) : p < q => pos[p] < pos[q]
  BY KeptPlaces
<1>3. \A i \in K : i \in 1..n /\ \A j \in 1..n : keys[j] = keys[i] => i <= j
  <2> SUFFICES ASSUME NEW i \in K, NEW j \in 1..n, keys[j] = keys[i], ~(i <= j)
               PROVE  FALSE
    BY <1>0
  <2>1. i \in 1..n /\ j \in 1 .. i - 1
    BY <1>0
  <2> QED
    BY <2>1
<1>4. ASSUME NEW i \in 1..n
      PROVE  \E k \in K : keys[k] = keys[i]
  <2> DEFINE Same == {k \in 1..n : keys[k] = keys[i]}
  <2>1. PICK k \in Same : \A j \in Same : k <= j
    <3>1. Same \subseteq Nat /\ Same # {}
      BY <1>0
    <3> HIDE DEF Same
    <3> QED
      BY <3>1, LeastNumber
  <2>2. \A j \in 1 .. k - 1 : keys[j] # keys[k]
    <3> SUFFICES ASSUME NEW j \in 1 .. k - 1, keys[j] = keys[k] PROVE FALSE
      OBVIOUS
    <3>1. j \in Same /\ ~(k <= j)
      BY <1>0, <2>1
    <3> HIDE DEF Same
    <3> QED
      BY <2>1, <3>1
  <2> QED
    BY <1>0, <2>1, <2>2
<1>5. Numbered(keys) = list
  BY DEF Numbered
<1> HIDE DEF K, list, n
<1>6. \A p \in 1..Len(list) : pos[p] \in K /\ pos[p] \in 1..n
  BY <1>2
<1>7. IsInjective(list)
  <2>1. \A p, q \in 1..Len(list) : p < q => list[p] # list[q]
    <3> SUFFICES ASSUME NEW p \in 1..Len(list), NEW q \in 1..Len(list), p < q, list[p] = list[q]
                 PROVE  FALSE
      OBVIOUS
    <3>1. pos[p] < pos[q] /\ keys[pos[p]] = keys[pos[q]]
      BY <1>2
    <3>2. pos[q] <= pos[p]
      BY <1>3, <1>6, <3>1
    <3>3. pos[p] \in Nat /\ pos[q] \in Nat
      BY <1>6
    <3> QED
      BY <3>1, <3>2, <3>3
  <2>2. \A p, q \in 1..Len(list) : p = q \/ p < q \/ q < p
    BY <1>1
  <2> QED
    BY <1>1, <2>1, <2>2 DEF IsInjective
<1>8. FirstPlaces(pos, list, keys)
  <2>1. pos \in [1..Len(list) -> 1..n]
    BY <1>2
  <2>2. ASSUME NEW i \in 1..n
        PROVE  \E p \in 1..Len(list) : list[p] = keys[i]
    <3>1. PICK k \in K : keys[k] = keys[i]
      BY <1>4
    <3>2. k \in K \cap (1..n)
      BY <1>3
    <3> QED
      BY <1>2, <3>1, <3>2
  <2>3. \A p \in 1..Len(list) : /\ list[p] = keys[pos[p]]
                                /\ \A i \in 1..n : keys[i] = keys[pos[p]] => pos[p] <= i
    BY <1>2, <1>3, <1>6
  <2> QED
    BY <1>2, <2>1, <2>2, <2>3 DEF FirstPlaces, n
<1> QED
  BY <1>1, <1>5, <1>7, <1>8

(* The number of a key is its place in a list that has it once.            *)
LEMMA NumberIsPlace ==
  ASSUME NEW S, NEW keys \in Seq(S), IsInjective(keys), NEW p \in 1..Len(keys)
  PROVE  NumberOf(keys[p], keys) = p
<1> DEFINE I == {i \in 1..Len(keys) : keys[i] = keys[p]}
<1>1. I = {p}
  BY DEF IsInjective
<1>2. NumberOf(keys[p], keys) = IF I # {} THEN Min(I) ELSE 0
  BY DEF NumberOf, SelectInSeq
<1>3. Min({p}) = p
  BY DEF Min
<1> QED
  BY <1>1, <1>2, <1>3

(* A list that numbers the citations of a text with @: it has each of them *)
(* once, in their order.                                                   *)
Numbers(list, text) ==
  /\ list \in Seq(CiteKeys) /\ IsInjective(list)
  /\ \A i \in DOMAIN text : text[i].form = "at" =>
       \E p \in 1..Len(list) :
         /\ list[p] = text[i].key /\ NumberOf(text[i].key, list) = p
         /\ \A q \in 1 .. p - 1 :
              \E j \in DOMAIN text : /\ j < i /\ text[j].form = "at"
                                     /\ NumberOf(text[j].key, list) = q

(* The index of a text numbers its citations.                              *)
LEMMA IndexIsRight ==
  ASSUME NEW text \in Seq(Word)
  PROVE  Numbers(Numbered(Extracted(text)), text)
<1> DEFINE first == KeysOf(text, "at")
           second == KeysOf(text, "bare")
           all == first \o second
           keys == Numbered(all)
<1>1. /\ first \in Seq(CiteKeys) /\ second \in Seq(CiteKeys)
  BY KeysAreKeys
<1>2. PICK at : /\ at \in [1..Len(first) -> DOMAIN text]
                /\ \A p \in 1..Len(first) : text[at[p]].form = "at" /\ first[p] = text[at[p]].key
                /\ \A i \in DOMAIN text : text[i].form = "at" => \E p \in 1..Len(first) : at[p] = i
                /\ \A p, q \in 1..Len(first) : p < q => at[p] < at[q]
  BY KeysAreKeys
<1>3. /\ all \in Seq(CiteKeys) /\ Len(first) \in Nat /\ Len(all) \in Nat /\ Len(first) <= Len(all)
      /\ \A p \in 1..Len(first) : all[p] = first[p]
  <2> HIDE DEF first, second
  <2> QED
    BY <1>1
<1> HIDE DEF first, second, all
<1>4. keys \in Seq(CiteKeys) /\ IsInjective(keys) /\ Len(keys) \in Nat
  BY <1>3, EachKeyOnce
<1>p. PICK pos : FirstPlaces(pos, keys, all)
  <2>1. \E pos : FirstPlaces(pos, Numbered(all), all)
    BY <1>3, EachKeyOnce
  <2> QED
    BY <2>1
<1> HIDE DEF keys
<1>5. /\ pos \in [1..Len(keys) -> 1..Len(all)]
      /\ \A p \in 1..Len(keys) :
           /\ keys[p] = all[pos[p]]
           /\ \A i \in 1..Len(all) : all[i] = all[pos[p]] => pos[p] <= i
      /\ \A i \in 1..Len(all) : \E p \in 1..Len(keys) : keys[p] = all[i]
      /\ \A p, q \in 1..Len(keys) : p < q => pos[p] < pos[q]
  BY <1>p DEF FirstPlaces
<1>6. ASSUME NEW i \in DOMAIN text, text[i].form = "at"
      PROVE  \E p \in 1..Len(keys) :
               /\ keys[p] = text[i].key /\ NumberOf(text[i].key, keys) = p
               /\ \A q \in 1 .. p - 1 :
                    \E j \in DOMAIN text : /\ j < i /\ text[j].form = "at"
                                           /\ NumberOf(text[j].key, keys) = q
  <2>1. PICK x \in 1..Len(first) : at[x] = i
    BY <1>2, <1>6
  <2>2. x \in 1..Len(all) /\ all[x] = text[i].key
    BY <1>2, <1>3, <2>1
  <2>3. PICK p \in 1..Len(keys) : keys[p] = all[x]
    BY <1>5, <2>2
  <2>4. pos[p] <= x /\ pos[p] \in 1..Len(all)
    BY <1>5, <2>2, <2>3
  <2>5. NumberOf(text[i].key, keys) = p
    BY <1>4, <2>2, <2>3, NumberIsPlace
  <2>6. ASSUME NEW q \in 1 .. p - 1
        PROVE  \E j \in DOMAIN text : /\ j < i /\ text[j].form = "at"
                                      /\ NumberOf(text[j].key, keys) = q
    <3>1. q \in 1..Len(keys) /\ q < p
      BY <1>4
    <3>2. pos[q] < pos[p] /\ pos[q] \in 1..Len(all) /\ keys[q] = all[pos[q]]
      BY <1>5, <3>1
    <3>3. pos[q] \in 1..Len(first) /\ pos[q] < x
      BY <1>3, <2>4, <3>2, SMTT(30)
    <3>4. /\ at[pos[q]] \in DOMAIN text /\ at[pos[q]] < i /\ text[at[pos[q]]].form = "at"
          /\ text[at[pos[q]]].key = keys[q]
      BY <1>2, <1>3, <2>1, <3>2, <3>3
    <3>5. NumberOf(keys[q], keys) = q
      BY <1>4, <3>1, NumberIsPlace
    <3> QED
      BY <3>4, <3>5
  <2> QED
    BY <2>2, <2>3, <2>5, <2>6
<1>7. keys = Numbered(Extracted(text))
  BY DEF keys, all, first, second, Extracted
<1>8. Numbers(keys, text)
  BY <1>4, <1>6 DEF Numbers
<1> QED
  BY <1>7, <1>8

-----------------------------------------------------------------------------
(* What holds of the citations in every state: the types, and the index is *)
(* the one of the text it was made of.                                     *)
IndexMade ==
  /\ indexed.from \in Seq(Word)
  /\ indexed.keys = Numbered(Extracted(indexed.from))
  /\ indexed.text = [i \in DOMAIN indexed.from |-> Shown(indexed.from[i], indexed.keys)]

CitationInv ==
  /\ request.op \in {"none", "search", "items"}
  /\ request.mode \in {"cloud", "local", "unavailable"}
  /\ request.papers \subseteq Papers
  /\ library \in Seq(Papers \ Broken)
  /\ bibliography \in [CiteKeys -> Papers \cup {NoPaper}]
  /\ manuscript \in Seq(Word) /\ Len(manuscript) <= MaxWords
  /\ IndexMade

(* Before any text is indexed, the index of no text is empty.              *)
LEMMA IndexOfNothing == NotIndexed.keys = Numbered(Extracted(NotIndexed.from))
<1>1. ASSUME NEW form PROVE KeysOf(<<>>, form) = <<>>
  <2> DEFINE found == Kept(<<>>, {i \in DOMAIN <<>> : <<>>[i].form = form})
  <2>1. found = <<>>
    BY KeptOfEmpty
  <2> HIDE DEF found
  <2>2. [i \in DOMAIN found |-> found[i].key] = <<>>
    BY <2>1
  <2> QED
    BY <2>2 DEF KeysOf, found
<1>2. Extracted(<<>>) = <<>>
  BY <1>1 DEF Extracted
<1>3. Numbered(<<>>) = <<>>
  BY KeptOfEmpty DEF Numbered
<1> QED
  BY <1>2, <1>3 DEF NotIndexed

(* The invariant holds before anything is cited.                           *)
LEMMA CitationStarts == CitationInit => CitationInv
<1> SUFFICES ASSUME CitationInit PROVE CitationInv
  OBVIOUS
<1>1. indexed.from = <<>> /\ indexed.text = <<>> /\ indexed.keys = Numbered(Extracted(indexed.from))
  BY IndexOfNothing DEF CitationInit, NotIndexed
<1>2. IndexMade
  BY <1>1 DEF IndexMade
<1>3. bibliography \in [CiteKeys -> Papers \cup {NoPaper}]
  BY DEF CitationInit
<1> QED
  BY <1>2, <1>3, CitationAssumption DEF CitationInit, CitationInv, NoRequest

(* Every step of citing and indexing keeps it.                             *)
LEMMA CitationKeeps == CitationInv /\ [CitationNext]_citationVars => CitationInv'
<1> SUFFICES ASSUME CitationInv, [CitationNext]_citationVars PROVE CitationInv'
  OBVIOUS
<1> USE DEF CitationInv
<1>1. CASE Configure \/ DesktopToggles \/ UNCHANGED citationVars
  BY <1>1 DEF Configure, DesktopToggles, citationVars, IndexMade
<1>2. ASSUME NEW op \in {"search", "items"}, NEW papers \in SUBSET Papers, Ask(op, papers)
      PROVE  CitationInv'
  <2>1. IndexMade'
    BY <1>2 DEF Ask, IndexMade
  <2>2. request'.op = op /\ request'.mode = Mode /\ request'.papers = papers
    BY <1>2 DEF Ask
  <2>3. Mode \in {"cloud", "local", "unavailable"}
    BY DEF Mode
  <2> QED
    BY <1>2, <2>1, <2>2, <2>3 DEF Ask
<1>3. CASE Answer
  <2>1. IndexMade' /\ request'.papers \subseteq Papers
    BY <1>3 DEF Answer, IndexMade, NoRequest
  <2>2. ASSUME NEW papers \in SUBSET Papers
        PROVE  ById(Readable(papers)) \in Seq(Papers \ Broken)
    <3> DEFINE ids == [p \in Papers |-> p]
               K == Readable(papers)
               list == Kept(ids, K)
    <3>1. ids \in Seq(Papers)
      BY CitationAssumption DEF Papers
    <3> HIDE DEF ids, K
    <3>2. list \in Seq(Papers) /\ ToSet(list) = {ids[i] : i \in K \cap DOMAIN ids}
      BY <3>1, KeptElements
    <3>3. ToSet(list) \subseteq Papers \ Broken
      BY <3>2 DEF Readable, ids, K
    <3> HIDE DEF list
    <3>4. list \in Seq(Papers \ Broken)
      BY <3>2, <3>3 DEF ToSet
    <3> QED
      BY <3>4 DEF ById, list, ids, K
  <2>3. FirstPage(request.papers) \in SUBSET Papers
    BY DEF FirstPage
  <2>4. library' \in Seq(Papers \ Broken)
    BY <1>3, <2>2, <2>3 DEF Answer, Given
  <2> QED
    BY <1>3, <2>1, <2>4 DEF Answer, NoRequest
<1>4. CASE AnswerFails
  BY <1>4 DEF AnswerFails, IndexMade, NoRequest
<1>5. ASSUME NEW word \in Word, Write(word)
      PROVE  CitationInv'
  <2>1. IndexMade'
    <3>1. indexed'.from = <<>> /\ indexed'.text = <<>> /\ indexed' = NotIndexed
      BY <1>5 DEF Write, NotIndexed
    <3> QED
      BY <3>1, IndexOfNothing DEF IndexMade
  <2>2. manuscript' \in Seq(Word) /\ Len(manuscript') <= MaxWords
    BY <1>5, CitationAssumption DEF Write
  <2> QED
    BY <1>5, <2>1, <2>2 DEF Write
<1>6. CASE SetBibliography
  <2>1. IndexMade'
    BY <1>6 DEF SetBibliography, IndexMade
  <2>2. bibliography' \in [CiteKeys -> Papers \cup {NoPaper}]
    <3> SUFFICES ASSUME NEW k \in CiteKeys
                 PROVE  LET same == Kept(library, {i \in DOMAIN library : CiteKeyOf[library[i]] = k})
                        IN  (IF same = <<>> THEN NoPaper ELSE Last(same)) \in Papers \cup {NoPaper}
      BY <1>6 DEF SetBibliography, Bibliography
    <3> DEFINE same == Kept(library, {i \in DOMAIN library : CiteKeyOf[library[i]] = k})
    <3>1. same \in Seq(Papers \ Broken)
      BY KeptIsList
    <3> HIDE DEF same
    <3>2. same # <<>> => Last(same) \in Papers
      BY <3>1 DEF Last
    <3> QED
      BY <3>2 DEF same
  <2> QED
    BY <1>6, <2>1, <2>2 DEF SetBibliography
<1>7. CASE IndexCitations
  <2>1. IndexMade'
    BY <1>7 DEF IndexCitations, IndexOf, IndexMade
  <2> QED
    BY <1>7, <2>1 DEF IndexCitations
<1> QED
  BY <1>1, <1>2, <1>3, <1>4, <1>5, <1>6, <1>7 DEF CitationNext

(* The index of a text numbers its citations (CitationTypeOK,              *)
(* CitationsNumbered).                                                     *)
LEMMA CitationsAreNumbered == CitationInv => CitationTypeOK /\ CitationsNumbered
<1> SUFFICES ASSUME CitationInv PROVE CitationTypeOK /\ CitationsNumbered
  OBVIOUS
<1> DEFINE from == indexed.from
           keys == indexed.keys
           at == {i \in DOMAIN from : from[i].form = "at"}
           number(i) == indexed.text[i].number
<1>1. /\ from \in Seq(Word) /\ keys = Numbered(Extracted(from))
      /\ indexed.text = [i \in DOMAIN from |-> Shown(from[i], keys)]
  BY DEF CitationInv, IndexMade
<1>2. Numbers(keys, from)
  BY <1>1, IndexIsRight
<1> HIDE DEF from, keys
<1>a. /\ keys \in Seq(CiteKeys) /\ IsInjective(keys)
      /\ \A i \in DOMAIN from : from[i].form = "at" =>
           \E p \in 1..Len(keys) :
             /\ keys[p] = from[i].key /\ NumberOf(from[i].key, keys) = p
             /\ \A q \in 1 .. p - 1 :
                  \E j \in DOMAIN from : /\ j < i /\ from[j].form = "at"
                                         /\ NumberOf(from[j].key, keys) = q
  BY <1>2 DEF Numbers
<1>3. \A i \in DOMAIN from \ at : indexed.text[i] = from[i]
  BY <1>1 DEF Shown, from, keys
<1>4. \A i \in at : number(i) = NumberOf(from[i].key, keys)
  BY <1>1 DEF Shown, from, keys
<1>5. DOMAIN keys = 1..Len(keys) /\ ToSet(keys) \subseteq CiteKeys
  BY <1>a DEF ToSet
<1>6. library \in Seq(Papers \ Broken)
  BY DEF CitationInv
<1>7. ToSet(library) \subseteq Papers \ Broken
  BY <1>6 DEF ToSet
<1> HIDE DEF number
<1>8. \A i, j \in at : (number(i) = number(j)) <=> (from[i].key = from[j].key)
  <2> SUFFICES ASSUME NEW i \in at, NEW j \in at
               PROVE  (number(i) = number(j)) <=> (from[i].key = from[j].key)
    OBVIOUS
  <2>1. PICK p \in 1..Len(keys) : keys[p] = from[i].key /\ NumberOf(from[i].key, keys) = p
    BY <1>a
  <2>2. PICK q \in 1..Len(keys) : keys[q] = from[j].key /\ NumberOf(from[j].key, keys) = q
    BY <1>a
  <2> QED
    BY <1>4, <2>1, <2>2
<1>9. \A i \in at : number(i) \in DOMAIN keys
  BY <1>a, <1>4, <1>5
<1>10. \A j \in at : \A n \in 1 .. number(j) - 1 : \E i \in at : i < j /\ number(i) = n
  <2> SUFFICES ASSUME NEW j \in at, NEW n \in 1 .. number(j) - 1
               PROVE  \E i \in at : i < j /\ number(i) = n
    OBVIOUS
  <2>1. PICK i \in DOMAIN from : i < j /\ from[i].form = "at" /\ NumberOf(from[i].key, keys) = n
    BY <1>a, <1>4
  <2> QED
    BY <1>4, <2>1
<1>11. CitationsNumbered
  BY <1>a, <1>3, <1>8, <1>9, <1>10 DEF CitationsNumbered, number, from, keys
<1>12. CitationTypeOK
  BY <1>5, <1>7 DEF CitationInv, CitationTypeOK, keys
<1> QED
  BY <1>11, <1>12

(* In an indexed text citations carry their keys' numbers, and the list has*)
(* a line for each: citation_indexer.py, for any texts and keys.           *)
THEOREM CitationsStayNumbered == CitationSpec => []CitationsNumbered
<1> QED
  BY CitationStarts, CitationKeeps, CitationsAreNumbered, PTL DEF CitationSpec
-----------------------------------------------------------------------------
(***************************************************************************)
(* The editor: edits by the model, and exports.                            *)
(***************************************************************************)
(* The places of a list of n elements are n.                               *)
LEMMA UpTo ==
  ASSUME NEW n \in Nat
  PROVE  IsFiniteSet(1..n) /\ Cardinality(1..n) = n
<1>1. 1 \in Int /\ n \in Int
  OBVIOUS
<1>2. IsFiniteSet(1..n) /\ Cardinality(1..n) = IF 1 > n THEN 0 ELSE n - 1 + 1
  BY <1>1, FS_Interval
<1> QED
  BY <1>2

(* A sequence has at most as many elements as places.                      *)
LEMMA NoMoreThanPlaces ==
  ASSUME NEW S, NEW s \in Seq(S)
  PROVE  IsFiniteSet(ToSet(s)) /\ Cardinality(ToSet(s)) <= Len(s)
<1>1. IsFiniteSet(1..Len(s)) /\ Cardinality(1..Len(s)) = Len(s) /\ Len(s) \in Nat
  BY UpTo
<1>2. s \in Surjection(1..Len(s), ToSet(s))
  <2>1. DOMAIN s = 1..Len(s) /\ s \in [1..Len(s) -> S]
    BY LenProperties
  <2>2. s \in [1..Len(s) -> ToSet(s)]
    BY <2>1 DEF ToSet
  <2> QED
    BY <2>1, <2>2 DEF Surjection, ToSet
<1> QED
  BY <1>1, <1>2, FS_Surjection

(* A text that has room has a cell it does not use.                        *)
LEMMA ThereIsANewCell ==
  ASSUME NEW s \in Seq(Cell), Len(s) < MaxCells
  PROVE  NewCell(s) \in Cell
<1>1. IsFiniteSet(1..MaxCells) /\ Cardinality(1..MaxCells) = MaxCells
  BY EditorAssumption, UpTo
<1>2. IsFiniteSet(ToSet(s)) /\ Cardinality(ToSet(s)) <= Len(s) /\ Len(s) \in Nat
  BY NoMoreThanPlaces
<1>3. ~ (1..MaxCells \subseteq ToSet(s))
  <2> SUFFICES ASSUME 1..MaxCells \subseteq ToSet(s) PROVE FALSE
    OBVIOUS
  <2>1. Cardinality(1..MaxCells) <= Cardinality(ToSet(s))
    BY <1>2, FS_Subset
  <2>2. Cardinality(ToSet(s)) \in Nat
    BY <1>2, FS_CardinalityType
  <2> QED
    BY <1>1, <1>2, <2>1, <2>2, EditorAssumption
<1>4. \E c \in 1..MaxCells : c \notin ToSet(s)
  BY <1>3
<1> QED
  BY <1>4 DEF NewCell, Cell

(* Putting a text together from a front, some cells and a rest.            *)
LEMMA PutTogether ==
  ASSUME NEW S, NEW s \in Seq(S), NEW e \in S, NEW i \in 1 .. Len(s) + 1, NEW j \in Nat, j >= 1
  PROVE  SubSeq(s, 1, i - 1) \o <<e>> \o SubSeq(s, j, Len(s)) \in Seq(S)
<1>1. SubSeq(s, 1, i - 1) \in Seq(S) /\ <<e>> \in Seq(S)
  <2>1. \A k \in 1 .. i - 1 : s[k] \in S
    OBVIOUS
  <2> QED
    BY <2>1, SubSeqProperties
<1>2. SubSeq(s, j, Len(s)) \in Seq(S)
  <2>1. \A k \in j .. Len(s) : s[k] \in S
    OBVIOUS
  <2> QED
    BY <2>1, SubSeqProperties
<1> QED
  BY <1>1, <1>2, ConcatProperties

-----------------------------------------------------------------------------
(* What holds of the edits in every state.  The page has the last delta of *)
(* a stream that came to its good end, or it waits; and while nobody has   *)
(* touched the text, the range of the edit holds what was selected.        *)
Told == (0 .. edit.full) \cup {Notice}

(* The page tells the last delta of a stream that ended well.              *)
AnswerComes ==
  /\ edit.shown \in Told /\ edit.deltas \in Seq(Told)
  /\ edit.ended = "done" =>
       IF edit.deltas = <<>> THEN edit.shown \in {edit.full, Notice}
       ELSE edit.deltas[Len(edit.deltas)] \in {edit.full, Notice}

(* While nobody has touched the text, the range holds the selection.       *)
RangeStands ==
  ~edit.touched =>
    /\ edit.from \in DOMAIN opened[shownTab] /\ edit.to \in DOMAIN opened[shownTab]
    /\ edit.from <= edit.to
    /\ edit.selected = {opened[shownTab][i] : i \in edit.from .. edit.to}

(* Tabs, the edit and the struck text, taken together.                     *)
AssistInv ==
  /\ opened \in [Tabs -> Seq(Cell)] /\ shownTab \in Tabs
  /\ edit # NoEdit =>
       /\ edit.from \in 1 .. MaxCells /\ edit.to \in 1 .. MaxCells
       /\ edit.ended \in {"no", "done", "broken"} /\ edit.full \in 0 .. MaxTokens
       /\ edit = [from |-> edit.from, to |-> edit.to, selected |-> edit.selected,
                  full |-> edit.full, deltas |-> edit.deltas, shown |-> edit.shown,
                  ended |-> edit.ended, touched |-> edit.touched]
       /\ AnswerComes /\ RangeStands
  /\ ~struck.touched => struck.gone = struck.selected

(* The invariant holds of a fresh editor.                                  *)
LEMMA AssistStarts == AssistInit => AssistInv
<1> SUFFICES ASSUME AssistInit PROVE AssistInv
  OBVIOUS
<1>1. <<1, 2>> \in Seq(Cell)
  BY EditorAssumption DEF Cell
<1>2. shownTab \in Tabs
  BY EditorAssumption DEF AssistInit
<1> QED
  BY <1>1, <1>2 DEF AssistInit, AssistInv

(* Somebody's typing under an edit only marks the edit as touched.         *)
LEMMA TouchedKeeps ==
  ASSUME AssistInv, edit' = Touched, edit' # NoEdit
  PROVE  /\ edit' = [from |-> edit'.from, to |-> edit'.to, selected |-> edit'.selected,
                     full |-> edit'.full, deltas |-> edit'.deltas, shown |-> edit'.shown,
                     ended |-> edit'.ended, touched |-> edit'.touched]
         /\ edit'.from \in 1 .. MaxCells /\ edit'.to \in 1 .. MaxCells
         /\ edit'.ended \in {"no", "done", "broken"} /\ edit'.full \in 0 .. MaxTokens
         /\ AnswerComes' /\ RangeStands'
<1>1. edit # NoEdit /\ edit' = [edit EXCEPT !.touched = TRUE]
  BY DEF Touched
<1>2. edit = [from |-> edit.from, to |-> edit.to, selected |-> edit.selected,
              full |-> edit.full, deltas |-> edit.deltas, shown |-> edit.shown,
              ended |-> edit.ended, touched |-> edit.touched]
  BY <1>1 DEF AssistInv
<1>3. edit' = [from |-> edit.from, to |-> edit.to, selected |-> edit.selected,
               full |-> edit.full, deltas |-> edit.deltas, shown |-> edit.shown,
               ended |-> edit.ended, touched |-> TRUE]
  BY <1>1, <1>2
<1>4. /\ edit'.from = edit.from /\ edit'.to = edit.to /\ edit'.full = edit.full
      /\ edit'.deltas = edit.deltas /\ edit'.shown = edit.shown /\ edit'.ended = edit.ended
      /\ edit'.touched /\ edit'.selected = edit.selected
  BY <1>3
<1>5. AnswerComes'
  BY <1>1, <1>4 DEF AssistInv, AnswerComes, Told
<1>6. RangeStands'
  BY <1>4 DEF RangeStands
<1> QED
  BY <1>1, <1>3, <1>4, <1>5, <1>6 DEF AssistInv

(* A step that changes only the answer of the edit keeps the rest.         *)
LEMMA AnswerStepKeeps ==
  ASSUME AssistInv, edit # NoEdit, UNCHANGED <<opened, shownTab, struck>>,
         NEW n \in 0 .. MaxTokens, NEW queue, NEW page, NEW how \in {"no", "done", "broken"},
         edit' = [edit EXCEPT !.full = n, !.deltas = queue, !.shown = page, !.ended = how],
         page \in (0 .. n) \cup {Notice}, queue \in Seq((0 .. n) \cup {Notice}),
         how = "done" => IF queue = <<>> THEN page \in {n, Notice}
                         ELSE queue[Len(queue)] \in {n, Notice}
  PROVE  AssistInv'
<1>1. edit = [from |-> edit.from, to |-> edit.to, selected |-> edit.selected,
              full |-> edit.full, deltas |-> edit.deltas, shown |-> edit.shown,
              ended |-> edit.ended, touched |-> edit.touched]
  BY DEF AssistInv
<1>2. edit' = [from |-> edit.from, to |-> edit.to, selected |-> edit.selected,
               full |-> n, deltas |-> queue, shown |-> page,
               ended |-> how, touched |-> edit.touched]
  BY <1>1
<1>3. /\ edit'.from = edit.from /\ edit'.to = edit.to /\ edit'.full = n
      /\ edit'.deltas = queue /\ edit'.shown = page /\ edit'.ended = how
      /\ edit'.touched = edit.touched /\ edit'.selected = edit.selected
  BY <1>2
<1>4. AnswerComes'
  BY <1>3 DEF AnswerComes, Told
<1>5. RangeStands'
  BY <1>3 DEF RangeStands, AssistInv
<1> QED
  BY <1>2, <1>3, <1>4, <1>5 DEF AssistInv

(* Every step of the editor keeps the invariant.                           *)
LEMMA AssistKeeps == AssistInv /\ [AssistNext]_assistVars => AssistInv'
<1> SUFFICES ASSUME AssistInv, [AssistNext]_assistVars PROVE AssistInv'
  OBVIOUS
<1>1. ASSUME NEW at \in 1 .. MaxCells, WriteText(at)
      PROVE  AssistInv'
  <2> DEFINE text == opened[shownTab]
  <2>1. text \in Seq(Cell) /\ shownTab \in Tabs
    BY DEF AssistInv
  <2>2. /\ Len(text) < MaxCells /\ at \in 1 .. Len(text) + 1
        /\ opened' = [opened EXCEPT ![shownTab] = InsertAt(text, at, NewCell(text))]
        /\ edit' = Touched /\ UNCHANGED <<shownTab, struck>>
    BY <1>1 DEF WriteText
  <2>3. InsertAt(text, at, NewCell(text)) \in Seq(Cell)
    BY <2>1, <2>2, ThereIsANewCell, PutTogether DEF InsertAt
  <2>4. opened' \in [Tabs -> Seq(Cell)]
    BY <2>1, <2>2, <2>3 DEF AssistInv
  <2> QED
    BY <2>2, <2>4, TouchedKeeps DEF AssistInv
<1>2. ASSUME NEW tab \in Tabs, SwitchTab(tab)
      PROVE  AssistInv'
  BY <1>2, TouchedKeeps DEF SwitchTab, AssistInv
<1>3. ASSUME NEW from \in 1 .. MaxCells, NEW to \in 1 .. MaxCells, NEW configured \in BOOLEAN,
             SubmitEdit(from, to, configured)
      PROVE  AssistInv'
  <2> DEFINE text == opened[shownTab]
             queue == IF configured THEN <<>> ELSE <<Notice>>
             how == IF configured THEN "no" ELSE "done"
             chosen == ToSet(SubSeq(text, from, to))
  <2>1. text \in Seq(Cell) /\ shownTab \in Tabs
    BY DEF AssistInv
  <2>2. /\ from \in DOMAIN text /\ to \in DOMAIN text /\ from <= to
        /\ edit' = [from |-> from, to |-> to, selected |-> chosen, full |-> 0,
                    deltas |-> queue, shown |-> 0, ended |-> how, touched |-> FALSE]
        /\ UNCHANGED <<opened, shownTab, struck>>
    BY <1>3 DEF SubmitEdit
  <2>3. chosen = {text[i] : i \in from .. to}
    <3>1. from \in Int /\ to \in Int /\ \A i \in from .. to : text[i] \in Cell
      BY <2>1, <2>2
    <3>2. /\ SubSeq(text, from, to) \in Seq(Cell)
          /\ Len(SubSeq(text, from, to)) = to - from + 1
          /\ \A i \in 1 .. to - from + 1 : SubSeq(text, from, to)[i] = text[from + i - 1]
      BY <2>2, <3>1, SubSeqProperties
    <3>3. DOMAIN SubSeq(text, from, to) = 1 .. to - from + 1
      BY <3>2, LenProperties
    <3>4. chosen = {text[from + i - 1] : i \in 1 .. to - from + 1}
      BY <3>2, <3>3 DEF ToSet
    <3>5. \A i \in from .. to : i - from + 1 \in 1 .. to - from + 1 /\ from + (i - from + 1) - 1 = i
      BY <3>1
    <3>6. \A i \in 1 .. to - from + 1 : from + i - 1 \in from .. to
      BY <3>1
    <3> HIDE DEF chosen, text
    <3> QED
      BY <3>4, <3>5, <3>6
  <2> HIDE DEF text, chosen
  <2>4. /\ edit'.from = from /\ edit'.to = to /\ edit'.full = 0 /\ edit'.selected = chosen
        /\ edit'.deltas = queue /\ edit'.shown = 0 /\ edit'.ended = how /\ edit'.touched = FALSE
        /\ edit' = [from |-> edit'.from, to |-> edit'.to, selected |-> edit'.selected,
                    full |-> edit'.full, deltas |-> edit'.deltas, shown |-> edit'.shown,
                    ended |-> edit'.ended, touched |-> edit'.touched]
    BY <2>2
  <2>5. AnswerComes'
    <3>1. queue \in Seq((0 .. 0) \cup {Notice}) /\ how \in {"no", "done", "broken"}
      <4>1. <<>> \in Seq((0 .. 0) \cup {Notice}) /\ <<Notice>> \in Seq((0 .. 0) \cup {Notice})
        OBVIOUS
      <4> QED
        BY <4>1
    <3>2. how = "done" => queue # <<>> /\ queue[Len(queue)] = Notice
      OBVIOUS
    <3> HIDE DEF queue, how
    <3> QED
      BY <2>4, <3>1, <3>2 DEF AnswerComes, Told
  <2>6. RangeStands'
    BY <2>2, <2>3, <2>4 DEF RangeStands, text
  <2> QED
    BY <2>2, <2>4, <2>5, <2>6, EditorAssumption DEF AssistInv
<1>4. ASSUME edit # NoEdit
      PROVE  /\ edit.full \in 0 .. MaxTokens /\ edit.ended \in {"no", "done", "broken"}
             /\ edit.shown \in (0 .. edit.full) \cup {Notice}
             /\ edit.deltas \in Seq((0 .. edit.full) \cup {Notice})
             /\ edit.ended = "done" =>
                  IF edit.deltas = <<>> THEN edit.shown \in {edit.full, Notice}
                  ELSE edit.deltas[Len(edit.deltas)] \in {edit.full, Notice}
             /\ edit = [from |-> edit.from, to |-> edit.to, selected |-> edit.selected,
                        full |-> edit.full, deltas |-> edit.deltas, shown |-> edit.shown,
                        ended |-> edit.ended, touched |-> edit.touched]
  BY <1>4 DEF AssistInv, AnswerComes, Told
<1>5. CASE Token
  <2> DEFINE n == edit.full + 1
             queue == Append(edit.deltas, n)
  <2>1. edit # NoEdit /\ edit.ended = "no" /\ edit.full < MaxTokens /\ UNCHANGED <<opened, shownTab, struck>>
    BY <1>5 DEF Token, Streaming
  <2>2. edit' = [edit EXCEPT !.full = n, !.deltas = queue, !.shown = edit.shown, !.ended = edit.ended]
    BY <1>4, <1>5, <2>1 DEF Token, DeltaOf
  <2>3. n \in 0 .. MaxTokens /\ (0 .. edit.full) \cup {Notice} \subseteq (0 .. n) \cup {Notice}
    BY <1>4, <2>1, EditorAssumption
  <2>4. edit.deltas \in Seq((0 .. n) \cup {Notice}) /\ n \in (0 .. n) \cup {Notice}
    BY <1>4, <2>1, <2>3, SeqMonotonic
  <2>5. queue \in Seq((0 .. n) \cup {Notice})
    BY <2>4, AppendProperties
  <2>6. edit.shown \in (0 .. n) \cup {Notice} /\ edit.ended # "done"
    BY <1>4, <2>1, <2>3
  <2> HIDE DEF n, queue
  <2> QED
    BY <1>4, <2>1, <2>2, <2>3, <2>5, <2>6, AnswerStepKeeps
<1>6. CASE StreamEnds
  <2> DEFINE n == edit.full
             queue == Append(edit.deltas, n)
  <2>1. edit # NoEdit /\ edit.ended = "no" /\ UNCHANGED <<opened, shownTab, struck>>
    BY <1>6 DEF StreamEnds, Streaming
  <2>2. edit' = [edit EXCEPT !.full = n, !.deltas = queue, !.shown = edit.shown, !.ended = "done"]
    BY <1>4, <1>6, <2>1 DEF StreamEnds, DeltaOf
  <2>3. queue \in Seq((0 .. n) \cup {Notice}) /\ queue # <<>> /\ queue[Len(queue)] = n
    <3>1. edit.deltas \in Seq((0 .. n) \cup {Notice}) /\ n \in (0 .. n) \cup {Notice}
      BY <1>4, <2>1
    <3> HIDE DEF n
    <3> QED
      BY <3>1, AppendProperties
  <2> HIDE DEF queue
  <2> QED
    BY <1>4, <2>1, <2>2, <2>3, AnswerStepKeeps
<1>7. CASE StreamBreaks
  <2>1. edit # NoEdit /\ UNCHANGED <<opened, shownTab, struck>>
    BY <1>7 DEF StreamBreaks, Streaming
  <2>2. edit' = [edit EXCEPT !.full = edit.full, !.deltas = edit.deltas, !.shown = edit.shown, !.ended = "broken"]
    BY <1>4, <1>7, <2>1 DEF StreamBreaks
  <2> QED
    BY <1>4, <2>1, <2>2, AnswerStepKeeps
<1>8. CASE ReadDelta
  <2> DEFINE page == IF Head(edit.deltas) = 0 THEN edit.shown ELSE Head(edit.deltas)
             queue == Tail(edit.deltas)
             T == (0 .. edit.full) \cup {Notice}
  <2>1. edit # NoEdit /\ edit.deltas # <<>> /\ UNCHANGED <<opened, shownTab, struck>>
    BY <1>8 DEF ReadDelta
  <2>2. edit' = [edit EXCEPT !.full = edit.full, !.deltas = queue, !.shown = page, !.ended = edit.ended]
    BY <1>4, <1>8, <2>1 DEF ReadDelta
  <2>3. edit.deltas \in Seq(T) /\ edit.shown \in T
    BY <1>4, <2>1
  <2>4. /\ Head(edit.deltas) \in T /\ queue \in Seq(T) /\ Len(queue) = Len(edit.deltas) - 1
        /\ \A i \in 1 .. Len(queue) : queue[i] = edit.deltas[i + 1]
        /\ Head(edit.deltas) = edit.deltas[1]
    <3> HIDE DEF T
    <3> QED
      BY <2>1, <2>3, HeadTailProperties
  <2>5. page \in T
    BY <2>3, <2>4
  <2>6. ASSUME edit.ended = "done"
        PROVE  IF queue = <<>> THEN page \in {edit.full, Notice}
               ELSE queue[Len(queue)] \in {edit.full, Notice}
    <3>1. edit.deltas[Len(edit.deltas)] \in {edit.full, Notice}
      BY <1>4, <2>1, <2>6
    <3>2. Len(edit.deltas) \in Nat /\ Len(queue) \in Nat
      BY <2>3, <2>4
    <3>3. CASE queue = <<>>
      <4>1. Len(edit.deltas) = 1
        <5> HIDE DEF queue
        <5>0. Len(<<>>) = 0
          BY EmptySeq
        <5>1. Len(queue) = 0
          BY <3>3, <5>0
        <5> QED
          BY <2>4, <3>2, <5>1
      <4>a. Head(edit.deltas) \in {edit.full, Notice}
        BY <2>4, <3>1, <4>1
      <4>2. CASE Head(edit.deltas) = 0
        <5>1. edit.full = 0
          BY <4>a, <4>2, EditorAssumption
        <5> QED
          BY <2>3, <3>3, <4>2, <5>1
      <4> QED
        BY <3>3, <4>a, <4>2
    <3>4. CASE queue # <<>>
      <4>1. Len(queue) \in 1 .. Len(queue) /\ Len(queue) + 1 = Len(edit.deltas)
        BY <2>4, <3>2, <3>4, EmptySeq
      <4> QED
        BY <2>4, <3>1, <3>4, <4>1
    <3> QED
      BY <3>3, <3>4
  <2> HIDE DEF page, queue
  <2>7. page \in (0 .. edit.full) \cup {Notice} /\ queue \in Seq((0 .. edit.full) \cup {Notice})
    BY <2>4, <2>5
  <2> QED
    BY <1>4, <2>1, <2>2, <2>6, <2>7, AnswerStepKeeps
<1>9. CASE RequestFails
  <2>1. edit # NoEdit /\ UNCHANGED <<opened, shownTab, struck>>
    BY <1>9 DEF RequestFails
  <2>2. edit' = [edit EXCEPT !.full = edit.full, !.deltas = <<>>, !.shown = Notice, !.ended = "broken"]
    BY <1>4, <1>9, <2>1 DEF RequestFails
  <2>3. <<>> \in Seq((0 .. edit.full) \cup {Notice})
    OBVIOUS
  <2> QED
    BY <1>4, <2>1, <2>2, <2>3, AnswerStepKeeps
<1>10. CASE PutBack
  <2> DEFINE text == opened[shownTab]
             gone == RangeOf(text)
             cut  == IF edit.from <= Len(text) THEN edit.from ELSE Len(text) + 1
             new == SubSeq(text, 1, cut - 1) \o <<Replacement>> \o
                    SubSeq(text, cut + Cardinality(gone), Len(text))
  <2>1. text \in Seq(Cell) /\ shownTab \in Tabs /\ edit # NoEdit /\ edit.from \in 1 .. MaxCells
    BY <1>10 DEF PutBack, EditOver, AssistInv
  <2>2. /\ opened' = [opened EXCEPT ![shownTab] = new]
        /\ struck' = [gone |-> {text[i] : i \in gone}, selected |-> edit.selected,
                      touched |-> edit.touched, edits |-> struck.edits + 1]
        /\ edit' = NoEdit /\ UNCHANGED shownTab
    BY <1>10 DEF PutBack
  <2>3. Len(text) \in Nat /\ DOMAIN text = 1 .. Len(text) /\ cut \in 1 .. Len(text) + 1
    BY <2>1, LenProperties
  <2>4. Cardinality(gone) \in Nat
    <3>1. IsFiniteSet(1 .. Len(text))
      BY <2>3, UpTo
    <3>2. gone \in SUBSET (1 .. Len(text))
      BY <2>3 DEF RangeOf
    <3> QED
      BY <3>1, <3>2, FS_Subset, FS_CardinalityType
  <2>5. new \in Seq(Cell)
    <3> DEFINE n == Cardinality(gone)
    <3>1. cut + n \in Nat /\ cut + n >= 1
      BY <2>3, <2>4
    <3>2. Replacement \in Cell
      BY DEF Replacement, Cell
    <3> HIDE DEF text, cut, n
    <3>3. SubSeq(text, 1, cut - 1) \o <<Replacement>> \o SubSeq(text, cut + n, Len(text)) \in Seq(Cell)
      BY <2>1, <2>3, <3>1, <3>2, PutTogether
    <3> QED
      BY <3>3 DEF n
  <2>6. opened' \in [Tabs -> Seq(Cell)]
    <3> HIDE DEF new
    <3> QED
      BY <2>2, <2>5 DEF AssistInv
  <2>7. ASSUME ~edit.touched
        PROVE  {text[i] : i \in gone} = edit.selected
    <3>1. /\ edit.from \in 1 .. Len(text) /\ edit.to \in 1 .. Len(text)
          /\ edit.selected = {text[i] : i \in edit.from .. edit.to}
      BY <2>1, <2>3, <2>7 DEF AssistInv, RangeStands
    <3>2. gone = edit.from .. edit.to
      BY <2>3, <3>1 DEF RangeOf
    <3> QED
      BY <3>1, <3>2
  <2> HIDE DEF text, gone, new
  <2>8. struck'.gone = {text[i] : i \in gone} /\ struck'.selected = edit.selected
        /\ struck'.touched = edit.touched
    BY <2>2
  <2> QED
    BY <2>1, <2>2, <2>6, <2>7, <2>8 DEF AssistInv
<1>11. CASE UNCHANGED assistVars
  BY <1>11 DEF assistVars, AssistInv, AnswerComes, Told, RangeStands
<1> QED
  BY <1>1, <1>2, <1>3, <1>5, <1>6, <1>7, <1>8, <1>9, <1>10, <1>11 DEF AssistNext

-----------------------------------------------------------------------------
(* The exports: no file but a stuck one is older than the reaper allows.   *)
ExportInv ==
  /\ wordFiles \in [Exports -> (0 .. MaxAge) \cup {NoExport}]
  /\ reaper \in [up : BOOLEAN, swept : BOOLEAN, since : 0 .. Period, stuck : SUBSET Exports]
  /\ reaper.up /\ reaper.swept =>
       \A f \in Exports \ reaper.stuck :
         wordFiles[f] = NoExport \/ wordFiles[f] <= Expiry + reaper.since

(* The exports' invariant holds before the first export.                   *)
LEMMA ExportStarts == ExportInit => ExportInv
  BY EditorAssumption DEF ExportInit, ExportInv

(* Every step of an export keeps it.                                       *)
LEMMA ExportKeeps == ExportInv /\ [ExportNext]_exportVars => ExportInv'
<1> SUFFICES ASSUME ExportInv, [ExportNext]_exportVars PROVE ExportInv'
  OBVIOUS
<1> USE EditorAssumption DEF ExportInv
<1>1. ASSUME NEW f \in Exports, ExportWord(f) PROVE ExportInv'
  BY <1>1 DEF ExportWord
<1>2. ASSUME NEW f \in Exports, DownloadWord(f) PROVE ExportInv'
  BY <1>2 DEF DownloadWord
<1>3. CASE Minutes
  <2>1. \A f \in Exports : /\ wordFiles'[f] = Older(wordFiles[f])
                           /\ wordFiles[f] \in (0 .. MaxAge) \cup {NoExport}
    BY <1>3 DEF Minutes
  <2>2. \A age \in (0 .. MaxAge) \cup {NoExport} :
          /\ Older(age) \in (0 .. MaxAge) \cup {NoExport}
          /\ Older(age) = NoExport \/ (age \in Nat /\ (Older(age) = age \/ Older(age) = age + 1))
    BY DEF Older
  <2>3. wordFiles' \in [Exports -> (0 .. MaxAge) \cup {NoExport}]
    BY <1>3, <2>1, <2>2 DEF Minutes
  <2>4. /\ reaper'.since = IF reaper.up THEN reaper.since + 1 ELSE 0
        /\ reaper'.up = reaper.up /\ reaper'.swept = reaper.swept /\ reaper'.stuck = reaper.stuck
        /\ reaper' \in [up : BOOLEAN, swept : BOOLEAN, since : 0 .. Period, stuck : SUBSET Exports]
    BY <1>3 DEF Minutes
  <2>5. ASSUME reaper.up, reaper.swept, NEW f \in Exports \ reaper.stuck
        PROVE  wordFiles'[f] = NoExport \/ wordFiles'[f] <= Expiry + reaper'.since
    <3>1. wordFiles[f] = NoExport \/ wordFiles[f] <= Expiry + reaper.since
      BY <2>5
    <3>2. reaper'.since = reaper.since + 1 /\ reaper.since \in Nat
      BY <2>4, <2>5
    <3>3. CASE wordFiles[f] = NoExport
      BY <2>1, <3>3 DEF Older
    <3>4. CASE wordFiles[f] # NoExport
      <4>1. wordFiles[f] \in Nat /\ wordFiles[f] <= Expiry + reaper.since
        BY <2>1, <3>1, <3>4
      <4>2. wordFiles'[f] = NoExport \/ wordFiles'[f] = wordFiles[f] \/ wordFiles'[f] = wordFiles[f] + 1
        BY <2>1, <2>2
      <4> QED
        BY <3>2, <4>1, <4>2
    <3> QED
      BY <3>3, <3>4
  <2> QED
    BY <2>3, <2>4, <2>5
<1>4. ASSUME NEW stuck \in SUBSET Expired, Sweep(stuck) PROVE ExportInv'
  <2>1. stuck \subseteq Exports
    BY DEF Expired
  <2>2. wordFiles' \in [Exports -> (0 .. MaxAge) \cup {NoExport}]
    BY <1>4 DEF Sweep
  <2>3. /\ reaper' \in [up : BOOLEAN, swept : BOOLEAN, since : 0 .. Period, stuck : SUBSET Exports]
        /\ reaper'.since = 0 /\ reaper'.stuck = stuck
    <3>1. reaper' = [reaper EXCEPT !.swept = TRUE, !.since = 0, !.stuck = stuck] /\ 0 \in 0 .. Period
      BY <1>4 DEF Sweep
    <3>2. reaper \in [up : BOOLEAN, swept : BOOLEAN, since : 0 .. Period, stuck : SUBSET Exports]
      OBVIOUS
    <3> HIDE DEF ExportInv
    <3> QED
      BY <2>1, <3>1, <3>2
  <2>4. ASSUME NEW f \in Exports \ stuck
        PROVE  wordFiles'[f] = NoExport \/ wordFiles'[f] <= Expiry
    <3>1. wordFiles'[f] = IF f \in Expired THEN NoExport ELSE wordFiles[f]
      BY <1>4, <2>4 DEF Sweep, SweptFiles
    <3>2. wordFiles[f] \in (0 .. MaxAge) \cup {NoExport}
      OBVIOUS
    <3> QED
      BY <3>1, <3>2 DEF Expired
  <2> QED
    BY <2>2, <2>3, <2>4
<1>5. CASE SweepFails
  <2>1. reaper' = [reaper EXCEPT !.swept = FALSE, !.since = 0] /\ 0 \in 0 .. Period
    BY <1>5 DEF SweepFails
  <2>2. reaper' \in [up : BOOLEAN, swept : BOOLEAN, since : 0 .. Period, stuck : SUBSET Exports]
        /\ ~reaper'.swept
    <3>1. reaper \in [up : BOOLEAN, swept : BOOLEAN, since : 0 .. Period, stuck : SUBSET Exports]
      OBVIOUS
    <3> HIDE DEF ExportInv
    <3> QED
      BY <2>1, <3>1
  <2> QED
    BY <1>5, <2>2 DEF SweepFails
<1>6. CASE StopOrStart
  BY <1>6 DEF StopOrStart
<1>7. CASE UNCHANGED exportVars
  BY <1>7 DEF exportVars
<1> QED
  BY <1>1, <1>2, <1>3, <1>4, <1>5, <1>6, <1>7 DEF ExportNext

(* The types and what is kept follow from both.                            *)
LEMMA EditorIsKept == AssistInv /\ ExportInv => EditorTypeOK /\ EditorKept
<1> SUFFICES ASSUME AssistInv, ExportInv PROVE EditorTypeOK /\ EditorKept
  OBVIOUS
<1>1. \A t \in Tabs : ToSet(opened[t]) \subseteq Cell
  <2> SUFFICES ASSUME NEW t \in Tabs PROVE ToSet(opened[t]) \subseteq Cell
    OBVIOUS
  <2>1. opened[t] \in Seq(Cell)
    BY DEF AssistInv
  <2> QED
    BY <2>1 DEF ToSet
<1>2. EditorTypeOK
  BY <1>1 DEF EditorTypeOK, AssistInv, ExportInv
<1>3. EditOver /\ edit.ended = "done" /\ edit.shown # Notice => edit.shown = edit.full
  BY DEF EditOver, AssistInv, AnswerComes
<1>4. EditorKept
  BY <1>3 DEF EditorKept, AssistInv, ExportInv
<1> QED
  BY <1>2, <1>4

(* An edit shows the whole answer and removes only what was selected, and  *)
(* exports are swept in time: editor.py and MonacoEditor.vue, for any tabs,*)
(* lengths and numbers of exports.                                         *)
THEOREM EditsAreKept == EditorSpec => []EditorKept
<1>1. EditorInit => AssistInv /\ ExportInv
  BY AssistStarts, ExportStarts DEF EditorInit
<1>2. /\ [EditorNext]_<<assistVars, exportVars>> => [AssistNext]_assistVars
      /\ [EditorNext]_<<assistVars, exportVars>> => [ExportNext]_exportVars
  BY DEF EditorNext
<1> QED
  BY <1>1, <1>2, AssistKeeps, ExportKeeps, EditorIsKept, PTL DEF EditorSpec
-----------------------------------------------------------------------------
(***************************************************************************)
(* The packing of a text into chunks.                                      *)
(***************************************************************************)
(* What is kept of a list at places next to each other is a part of it.    *)
LEMMA KeptInterval ==
  ASSUME NEW S, NEW s \in Seq(S), NEW K, NEW i \in Nat \ {0}, NEW j \in 0 .. Len(s),
         \A p \in 1 .. Len(s) : p \in K <=> i <= p /\ p <= j
  PROVE  Kept(s, K) = SubSeq(s, i, j)
<1> DEFINE m == Len(s)
<1>0. m \in Nat /\ DOMAIN s = 1 .. m
  OBVIOUS
<1>1. PICK g : Follows(g, s, K, m) /\ Kept(s, K) = g[m]
  BY KeptFollows
<1> DEFINE upto(n) == IF n <= j THEN n ELSE j
           Bad == {n \in 0 .. m : g[n] # SubSeq(s, i, upto(n))}
<1>2. 0 \notin Bad
  <2>1. g[0] = <<>> /\ upto(0) = 0
    BY <1>1 DEF Follows
  <2>2. SubSeq(s, i, 0) = <<>>
    BY SubSeqEmpty
  <2> QED
    BY <2>1, <2>2
<1>3. ASSUME NEW n \in 1 .. m, n - 1 \notin Bad
      PROVE  n \notin Bad
  <2>0. n - 1 \in 0 .. m /\ g[n - 1] = SubSeq(s, i, upto(n - 1))
    BY <1>0, <1>3
  <2>1. CASE n \in K
    <3>1. i <= n /\ n <= j /\ upto(n) = n /\ upto(n - 1) = n - 1
      BY <1>0, <2>1
    <3>2. g[n] = Append(SubSeq(s, i, n - 1), s[n])
      BY <1>1, <2>0, <2>1, <3>1 DEF Follows
    <3>3. Append(SubSeq(s, i, n - 1), s[n]) = SubSeq(s, i, n)
      <4>1. i \in 1 .. Len(s) /\ n \in i .. Len(s)
        BY <1>0, <3>1
      <4>2. SubSeq(s, i, n) = SubSeq(s, i, n - 1) \o <<s[n]>>
        BY <4>1, SubSeqRecursiveSecond
      <4>3. SubSeq(s, i, n - 1) \in Seq(S) /\ s[n] \in S
        <5>1. i \in Int /\ n - 1 \in Int /\ \A p \in i .. n - 1 : s[p] \in S
          BY <1>0, <4>1
        <5> QED
          BY <1>0, <5>1, SubSeqProperties
      <4> QED
        BY <4>2, <4>3, AppendIsConcat
    <3> QED
      BY <3>1, <3>2, <3>3
  <2>2. CASE n \notin K
    <3>1. g[n] = SubSeq(s, i, upto(n - 1))
      BY <1>1, <2>0, <2>2 DEF Follows
    <3>2. CASE n <= j
      <4>1. n < i /\ upto(n - 1) = n - 1 /\ upto(n) = n
        BY <1>0, <2>2, <3>2
      <4>2. SubSeq(s, i, n - 1) = <<>> /\ SubSeq(s, i, n) = <<>>
        BY <1>0, <4>1, SubSeqEmpty
      <4> QED
        BY <3>1, <4>1, <4>2
    <3>3. CASE ~(n <= j)
      <4>1. upto(n - 1) = j /\ upto(n) = j
        BY <1>0, <3>3
      <4> QED
        BY <3>1, <4>1
    <3> QED
      BY <3>2, <3>3
  <2> QED
    BY <2>1, <2>2
<1>4. Bad = {}
  <2>1. Bad \subseteq 0 .. m
    OBVIOUS
  <2> HIDE DEF Bad
  <2> QED
    BY <1>0, <1>2, <1>3, <2>1, NoneFails
<1>5. m \in 0 .. m /\ upto(m) = j
  <2>1. m \in Nat /\ j \in 0 .. m
    BY <1>0
  <2> HIDE DEF m
  <2>2. m \in 0 .. m /\ (m <= j => m = j)
    BY <2>1
  <2> QED
    BY <2>2
<1>6. g[m] = SubSeq(s, i, upto(m))
  BY <1>4, <1>5
<1> QED
  BY <1>1, <1>5, <1>6

-----------------------------------------------------------------------------
(* A chunk is a run of segments; each chunk of a chain begins not before   *)
(* the one before it and with the next segment at the latest, and ends     *)
(* later; the chain reaches from the first segment to segment n.           *)
End(c) == c[Len(c)]
IsRun(c) == c \in Seq(Nat \ {0}) /\ c # <<>> /\ \A i \in 1 .. Len(c) : c[i] = c[1] + i - 1
Continues(c, d) == c[1] <= d[1] /\ d[1] <= End(c) + 1 /\ End(c) < End(d)

Chain(chunks, n) ==
  /\ chunks \in Seq(Seq(Nat \ {0}))
  /\ \A k \in DOMAIN chunks : IsRun(chunks[k]) /\ End(chunks[k]) <= n
  /\ \A k \in DOMAIN chunks \ {1} : Continues(chunks[k - 1], chunks[k])
  /\ IF chunks = <<>> THEN n = 0 ELSE chunks[1][1] = 1 /\ End(chunks[Len(chunks)]) = n

(* A run has a first and a last segment, and counts up between them.       *)
LEMMA RunFacts ==
  ASSUME NEW c, IsRun(c)
  PROVE  /\ Len(c) \in Nat /\ Len(c) >= 1 /\ DOMAIN c = 1 .. Len(c)
         /\ c[1] \in Nat \ {0} /\ End(c) = c[1] + Len(c) - 1 /\ End(c) \in Nat
         /\ \A i \in 1 .. Len(c) : c[i] = c[1] + i - 1
<1>1. c \in Seq(Nat \ {0}) /\ c # <<>> /\ \A i \in 1 .. Len(c) : c[i] = c[1] + i - 1
  BY DEF IsRun
<1>2. Len(c) \in Nat \ {0}
  BY <1>1, EmptySeq
<1>3. DOMAIN c = 1 .. Len(c) /\ c[1] \in Nat \ {0}
  BY <1>1, <1>2
<1> QED
  BY <1>1, <1>2, <1>3 DEF End

(* The next segment alone is a run, and a run may be continued or cut.     *)
LEMMA RunOfOne ==
  ASSUME NEW n \in Nat \ {0}
  PROVE  IsRun(<<n>>) /\ End(<<n>>) = n /\ <<n>>[1] = n
  BY DEF IsRun, End

(* A run and the next segment are a run.                                   *)
LEMMA RunLonger ==
  ASSUME NEW c, IsRun(c)
  PROVE  /\ IsRun(Append(c, End(c) + 1)) /\ End(Append(c, End(c) + 1)) = End(c) + 1
         /\ Append(c, End(c) + 1)[1] = c[1]
<1> DEFINE e == End(c) + 1
           d == Append(c, e)
<1>1. c \in Seq(Nat \ {0})
  BY DEF IsRun
<1>2. /\ Len(c) \in Nat /\ Len(c) >= 1 /\ c[1] \in Nat \ {0} /\ End(c) = c[1] + Len(c) - 1
      /\ \A i \in 1 .. Len(c) : c[i] = c[1] + i - 1
  BY RunFacts
<1>3. e \in Nat \ {0} /\ e = c[1] + Len(c)
  BY <1>2
<1> HIDE DEF e
<1>4. /\ d \in Seq(Nat \ {0}) /\ d # <<>> /\ Len(d) = Len(c) + 1
      /\ (\A i \in 1 .. Len(c) : d[i] = c[i]) /\ d[Len(c) + 1] = e
  BY <1>1, <1>3, AppendProperties
<1> HIDE DEF d
<1>5. d[1] = c[1]
  BY <1>2, <1>4
<1>6. ASSUME NEW i \in 1 .. Len(d)
      PROVE  d[i] = d[1] + i - 1
  <2>1. CASE i \in 1 .. Len(c)
    BY <1>2, <1>4, <1>5, <2>1
  <2>2. CASE i = Len(c) + 1
    BY <1>2, <1>3, <1>4, <1>5, <2>2
  <2> QED
    BY <1>2, <1>4, <2>1, <2>2
<1>7. IsRun(d) /\ End(d) = e
  BY <1>4, <1>6 DEF IsRun, End
<1> QED
  BY <1>5, <1>7 DEF d, e

(* The end of a run is a run.                                              *)
LEMMA RunCut ==
  ASSUME NEW c, IsRun(c), NEW k \in 1 .. Len(c)
  PROVE  /\ IsRun(SubSeq(c, k, Len(c))) /\ End(SubSeq(c, k, Len(c))) = End(c)
         /\ SubSeq(c, k, Len(c))[1] = c[1] + k - 1
<1> DEFINE n == Len(c)
           d == SubSeq(c, k, n)
<1>1. c \in Seq(Nat \ {0})
  BY DEF IsRun
<1>2. /\ n \in Nat /\ n >= 1 /\ c[1] \in Nat \ {0} /\ End(c) = c[1] + n - 1
      /\ \A i \in 1 .. n : c[i] = c[1] + i - 1
  BY RunFacts
<1>3. k \in Int /\ n \in Int /\ \A i \in k .. n : c[i] \in Nat \ {0}
  BY <1>1, <1>2, SMTT(30)
<1>4. /\ d \in Seq(Nat \ {0}) /\ Len(d) = n - k + 1
      /\ \A i \in 1 .. n - k + 1 : d[i] = c[k + i - 1]
  BY <1>2, <1>3, SubSeqProperties
<1> HIDE DEF d, n
<1>5. Len(d) >= 1 /\ d # <<>>
  <2>1. Len(d) >= 1
    BY <1>2, <1>4 DEF n
  <2> QED
    BY <2>1, EmptySeq
<1>6. d[1] = c[1] + k - 1
  <2>1. 1 \in 1 .. n - k + 1 /\ k + 1 - 1 = k /\ k \in 1 .. n
    BY <1>2 DEF n
  <2>2. d[1] = c[k + 1 - 1]
    BY <1>4, <2>1
  <2>3. c[k] = c[1] + k - 1
    BY <1>2, <2>1
  <2> QED
    BY <2>1, <2>2, <2>3
<1>7. \A i \in 1 .. Len(d) : d[i] = d[1] + i - 1
  <2> SUFFICES ASSUME NEW i \in 1 .. Len(d) PROVE d[i] = d[1] + i - 1
    OBVIOUS
  <2>1. i \in 1 .. n - k + 1 /\ k + i - 1 \in 1 .. n
    BY <1>2, <1>4 DEF n
  <2>2. d[i] = c[k + i - 1]
    BY <1>4, <2>1
  <2>3. c[k + i - 1] = c[1] + (k + i - 1) - 1
    BY <1>2, <2>1
  <2> QED
    BY <1>2, <1>6, <2>1, <2>2, <2>3
<1>8. IsRun(d)
  BY <1>4, <1>5, <1>7 DEF IsRun
<1>9. End(d) = End(c)
  <2>1. Len(d) \in 1 .. Len(d)
    BY <1>2, <1>4, <1>5
  <2> QED
    BY <1>2, <1>4, <1>6, <1>7, <2>1 DEF End, n
<1> QED
  BY <1>6, <1>8, <1>9 DEF d, n

(* One more chunk for a chain.                                             *)
LEMMA ChainMore ==
  ASSUME NEW chunks, NEW n \in Nat, Chain(chunks, n), NEW c, IsRun(c), End(c) = n + 1,
         c[1] <= n + 1, IF chunks = <<>> THEN c[1] = 1 ELSE chunks[Len(chunks)][1] <= c[1]
  PROVE  Chain(Append(chunks, c), n + 1)
<1> DEFINE Row == Seq(Nat \ {0})
           d == Append(chunks, c)
           m == Len(chunks)
<1>1. chunks \in Seq(Row) /\ c \in Row
  BY DEF Chain, IsRun
<1> HIDE DEF Row
<1>2. /\ d \in Seq(Row) /\ d # <<>> /\ m \in Nat /\ Len(d) = m + 1 /\ d[m + 1] = c
      /\ \A k \in 1 .. m : d[k] = chunks[k]
  BY <1>1, AppendProperties, LenProperties
<1>3. DOMAIN d = 1 .. m + 1 /\ DOMAIN chunks = 1 .. m
  BY <1>1, <1>2, LenProperties
<1> HIDE DEF d
<1>4. /\ \A k \in 1 .. m : IsRun(chunks[k]) /\ End(chunks[k]) <= n
      /\ \A k \in (1 .. m) \ {1} : Continues(chunks[k - 1], chunks[k])
      /\ IF chunks = <<>> THEN n = 0 ELSE chunks[1][1] = 1 /\ End(chunks[m]) = n
  BY <1>3 DEF Chain
<1>5. chunks = <<>> => m = 0
  BY EmptySeq
<1>6. chunks # <<>> => m \in 1 .. m
  BY <1>1, <1>2, EmptySeq
<1> HIDE DEF m
<1>7. ASSUME NEW k \in DOMAIN d
      PROVE  IsRun(d[k]) /\ End(d[k]) <= n + 1
  <2>1. CASE k \in 1 .. m
    <3>1. IsRun(chunks[k]) /\ End(chunks[k]) <= n /\ d[k] = chunks[k]
      BY <1>2, <1>4, <2>1
    <3>2. End(chunks[k]) \in Nat
      BY <3>1, RunFacts
    <3> QED
      BY <3>1, <3>2
  <2>2. CASE k = m + 1
    BY <1>2, <2>2
  <2> QED
    BY <1>2, <1>3, <2>1, <2>2
<1>8. ASSUME NEW k \in DOMAIN d \ {1}
      PROVE  Continues(d[k - 1], d[k])
  <2>1. CASE k \in 1 .. m
    <3>1. k - 1 \in 1 .. m /\ k \in (1 .. m) \ {1}
      BY <1>2, <2>1
    <3> QED
      BY <1>2, <1>4, <3>1
  <2>2. CASE k = m + 1
    <3>1. m \in 1 .. m /\ chunks # <<>>
      BY <1>2, <1>5, <2>2
    <3>2. End(chunks[m]) = n /\ chunks[m][1] <= c[1]
      BY <1>4, <3>1 DEF m
    <3>3. d[k - 1] = chunks[m] /\ d[k] = c
      BY <1>2, <2>2, <3>1
    <3> QED
      BY <3>2, <3>3 DEF Continues
  <2> QED
    BY <1>2, <1>3, <2>1, <2>2
<1>9. d[1][1] = 1
  <2>1. CASE chunks = <<>>
    BY <1>2, <1>5, <2>1
  <2>2. CASE chunks # <<>>
    BY <1>2, <1>4, <1>6, <2>2
  <2> QED
    BY <2>1, <2>2
<1>10. Chain(d, n + 1)
  BY <1>2, <1>7, <1>8, <1>9 DEF Chain, Row
<1> QED
  BY <1>10 DEF d

(* A chain whose last chunk gets the next segment.                         *)
LEMMA ChainLonger ==
  ASSUME NEW chunks \in Seq(Seq(Nat \ {0})), NEW n \in Nat, NEW c, Chain(Append(chunks, c), n), IsRun(c)
  PROVE  End(c) = n /\ Chain(Append(chunks, Append(c, n + 1)), n + 1)
<1> DEFINE Row == Seq(Nat \ {0})
           b == Append(c, n + 1)
           d == Append(chunks, c)
           e == Append(chunks, b)
           m == Len(chunks)
<1>1. chunks \in Seq(Row) /\ c \in Row
  BY DEF IsRun
<1>2. /\ d \in Seq(Row) /\ d # <<>> /\ m \in Nat /\ Len(d) = m + 1 /\ d[m + 1] = c
      /\ \A k \in 1 .. m : d[k] = chunks[k]
  <2> HIDE DEF Row
  <2> QED
    BY <1>1, AppendProperties, LenProperties
<1>3. DOMAIN d = 1 .. m + 1
  <2> HIDE DEF Row, d
  <2> QED
    BY <1>2, LenProperties
<1> HIDE DEF d, m
<1>4. /\ \A k \in 1 .. m + 1 : IsRun(d[k]) /\ End(d[k]) <= n
      /\ \A k \in (1 .. m + 1) \ {1} : Continues(d[k - 1], d[k])
      /\ d[1][1] = 1 /\ End(d[m + 1]) = n
  BY <1>2, <1>3 DEF Chain, d
<1>5. End(c) = n
  BY <1>2, <1>4
<1>6. IsRun(b) /\ End(b) = n + 1 /\ b[1] = c[1]
  BY <1>5, RunLonger
<1>7. b \in Row
  BY <1>6 DEF IsRun
<1>8. /\ e \in Seq(Row) /\ e # <<>> /\ Len(e) = m + 1 /\ e[m + 1] = b
      /\ \A k \in 1 .. m : e[k] = chunks[k]
  <2> HIDE DEF Row, b
  <2> QED
    BY <1>1, <1>7, AppendProperties DEF m
<1> HIDE DEF b
<1>9. DOMAIN e = 1 .. m + 1
  <2> HIDE DEF Row, e
  <2> QED
    BY <1>8, LenProperties
<1> HIDE DEF e
<1>10. ASSUME NEW k \in DOMAIN e
       PROVE  IsRun(e[k]) /\ End(e[k]) <= n + 1
  <2>1. CASE k \in 1 .. m
    <3>1. e[k] = d[k] /\ k \in 1 .. m + 1
      BY <1>2, <1>8, <2>1
    <3>2. IsRun(d[k]) /\ End(d[k]) <= n
      BY <1>4, <3>1
    <3>3. End(d[k]) \in Nat
      BY <3>2, RunFacts
    <3> QED
      BY <3>1, <3>2, <3>3
  <2>2. CASE k = m + 1
    BY <1>6, <1>8, <2>2
  <2> QED
    BY <1>2, <1>9, <2>1, <2>2
<1>11. ASSUME NEW k \in DOMAIN e \ {1}
       PROVE  Continues(e[k - 1], e[k])
  <2>0. k \in (1 .. m + 1) \ {1} /\ k - 1 \in 1 .. m
    BY <1>2, <1>9
  <2>1. Continues(d[k - 1], d[k]) /\ e[k - 1] = d[k - 1]
    BY <1>2, <1>4, <1>8, <2>0
  <2>2. CASE k \in 1 .. m
    BY <1>2, <1>8, <2>1, <2>2
  <2>3. CASE k = m + 1
    <3>1. d[k] = c /\ e[k] = b
      BY <1>2, <1>8, <2>3
    <3>2. End(d[k - 1]) \in Nat
      <4>1. IsRun(d[k - 1])
        BY <1>2, <1>4, <2>0
      <4> QED
        BY <4>1, RunFacts
    <3> QED
      BY <1>5, <1>6, <2>1, <3>1, <3>2 DEF Continues
  <2> QED
    BY <1>2, <2>0, <2>2, <2>3
<1>12. e[1][1] = 1
  <2>1. CASE m = 0
    BY <1>2, <1>4, <1>6, <1>8, <2>1
  <2>2. CASE m # 0
    BY <1>2, <1>4, <1>8, <2>2
  <2> QED
    BY <2>1, <2>2
<1>13. Chain(e, n + 1)
  BY <1>6, <1>8, <1>10, <1>11, <1>12 DEF Chain
<1> QED
  BY <1>5, <1>13 DEF e, b

(* What a chunk adds to the one before it, in a list of chunks.            *)
LaterIn(chunks, k) ==
  {n \in DOMAIN chunks[k] : k = 1 \/ \A j \in DOMAIN chunks[k - 1] : chunks[k - 1][j] < chunks[k][n]}

(* A run that begins behind segment m counts up from there.                *)
LEMMA RunIsCount ==
  ASSUME NEW c, IsRun(c), NEW m \in Nat, m + 1 = c[1]
  PROVE  c = [i \in 1 .. End(c) - m |-> m + i]
<1>1. c \in Seq(Nat \ {0})
  BY DEF IsRun
<1>2. /\ Len(c) \in Nat /\ c[1] \in Nat /\ End(c) = c[1] + Len(c) - 1
      /\ \A i \in 1 .. Len(c) : c[i] = c[1] + i - 1
  BY RunFacts
<1>3. End(c) - m = Len(c)
  BY <1>2
<1>4. \A i \in 1 .. Len(c) : c[i] = m + i
  BY <1>2
<1>5. c = [i \in 1 .. Len(c) |-> c[i]]
  BY <1>1
<1> QED
  BY <1>3, <1>4, <1>5

(* The places of a run that lie behind the run before it.                  *)
LEMMA BehindRun ==
  ASSUME NEW c, IsRun(c), NEW d, IsRun(d), Continues(c, d)
  PROVE  LET x == End(c) + 1 - d[1]
         IN  /\ x \in 0 .. Len(d) - 1 /\ x <= Len(c)
             /\ \A p \in 1 .. Len(d) : (\A j \in DOMAIN c : c[j] < d[p]) <=> x + 1 <= p
<1> DEFINE x == End(c) + 1 - d[1]
<1>1. /\ Len(c) \in Nat /\ Len(c) >= 1 /\ DOMAIN c = 1 .. Len(c)
      /\ c[1] \in Nat \ {0} /\ End(c) = c[1] + Len(c) - 1 /\ End(c) \in Nat
      /\ \A i \in 1 .. Len(c) : c[i] = c[1] + i - 1
  BY RunFacts
<1>2. /\ Len(d) \in Nat /\ Len(d) >= 1 /\ DOMAIN d = 1 .. Len(d)
      /\ d[1] \in Nat \ {0} /\ End(d) = d[1] + Len(d) - 1 /\ End(d) \in Nat
      /\ \A i \in 1 .. Len(d) : d[i] = d[1] + i - 1
  BY RunFacts
<1>3. c[1] <= d[1] /\ d[1] <= End(c) + 1 /\ End(c) < End(d)
  BY DEF Continues
<1>4. x \in 0 .. Len(d) - 1 /\ x <= Len(c)
  BY <1>1, <1>2, <1>3
<1>5. ASSUME NEW p \in 1 .. Len(d)
      PROVE  (\A j \in DOMAIN c : c[j] < d[p]) <=> x + 1 <= p
  <2>1. d[p] = d[1] + p - 1 /\ p \in Nat
    BY <1>2
  <2>2. CASE x + 1 <= p
    <3>1. End(c) < d[p]
      BY <1>1, <1>2, <2>1, <2>2, SMTT(30)
    <3>2. \A j \in 1 .. Len(c) : c[j] <= End(c) /\ c[j] \in Nat
      BY <1>1
    <3>3. \A j \in DOMAIN c : c[j] < d[p]
      BY <1>1, <1>2, <2>1, <3>1, <3>2, SMTT(30)
    <3> QED
      BY <2>2, <3>3
  <2>3. CASE ~(x + 1 <= p)
    <3>1. ~(End(c) < d[p])
      BY <1>1, <1>2, <2>1, <2>3, SMTT(30)
    <3>2. Len(c) \in DOMAIN c /\ c[Len(c)] = End(c)
      BY <1>1 DEF End
    <3> QED
      BY <2>3, <3>1, <3>2
  <2> QED
    BY <2>2, <2>3
<1> QED
  BY <1>4, <1>5

(* What is new in a run, and what it repeats of the one before.            *)
LEMMA NewInRun ==
  ASSUME NEW c, IsRun(c), NEW d, IsRun(d), Continues(c, d), NEW L,
         L = {n \in DOMAIN d : \A j \in DOMAIN c : c[j] < d[n]}
  PROVE  /\ Kept(d, L) = [i \in 1 .. End(d) - End(c) |-> End(c) + i]
         /\ IsSuffix(Kept(d, DOMAIN d \ L), c)
<1> DEFINE x == End(c) + 1 - d[1]
           m == Len(d)
<1>0. c \in Seq(Nat \ {0}) /\ d \in Seq(Nat \ {0})
  BY DEF IsRun
<1>1. /\ Len(c) \in Nat /\ Len(c) >= 1 /\ c[1] \in Nat \ {0} /\ End(c) = c[1] + Len(c) - 1
      /\ End(c) \in Nat /\ \A i \in 1 .. Len(c) : c[i] = c[1] + i - 1
  BY RunFacts
<1>2. /\ m \in Nat /\ m >= 1 /\ d[1] \in Nat \ {0} /\ DOMAIN d = 1 .. m
      /\ \A i \in 1 .. m : d[i] = d[1] + i - 1
  BY RunFacts
<1>3. /\ x \in 0 .. m - 1 /\ x <= Len(c)
      /\ \A p \in 1 .. m : (\A j \in DOMAIN c : c[j] < d[p]) <=> x + 1 <= p
  BY BehindRun
<1>x. d[1] + x = c[1] + Len(c)
  <2>1. /\ End(c) \in Nat /\ d[1] \in Nat /\ End(c) = c[1] + Len(c) - 1
        /\ c[1] \in Nat /\ Len(c) \in Nat
    BY <1>1, <1>2
  <2> QED
    BY <2>1
<1>4. \A p \in 1 .. m : p \in L <=> x + 1 <= p
  BY <1>2, <1>3
<1>5. Kept(d, L) = SubSeq(d, x + 1, m)
  <2>1. x + 1 \in Nat \ {0} /\ m \in 0 .. m /\ \A p \in 1 .. m : p \in L <=> x + 1 <= p /\ p <= m
    BY <1>2, <1>3, <1>4
  <2> HIDE DEF x
  <2> QED
    BY <1>0, <2>1, KeptInterval
<1>6. Kept(d, L) = [i \in 1 .. End(d) - End(c) |-> End(c) + i]
  <2> DEFINE k == x + 1
             e == SubSeq(d, k, m)
  <2>1. k \in 1 .. m
    BY <1>2, <1>3
  <2> HIDE DEF x, k
  <2>2. IsRun(e) /\ End(e) = End(d) /\ e[1] = d[1] + k - 1
    BY <2>1, RunCut
  <2>3. End(c) + 1 = e[1]
    BY <1>1, <1>2, <2>1, <2>2, SMTT(30) DEF x, k
  <2> HIDE DEF e
  <2>4. e = [i \in 1 .. End(e) - End(c) |-> End(c) + i]
    BY <1>1, <2>2, <2>3, RunIsCount
  <2> QED
    BY <1>5, <2>2, <2>4 DEF e, k
<1> HIDE DEF x
<1>7. Kept(d, DOMAIN d \ L) = SubSeq(d, 1, x)
  <2>1. 1 \in Nat \ {0} /\ x \in 0 .. m
    BY <1>2, <1>3
  <2>2. \A p \in 1 .. m : p \in DOMAIN d \ L <=> 1 <= p /\ p <= x
    BY <1>2, <1>3, <1>4
  <2> QED
    BY <1>0, <2>1, <2>2, KeptInterval
<1>8. IsSuffix(SubSeq(d, 1, x), c)
  <2> DEFINE s == SubSeq(d, 1, x)
             p == Reverse(s)
             q == Reverse(c)
  <2>1. /\ s \in Seq(Nat \ {0}) /\ Len(s) = x /\ \A i \in 1 .. x : s[i] = d[1] + i - 1
    <3>1. 1 \in Int /\ x \in Int /\ \A i \in 1 .. x : d[i] \in Nat \ {0}
      BY <1>0, <1>2, <1>3
    <3>2. /\ s \in Seq(Nat \ {0}) /\ Len(s) = IF 1 <= x THEN x - 1 + 1 ELSE 0
          /\ \A i \in 1 .. x - 1 + 1 : s[i] = d[1 + i - 1]
      BY <3>1, SubSeqProperties
    <3>3. \A i \in 1 .. x : i \in 1 .. x - 1 + 1 /\ 1 + i - 1 = i /\ i \in 1 .. m
      BY <1>2, <1>3
    <3> HIDE DEF s
    <3>4. \A i \in 1 .. x : s[i] = d[i] /\ d[i] = d[1] + i - 1
      BY <1>2, <3>2, <3>3
    <3> QED
      BY <1>3, <3>2, <3>4
  <2> HIDE DEF s
  <2>2. /\ p \in Seq(Nat \ {0}) /\ Len(p) = x /\ \A i \in 1 .. x : p[i] = s[x - i + 1]
    <3>1. x \in Nat /\ \A i \in 1 .. x : x - i + 1 \in 1 .. x
      BY <1>3
    <3>2. p = [i \in 1 .. x |-> s[x - i + 1]]
      BY <2>1 DEF Reverse
    <3>3. p \in [1 .. x -> Nat \ {0}]
      BY <2>1, <3>1, <3>2
    <3> HIDE DEF p
    <3> QED
      BY <3>1, <3>2, <3>3
  <2>3. /\ q \in Seq(Nat \ {0}) /\ Len(q) = Len(c) /\ \A i \in 1 .. Len(c) : q[i] = c[Len(c) - i + 1]
    <3>1. \A i \in 1 .. Len(c) : Len(c) - i + 1 \in 1 .. Len(c)
      BY <1>1
    <3>2. q = [i \in 1 .. Len(c) |-> c[Len(c) - i + 1]]
      BY DEF Reverse
    <3>3. q \in [1 .. Len(c) -> Nat \ {0}]
      BY <1>0, <3>1, <3>2
    <3>4. \A i \in 1 .. Len(c) : q[i] = c[Len(c) - i + 1]
      BY <3>2
    <3> HIDE DEF q
    <3>5. q \in Seq(Nat \ {0}) /\ Len(q) = Len(c)
      BY <1>1, <3>3, SMTT(30)
    <3> QED
      BY <3>4, <3>5
  <2>4. IsSuffix(s, c) <=> Len(p) <= Len(q) /\ SubSeq(p, 1, Len(p)) = SubSeq(q, 1, Len(p))
    BY DEF IsSuffix, IsPrefix
  <2> HIDE DEF p, q
  <2>5. \A i \in 1 .. x : p[i] = q[i]
    <3> SUFFICES ASSUME NEW i \in 1 .. x PROVE p[i] = q[i]
      OBVIOUS
    <3>1. i \in 1 .. Len(c) /\ x - i + 1 \in 1 .. x /\ Len(c) - i + 1 \in 1 .. Len(c)
      BY <1>1, <1>3
    <3>2. p[i] = d[1] + (x - i + 1) - 1
      BY <2>1, <2>2, <3>1
    <3>3. q[i] = c[1] + (Len(c) - i + 1) - 1
      BY <1>1, <2>3, <3>1
    <3>4. /\ d[1] \in Nat /\ c[1] \in Nat /\ Len(c) \in Nat /\ x \in Nat /\ i \in Nat
      BY <1>1, <1>2, <1>3
    <3>5. d[1] + (x - i + 1) - 1 = c[1] + (Len(c) - i + 1) - 1
      BY <1>x, <3>4
    <3> QED
      BY <3>2, <3>3, <3>5
  <2>6. SubSeq(p, 1, x) = SubSeq(q, 1, x)
    <3>1. 1 \in Int /\ x \in Int /\ x \in Nat
      BY <1>3
    <3>2. SubSeq(p, 1, x) = [i \in 1 .. x |-> p[i]] /\ SubSeq(q, 1, x) = [i \in 1 .. x |-> q[i]]
      BY <3>1, <1>1, <1>3, <2>2, <2>3
    <3> QED
      BY <2>5, <3>2
  <2>7. IsSuffix(s, c)
    BY <1>3, <2>2, <2>3, <2>4, <2>6
  <2> QED
    BY <2>7 DEF s
<1> QED
  BY <1>6, <1>7, <1>8

(* A chain repeats ends, and puts together its news are all segments.      *)
LEMMA ChainRepeatsEnds ==
  ASSUME NEW chunks, NEW n, Chain(chunks, n), NEW k \in DOMAIN chunks \ {1}
  PROVE  /\ IsSuffix(Kept(chunks[k], DOMAIN chunks[k] \ LaterIn(chunks, k)), chunks[k - 1])
         /\ Kept(chunks[k], LaterIn(chunks, k))
              = [i \in 1 .. End(chunks[k]) - End(chunks[k - 1]) |-> End(chunks[k - 1]) + i]
<1>1. k - 1 \in DOMAIN chunks /\ k \in DOMAIN chunks
  <2> DEFINE Row == Seq(Nat \ {0})
  <2>1. chunks \in Seq(Row)
    BY DEF Chain
  <2> HIDE DEF Row
  <2> QED
    BY <2>1
<1>2. IsRun(chunks[k]) /\ IsRun(chunks[k - 1]) /\ Continues(chunks[k - 1], chunks[k])
  BY <1>1 DEF Chain
<1>3. LaterIn(chunks, k)
        = {p \in DOMAIN chunks[k] : \A j \in DOMAIN chunks[k - 1] : chunks[k - 1][j] < chunks[k][p]}
  BY DEF LaterIn
<1> QED
  BY <1>2, <1>3, NewInRun

(* What the chunks of a chain add to each other is every segment, once.    *)
LEMMA ChainIsWhole ==
  ASSUME NEW chunks, NEW n \in Nat, Chain(chunks, n)
  PROVE  FlattenSeq([k \in DOMAIN chunks |-> Kept(chunks[k], LaterIn(chunks, k))]) = [i \in 1 .. n |-> i]
<1> DEFINE Row == Seq(Nat \ {0})
           m == Len(chunks)
           news == [k \in DOMAIN chunks |-> Kept(chunks[k], LaterIn(chunks, k))]
<1>1. chunks \in Seq(Row)
  BY DEF Chain
<1> HIDE DEF Row
<1>2. m \in Nat /\ DOMAIN chunks = 1 .. m
  BY <1>1, LenProperties
<1>3. CASE chunks = <<>>
  <2>1. n = 0 /\ m = 0
    BY <1>3, EmptySeq DEF Chain
  <2>2. news = <<>>
    BY <1>2, <2>1
  <2> HIDE DEF news
  <2>3. [i \in 1 .. 0 |-> i] = <<>>
    OBVIOUS
  <2>4. FlattenSeq(news) = [i \in 1 .. n |-> i]
    BY <2>1, <2>2, <2>3, JoinOfNone
  <2> QED
    BY <2>4 DEF news
<1>4. CASE chunks # <<>>
  <2>1. m >= 1 /\ chunks[1][1] = 1 /\ End(chunks[m]) = n
    <3>1. m # 0
      BY <1>1, <1>4, EmptySeq
    <3> QED
      BY <1>2, <1>4, <3>1 DEF Chain
  <2>2. \A k \in 1 .. m : IsRun(chunks[k]) /\ news[k] = Kept(chunks[k], LaterIn(chunks, k))
    BY <1>2 DEF Chain
  <2>3. news[1] = [i \in 1 .. End(chunks[1]) |-> i]
    <3>1. 1 \in 1 .. m
      BY <1>2, <2>1
    <3>2. IsRun(chunks[1])
      BY <2>2, <3>1
    <3>3. LaterIn(chunks, 1) = DOMAIN chunks[1]
      BY DEF LaterIn
    <3>4. chunks[1] \in Seq(Nat \ {0}) /\ DOMAIN chunks[1] = 1 .. Len(chunks[1])
      BY <3>2 DEF IsRun
    <3>5. Kept(chunks[1], LaterIn(chunks, 1)) = chunks[1]
      BY <3>3, <3>4, KeptOfAll
    <3>6. chunks[1] = [i \in 1 .. End(chunks[1]) - 0 |-> 0 + i]
      <4>1. 0 \in Nat /\ 0 + 1 = chunks[1][1]
        BY <2>1
      <4> QED
        BY <3>2, <4>1, RunIsCount
    <3>7. End(chunks[1]) \in Nat
      BY <3>2, RunFacts
    <3>8. End(chunks[1]) - 0 = End(chunks[1])
      BY <3>7
    <3>9. [i \in 1 .. End(chunks[1]) |-> 0 + i] = [i \in 1 .. End(chunks[1]) |-> i]
      BY <3>7
    <3> QED
      BY <2>2, <3>1, <3>5, <3>6, <3>8, <3>9
  <2>4. news # <<>> /\ Len(news) = m /\ \E T : news \in Seq(T)
    <3>1. news \in [1 .. m -> {news[k] : k \in 1 .. m}]
      BY <1>2
    <3>2. 1 \in DOMAIN news
      BY <1>2, <2>1
    <3> HIDE DEF news
    <3>3. news \in Seq({news[k] : k \in 1 .. m})
      BY <1>2, <3>1
    <3>4. Len(news) = m
      BY <1>2, <3>1, <3>3
    <3> QED
      BY <3>2, <3>3, <3>4
  <2>5. \A k \in (1 .. m) \ {1} :
          /\ news[k] = [i \in 1 .. End(chunks[k]) - End(chunks[k - 1]) |-> End(chunks[k - 1]) + i]
          /\ End(chunks[k]) \in Nat /\ End(chunks[k - 1]) \in Nat
          /\ End(chunks[k - 1]) < End(chunks[k])
    <3> SUFFICES ASSUME NEW k \in (1 .. m) \ {1}
                 PROVE  /\ news[k] = [i \in 1 .. End(chunks[k]) - End(chunks[k - 1]) |-> End(chunks[k - 1]) + i]
                        /\ End(chunks[k]) \in Nat /\ End(chunks[k - 1]) \in Nat
                        /\ End(chunks[k - 1]) < End(chunks[k])
      BY Zenon
    <3>1. k \in DOMAIN chunks \ {1} /\ k \in 1 .. m /\ k - 1 \in 1 .. m
      BY <1>2
    <3>2. Kept(chunks[k], LaterIn(chunks, k))
            = [i \in 1 .. End(chunks[k]) - End(chunks[k - 1]) |-> End(chunks[k - 1]) + i]
      BY <3>1, ChainRepeatsEnds
    <3>3. IsRun(chunks[k]) /\ IsRun(chunks[k - 1])
      BY <2>2, <3>1
    <3>4. Continues(chunks[k - 1], chunks[k])
      BY <3>1 DEF Chain
    <3>5. End(chunks[k]) \in Nat /\ End(chunks[k - 1]) \in Nat
      BY <3>3, RunFacts
    <3>6. End(chunks[k - 1]) < End(chunks[k])
      BY <3>4 DEF Continues
    <3> QED
      BY <2>2, <3>1, <3>2, <3>5, <3>6
  <2> HIDE DEF news
  <2>6. PICK g : JoinFollows(g, news, m) /\ FlattenSeq(news) = g[m]
    <3>1. PICK T : news \in Seq(T)
      BY <2>4
    <3>2. \E g : JoinFollows(g, news, Len(news)) /\ FlattenSeq(news) = g[Len(news)]
      BY <2>4, <3>1, JoinIsReached
    <3> QED
      BY <2>4, <3>2
  <2> DEFINE Bad == {k \in 0 .. m : k # 0 /\ g[k] # [i \in 1 .. End(chunks[k]) |-> i]}
  <2>7. 0 \notin Bad
    OBVIOUS
  <2>8. ASSUME NEW k \in 1 .. m, k - 1 \notin Bad
        PROVE  k \notin Bad
    <3>1. CASE k = 1
      BY <2>3, <2>6, <3>1 DEF JoinFollows
    <3>2. CASE k # 1
      <4>1. k - 1 \in 0 .. m /\ k - 1 # 0 /\ k \in (1 .. m) \ {1}
        BY <1>2, <3>2
      <4> DEFINE u == End(chunks[k - 1])
                 v == End(chunks[k])
      <4>2. g[k - 1] = [i \in 1 .. u |-> i] /\ g[k] = g[k - 1] \o news[k]
        BY <2>6, <2>8, <3>2, <4>1 DEF JoinFollows
      <4>3. news[k] = [i \in 1 .. v - u |-> u + i] /\ u \in Nat /\ v \in Nat /\ u < v
        BY <2>5, <4>1
      <4> HIDE DEF u, v
      <4>4. [i \in 1 .. u |-> i] \o [i \in 1 .. v - u |-> u + i] = [i \in 1 .. v |-> i]
        <5> DEFINE a == [i \in 1 .. u |-> i]
                   b == [i \in 1 .. v - u |-> u + i]
                   c == [i \in 1 .. v |-> i]
        <5>1. /\ a \in Seq(Nat) /\ Len(a) = u /\ b \in Seq(Nat) /\ Len(b) = v - u
              /\ c \in Seq(Nat) /\ Len(c) = v
          BY <4>3
        <5>2. /\ \A i \in 1 .. u : a[i] = i
              /\ \A i \in 1 .. v - u : b[i] = u + i
              /\ \A i \in 1 .. v : c[i] = i
          OBVIOUS
        <5> HIDE DEF a, b, c
        <5>3. /\ a \o b \in Seq(Nat) /\ Len(a \o b) = v
              /\ \A i \in 1 .. v : (a \o b)[i] = IF i <= u THEN a[i] ELSE b[i - u]
          <6>1. Len(a) + Len(b) = v
            BY <4>3, <5>1
          <6> QED
            BY <5>1, <6>1, ConcatProperties, ZenonT(40)
        <5>4. \A i \in 1 .. v : (a \o b)[i] = c[i]
          <6> SUFFICES ASSUME NEW i \in 1 .. v PROVE (a \o b)[i] = i
            BY <5>2
          <6>1. i <= u => i \in 1 .. u
            BY <4>3
          <6>2. ~(i <= u) => i - u \in 1 .. v - u /\ u + (i - u) = i
            BY <4>3
          <6> QED
            BY <5>2, <5>3, <6>1, <6>2
        <5>5. a \o b = c
          BY <5>1, <5>3, <5>4, SeqEqual
        <5> QED
          BY <5>5 DEF a, b, c
      <4>5. g[k] = [i \in 1 .. v |-> i]
        BY <4>2, <4>3, <4>4
      <4> QED
        BY <4>5 DEF v
    <3> QED
      BY <3>1, <3>2
  <2>9. Bad = {}
    <3>1. Bad \subseteq 0 .. m
      OBVIOUS
    <3> HIDE DEF Bad
    <3> QED
      BY <1>2, <2>7, <2>8, <3>1, NoneFails
  <2>10. m \in 0 .. m /\ m # 0
    BY <1>2, <2>1
  <2>11. g[m] = [i \in 1 .. n |-> i]
    BY <2>1, <2>9, <2>10
  <2> QED
    BY <2>6, <2>11 DEF news
<1> QED
  BY <1>3, <1>4

(* A function on the numbers up to n is a list of n elements.              *)
LEMMA FunIsSeq ==
  ASSUME NEW n \in Nat, NEW S, NEW f \in [1 .. n -> S]
  PROVE  f \in Seq(S) /\ Len(f) = n
  OBVIOUS

(* The total length of some segments: it has one more for one more segment *)
(* and does not change when segments are added behind.                     *)
Total(l, ix) == SumOf([k \in DOMAIN ix |-> l[ix[k]]])

(* The lengths of some segments are a list of numbers.                     *)
LEMMA TotalIsSum ==
  ASSUME NEW l \in Seq(Nat), NEW ix \in Seq(1 .. Len(l))
  PROVE  /\ [k \in DOMAIN ix |-> l[ix[k]]] \in Seq(Nat)
         /\ Len([k \in DOMAIN ix |-> l[ix[k]]]) = Len(ix)
         /\ \A k \in 1 .. Len(ix) : [p \in DOMAIN ix |-> l[ix[p]]][k] = l[ix[k]]
<1> DEFINE s == [k \in DOMAIN ix |-> l[ix[k]]]
<1>1. Len(ix) \in Nat /\ DOMAIN ix = 1 .. Len(ix) /\ \A k \in 1 .. Len(ix) : ix[k] \in 1 .. Len(l)
  OBVIOUS
<1>2. \A p \in 1 .. Len(l) : l[p] \in Nat
  OBVIOUS
<1>3. s \in [1 .. Len(ix) -> Nat]
  BY <1>1, <1>2
<1>4. \A k \in 1 .. Len(ix) : s[k] = l[ix[k]]
  BY <1>1
<1> HIDE DEF s
<1>5. s \in Seq(Nat) /\ Len(s) = Len(ix)
  BY <1>1, <1>3, FunIsSeq
<1> QED
  BY <1>4, <1>5 DEF s

(* Their total is a number.                                                *)
LEMMA TotalIsNat ==
  ASSUME NEW l \in Seq(Nat), NEW ix \in Seq(1 .. Len(l))
  PROVE  Total(l, ix) \in Nat
<1> DEFINE s == [k \in DOMAIN ix |-> l[ix[k]]]
<1>1. s \in Seq(Nat)
  BY TotalIsSum
<1> HIDE DEF s
<1>2. SumOf(s) \in Nat
  BY <1>1, SumIsNat
<1> QED
  BY <1>2 DEF Total, s

(* One more segment adds its length.                                       *)
LEMMA TotalOneMore ==
  ASSUME NEW l \in Seq(Nat), NEW ix \in Seq(1 .. Len(l)), NEW j \in 1 .. Len(l)
  PROVE  /\ Append(ix, j) \in Seq(1 .. Len(l)) /\ l[j] \in Nat
         /\ Total(l, Append(ix, j)) = Total(l, ix) + l[j]
<1> DEFINE P == 1 .. Len(l)
           jx == Append(ix, j)
           s == [k \in DOMAIN ix |-> l[ix[k]]]
           t == [k \in DOMAIN jx |-> l[jx[k]]]
<1>1. ix \in Seq(P) /\ j \in P
  OBVIOUS
<1> HIDE DEF P
<1>2. /\ jx \in Seq(P) /\ Len(jx) = Len(ix) + 1 /\ Len(ix) \in Nat
      /\ (\A k \in 1 .. Len(ix) : jx[k] = ix[k]) /\ jx[Len(ix) + 1] = j
  BY <1>1, AppendProperties, LenProperties
<1> HIDE DEF jx
<1>3. s \in Seq(Nat) /\ Len(s) = Len(ix) /\ \A k \in 1 .. Len(ix) : s[k] = l[ix[k]]
  BY TotalIsSum
<1>4. t \in Seq(Nat) /\ Len(t) = Len(ix) + 1 /\ \A k \in 1 .. Len(ix) + 1 : t[k] = l[jx[k]]
  <2>1. jx \in Seq(1 .. Len(l))
    BY <1>2 DEF P
  <2>2. t \in Seq(Nat) /\ Len(t) = Len(jx) /\ \A k \in 1 .. Len(jx) : t[k] = l[jx[k]]
    BY <2>1, TotalIsSum
  <2> QED
    BY <1>2, <2>2
<1>5. l[j] \in Nat
  OBVIOUS
<1> HIDE DEF s, t
<1>6. t = Append(s, l[j])
  <2>1. /\ Append(s, l[j]) \in Seq(Nat) /\ Len(Append(s, l[j])) = Len(ix) + 1
        /\ (\A k \in 1 .. Len(ix) : Append(s, l[j])[k] = s[k])
        /\ Append(s, l[j])[Len(ix) + 1] = l[j]
    BY <1>3, <1>5, AppendProperties
  <2>2. \A k \in 1 .. Len(ix) + 1 : t[k] = Append(s, l[j])[k]
    <3> SUFFICES ASSUME NEW k \in 1 .. Len(ix) + 1 PROVE t[k] = Append(s, l[j])[k]
      OBVIOUS
    <3>1. CASE k \in 1 .. Len(ix)
      BY <1>2, <1>3, <1>4, <2>1, <3>1, ZenonT(40)
    <3>2. CASE k = Len(ix) + 1
      BY <1>2, <1>4, <2>1, <3>2
    <3>3. Len(ix) \in Nat
      BY <1>2
    <3>4. k \in 1 .. Len(ix) \/ k = Len(ix) + 1
      BY <3>3
    <3> QED
      BY <3>1, <3>2, <3>4
  <2> QED
    BY <1>4, <2>1, <2>2, SeqEqual
<1>7. SumOf(t) = SumOf(s) + l[j]
  BY <1>3, <1>5, <1>6, SumOneMore
<1> QED
  BY <1>2, <1>5, <1>7 DEF Total, s, t, jx, P

(* No segments have no length.                                             *)
LEMMA TotalOfNone == \A l : Total(l, <<>>) = 0
<1> SUFFICES ASSUME NEW l PROVE Total(l, <<>>) = 0
  OBVIOUS
<1>1. [k \in DOMAIN <<>> |-> l[<<>>[k]]] = <<>>
  OBVIOUS
<1>2. <<>> \in Seq(Nat)
  OBVIOUS
<1> QED
  BY <1>1, <1>2, SumIsNat DEF Total

(* A segment added behind changes no total.                                *)
LEMMA TotalStays ==
  ASSUME NEW l \in Seq(Nat), NEW ix \in Seq(1 .. Len(l)), NEW e \in Nat
  PROVE  Total(Append(l, e), ix) = Total(l, ix)
<1>1. \A p \in 1 .. Len(l) : Append(l, e)[p] = l[p]
  BY AppendProperties
<1>2. \A k \in DOMAIN ix : ix[k] \in 1 .. Len(l)
  OBVIOUS
<1>3. [k \in DOMAIN ix |-> Append(l, e)[ix[k]]] = [k \in DOMAIN ix |-> l[ix[k]]]
  BY <1>1, <1>2
<1> QED
  BY <1>3 DEF Total

(* A chain holds segments up to its end only.                              *)
LEMMA ChainInside ==
  ASSUME NEW chunks, NEW n \in Nat, Chain(chunks, n), NEW k \in DOMAIN chunks
  PROVE  chunks[k] \in Seq(1 .. n) /\ IsRun(chunks[k])
<1> DEFINE c == chunks[k]
<1>1. IsRun(c) /\ End(c) <= n
  BY DEF Chain
<1> HIDE DEF c
<1>2. /\ Len(c) \in Nat /\ DOMAIN c = 1 .. Len(c) /\ c[1] \in Nat \ {0}
      /\ End(c) = c[1] + Len(c) - 1 /\ \A i \in 1 .. Len(c) : c[i] = c[1] + i - 1
  BY <1>1, RunFacts
<1>3. \A i \in 1 .. Len(c) : c[i] \in 1 .. n
  BY <1>1, <1>2
<1>4. c \in Seq(Nat \ {0})
  BY <1>1 DEF IsRun
<1>5. c \in Seq(1 .. n)
  BY <1>2, <1>3, <1>4, SMTT(30)
<1> QED
  BY <1>1, <1>5 DEF c

(* What is repeated of a chunk is nothing or its end.                      *)
LEMMA RepeatedIsEnd ==
  ASSUME NEW c, IsRun(c)
  PROVE  /\ Repeated(c) = <<>> \/ \E k \in 1 .. Len(c) : Repeated(c) = SubSeq(c, k, Len(c))
         /\ overlap = 0 => Repeated(c) = <<>>
<1> DEFINE fit(j) == Fits(TotalOf(SubSeq(c, j + 1, Len(c))) + Joint * (Len(c) - j), c[j])
           Tails == {k \in DOMAIN c : \A j \in k .. (Len(c) - 1) : fit(j)}
           least == CHOOSE k \in Tails : \A j \in Tails : k =< j
<1>1. Repeated(c) = IF overlap = 0 \/ c = <<>> THEN <<>> ELSE SubSeq(c, least, Len(c))
  BY DEF Repeated
<1>2. Len(c) \in Nat /\ Len(c) >= 1 /\ DOMAIN c = 1 .. Len(c)
  BY RunFacts
<1> HIDE DEF fit
<1>3. Tails \subseteq 1 .. Len(c) /\ Len(c) \in Tails
  BY <1>2
<1> HIDE DEF Tails
<1>4. \E k \in Tails : \A j \in Tails : k =< j
  <2>1. Tails \subseteq Nat /\ Tails # {}
    BY <1>2, <1>3
  <2> QED
    BY <2>1, LeastNumber
<1>5. least \in 1 .. Len(c)
  BY <1>3, <1>4
<1> HIDE DEF least
<1> QED
  BY <1>1, <1>5

-----------------------------------------------------------------------------
(* What holds of the packing in every state: its types; the chunks and the *)
(* one that is being filled are a chain up to the last segment dealt with; *)
(* and without overlap the packer knows how long its chunk is.             *)
Pieces == [len : Nat \ {0}, mark : {"plain", "word", "sep"}]
Waiting == [text : Seq(Pieces), depth : Nat]

(* The types of the packing.                                               *)
PackTyped ==
  /\ packing \in {"none", "sentences", "blocks", "packed", "overflowed"}
  /\ overlap \in Overlaps \cup {0} /\ offered \in 0 .. MaxItems
  /\ parts \in Seq(Waiting)
  /\ lengths \in Seq(Nat) /\ merged \in 0 .. Len(lengths) /\ size \in Nat

(* The chunks, with the one that is being filled, are a chain.             *)
PackChained ==
  /\ packing = "none" => packed = <<>> /\ current = <<>>
  /\ packing = "packed" => current = <<>> /\ merged = Len(lengths)
  /\ packed \in Seq(Seq(Nat \ {0})) /\ (current = <<>> \/ IsRun(current))
  /\ Chain(Flushed, merged)

(* The packer's size is the length of the chunk it fills.                  *)
SizeKnown ==
  packing \in {"sentences", "blocks"} /\ current # <<>> =>
    size = Total(lengths, current) + Joint * Len(current) /\ (Len(current) > 1 => size <= MaxChars)

(* A chunk of several segments is no longer than a chunk may be.           *)
ChunkFits(c) == Len(c) > 1 => Total(lengths, c) + Joint * (Len(c) - 1) <= MaxChars

(* Without overlap, sizes are known and chunks fit.                        *)
PackSized == overlap = 0 => SizeKnown /\ \A k \in DOMAIN packed : ChunkFits(packed[k])

(* The inductive invariant of the packing.                                 *)
PackInv == PackTyped /\ PackChained /\ PackSized

(* It holds before anything is packed.                                     *)
LEMMA PackStarts == PackInit => PackInv
<1> SUFFICES ASSUME PackInit PROVE PackInv
  OBVIOUS
<1>1. /\ <<>> \in Seq(Waiting) /\ <<>> \in Seq(Nat) /\ Len(<<>>) = 0 /\ DOMAIN <<>> = {}
      /\ <<>> \in Seq(Seq(Nat \ {0}))
  BY EmptySeq
<1>2. PackTyped
  BY <1>1, PackingAssumption DEF PackInit, PackTyped
<1>3. Flushed = <<>> /\ merged = 0
  BY DEF PackInit, Flushed
<1>4. Chain(<<>>, 0)
  BY <1>1 DEF Chain
<1>5. PackChained
  BY <1>1, <1>3, <1>4 DEF PackInit, PackChained
<1>6. PackSized
  BY <1>1 DEF PackInit, PackSized, SizeKnown
<1> QED
  BY <1>2, <1>5, <1>6 DEF PackInv

(* What the packed and the current chunk refer to are segments there are.  *)
LEMMA PackInside ==
  ASSUME PackInv
  PROVE  /\ merged \in Nat /\ Len(lengths) \in Nat /\ merged <= Len(lengths)
         /\ \A k \in DOMAIN packed : packed[k] \in Seq(1 .. Len(lengths)) /\ packed[k] \in Seq(1 .. merged)
         /\ current \in Seq(1 .. Len(lengths)) /\ current \in Seq(1 .. merged)
<1> DEFINE Row == Seq(Nat \ {0})
<1>1. /\ merged \in Nat /\ Len(lengths) \in Nat /\ merged <= Len(lengths)
      /\ packed \in Seq(Row) /\ Chain(Flushed, merged) /\ (current = <<>> \/ current \in Row)
  BY DEF PackInv, PackTyped, PackChained, IsRun
<1>2. \A T : Seq(1 .. merged) \subseteq Seq(1 .. Len(lengths))
  <2>1. 1 .. merged \subseteq 1 .. Len(lengths)
    BY <1>1
  <2> QED
    BY <2>1, SeqMonotonic
<1>3. \A k \in DOMAIN Flushed : Flushed[k] \in Seq(1 .. merged)
  BY <1>1, ChainInside
<1>4. CASE current = <<>>
  <2>1. Flushed = packed /\ current \in Seq(1 .. merged)
    BY <1>4 DEF Flushed
  <2> QED
    BY <1>1, <1>2, <1>3, <2>1
<1>5. CASE current # <<>>
  <2>1. Flushed = Append(packed, current)
    BY <1>5 DEF Flushed
  <2> HIDE DEF Row
  <2>2. /\ Len(packed) \in Nat /\ DOMAIN packed = 1 .. Len(packed)
        /\ Flushed \in Seq(Row) /\ Len(Flushed) = Len(packed) + 1 /\ Flushed[Len(packed) + 1] = current
        /\ \A k \in 1 .. Len(packed) : Flushed[k] = packed[k]
    BY <1>1, <1>5, <2>1, AppendProperties, LenProperties
  <2>3. DOMAIN Flushed = 1 .. Len(packed) + 1
    BY <2>2, LenProperties
  <2>4. current \in Seq(1 .. merged) /\ \A k \in DOMAIN packed : packed[k] \in Seq(1 .. merged)
    BY <1>3, <2>2, <2>3
  <2> QED
    BY <1>1, <1>2, <2>4
<1> QED
  BY <1>4, <1>5

(* A step that gives one more segment to pack, or none.                    *)
LEMMA MoreToPack ==
  ASSUME PackInv, packing \in {"sentences", "blocks"}, UNCHANGED <<packing, overlap, merged, current, size, packed>>,
         offered' \in 0 .. MaxItems, parts' \in Seq(Waiting),
         lengths' = lengths \/ \E e \in Nat : lengths' = Append(lengths, e)
  PROVE  PackInv'
<1>1. /\ lengths \in Seq(Nat) /\ merged \in 0 .. Len(lengths)
      /\ \A k \in DOMAIN packed : packed[k] \in Seq(1 .. Len(lengths))
      /\ current \in Seq(1 .. Len(lengths))
  BY PackInside DEF PackInv, PackTyped
<1>2. /\ lengths' \in Seq(Nat) /\ merged' \in 0 .. Len(lengths')
      /\ \A ix \in Seq(1 .. Len(lengths)) : Total(lengths', ix) = Total(lengths, ix)
  <2>1. CASE lengths' = lengths
    BY <1>1, <2>1
  <2>2. ASSUME NEW e \in Nat, lengths' = Append(lengths, e)
        PROVE  /\ lengths' \in Seq(Nat) /\ merged' \in 0 .. Len(lengths')
               /\ \A ix \in Seq(1 .. Len(lengths)) : Total(lengths', ix) = Total(lengths, ix)
    <3>1. Append(lengths, e) \in Seq(Nat) /\ Len(Append(lengths, e)) = Len(lengths) + 1
          /\ Len(lengths) \in Nat
      BY <1>1, AppendProperties, LenProperties
    <3>2. \A ix \in Seq(1 .. Len(lengths)) : Total(Append(lengths, e), ix) = Total(lengths, ix)
      BY <1>1, TotalStays
    <3>3. merged' \in 0 .. Len(lengths')
      BY <1>1, <2>2, <3>1
    <3> QED
      BY <2>2, <3>1, <3>2, <3>3
  <2> QED
    BY <2>1, <2>2
<1>3. PackTyped'
  BY <1>2 DEF PackInv, PackTyped
<1>4. PackChained'
  BY DEF PackInv, PackChained, Flushed
<1>5. Joint' = Joint
  BY DEF Joint
<1>6. PackSized'
  <2> SUFFICES ASSUME overlap' = 0
               PROVE  SizeKnown' /\ \A k \in DOMAIN packed' : ChunkFits(packed[k])'
    BY DEF PackSized
  <2>1. overlap = 0 /\ SizeKnown /\ \A k \in DOMAIN packed : ChunkFits(packed[k])
    BY DEF PackInv, PackSized
  <2>2. SizeKnown'
    <3>1. Total(lengths', current) = Total(lengths, current)
      BY <1>1, <1>2
    <3> QED
      BY <1>5, <2>1, <3>1 DEF SizeKnown
  <2>3. ASSUME NEW k \in DOMAIN packed
        PROVE  ChunkFits(packed[k])'
    <3>1. Total(lengths', packed[k]) = Total(lengths, packed[k]) /\ ChunkFits(packed[k])
      BY <1>1, <1>2, <2>1, <2>3
    <3> QED
      BY <1>5, <3>1 DEF ChunkFits
  <2> QED
    BY <2>2, <2>3
<1> QED
  BY <1>3, <1>4, <1>6 DEF PackInv

(* The clauses of a text are texts.                                        *)
LEMMA ClausesAreTexts ==
  ASSUME NEW text \in Seq(Pieces)
  PROVE  \E n \in Nat : Clauses(text) \in [1 .. n -> Seq(Pieces)]
<1> DEFINE T == 1 .. Len(text) + 1
           places == [i \in T |-> i]
           K == CutPoints(text) \cup {1, Len(text) + 1}
           cuts == Kept(places, K)
           n == IF Len(cuts) = 0 THEN 0 ELSE Len(cuts) - 1
<1>1. Len(text) \in Nat /\ DOMAIN text = 1 .. Len(text)
  BY LenProperties
<1>2. cuts \in Seq(T) /\ Len(cuts) \in Nat
  <2>1. places \in Seq(T)
    <3>1. places \in [T -> T] /\ Len(text) + 1 \in Nat
      BY <1>1
    <3> HIDE DEF places
    <3> QED
      BY <3>1, FunIsSeq
  <2> HIDE DEF places, T, K
  <2> QED
    BY <2>1, KeptIsList
<1>3. Clauses(text) = [k \in 1 .. (Len(cuts) - 1) |-> SubSeq(text, cuts[k], cuts[k + 1] - 1)]
  BY DEF Clauses
<1> HIDE DEF cuts
<1>4. n \in Nat /\ 1 .. (Len(cuts) - 1) = 1 .. n
  BY <1>2
<1>5. ASSUME NEW k \in 1 .. n
      PROVE  SubSeq(text, cuts[k], cuts[k + 1] - 1) \in Seq(Pieces)
  <2>1. k \in 1 .. Len(cuts) /\ k + 1 \in 1 .. Len(cuts)
    BY <1>2, <1>4
  <2>2. cuts[k] \in T /\ cuts[k + 1] \in T
    BY <1>2, <2>1, ElementOfSeq
  <2>3. cuts[k] \in Int /\ cuts[k + 1] - 1 \in Int /\ \A i \in cuts[k] .. cuts[k + 1] - 1 : i \in 1 .. Len(text)
    BY <1>1, <2>2
  <2>4. \A i \in cuts[k] .. cuts[k + 1] - 1 : text[i] \in Pieces
    BY <2>3, ElementOfSeq
  <2> QED
    BY <2>3, <2>4, SubSeqProperties
<1> HIDE DEF n
<1>6. Clauses(text) \in [1 .. n -> Seq(Pieces)]
  BY <1>3, <1>4, <1>5
<1> QED
  BY <1>4, <1>6

(* A text has a length.                                                    *)
LEMMA LengthIsNat ==
  ASSUME NEW text \in Seq(Pieces)
  PROVE  TextLength(text) \in Nat
<1> DEFINE s == [i \in DOMAIN text |-> text[i].len]
<1>1. Len(text) \in Nat /\ DOMAIN text = 1 .. Len(text) /\ \A i \in 1 .. Len(text) : text[i].len \in Nat
  <2>1. Len(text) \in Nat /\ DOMAIN text = 1 .. Len(text)
    BY LenProperties
  <2>2. \A i \in 1 .. Len(text) : text[i] \in Pieces
    BY <2>1, ElementOfSeq
  <2>3. \A p \in Pieces : p.len \in Nat
    BY DEF Pieces
  <2> QED
    BY <2>1, <2>2, <2>3
<1>2. s \in [1 .. Len(text) -> Nat]
  BY <1>1
<1> HIDE DEF s
<1>3. s \in Seq(Nat)
  BY <1>1, <1>2, FunIsSeq
<1>4. SumOf(s) \in Nat
  BY <1>3, SumIsNat
<1> QED
  BY <1>4 DEF TextLength, s

(* Reading and cutting keep the invariant.                                 *)
LEMMA StartKeeps == PackInv /\ StartPacking => PackInv'
<1> SUFFICES ASSUME PackInv, StartPacking PROVE PackInv'
  OBVIOUS
<1>1. /\ packing = "none" /\ packing' \in {"sentences", "blocks"} /\ overlap' \in Overlaps
      /\ UNCHANGED <<offered, parts, lengths, merged, current, size, packed>>
  BY DEF StartPacking
<1>2. packed = <<>> /\ current = <<>>
  BY <1>1 DEF PackInv, PackChained
<1>3. PackTyped'
  BY <1>1 DEF PackInv, PackTyped
<1>4. PackChained'
  BY <1>1 DEF PackInv, PackChained, Flushed
<1>5. PackSized'
  <2>1. packed' = <<>> /\ current' = <<>>
    BY <1>1, <1>2
  <2> QED
    BY <2>1 DEF PackSized, SizeKnown
<1> QED
  BY <1>3, <1>4, <1>5 DEF PackInv

(* Reading a sentence or a block keeps the invariant.                      *)
LEMMA ReadingKeeps == PackInv /\ (ReadSentence \/ ReadBlock) => PackInv'
<1> SUFFICES ASSUME PackInv, ReadSentence \/ ReadBlock PROVE PackInv'
  OBVIOUS
<1>1. offered \in 0 .. MaxItems /\ MaxItems \in Nat /\ parts \in Seq(Waiting)
  BY PackingAssumption DEF PackInv, PackTyped
<1>2. CASE ReadSentence
  <2>1. PICK s \in Sentences :
          IF TextLength(s) > Threshold
          THEN parts' = <<[text |-> s, depth |-> 1]>> /\ lengths' = lengths
          ELSE parts' = <<>> /\ lengths' = Append(lengths, TextLength(s))
    BY <1>2 DEF ReadSentence
  <2>2. s \in Seq(Pieces)
    BY PackingAssumption DEF Pieces
  <2>3. parts' \in Seq(Waiting) /\ (lengths' = lengths \/ \E e \in Nat : lengths' = Append(lengths, e))
    <3>1. TextLength(s) \in Nat
      BY <2>2, LengthIsNat
    <3>2. [text |-> s, depth |-> 1] \in Waiting
      BY <2>2 DEF Waiting
    <3>3. <<[text |-> s, depth |-> 1]>> \in Seq(Waiting) /\ <<>> \in Seq(Waiting)
      BY <3>2
    <3> QED
      BY <2>1, <3>1, <3>3
  <2>4. /\ packing = "sentences" /\ offered' \in 0 .. MaxItems
        /\ UNCHANGED <<packing, overlap, merged, current, size, packed>>
    BY <1>1, <1>2 DEF ReadSentence
  <2> QED
    BY <2>3, <2>4, MoreToPack
<1>3. CASE ReadBlock
  <2>1. \E e \in Nat : lengths' = Append(lengths, e)
    BY <1>3, PackingAssumption DEF ReadBlock
  <2>2. /\ packing = "blocks" /\ offered' \in 0 .. MaxItems /\ parts' \in Seq(Waiting)
        /\ UNCHANGED <<packing, overlap, merged, current, size, packed>>
    BY <1>1, <1>3 DEF ReadBlock
  <2> QED
    BY <2>1, <2>2, MoreToPack
<1> QED
  BY <1>2, <1>3

(* Cutting a text into clauses keeps it.                                   *)
LEMMA CuttingKeeps == PackInv /\ CutClause => PackInv'
<1> SUFFICES ASSUME PackInv, CutClause PROVE PackInv'
  OBVIOUS
<1> DEFINE text == Head(parts).text
           depth == Head(parts).depth
<1>1. /\ parts # <<>> /\ packing = "sentences" /\ UNCHANGED <<overlap, offered, merged, current, size, packed>>
      /\ offered \in 0 .. MaxItems /\ parts \in Seq(Waiting)
  BY DEF CutClause, PackInv, PackTyped
<1>2. Head(parts) \in Waiting /\ Tail(parts) \in Seq(Waiting)
  BY <1>1, HeadTailProperties
<1>3. text \in Seq(Pieces) /\ depth \in Nat
  BY <1>2 DEF Waiting
<1>4. \/ /\ lengths' = Append(lengths, TextLength(text)) /\ parts' = Tail(parts) /\ UNCHANGED packing
      \/ packing' = "overflowed" /\ UNCHANGED <<lengths, parts>>
      \/ /\ parts' = [k \in DOMAIN Clauses(text) |->
                        [text |-> Clauses(text)[k], depth |-> depth + 1]] \o Tail(parts)
         /\ UNCHANGED <<packing, lengths>>
  BY DEF CutClause
<1> HIDE DEF text, depth
<1>5. CASE /\ lengths' = Append(lengths, TextLength(text)) /\ parts' = Tail(parts) /\ UNCHANGED packing
  <2>1. \E e \in Nat : lengths' = Append(lengths, e)
    BY <1>3, <1>5, LengthIsNat
  <2> QED
    BY <1>1, <1>2, <1>5, <2>1, MoreToPack
<1>6. CASE packing' = "overflowed" /\ UNCHANGED <<lengths, parts>>
  <2>1. PackTyped'
    BY <1>1, <1>6 DEF PackInv, PackTyped
  <2>2. PackChained'
    BY <1>1, <1>6 DEF PackInv, PackChained, Flushed
  <2>3. Joint' = Joint
    BY <1>1, <1>6 DEF Joint
  <2>4. PackSized'
    BY <1>1, <1>6, <2>3 DEF PackInv, PackSized, SizeKnown, ChunkFits
  <2> QED
    BY <2>1, <2>2, <2>4 DEF PackInv
<1>7. CASE /\ parts' = [k \in DOMAIN Clauses(text) |->
                          [text |-> Clauses(text)[k], depth |-> depth + 1]] \o Tail(parts)
           /\ UNCHANGED <<packing, lengths>>
  <2>1. PICK n \in Nat : Clauses(text) \in [1 .. n -> Seq(Pieces)]
    BY <1>3, ClausesAreTexts
  <2> DEFINE front == [k \in DOMAIN Clauses(text) |-> [text |-> Clauses(text)[k], depth |-> depth + 1]]
  <2>2. front \in [1 .. n -> Waiting]
    BY <1>3, <2>1 DEF Waiting
  <2> HIDE DEF front
  <2>3. front \in Seq(Waiting)
    BY <2>2, FunIsSeq
  <2>4. front \o Tail(parts) \in Seq(Waiting)
    BY <1>2, <2>3, ConcatProperties
  <2>5. parts' = front \o Tail(parts)
    BY <1>7 DEF front
  <2>6. parts' \in Seq(Waiting) /\ offered' \in 0 .. MaxItems /\ lengths' = lengths
    BY <1>1, <1>7, <2>4, <2>5
  <2> QED
    BY <1>1, <1>7, <2>6, MoreToPack
<1> QED
  BY <1>4, <1>5, <1>6, <1>7

-----------------------------------------------------------------------------
(* The packer's loop.                                                      *)
LEMMA JointTimes == \A n \in Nat : /\ Joint \in {1, 2} /\ Joint * n \in Nat
                                   /\ Joint * (n + 1) = Joint * n + Joint
  BY DEF Joint

(* Closing the chunk that is being filled makes no chunk too long.         *)
LEMMA ClosedFits ==
  ASSUME PackInv, packing \in {"sentences", "blocks"}, overlap = 0
  PROVE  \A k \in DOMAIN Flushed : ChunkFits(Flushed[k])
<1> DEFINE Row == Seq(Nat \ {0})
<1>1. SizeKnown /\ (\A k \in DOMAIN packed : ChunkFits(packed[k])) /\ lengths \in Seq(Nat)
  BY DEF PackInv, PackTyped, PackSized
<1>2. CASE current = <<>>
  BY <1>1, <1>2 DEF Flushed
<1>3. CASE current # <<>>
  <2>1. /\ Flushed = Append(packed, current) /\ packed \in Seq(Row) /\ current \in Row
        /\ current \in Seq(1 .. Len(lengths))
    BY <1>3, PackInside DEF Flushed, PackInv, PackChained, IsRun
  <2> HIDE DEF Row
  <2>2. /\ Len(packed) \in Nat /\ DOMAIN packed = 1 .. Len(packed)
        /\ DOMAIN Flushed = 1 .. Len(packed) + 1 /\ Flushed[Len(packed) + 1] = current
        /\ \A k \in 1 .. Len(packed) : Flushed[k] = packed[k]
    BY <2>1, AppendProperties, LenProperties
  <2>3. ChunkFits(current)
    <3> SUFFICES ASSUME Len(current) > 1
                 PROVE  Total(lengths, current) + Joint * (Len(current) - 1) <= MaxChars
      BY DEF ChunkFits
    <3>1. size = Total(lengths, current) + Joint * Len(current) /\ size <= MaxChars
      BY <1>1, <1>3 DEF SizeKnown
    <3>2. Total(lengths, current) \in Nat
      BY <1>1, <2>1, TotalIsNat
    <3> DEFINE n == Len(current) - 1
    <3>3. n \in Nat /\ n + 1 = Len(current)
      <4>1. Len(current) \in Nat
        BY <2>1, LenProperties
      <4> QED
        BY <4>1
    <3> HIDE DEF n
    <3>4. Joint \in {1, 2} /\ Joint * n \in Nat /\ Joint * Len(current) = Joint * n + Joint
      BY <3>3, JointTimes
    <3> DEFINE y == Joint * n
    <3>5. Total(lengths, current) + Joint * n <= MaxChars
      <4> HIDE DEF y
      <4>1. y \in Nat /\ size = Total(lengths, current) + (y + Joint)
        BY <3>1, <3>4 DEF y
      <4>2. Total(lengths, current) + y <= MaxChars
        BY <3>1, <3>2, <3>4, <4>1, PackingAssumption
      <4> QED
        BY <4>2 DEF y
    <3> QED
      BY <3>5 DEF n
  <2> QED
    BY <1>1, <2>2, <2>3
<1> QED
  BY <1>2, <1>3

(* A segment too long for any chunk becomes a chunk of its own.            *)
LEMMA LongKeeps ==
  ASSUME PackInv, Segment, PackLong
  PROVE  PackInv'
<1> DEFINE j == merged + 1
           Row == Seq(Nat \ {0})
<1>1. /\ packing \in {"sentences", "blocks"} /\ merged' = j /\ merged < Len(lengths)
      /\ UNCHANGED <<packing, overlap, offered, parts, lengths>>
      /\ packed' = Append(Flushed, <<j>>) /\ current' = <<>> /\ size' = 0
  BY DEF Segment, PackLong
<1>2. /\ merged \in 0 .. Len(lengths) /\ merged \in Nat /\ Len(lengths) \in Nat
      /\ lengths \in Seq(Nat) /\ Chain(Flushed, merged) /\ Flushed \in Seq(Row)
  BY PackInside DEF PackInv, PackTyped, PackChained, Chain
<1>3. PackTyped'
  <2>1. merged' \in 0 .. Len(lengths)
    BY <1>1, <1>2
  <2> QED
    BY <1>1, <2>1 DEF PackInv, PackTyped
<1>4. IsRun(<<j>>) /\ End(<<j>>) = j /\ <<j>>[1] = j /\ <<j>> \in Row
  <2>1. j \in Nat \ {0}
    BY <1>2
  <2> HIDE DEF j
  <2> QED
    BY <2>1, RunOfOne DEF IsRun
<1>5. Chain(Append(Flushed, <<j>>), j)
  <2>1. ASSUME Flushed = <<>>
        PROVE  j = 1
    BY <1>2, <2>1 DEF Chain
  <2>2. ASSUME Flushed # <<>>
        PROVE  Flushed[Len(Flushed)][1] <= j
    <3>1. End(Flushed[Len(Flushed)]) = merged
      BY <1>2, <2>2 DEF Chain
    <3>2. Len(Flushed) \in DOMAIN Flushed
      <4> HIDE DEF Row
      <4> QED
        BY <1>2, <2>2, EmptySeq, LenProperties
    <3>3. IsRun(Flushed[Len(Flushed)])
      BY <1>2, <3>2 DEF Chain
    <3>4. /\ Len(Flushed[Len(Flushed)]) >= 1 /\ Len(Flushed[Len(Flushed)]) \in Nat
          /\ Flushed[Len(Flushed)][1] \in Nat
          /\ End(Flushed[Len(Flushed)]) = Flushed[Len(Flushed)][1] + Len(Flushed[Len(Flushed)]) - 1
      BY <3>3, RunFacts
    <3> QED
      BY <1>2, <3>1, <3>4
  <2>3. \A c : IsRun(c) /\ End(c) = merged + 1 /\ c[1] = merged + 1 => Chain(Append(Flushed, c), merged + 1)
    <3> SUFFICES ASSUME NEW c, IsRun(c), End(c) = merged + 1, c[1] = merged + 1
                 PROVE  Chain(Append(Flushed, c), merged + 1)
      OBVIOUS
    <3>1. c[1] <= merged + 1 /\ IF Flushed = <<>> THEN c[1] = 1 ELSE Flushed[Len(Flushed)][1] <= c[1]
      BY <1>2, <2>1, <2>2
    <3> QED
      BY <1>2, <3>1, ChainMore
  <2> QED
    BY <1>4, <2>3
<1>6. PackChained'
  <2>1. Flushed' = Append(Flushed, <<j>>) /\ packed' \in Seq(Row)
    <3>1. Flushed' = packed'
      BY <1>1 DEF Flushed
    <3> HIDE DEF Row, j
    <3> QED
      BY <1>1, <1>2, <1>4, <3>1, AppendProperties
  <2>2. Chain(Flushed, merged)'
    BY <1>1, <1>5, <2>1
  <2> QED
    BY <1>1, <2>1, <2>2 DEF PackChained
<1>7. PackSized'
  <2> SUFFICES ASSUME overlap' = 0
               PROVE  SizeKnown' /\ \A k \in DOMAIN packed' : ChunkFits(packed[k])'
    BY DEF PackSized
  <2>1. overlap = 0 /\ SizeKnown /\ (\A k \in DOMAIN packed : ChunkFits(packed[k])) /\ Joint' = Joint
    BY <1>1 DEF PackInv, PackSized, Joint
  <2>2. SizeKnown'
    BY <1>1 DEF SizeKnown
  <2>3. \A k \in DOMAIN Flushed : ChunkFits(Flushed[k])
    BY <1>1, <2>1, ClosedFits
  <2>4. /\ DOMAIN packed' = 1 .. Len(Flushed) + 1 /\ DOMAIN Flushed = 1 .. Len(Flushed)
        /\ Len(Flushed) \in Nat
        /\ packed'[Len(Flushed) + 1] = <<j>> /\ \A k \in 1 .. Len(Flushed) : packed'[k] = Flushed[k]
    <3> HIDE DEF Row, j
    <3> QED
      BY <1>1, <1>2, <1>4, AppendProperties, LenProperties
  <2>5. ASSUME NEW k \in DOMAIN packed'
        PROVE  ChunkFits(packed[k])'
    <3>1. CASE k \in 1 .. Len(Flushed)
      <4>1. ChunkFits(Flushed[k]) /\ packed'[k] = Flushed[k]
        BY <2>3, <2>4, <3>1
      <4> QED
        BY <1>1, <2>1, <4>1 DEF ChunkFits
    <3>2. CASE k = Len(Flushed) + 1
      <4>1. packed'[k] = <<j>> /\ Len(<<j>>) = 1
        BY <2>4, <3>2
      <4> QED
        BY <4>1 DEF ChunkFits
    <3> QED
      BY <2>4, <3>1, <3>2
  <2> QED
    BY <2>2, <2>5
<1> QED
  BY <1>3, <1>6, <1>7 DEF PackInv

(* A chunk of the next segment alone continues a chain.                    *)
LEMMA ChainAlone ==
  ASSUME NEW chunks, NEW n \in Nat, Chain(chunks, n)
  PROVE  Chain(Append(chunks, <<n + 1>>), n + 1)
<1> DEFINE c == <<n + 1>>
<1>1. IsRun(c) /\ End(c) = n + 1 /\ c[1] = n + 1
  <2>1. n + 1 \in Nat \ {0}
    OBVIOUS
  <2>2. \A m \in Nat \ {0} : IsRun(<<m>>) /\ End(<<m>>) = m /\ <<m>>[1] = m
    BY RunOfOne
  <2> QED
    BY <2>1, <2>2
<1>2. IF chunks = <<>> THEN n = 0 ELSE chunks[Len(chunks)][1] <= n
  <2>1. CASE chunks = <<>>
    BY <2>1 DEF Chain
  <2>2. CASE chunks # <<>>
    <3>1. End(chunks[Len(chunks)]) = n
      BY <2>2 DEF Chain
    <3>2. Len(chunks) \in DOMAIN chunks
      <4>1. chunks \in Seq(Seq(Nat \ {0}))
        BY DEF Chain
      <4> DEFINE Row == Seq(Nat \ {0})
      <4>2. chunks \in Seq(Row)
        BY <4>1
      <4> HIDE DEF Row
      <4> QED
        BY <2>2, <4>2, EmptySeq, LenProperties
    <3>3. IsRun(chunks[Len(chunks)])
      BY <3>2 DEF Chain
    <3>4. /\ Len(chunks[Len(chunks)]) >= 1 /\ Len(chunks[Len(chunks)]) \in Nat
          /\ chunks[Len(chunks)][1] \in Nat
          /\ End(chunks[Len(chunks)]) = chunks[Len(chunks)][1] + Len(chunks[Len(chunks)]) - 1
      BY <3>3, RunFacts
    <3> QED
      BY <2>2, <3>1, <3>4
  <2> QED
    BY <2>1, <2>2
<1> HIDE DEF c
<1>3. c[1] <= n + 1 /\ IF chunks = <<>> THEN c[1] = 1 ELSE chunks[Len(chunks)][1] <= c[1]
  <2>1. CASE chunks = <<>>
    BY <1>1, <1>2, <2>1
  <2>2. CASE chunks # <<>>
    <3>1. chunks[Len(chunks)][1] <= n
      BY <1>2, <2>2
    <3>2. chunks[Len(chunks)][1] \in Nat
      <4>1. Len(chunks) \in DOMAIN chunks
        <5>1. chunks \in Seq(Seq(Nat \ {0}))
          BY DEF Chain
        <5> DEFINE Row == Seq(Nat \ {0})
        <5>2. chunks \in Seq(Row)
          BY <5>1
        <5> HIDE DEF Row
        <5> QED
          BY <2>2, <5>2, EmptySeq, LenProperties
      <4>2. IsRun(chunks[Len(chunks)])
        BY <4>1 DEF Chain
      <4> QED
        BY <4>2, RunFacts
    <3> QED
      BY <1>1, <2>2, <3>1, <3>2
  <2> QED
    BY <2>1, <2>2
<1> QED
  BY <1>1, <1>3, ChainMore DEF c

(* What a short segment is joined to: nothing, the chunk that is being     *)
(* built, or the end of the chunk it closes.                               *)
JoinedTo(before, chunks) ==
  /\ current' = Append(before, merged + 1) /\ packed' = chunks
  /\ size' = Total(lengths, before) + Joint * Len(before) + lengths[merged + 1] + Joint
  /\ before \in Seq(1 .. Len(lengths)) /\ IsRun(Append(before, merged + 1))
  /\ Chain(Append(chunks, Append(before, merged + 1)), merged + 1)

(* A short segment joins what it should.                                   *)
LEMMA JoinsRight ==
  ASSUME PackInv, Segment, PackShort
  PROVE  \/ current = <<>> /\ JoinedTo(<<>>, packed)
         \/ current # <<>> /\ size + lengths[merged + 1] + Joint <= MaxChars /\ JoinedTo(current, packed)
         \/ \E before : JoinedTo(before, Flushed) /\ (overlap = 0 => before = <<>>)
<1> DEFINE j == merged + 1
           Row == Seq(Nat \ {0})
<1>1. /\ merged \in 0 .. Len(lengths) /\ merged \in Nat /\ Len(lengths) \in Nat /\ merged < Len(lengths)
      /\ lengths \in Seq(Nat) /\ Chain(Flushed, merged) /\ packed \in Seq(Row)
      /\ current \in Seq(1 .. Len(lengths)) /\ (current = <<>> \/ IsRun(current))
      /\ size \in Nat /\ Joint \in {1, 2} /\ MaxChars \in Nat
  BY PackInside, PackingAssumption DEF PackInv, PackTyped, PackChained, PackShort, Joint
<1>2. lengths[j] \in Nat
  <2>1. j \in 1 .. Len(lengths)
    BY <1>1
  <2> HIDE DEF j
  <2> QED
    BY <1>1, <2>1, ElementOfSeq
<1>3. IF current # <<>> /\ size + lengths[j] + Joint > MaxChars
      THEN packed' = Flushed /\ Joined(Repeated(current))
      ELSE packed' = packed /\ Joined(current)
  BY DEF PackShort
<1>4. \A c : TotalOf(c) = Total(lengths, c)
  BY DEF TotalOf, Total
<1>5. \A before : Joined(before) => current' = Append(before, j)
        /\ size' = Total(lengths, before) + Joint * Len(before) + lengths[j] + Joint
  BY <1>4 DEF Joined
<1>6. <<>> \in Seq(1 .. Len(lengths)) /\ Append(<<>>, j) = <<j>> /\ IsRun(<<j>>)
  <2>1. j \in Nat \ {0}
    BY <1>1
  <2> HIDE DEF j
  <2> QED
    BY <2>1, RunOfOne
<1>7. CASE current = <<>>
  <2>1. Flushed = packed /\ packed' = packed /\ Joined(<<>>)
    BY <1>3, <1>7 DEF Flushed
  <2>2. Chain(Append(packed, <<j>>), j)
    BY <1>1, <2>1, ChainAlone
  <2>3. JoinedTo(<<>>, packed)
    BY <1>5, <1>6, <2>1, <2>2 DEF JoinedTo
  <2> QED
    BY <1>7, <2>3
<1>8. CASE current # <<>>
  <2>1. IsRun(current) /\ Flushed = Append(packed, current)
    BY <1>1, <1>8 DEF Flushed
  <2>2. End(current) = merged /\ Chain(Append(packed, Append(current, j)), j)
    BY <1>1, <2>1, ChainLonger
  <2>3. IsRun(Append(current, j))
    BY <2>1, <2>2, RunLonger
  <2>4. CASE size + lengths[j] + Joint > MaxChars
    <3>1. packed' = Flushed /\ Joined(Repeated(current))
      BY <1>3, <1>8, <2>4
    <3>2. /\ Repeated(current) = <<>> \/ \E k \in 1 .. Len(current) : Repeated(current) = SubSeq(current, k, Len(current))
          /\ overlap = 0 => Repeated(current) = <<>>
      BY <2>1, RepeatedIsEnd
    <3>3. CASE Repeated(current) = <<>>
      <4>1. Chain(Append(Flushed, <<j>>), j)
        BY <1>1, ChainAlone
      <4>2. JoinedTo(<<>>, Flushed)
        BY <1>5, <1>6, <3>1, <3>3, <4>1 DEF JoinedTo
      <4> QED
        BY <4>2
    <3>4. CASE Repeated(current) # <<>>
      <4>1. PICK k \in 1 .. Len(current) : Repeated(current) = SubSeq(current, k, Len(current))
        BY <3>2, <3>4
      <4> DEFINE b == SubSeq(current, k, Len(current))
      <4>2. IsRun(b) /\ End(b) = merged /\ b[1] = current[1] + k - 1
        BY <2>1, <2>2, RunCut
      <4>3. b \in Seq(1 .. Len(lengths))
        <5>1. Len(current) \in Nat /\ DOMAIN current = 1 .. Len(current)
          BY <1>1, LenProperties
        <5>2. k \in Int /\ Len(current) \in Int /\ \A i \in k .. Len(current) : current[i] \in 1 .. Len(lengths)
          <6>1. \A i \in k .. Len(current) : i \in 1 .. Len(current)
            BY <5>1
          <6> QED
            BY <1>1, <5>1, <6>1, ElementOfSeq, SMTT(30)
        <5> QED
          BY <5>2, SubSeqProperties
      <4>4. /\ current[1] \in Nat \ {0} /\ Len(b) \in Nat /\ Len(b) >= 1 /\ b[1] \in Nat \ {0}
            /\ End(b) = b[1] + Len(b) - 1
        BY <2>1, <4>2, RunFacts
      <4> HIDE DEF b
      <4> DEFINE e == Append(b, j)
      <4>5. IsRun(e) /\ End(e) = j /\ e[1] = b[1]
        BY <4>2, RunLonger
      <4> HIDE DEF e
      <4>6. b[1] <= merged + 1 /\ current[1] <= b[1]
        <5>1. k \in Nat /\ k >= 1
          <6>1. Len(current) \in Nat
            BY <1>1, LenProperties
          <6> QED
            BY <6>1
        <5>2. b[1] = current[1] + k - 1 /\ merged = b[1] + Len(b) - 1
          BY <4>2, <4>4
        <5> QED
          BY <4>4, <5>1, <5>2
      <4>7. Flushed # <<>> /\ Flushed[Len(Flushed)] = current
        <5>1. current \in Row
          BY <2>1 DEF IsRun
        <5> HIDE DEF Row
        <5>2. Len(packed) \in Nat /\ Len(Flushed) = Len(packed) + 1 /\ Flushed[Len(packed) + 1] = current
              /\ Flushed \in Seq(Row)
          BY <1>1, <2>1, <5>1, AppendProperties, LenProperties
        <5>3. Len(Flushed) # 0
          BY <5>2
        <5> QED
          BY <5>2, <5>3, EmptySeq
      <4>8. e[1] <= merged + 1 /\ IF Flushed = <<>> THEN e[1] = 1 ELSE Flushed[Len(Flushed)][1] <= e[1]
        BY <4>5, <4>6, <4>7
      <4>9. Chain(Append(Flushed, e), j)
        BY <1>1, <4>5, <4>8, ChainMore
      <4>10. Joined(b)
        BY <3>1, <4>1 DEF b
      <4>11. JoinedTo(b, Flushed)
        BY <1>5, <3>1, <4>3, <4>5, <4>9, <4>10 DEF JoinedTo, e
      <4>12. overlap # 0
        BY <3>2, <3>4
      <4> QED
        BY <4>11, <4>12
    <3> QED
      BY <3>3, <3>4
  <2>5. CASE size + lengths[j] + Joint <= MaxChars
    <3>1. packed' = packed /\ Joined(current)
      <4>1. size + lengths[j] + Joint \in Int
        BY <1>1, <1>2
      <4> DEFINE x == size + lengths[j] + Joint
      <4>2. ~ (x > MaxChars)
        <5>1. x \in Int /\ x <= MaxChars /\ MaxChars \in Int
          BY <1>1, <2>5, <4>1
        <5> HIDE DEF x
        <5> QED
          BY <5>1
      <4> QED
        BY <1>3, <4>2
    <3>2. JoinedTo(current, packed)
      BY <1>1, <1>5, <2>2, <2>3, <3>1 DEF JoinedTo
    <3> QED
      BY <1>8, <2>5, <3>2
  <2> QED
    BY <1>1, <1>2, <2>4, <2>5, SMTT(30)
<1> QED
  BY <1>7, <1>8

(* A segment that joins the right chunk keeps the invariant.               *)
LEMMA JoiningKeeps ==
  ASSUME PackInv, Segment, merged < Len(lengths), NEW before, NEW chunks, JoinedTo(before, chunks),
         chunks \in Seq(Seq(Nat \ {0})),
         overlap = 0 => /\ \A k \in DOMAIN chunks : ChunkFits(chunks[k])
                        /\ before = <<>> \/ /\ before = current /\ current # <<>>
                                            /\ size + lengths[merged + 1] + Joint <= MaxChars
  PROVE  PackInv'
<1> DEFINE j == merged + 1
           c == Append(before, j)
<1>1. /\ packing \in {"sentences", "blocks"} /\ merged' = j
      /\ UNCHANGED <<packing, overlap, offered, parts, lengths>>
      /\ current' = c /\ packed' = chunks
      /\ size' = Total(lengths, before) + Joint * Len(before) + lengths[j] + Joint
      /\ before \in Seq(1 .. Len(lengths)) /\ IsRun(c) /\ Chain(Append(chunks, c), j)
  BY DEF Segment, JoinedTo
<1>2. merged \in Nat /\ Len(lengths) \in Nat /\ lengths \in Seq(Nat) /\ j \in 1 .. Len(lengths)
      /\ Joint' = Joint
  BY <1>1, PackInside DEF PackInv, PackTyped, Joint
<1>3. lengths[j] \in Nat /\ Total(lengths, before) \in Nat /\ Total(lengths, c) = Total(lengths, before) + lengths[j]
  <2> HIDE DEF j
  <2> QED
    BY <1>1, <1>2, TotalIsNat, TotalOneMore
<1>4. Len(before) \in Nat /\ Len(c) = Len(before) + 1 /\ c # <<>>
  <2>1. c # <<>>
    BY <1>1 DEF IsRun
  <2> HIDE DEF j
  <2> QED
    BY <1>1, <1>2, <2>1, LenProperties, AppendProperties
<1> HIDE DEF c
<1>5. Joint \in {1, 2} /\ Joint * Len(before) \in Nat /\ Joint * Len(c) = Joint * Len(before) + Joint
  BY <1>4, JointTimes
<1> DEFINE y == Joint * Len(before)
<1>6. size' = Total(lengths, c) + Joint * Len(c) /\ size' \in Nat
  <2>1. y \in Nat /\ Joint * Len(c) = y + Joint /\ size' = Total(lengths, before) + y + lengths[j] + Joint
    BY <1>1, <1>5
  <2> DEFINE t == Total(lengths, before)
             l == lengths[j]
             tc == Total(lengths, c)
             jc == Joint * Len(c)
  <2>2. t \in Nat /\ l \in Nat /\ tc = t + l /\ y \in Nat /\ jc = y + Joint /\ size' = t + y + l + Joint
    BY <1>3, <2>1
  <2> HIDE DEF y, t, l, tc, jc
  <2>3. size' = tc + jc /\ size' \in Nat
    BY <1>5, <2>2
  <2> QED
    BY <2>3 DEF tc, jc
<1>7. PackTyped'
  <2>1. merged' \in 0 .. Len(lengths)
    BY <1>1, <1>2
  <2> QED
    BY <1>1, <1>6, <2>1 DEF PackInv, PackTyped
<1>8. PackChained'
  <2>1. Flushed' = Append(chunks, c)
    BY <1>1, <1>4 DEF Flushed
  <2> QED
    BY <1>1, <2>1 DEF PackChained
<1>9. PackSized'
  <2> SUFFICES ASSUME overlap' = 0
               PROVE  SizeKnown' /\ \A k \in DOMAIN packed' : ChunkFits(packed[k])'
    BY DEF PackSized
  <2>1. /\ overlap = 0 /\ \A k \in DOMAIN chunks : ChunkFits(chunks[k])
        /\ (before = <<>> \/ (before = current /\ current # <<>> /\ size + lengths[j] + Joint <= MaxChars))
        /\ SizeKnown
    <3>1. overlap = 0
      BY <1>1
    <3> QED
      BY <3>1 DEF PackInv, PackSized
  <2>2. Len(c) > 1 => size' <= MaxChars
    <3>1. CASE before = <<>>
      <4>1. Len(before) = 0
        BY <3>1
      <4> QED
        BY <1>4, <4>1
    <3>2. CASE before = current /\ current # <<>> /\ size + lengths[j] + Joint <= MaxChars
      <4>1. size = Total(lengths, before) + Joint * Len(before)
        BY <1>1, <2>1, <3>2 DEF SizeKnown
      <4>2. y \in Nat /\ size = Total(lengths, before) + y /\ size' = Total(lengths, before) + y + lengths[j] + Joint
        BY <1>1, <1>5, <4>1
      <4> HIDE DEF y
      <4>3. size' = size + lengths[j] + Joint
        BY <1>3, <1>5, <4>2
      <4> QED
        BY <3>2, <4>3
    <3> QED
      BY <2>1, <3>1, <3>2
  <2>3. SizeKnown'
    BY <1>1, <1>2, <1>6, <2>2 DEF SizeKnown
  <2>4. \A k \in DOMAIN packed' : ChunkFits(packed[k])'
    BY <1>1, <1>2, <2>1 DEF ChunkFits
  <2> QED
    BY <2>3, <2>4
<1> QED
  BY <1>7, <1>8, <1>9 DEF PackInv

(* Packing a short segment keeps the invariant.                            *)
LEMMA ShortKeeps ==
  ASSUME PackInv, Segment, PackShort
  PROVE  PackInv'
<1>1. merged < Len(lengths) /\ packing \in {"sentences", "blocks"}
  BY DEF PackShort, Segment
<1>2. overlap = 0 => /\ \A k \in DOMAIN packed : ChunkFits(packed[k])
                     /\ \A k \in DOMAIN Flushed : ChunkFits(Flushed[k])
  BY <1>1, ClosedFits DEF PackInv, PackSized
<1>3. packed \in Seq(Seq(Nat \ {0})) /\ Flushed \in Seq(Seq(Nat \ {0}))
  BY DEF PackInv, PackChained, Chain
<1>4. CASE current = <<>> /\ JoinedTo(<<>>, packed)
  BY <1>1, <1>2, <1>3, <1>4, JoiningKeeps
<1>5. CASE current # <<>> /\ size + lengths[merged + 1] + Joint <= MaxChars /\ JoinedTo(current, packed)
  BY <1>1, <1>2, <1>3, <1>5, JoiningKeeps
<1>6. CASE \E before : JoinedTo(before, Flushed) /\ (overlap = 0 => before = <<>>)
  BY <1>1, <1>2, <1>3, <1>6, JoiningKeeps
<1> QED
  BY <1>4, <1>5, <1>6, JoinsRight

(* Finishing a packing keeps it.                                           *)
LEMMA FinishKeeps == PackInv /\ FinishPacking => PackInv'
<1> SUFFICES ASSUME PackInv, FinishPacking PROVE PackInv'
  OBVIOUS
<1>1. /\ packing \in {"sentences", "blocks"} /\ merged = Len(lengths) /\ packing' = "packed"
      /\ packed' = Flushed /\ current' = <<>> /\ size' = 0
      /\ UNCHANGED <<overlap, offered, parts, lengths, merged>>
  BY DEF FinishPacking
<1>2. PackTyped'
  BY <1>1 DEF PackInv, PackTyped
<1>3. PackChained'
  <2>1. Flushed' = Flushed /\ Chain(Flushed, merged) /\ Flushed \in Seq(Seq(Nat \ {0}))
    BY <1>1 DEF Flushed, PackInv, PackChained, Chain
  <2>2. Chain(Flushed, merged)'
    BY <1>1, <2>1
  <2> QED
    BY <1>1, <2>1, <2>2 DEF PackChained
<1>4. PackSized'
  <2> SUFFICES ASSUME overlap' = 0
               PROVE  SizeKnown' /\ \A k \in DOMAIN packed' : ChunkFits(packed[k])'
    BY DEF PackSized
  <2>1. SizeKnown'
    BY <1>1 DEF SizeKnown
  <2>2. \A k \in DOMAIN Flushed : ChunkFits(Flushed[k])
    BY <1>1, ClosedFits
  <2>3. Joint' = 1 /\ Joint \in {1, 2}
    BY <1>1 DEF Joint
  <2>4. ASSUME NEW k \in DOMAIN Flushed
        PROVE  Len(Flushed[k]) > 1 => Total(lengths, Flushed[k]) + 1 * (Len(Flushed[k]) - 1) <= MaxChars
    <3> SUFFICES ASSUME Len(Flushed[k]) > 1
                 PROVE  Total(lengths, Flushed[k]) + 1 * (Len(Flushed[k]) - 1) <= MaxChars
      OBVIOUS
    <3>1. Total(lengths, Flushed[k]) + Joint * (Len(Flushed[k]) - 1) <= MaxChars
      BY <2>2 DEF ChunkFits
    <3>2. Flushed[k] \in Seq(1 .. Len(lengths))
      <4>1. Chain(Flushed, merged) /\ merged \in Nat
        BY PackInside DEF PackInv, PackChained
      <4> QED
        BY <1>1, <4>1, ChainInside
    <3>3. Total(lengths, Flushed[k]) \in Nat /\ Len(Flushed[k]) \in Nat
      BY <3>2, TotalIsNat, LenProperties DEF PackInv, PackTyped
    <3> DEFINE n == Len(Flushed[k]) - 1
               t == Total(lengths, Flushed[k])
    <3>4. n \in Nat /\ t \in Nat /\ t + Joint * n <= MaxChars
      BY <3>1, <3>3
    <3> HIDE DEF n, t
    <3>5. 1 * n = n /\ (Joint = 1 => Joint * n = n) /\ (Joint = 2 => Joint * n = n + n)
      BY <2>3, <3>4
    <3>6. t + n <= MaxChars
      BY <2>3, <3>4, <3>5, PackingAssumption
    <3> QED
      BY <3>5, <3>6 DEF n, t
  <2> QED
    BY <1>1, <2>1, <2>3, <2>4 DEF ChunkFits
<1> QED
  BY <1>2, <1>3, <1>4 DEF PackInv

(* Every step of the packing keeps the invariant.                          *)
LEMMA PackKeeps == PackInv /\ [PackNext]_packVars => PackInv'
<1> SUFFICES ASSUME PackInv, [PackNext]_packVars PROVE PackInv'
  OBVIOUS
<1>1. CASE StartPacking
  BY <1>1, StartKeeps
<1>2. CASE ReadSentence \/ ReadBlock
  BY <1>2, ReadingKeeps
<1>3. CASE CutClause
  BY <1>3, CuttingKeeps
<1>4. CASE Segment
  BY <1>4, LongKeeps, ShortKeeps DEF Segment
<1>5. CASE FinishPacking
  BY <1>5, FinishKeeps
<1>6. CASE UNCHANGED packVars
  BY <1>6 DEF packVars, PackInv, PackTyped, PackChained, PackSized, SizeKnown, ChunkFits, Flushed, Joint
<1> QED
  BY <1>1, <1>2, <1>3, <1>4, <1>5, <1>6 DEF PackNext

(* The invariant is strong enough for what the packer promises.            *)
LEMMA PackingHolds == PackInv => PackTypeOK /\ PackingIsSound
<1> SUFFICES ASSUME PackInv PROVE PackTypeOK /\ PackingIsSound
  OBVIOUS
<1> DEFINE Row == Seq(Nat \ {0})
           Col == Seq(1 .. merged)
<1>1. /\ Chain(Flushed, merged) /\ merged \in Nat /\ packed \in Seq(Row)
      /\ (current = <<>> \/ current \in Row)
  BY PackInside DEF PackInv, PackChained, IsRun
<1>2. PackTypeOK
  <2>1. \A k \in DOMAIN packed : packed[k] \in Col
    BY PackInside
  <2>2. packed \in Seq(Col)
    <3> HIDE DEF Row, Col
    <3>1. Len(packed) \in Nat /\ DOMAIN packed = 1 .. Len(packed) /\ packed = [k \in 1 .. Len(packed) |-> packed[k]]
      BY <1>1, LenProperties
    <3>2. packed \in [1 .. Len(packed) -> Col]
      BY <2>1, <3>1
    <3> QED
      BY <3>1, <3>2, FunIsSeq
  <2> QED
    BY <2>2, PackInside DEF PackTypeOK, PackInv, PackTyped
<1>3. \A k : Later(k) = LaterIn(packed, k)
  BY DEF Later, LaterIn
<1>4. ASSUME packing = "packed"
      PROVE  FlattenSeq([k \in DOMAIN packed |-> Fresh(k)]) = [i \in 1 .. Len(lengths) |-> i]
  <2>1. Flushed = packed /\ merged = Len(lengths)
    BY <1>4 DEF PackInv, PackChained, Flushed
  <2>2. [k \in DOMAIN packed |-> Fresh(k)] = [k \in DOMAIN packed |-> Kept(packed[k], LaterIn(packed, k))]
    BY <1>3 DEF Fresh
  <2>3. FlattenSeq([k \in DOMAIN packed |-> Kept(packed[k], LaterIn(packed, k))]) = [i \in 1 .. merged |-> i]
    BY <1>1, <2>1, ChainIsWhole
  <2> QED
    BY <2>1, <2>2, <2>3
<1>5. ASSUME NEW k \in DOMAIN packed \ {1}
      PROVE  IsSuffix(Kept(packed[k], DOMAIN packed[k] \ Later(k)), packed[k - 1])
  <2> HIDE DEF Row
  <2>1. /\ DOMAIN packed = 1 .. Len(packed) /\ Len(packed) \in Nat
        /\ DOMAIN packed \subseteq DOMAIN Flushed /\ \A i \in DOMAIN packed : Flushed[i] = packed[i]
    <3>1. CASE current = <<>>
      BY <1>1, <3>1, LenProperties DEF Flushed
    <3>2. CASE current # <<>>
      <4>1. Flushed = Append(packed, current) /\ current \in Row
        BY <1>1, <3>2 DEF Flushed
      <4>2. /\ Len(packed) \in Nat /\ DOMAIN packed = 1 .. Len(packed)
            /\ DOMAIN Flushed = 1 .. Len(packed) + 1 /\ \A i \in 1 .. Len(packed) : Flushed[i] = packed[i]
        BY <1>1, <4>1, AppendProperties, LenProperties
      <4> QED
        BY <4>2
    <3> QED
      BY <3>1, <3>2
  <2>2. k - 1 \in DOMAIN packed
    BY <2>1
  <2>3. IsSuffix(Kept(Flushed[k], DOMAIN Flushed[k] \ LaterIn(Flushed, k)), Flushed[k - 1])
    BY <1>1, <2>1, ChainRepeatsEnds
  <2>4. Flushed[k] = packed[k] /\ Flushed[k - 1] = packed[k - 1]
    BY <2>1, <2>2
  <2>5. LaterIn(Flushed, k) = Later(k)
    BY <2>4 DEF LaterIn, Later
  <2> QED
    BY <2>3, <2>4, <2>5
<1>6. ChunksFit
  BY DEF ChunksFit, ChunkFits, PackInv, PackSized, Total, TotalOf
<1> QED
  BY <1>2, <1>4, <1>5, <1>6 DEF PackingIsSound, NothingLostInPacking

(* Every segment of a text reaches the model once besides the overlap, in  *)
(* the order of the text, and without overlap no chunk of several          *)
(* segments is over the limit (_merge_segments and                         *)
(* pack_blocks_into_chunks of src/chunker).                                *)
THEOREM PackingLosesNothing == PackSpec => []PackingIsSound
<1>1. PackSpec => []PackInv
  BY PackStarts, PackKeeps, PTL DEF PackSpec
<1> QED
  BY <1>1, PackingHolds, PTL
-----------------------------------------------------------------------------
(***************************************************************************)
(* The pages of a PDF.                                                     *)
(***************************************************************************)
(* The words of a page that stand in different places.                     *)
Apart(words) == /\ IsFiniteSet(words) /\ words \subseteq PageWords
                /\ \A v, w \in words : v.row = w.row /\ v.col = w.col => v = w

(* Words that stand apart are in a strict order, top to bottom.            *)
LEMMA AboveIsOrder ==
  ASSUME NEW words, Apart(words)
  PROVE  /\ \A w \in words : ~Above(w, w)
         /\ \A v, w \in words : v # w => Above(v, w) \/ Above(w, v)
         /\ \A u, v, w \in words : Above(u, v) /\ Above(v, w) => Above(u, w)
<1>1. \A w \in words : w.row \in Nat /\ w.col \in Nat
  BY DEF Apart, PageWords
<1>2. \A w \in words : ~Above(w, w)
  BY <1>1 DEF Above
<1>3. \A v, w \in words : v # w => Above(v, w) \/ Above(w, v)
  BY <1>1 DEF Above, Apart
<1>4. \A u, v, w \in words : Above(u, v) /\ Above(v, w) => Above(u, w)
  BY <1>1 DEF Above
<1> QED
  BY <1>2, <1>3, <1>4

(* The further down a word stands, the more words are above it.            *)
LEMMA RankGrows ==
  ASSUME NEW words, Apart(words)
  PROVE  LET rank(w) == Cardinality({v \in words : Above(v, w)})
         IN  /\ Cardinality(words) \in Nat
             /\ \A w \in words : rank(w) \in Nat /\ rank(w) < Cardinality(words)
             /\ \A v, w \in words : Above(v, w) => rank(v) < rank(w)
<1> DEFINE over(w) == {v \in words : Above(v, w)}
           rank(w) == Cardinality(over(w))
<1>1. IsFiniteSet(words) /\ Cardinality(words) \in Nat
  BY FS_CardinalityType DEF Apart
<1>2. ASSUME NEW w \in words
      PROVE  rank(w) \in Nat /\ rank(w) < Cardinality(words)
  <2>1. over(w) \in SUBSET words /\ over(w) # words
    BY AboveIsOrder
  <2> HIDE DEF over
  <2>2. /\ IsFiniteSet(over(w)) /\ Cardinality(over(w)) <= Cardinality(words)
        /\ Cardinality(words) # Cardinality(over(w))
    BY <1>1, <2>1, FS_Subset
  <2>3. Cardinality(over(w)) \in Nat
    BY <2>2, FS_CardinalityType
  <2> QED
    BY <1>1, <2>2, <2>3
<1>3. ASSUME NEW v \in words, NEW w \in words, Above(v, w)
      PROVE  rank(v) < rank(w)
  <2>1. over(v) \in SUBSET over(w) /\ over(v) # over(w)
    <3>1. v \in over(w) /\ v \notin over(v)
      BY <1>3, AboveIsOrder
    <3>2. \A u \in over(v) : u \in over(w)
      BY <1>3, AboveIsOrder
    <3> QED
      BY <3>1, <3>2
  <2>2. over(w) \in SUBSET words
    OBVIOUS
  <2> HIDE DEF over
  <2>3. IsFiniteSet(over(w))
    BY <1>1, <2>2, FS_Subset
  <2>4. Cardinality(over(v)) <= Cardinality(over(w)) /\ Cardinality(over(v)) # Cardinality(over(w))
    BY <2>1, <2>3, FS_Subset
  <2> QED
    BY <1>2, <2>4
<1> QED
  BY <1>1, <1>2, <1>3

(* What Lines makes of words: a list of all of them in the order of their  *)
(* places.                                                                 *)
Ordered(words, text) ==
  /\ text \in [1 .. Cardinality(words) -> words] /\ Cardinality(words) \in Nat
  /\ ToSet(text) = words
  /\ \A i, j \in 1 .. Cardinality(words) : i < j => Above(text[i], text[j])

(* Lines puts the words in that order.                                     *)
LEMMA LinesAreOrdered ==
  ASSUME NEW words, Apart(words)
  PROVE  Ordered(words, Lines(words))
<1> DEFINE rank(w) == Cardinality({v \in words : Above(v, w)})
           n == Cardinality(words)
           r == [w \in words |-> rank(w) + 1]
<1>1. /\ n \in Nat /\ \A w \in words : rank(w) \in Nat /\ rank(w) < n
      /\ \A v, w \in words : Above(v, w) => rank(v) < rank(w)
  BY RankGrows
<1>2. Lines(words) = [k \in 1 .. n |-> CHOOSE w \in words : rank(w) = k - 1]
  BY DEF Lines
<1> HIDE DEF rank
<1>3. \A v, w \in words : rank(v) = rank(w) => v = w
  BY <1>1, AboveIsOrder
<1>4. ASSUME NEW k \in 1 .. n
      PROVE  \E w \in words : rank(w) = k - 1
  <2>1. r \in [words -> 1 .. n]
    BY <1>1 DEF n
  <2>2. \A v, w \in words : r[v] = r[w] => v = w
    BY <1>1, <1>3
  <2>3. r \in Injection(words, 1 .. n)
    <3> HIDE DEF r
    <3> QED
      BY <2>1, <2>2 DEF Injection, IsInjective
  <2>4. IsFiniteSet(1 .. n) /\ Cardinality(1 .. n) = n
    <3>1. \A m \in Nat : IsFiniteSet(1 .. m) /\ Cardinality(1 .. m) = m
      BY FS_Interval
    <3> HIDE DEF n
    <3> QED
      BY <1>1, <3>1
  <2>5. r \in Surjection(words, 1 .. n)
    <3>1. Cardinality(words) = Cardinality(1 .. n)
      BY <2>4
    <3> HIDE DEF r, n
    <3> QED
      BY <2>3, <2>4, <3>1, FS_Injection
  <2>6. \E w \in words : r[w] = k
    <3> HIDE DEF r
    <3> QED
      BY <2>5 DEF Surjection
  <2> QED
    BY <1>1, <2>6
<1> DEFINE L == Lines(words)
<1>5. \A k \in 1 .. n : L[k] \in words /\ rank(L[k]) = k - 1
  BY <1>2, <1>4
<1>6. L \in [1 .. n -> words]
  BY <1>2, <1>5
<1> HIDE DEF L, r
<1>7. ToSet(L) = words
  <2>1. ASSUME NEW w \in words
        PROVE  w \in ToSet(L)
    <3>1. rank(w) + 1 \in 1 .. n
      BY <1>1
    <3>2. L[rank(w) + 1] = w
      BY <1>1, <1>3, <1>5, <3>1
    <3> QED
      BY <1>6, <3>1, <3>2 DEF ToSet
  <2>2. ToSet(L) \subseteq words
    BY <1>6 DEF ToSet
  <2> QED
    BY <2>1, <2>2
<1>8. ASSUME NEW i \in 1 .. n, NEW j \in 1 .. n, i < j
      PROVE  Above(L[i], L[j])
  <2>1. rank(L[i]) < rank(L[j])
    BY <1>1, <1>5, <1>8
  <2>2. L[i] \in words /\ L[j] \in words /\ rank(L[i]) \in Nat /\ rank(L[j]) \in Nat
    BY <1>1, <1>5
  <2>3. L[i] # L[j] /\ ~Above(L[j], L[i])
    BY <1>1, <2>1, <2>2
  <2> QED
    BY <2>2, <2>3, AboveIsOrder
<1> QED
  BY <1>1, <1>6, <1>7, <1>8 DEF Ordered, L

(* A text of some words of a page as a reader takes them.                  *)
ReadAs(page, words, text) ==
  text \in Seq(PageWords) /\ ToSet(text) = words /\ InReadingOrder(page, text)

(* The lines of words of one column are as a reader takes them.            *)
LEMMA LinesAreRead ==
  ASSUME NEW page, NEW words, Apart(words), page.dual => \A v, w \in words : v.col = w.col
  PROVE  ReadAs(page, words, Lines(words)) /\ (Lines(words) = <<>> <=> words = {})
<1> DEFINE t == Lines(words)
           n == Cardinality(words)
<1>1. /\ t \in [1 .. n -> words] /\ n \in Nat /\ ToSet(t) = words
      /\ \A i, j \in 1 .. n : i < j => Above(t[i], t[j])
  BY LinesAreOrdered DEF Ordered
<1> HIDE DEF t, n
<1>2. t \in Seq(PageWords) /\ DOMAIN t = 1 .. n
  BY <1>1 DEF Apart
<1>3. InReadingOrder(page, t)
  BY <1>1, <1>2 DEF InReadingOrder, ReadBefore
<1>4. t = <<>> <=> words = {}
  BY <1>1, <1>2 DEF ToSet
<1> QED
  BY <1>1, <1>2, <1>3, <1>4 DEF ReadAs, t

(* So is one column after the other.                                       *)
LEMMA ColumnsAreRead ==
  ASSUME NEW page, NEW words, Apart(words), page.dual, \A w \in words : w.col \in {1, 2}
  PROVE  ReadAs(page, words, Columns(words)) /\ (Columns(words) = <<>> <=> words = {})
<1> DEFINE one == {w \in words : w.col = 1}
           two == {w \in words : w.col = 2}
           s == Lines(one)
           t == Lines(two)
           c == s \o t
<1>1. Apart(one) /\ Apart(two)
  <2>1. one \in SUBSET words /\ two \in SUBSET words /\ IsFiniteSet(words)
    BY DEF Apart
  <2>2. IsFiniteSet(one) /\ IsFiniteSet(two)
    <3> HIDE DEF one, two
    <3> QED
      BY <2>1, FS_Subset
  <2> QED
    BY <2>1, <2>2 DEF Apart
<1>2. /\ \A w \in one : w.col = 1
      /\ \A w \in two : w.col = 2
      /\ words = one \cup two
  OBVIOUS
<1> HIDE DEF one, two
<1>3. ReadAs(page, one, s) /\ ReadAs(page, two, t)
  BY <1>1, <1>2, LinesAreRead
<1> HIDE DEF s, t
<1>4. /\ s \in Seq(PageWords) /\ t \in Seq(PageWords) /\ ToSet(s) = one /\ ToSet(t) = two
      /\ InReadingOrder(page, s) /\ InReadingOrder(page, t)
  BY <1>3 DEF ReadAs
<1>5. /\ c \in Seq(PageWords) /\ Len(s) \in Nat /\ Len(t) \in Nat /\ Len(c) = Len(s) + Len(t)
      /\ DOMAIN c = 1 .. Len(s) + Len(t) /\ DOMAIN s = 1 .. Len(s) /\ DOMAIN t = 1 .. Len(t)
      /\ \A i \in 1 .. Len(s) : c[i] = s[i]
      /\ \A i \in 1 .. Len(t) : c[Len(s) + i] = t[i]
  <2>1. c \in Seq(PageWords) /\ Len(s) \in Nat /\ Len(t) \in Nat /\ Len(c) = Len(s) + Len(t)
    BY <1>4, ConcatProperties, LenProperties
  <2>2. DOMAIN c = 1 .. Len(c) /\ DOMAIN s = 1 .. Len(s) /\ DOMAIN t = 1 .. Len(t)
    BY <1>4, <2>1, LenProperties
  <2>3. \A i \in 1 .. Len(s) + Len(t) : c[i] = IF i <= Len(s) THEN s[i] ELSE t[i - Len(s)]
    BY <1>4, ConcatProperties
  <2> HIDE DEF c
  <2>4. ASSUME NEW i \in 1 .. Len(t)
        PROVE  c[Len(s) + i] = t[i]
    <3>1. Len(s) + i \in 1 .. Len(s) + Len(t) /\ ~ (Len(s) + i <= Len(s)) /\ (Len(s) + i) - Len(s) = i
      BY <2>1
    <3> QED
      BY <2>3, <3>1
  <2>5. \A i \in 1 .. Len(s) : c[i] = s[i]
    BY <2>1, <2>3
  <2> QED
    BY <2>1, <2>2, <2>4, <2>5
<1> HIDE DEF c
<1>6. \A i \in 1 .. Len(s) + Len(t) :
        (i \in 1 .. Len(s)) \/ (\E k \in 1 .. Len(t) : i = Len(s) + k)
  <2> SUFFICES ASSUME NEW i \in 1 .. Len(s) + Len(t), ~(i \in 1 .. Len(s))
               PROVE  \E k \in 1 .. Len(t) : i = Len(s) + k
    OBVIOUS
  <2>1. i - Len(s) \in 1 .. Len(t) /\ i = Len(s) + (i - Len(s))
    BY <1>5
  <2> QED
    BY <2>1
<1>7. ToSet(c) = words
  <2>1. ToSet(c) \subseteq words
    <3> SUFFICES ASSUME NEW i \in DOMAIN c PROVE c[i] \in words
      BY DEF ToSet
    <3>1. CASE i \in 1 .. Len(s)
      <4>1. c[i] \in ToSet(s)
        BY <1>5, <3>1 DEF ToSet
      <4> QED
        BY <1>2, <1>4, <4>1
    <3>2. CASE \E k \in 1 .. Len(t) : i = Len(s) + k
      <4>1. c[i] \in ToSet(t)
        BY <1>5, <3>2 DEF ToSet
      <4> QED
        BY <1>2, <1>4, <4>1
    <3> QED
      BY <1>5, <1>6, <3>1, <3>2
  <2>2. ASSUME NEW w \in words
        PROVE  w \in ToSet(c)
    <3>1. CASE w \in one
      <4>1. PICK i \in 1 .. Len(s) : s[i] = w
        BY <1>4, <1>5, <3>1 DEF ToSet
      <4>2. i \in DOMAIN c /\ c[i] = w
        BY <1>5, <4>1
      <4> QED
        BY <4>2 DEF ToSet
    <3>2. CASE w \in two
      <4>1. PICK i \in 1 .. Len(t) : t[i] = w
        BY <1>4, <1>5, <3>2 DEF ToSet
      <4>2. Len(s) + i \in DOMAIN c /\ c[Len(s) + i] = w
        BY <1>5, <4>1
      <4> QED
        BY <4>2 DEF ToSet
    <3> QED
      BY <1>2, <3>1, <3>2
  <2> QED
    BY <2>1, <2>2
<1>8. ASSUME NEW i \in DOMAIN c, NEW j \in DOMAIN c, i < j
      PROVE  ReadBefore(page, c[i], c[j])
  <2>1. CASE i \in 1 .. Len(s) /\ j \in 1 .. Len(s)
    BY <1>4, <1>5, <1>8, <2>1 DEF InReadingOrder
  <2>2. CASE i \in 1 .. Len(s) /\ \E k \in 1 .. Len(t) : j = Len(s) + k
    <3>1. c[i] \in one /\ c[j] \in two
      <4>1. c[i] \in ToSet(s)
        BY <1>5, <2>2 DEF ToSet
      <4>2. c[j] \in ToSet(t)
        BY <1>5, <2>2 DEF ToSet
      <4> QED
        BY <1>4, <4>1, <4>2
    <3>2. c[i].col = 1 /\ c[j].col = 2
      BY <1>2, <3>1
    <3> QED
      BY <3>2 DEF ReadBefore
  <2>3. CASE (\E k \in 1 .. Len(t) : i = Len(s) + k) /\ \E k \in 1 .. Len(t) : j = Len(s) + k
    <3>1. PICK k \in 1 .. Len(t) : i = Len(s) + k
      BY <2>3
    <3>2. PICK m \in 1 .. Len(t) : j = Len(s) + m
      BY <2>3
    <3>3. k < m /\ c[i] = t[k] /\ c[j] = t[m]
      BY <1>5, <1>8, <3>1, <3>2
    <3> QED
      BY <1>4, <1>5, <3>3 DEF InReadingOrder
  <2>4. CASE (\E k \in 1 .. Len(t) : i = Len(s) + k) /\ j \in 1 .. Len(s)
    BY <1>5, <1>8, <2>4
  <2> QED
    BY <1>5, <1>6, <2>1, <2>2, <2>3, <2>4
<1>9. c = <<>> <=> words = {}
  <2>1. c = <<>> => words = {}
    BY <1>7 DEF ToSet
  <2>2. ASSUME words = {} PROVE c = <<>>
    <3>1. \A i \in DOMAIN c : c[i] \in words
      BY <1>7 DEF ToSet
    <3>2. DOMAIN c = {}
      BY <2>2, <3>1
    <3>3. Len(c) \in Nat /\ DOMAIN c = 1 .. Len(c)
      BY <1>5
    <3>4. Len(c) = 0
      BY <3>2, <3>3
    <3> QED
      BY <1>5, <3>4, EmptySeq
  <2> QED
    BY <2>1, <2>2
<1> QED
  BY <1>5, <1>7, <1>8, <1>9 DEF ReadAs, InReadingOrder, Columns, c, s, t, one, two

(* What the extractor gives a page, and what is right about it.            *)
PageOK(page) == page \in Pages /\ OnePlaceEach(page) /\ BodyInColumns(page)
(* The text an extractor makes of a page.                                  *)
ExtractedText(kind, page) == IF kind = "words" THEN PlainText(page) ELSE Placed(page)
(* A text is a page's own: its body's words but captions, and no others.   *)
OwnText(kind, page, text) ==
  /\ text \in Seq(PageWords)
  /\ {w \in Body(Words(page)) : ~w.caption} \subseteq ToSet(text)
  /\ ToSet(text) \subseteq Words(page)
  /\ kind = "words" => InReadingOrder(page, text)
  /\ text = <<>> => Placed(page) = <<>>

(* Words of a page stand in different places.                              *)
LEMMA WordsAreApart ==
  ASSUME NEW page, PageOK(page), NEW words \in SUBSET Words(page)
  PROVE  Apart(words)
<1> DEFINE list == page.words
<1>1. list \in Seq(PageWords) /\ Len(list) \in Nat /\ DOMAIN list = 1 .. Len(list)
  <2>1. list \in Seq(PageWords)
    BY DEF PageOK, Pages
  <2> HIDE DEF list
  <2> QED
    BY <2>1, LenProperties
<1>2. Words(page) \subseteq PageWords /\ \A w \in Words(page) : \E i \in 1 .. Len(list) : w = list[i]
  <2>1. Words(page) = {list[i] : i \in 1 .. Len(list)}
    BY <1>1 DEF Words, ToSet
  <2> HIDE DEF list
  <2>2. \A i \in 1 .. Len(list) : list[i] \in PageWords
    BY <1>1, ElementOfSeq
  <2> QED
    BY <2>1, <2>2
<1>3. IsFiniteSet(Words(page))
  <2> DEFINE W == Words(page)
             f == [i \in 1 .. Len(list) |-> list[i]]
  <2>1. W = {list[i] : i \in 1 .. Len(list)}
    BY <1>1 DEF Words, ToSet
  <2> HIDE DEF W, list
  <2>2. f \in Surjection(1 .. Len(list), W)
    BY <2>1 DEF Surjection
  <2>3. IsFiniteSet(1 .. Len(list))
    BY <1>1, FS_Interval
  <2> HIDE DEF f
  <2>4. IsFiniteSet(W)
    BY <2>2, <2>3, FS_Surjection
  <2> QED
    BY <2>4 DEF W
<1>4. \A v, w \in Words(page) : v.row = w.row /\ v.col = w.col => v = w
  BY <1>1, <1>2 DEF PageOK, OnePlaceEach
<1>5. IsFiniteSet(words)
  BY <1>3, FS_Subset
<1> QED
  BY <1>2, <1>4, <1>5 DEF Apart

(* The layout extractor takes the words of the body.                       *)
LEMMA PlacedIsBody ==
  ASSUME NEW page, PageOK(page)
  PROVE  Placed(page) \in Seq(PageWords) /\ ToSet(Placed(page)) = Body(Words(page))
<1> DEFINE list == page.words
           K == {i \in DOMAIN list : list[i].place = "body"}
<1>1. list \in Seq(PageWords)
  BY DEF PageOK, Pages
<1>2. Placed(page) = Kept(list, K)
  BY DEF Placed
<1>3. {list[i] : i \in K \cap DOMAIN list} = Body(Words(page))
  BY DEF Body, Words, ToSet
<1> HIDE DEF list, K
<1>4. Kept(list, K) \in Seq(PageWords) /\ ToSet(Kept(list, K)) = {list[i] : i \in K \cap DOMAIN list}
  BY <1>1, KeptElements, Zenon
<1> QED
  BY <1>2, <1>3, <1>4

(* A list without elements is empty.                                       *)
LEMMA SetOfNone == \A S : \A s \in Seq(S) : ToSet(s) = {} => s = <<>>
<1> SUFFICES ASSUME NEW S, NEW s \in Seq(S), ToSet(s) = {} PROVE s = <<>>
  OBVIOUS
<1>1. Len(s) \in Nat /\ DOMAIN s = 1 .. Len(s)
  BY LenProperties
<1>2. \A i \in DOMAIN s : s[i] \in {}
  BY DEF ToSet
<1>3. ~(1 \in 1 .. Len(s))
  BY <1>1, <1>2
<1>4. Len(s) = 0
  BY <1>1, <1>3
<1> QED
  BY <1>4, EmptySeq

(* Each extractor gives a page its own text.                               *)
LEMMA TextIsOwn ==
  ASSUME NEW page, PageOK(page), NEW kind
  PROVE  OwnText(kind, page, ExtractedText(kind, page))
<1> DEFINE B == Body(Words(page))
           C == {w \in B : ~w.caption}
           t == ExtractedText(kind, page)
<1>1. B \subseteq Words(page) /\ C \subseteq B /\ page.dual \in BOOLEAN
  BY DEF Body, PageOK, Pages
<1>2. page.dual => \A w \in B : w.col \in {1, 2}
  BY DEF PageOK, BodyInColumns, Body, Words, ToSet
<1>3. page.dual /\ B # {} => C # {}
  <2>1. page.dual => LET body == {i \in DOMAIN page.words : page.words[i].place = "body"}
                     IN  body # {} => \E i \in body : ~page.words[i].caption
    BY DEF PageOK, BodyInColumns
  <2> QED
    BY <2>1 DEF Body, Words, ToSet
<1>4. Placed(page) \in Seq(PageWords) /\ ToSet(Placed(page)) = B
  BY PlacedIsBody
<1>5. Apart(B) /\ Apart(C) /\ Apart(Words(page))
  <2> HIDE DEF B, C
  <2> QED
    BY <1>1, WordsAreApart
<1>6. CharText(page) = IF page.dual THEN Columns(B) ELSE Lines(B)
  BY DEF CharText, DualChars, SingleChars
<1>7. WordText(page) = IF page.dual THEN Columns(C) ELSE Lines(IF B = {} THEN Words(page) ELSE B)
  BY DEF WordText, DualText, SingleText
<1> HIDE DEF B, C
<1>8. ReadAs(page, B, CharText(page))
  <2>1. CASE page.dual
    BY <1>2, <1>5, <1>6, <2>1, ColumnsAreRead
  <2>2. CASE ~page.dual
    BY <1>5, <1>6, <2>2, LinesAreRead
  <2> QED
    BY <2>1, <2>2
<1>9. CASE kind = "words"
  <2>1. t = IF page.collapsed /\ page.legible /\ CharText(page) # <<>> THEN CharText(page) ELSE WordText(page)
    BY <1>9 DEF ExtractedText, PlainText
  <2>2. CASE t = CharText(page) /\ CharText(page) # <<>>
    BY <1>1, <1>8, <2>2 DEF OwnText, ReadAs, C, B
  <2>3. CASE t = WordText(page)
    <3>1. CASE page.dual
      <4>1. ReadAs(page, C, t) /\ (t = <<>> => C = {})
        BY <1>1, <1>2, <1>5, <1>7, <2>3, <3>1, ColumnsAreRead
      <4>2. t = <<>> => Placed(page) = <<>>
        BY <1>3, <1>4, <3>1, <4>1, SetOfNone
      <4> QED
        BY <1>1, <4>1, <4>2 DEF OwnText, ReadAs, C, B
    <3>2. CASE ~page.dual /\ B = {}
      <4>1. ReadAs(page, Words(page), t)
        BY <1>5, <1>7, <2>3, <3>2, LinesAreRead
      <4>2. Placed(page) = <<>>
        BY <1>4, <3>2, SetOfNone
      <4> QED
        BY <1>1, <3>2, <4>1, <4>2 DEF OwnText, ReadAs, B
    <3>3. CASE ~page.dual /\ B # {}
      <4>1. ReadAs(page, B, t) /\ t # <<>>
        BY <1>5, <1>7, <2>3, <3>3, LinesAreRead
      <4> QED
        BY <1>1, <4>1 DEF OwnText, ReadAs, C, B
    <3> QED
      BY <3>1, <3>2, <3>3
  <2> QED
    BY <2>1, <2>2, <2>3
<1>10. CASE kind # "words"
  <2>1. t = Placed(page)
    BY <1>10 DEF ExtractedText
  <2> QED
    BY <1>1, <1>4, <1>10, <2>1 DEF OwnText, C, B
<1> QED
  BY <1>9, <1>10

(* What the engines read of a page image, the pages they read, and         *)
(* blocks.                                                                 *)
Scans == [image : Nat, part : Nat]
Readings == [page : Nat, text : Seq(Scans)]
Boxes == [page : Nat, word : PageWords]

(* The pages parsed so far have their own text, and the blocks are the     *)
(* words of the pages that have any.                                       *)
Parsed ==
  /\ texts \in Seq(Seq(PageWords)) /\ boxes \in Seq(Boxes) /\ replaced = {}
  /\ Len(texts) <= Len(pdf)
  /\ \A i \in DOMAIN texts : texts[i] = ExtractedText(extractor, pdf[i])
  /\ extractor = "layout" =>
       /\ FlattenSeq(texts) = [k \in DOMAIN boxes |-> boxes[k].word]
       /\ \A k \in DOMAIN boxes : boxes[k].page \in DOMAIN texts /\ texts[boxes[k].page] # <<>>

(* Every page an engine read has its number, and parts of its own image.   *)
ReadPages ==
  /\ recognized \in Seq(Readings) /\ Len(recognized) <= Len(pdf)
  /\ \A k \in DOMAIN recognized :
       recognized[k].page = k /\ \A p \in DOMAIN recognized[k].text : recognized[k].text[p].image = k

(* The stages of an extraction and what is empty in each.                  *)
ExtractionStages ==
  /\ pageStage \in {"idle", "words", "layout", "paddleocr", "tesseract", "fill", "done", "failed"}
  /\ extractor \in {"words", "layout"}
  /\ pageStage \in {"words", "layout"} => extractor = pageStage
  /\ pageStage \in {"idle", "words", "layout"} => recognized = <<>>
  /\ pageStage = "idle" => texts = <<>> /\ boxes = <<>>
  /\ pageStage \in {"paddleocr", "tesseract", "fill"} => Len(texts) = Len(pdf)

(* The document's pages are as the parser gets them.                       *)
GivenPages == pdf \in Seq(Pages) /\ \A i \in DOMAIN pdf : PageOK(pdf[i])

(* A document that is done: its pages are in place.                        *)
Filled == /\ Len(texts) = Len(pdf) /\ DOMAIN texts = DOMAIN pdf /\ replaced \subseteq DOMAIN texts
          /\ PagesInPlace

(* The inductive invariant of an extraction.                               *)
ExtractionInv ==
  /\ ExtractionStages /\ GivenPages /\ ReadPages
  /\ IF pageStage = "done" THEN Filled ELSE Parsed

(* It holds before a document is opened.                                   *)
LEMMA ExtractionStarts == ExtractionInit => ExtractionInv
<1> SUFFICES ASSUME ExtractionInit PROVE ExtractionInv
  OBVIOUS
<1>1. /\ <<>> \in Seq(Seq(PageWords)) /\ <<>> \in Seq(Boxes) /\ <<>> \in Seq(Readings) /\ <<>> \in Seq(Pages)
      /\ Len(<<>>) = 0 /\ DOMAIN <<>> = {}
  <2> DEFINE Row == Seq(PageWords)
  <2> HIDE DEF Row
  <2>1. <<>> \in Seq(Row)
    BY EmptySeq
  <2> QED
    BY <2>1, EmptySeq DEF Row
<1>2. /\ pageStage = "idle" /\ extractor = "words" /\ pdf = <<>> /\ texts = <<>>
      /\ boxes = <<>> /\ recognized = <<>> /\ replaced = {}
  BY DEF ExtractionInit
<1>3. ExtractionStages /\ GivenPages /\ ReadPages /\ Parsed
  BY <1>1, <1>2 DEF ExtractionStages, GivenPages, ReadPages, Parsed
<1> QED
  BY <1>2, <1>3 DEF ExtractionInv

(* Opening a document keeps it.                                            *)
LEMMA OpenKeeps ==
  ASSUME ExtractionInv, NEW kind \in {"words", "layout"}, NEW document \in Pdfs, OpenPdf(kind, document)
  PROVE  ExtractionInv'
<1>1. /\ pageStage = "idle" /\ pageStage' = kind /\ extractor' = kind /\ pdf' = document
      /\ UNCHANGED <<texts, boxes, recognized, replaced>>
  BY DEF OpenPdf
<1>2. texts = <<>> /\ boxes = <<>> /\ recognized = <<>> /\ Parsed /\ ReadPages
  BY <1>1 DEF ExtractionInv, ExtractionStages
<1>3. document \in Seq(Pages) /\ \A i \in DOMAIN document : PageOK(document[i])
  <2>1. document \in Seq(Pages) /\ \A i \in DOMAIN document : OnePlaceEach(document[i]) /\ BodyInColumns(document[i])
    BY ExtractionAssumption
  <2>2. \A i \in DOMAIN document : document[i] \in Pages
    BY <2>1, LenProperties, ElementOfSeq
  <2> QED
    BY <2>1, <2>2 DEF PageOK
<1>4. ExtractionStages' /\ GivenPages'
  BY <1>1, <1>2, <1>3 DEF ExtractionStages, GivenPages
<1>5. Len(document) \in Nat
  BY <1>3, LenProperties
<1>6. Parsed' /\ ReadPages'
  <2>1. texts' \in Seq(Seq(PageWords)) /\ boxes' \in Seq(Boxes) /\ replaced' = {}
    BY <1>1, <1>2 DEF Parsed
  <2>2. Len(texts') <= Len(pdf') /\ Len(recognized') <= Len(pdf') /\ recognized' \in Seq(Readings)
    BY <1>1, <1>2, <1>5 DEF ReadPages
  <2>3. texts' = <<>> /\ boxes' = <<>> /\ recognized' = <<>>
    BY <1>1, <1>2
  <2>4. FlattenSeq(texts') = [k \in DOMAIN boxes' |-> boxes'[k].word]
    BY <2>3, JoinOfNone
  <2> QED
    BY <2>1, <2>2, <2>3, <2>4 DEF Parsed, ReadPages
<1> QED
  BY <1>1, <1>4, <1>6 DEF ExtractionInv

(* Texts are a list along the pages until the filling.                     *)
LEMMA PagesCounted ==
  ASSUME ExtractionInv, pageStage # "done"
  PROVE  /\ Len(texts) \in Nat /\ Len(pdf) \in Nat /\ DOMAIN texts = 1 .. Len(texts)
         /\ DOMAIN pdf = 1 .. Len(pdf) /\ Len(texts) <= Len(pdf)
         /\ texts = [i \in DOMAIN texts |-> texts[i]]
         /\ \A i \in DOMAIN texts : texts[i] \in Seq(PageWords)
<1> DEFINE Row == Seq(PageWords)
<1>1. texts \in Seq(Row) /\ pdf \in Seq(Pages) /\ Len(texts) <= Len(pdf)
  BY DEF ExtractionInv, Parsed, GivenPages
<1> HIDE DEF Row
<1>2. /\ Len(texts) \in Nat /\ DOMAIN texts = 1 .. Len(texts)
      /\ Len(pdf) \in Nat /\ DOMAIN pdf = 1 .. Len(pdf)
  BY <1>1, LenProperties
<1>3. texts = [i \in DOMAIN texts |-> texts[i]]
  BY <1>1
<1>4. \A i \in DOMAIN texts : texts[i] \in Row
  BY <1>1, <1>2, ElementOfSeq
<1> QED
  BY <1>1, <1>2, <1>3, <1>4 DEF Row

(* The lists of the words of blocks that are put together.                 *)
Boxed(n, p) == [i \in DOMAIN p |-> [page |-> n, word |-> p[i]]]
BoxesOf(b, c, n, p) ==
  /\ c \in Seq(Boxes)
  /\ [k \in DOMAIN c |-> c[k].word] = [k \in DOMAIN b |-> b[k].word] \o p
  /\ \A k \in DOMAIN c : \/ k \in DOMAIN b /\ c[k] = b[k]
                         \/ c[k].page = n /\ p # <<>>

(* The blocks of a page added behind have its words.                       *)
LEMMA BoxesTogether ==
  ASSUME NEW b \in Seq(Boxes), NEW p \in Seq(PageWords), NEW n \in Nat
  PROVE  BoxesOf(b, b \o Boxed(n, p), n, p)
<1> DEFINE more == Boxed(n, p)
           c == b \o more
           l == Len(b)
           m == Len(p)
           bw == [k \in DOMAIN b |-> b[k].word]
           cw == [k \in DOMAIN c |-> c[k].word]
<1>1. l \in Nat /\ m \in Nat /\ DOMAIN b = 1 .. l /\ DOMAIN p = 1 .. m
  BY LenProperties
<1>2. (\A k \in 1 .. l : b[k] \in Boxes) /\ \A k \in 1 .. m : p[k] \in PageWords
  BY <1>1, ElementOfSeq
<1>3. more \in [1 .. m -> Boxes] /\ \A k \in 1 .. m : more[k].page = n /\ more[k].word = p[k]
  BY <1>1, <1>2 DEF Boxes, Boxed
<1> HIDE DEF more
<1>4. more \in Seq(Boxes) /\ Len(more) = m
  <2> HIDE DEF m
  <2> QED
    BY <1>1, <1>3, FunIsSeq
<1>5. /\ c \in Seq(Boxes) /\ Len(c) = l + m /\ DOMAIN c = 1 .. l + m
      /\ \A i \in 1 .. l + m : c[i] = IF i <= l THEN b[i] ELSE more[i - l]
  <2>1. c \in Seq(Boxes) /\ Len(c) = l + m /\ \A i \in 1 .. l + m : c[i] = IF i <= l THEN b[i] ELSE more[i - l]
    <3>1. Len(b) = l /\ Len(more) = m
      BY <1>4
    <3> HIDE DEF l, m
    <3>2. c \in Seq(Boxes) /\ Len(c) = Len(b) + Len(more)
      BY <1>4, ConcatProperties
    <3>3. \A i \in 1 .. Len(b) + Len(more) : c[i] = IF i <= Len(b) THEN b[i] ELSE more[i - Len(b)]
      BY <1>4, ConcatProperties
    <3> HIDE DEF c
    <3> QED
      BY <3>1, <3>2, <3>3
  <2> HIDE DEF c, l, m
  <2> QED
    BY <2>1, LenProperties
<1>6. bw \in Seq(PageWords) /\ Len(bw) = l
  <2>1. bw \in [1 .. l -> PageWords]
    BY <1>1, <1>2 DEF Boxes
  <2> HIDE DEF bw, l
  <2> QED
    BY <1>1, <2>1, FunIsSeq
<1>7. cw \in Seq(PageWords) /\ Len(cw) = l + m
  <2> HIDE DEF c, l, m
  <2>1. \A k \in 1 .. l + m : c[k] \in Boxes
    BY <1>5, ElementOfSeq
  <2>2. cw \in [1 .. l + m -> PageWords]
    BY <1>5, <2>1 DEF Boxes
  <2>3. l + m \in Nat
    BY <1>1
  <2> HIDE DEF cw
  <2> QED
    BY <2>2, <2>3, FunIsSeq
<1>8. /\ bw \o p \in Seq(PageWords) /\ Len(bw \o p) = l + m
      /\ \A i \in 1 .. l + m : (bw \o p)[i] = IF i <= l THEN bw[i] ELSE p[i - l]
  <2> HIDE DEF bw, l
  <2> QED
    BY <1>6, ConcatProperties
<1>9. ASSUME NEW i \in 1 .. l + m
      PROVE  cw[i] = (bw \o p)[i]
  <2>1. cw[i] = c[i].word
    BY <1>5
  <2> HIDE DEF c, cw
  <2>2. CASE i <= l
    <3>1. i \in 1 .. l
      BY <1>1, <2>2
    <3>2. bw[i] = b[i].word
      BY <1>1, <3>1
    <3> QED
      BY <1>5, <1>8, <2>1, <2>2, <3>2
  <2>3. CASE ~(i <= l)
    <3>1. i - l \in 1 .. m
      BY <1>1, <2>3
    <3> HIDE DEF l, m, bw
    <3> QED
      BY <1>3, <1>5, <1>8, <2>1, <2>3, <3>1
  <2> QED
    BY <2>2, <2>3
<1>10. cw = bw \o p
  <2> HIDE DEF cw, bw, l, m
  <2> QED
    BY <1>7, <1>8, <1>9, SeqEqual
<1>11. ASSUME NEW k \in DOMAIN c
       PROVE  (k \in DOMAIN b /\ c[k] = b[k]) \/ (c[k].page = n /\ p # <<>>)
  <2> HIDE DEF c
  <2>1. k \in 1 .. l + m
    BY <1>5
  <2>2. CASE k <= l
    <3>1. k \in 1 .. l
      BY <1>1, <2>1, <2>2
    <3> QED
      BY <1>1, <1>5, <2>1, <2>2, <3>1
  <2>3. CASE ~(k <= l)
    <3>1. k - l \in 1 .. m
      BY <1>1, <2>1, <2>3
    <3>2. c[k] = more[k - l]
      BY <1>5, <2>1, <2>3
    <3>3. p # <<>>
      BY <3>1
    <3> QED
      BY <1>3, <3>1, <3>2, <3>3
  <2> QED
    BY <1>1, <2>1, <2>2, <2>3
<1> QED
  BY <1>5, <1>10, <1>11 DEF more, c, bw, cw, BoxesOf

(* Parsing a page keeps the invariant.                                     *)
LEMMA ParsingKeeps ==
  ASSUME ExtractionInv, ParseWords \/ ParseLayout
  PROVE  ExtractionInv'
<1> DEFINE n == Len(texts) + 1
           t == ExtractedText(extractor, pdf[n])
           Row == Seq(PageWords)
<1>1. /\ pageStage \in {"words", "layout"} /\ n <= Len(pdf) /\ extractor = pageStage
      /\ UNCHANGED <<pageStage, extractor, pdf, recognized, replaced>>
      /\ texts' = Append(texts, t)
      /\ extractor = "layout" => boxes' = boxes \o Boxed(n, t)
      /\ extractor = "words" => boxes' = boxes
  BY DEF ParseWords, ParseLayout, NextPage, ExtractedText, Boxed, ExtractionInv, ExtractionStages
<1>2. /\ Len(texts) \in Nat /\ Len(pdf) \in Nat /\ DOMAIN texts = 1 .. Len(texts)
      /\ DOMAIN pdf = 1 .. Len(pdf)
  BY <1>1, PagesCounted
<1>3. Parsed /\ GivenPages /\ texts \in Seq(Row)
  BY <1>1 DEF ExtractionInv, Parsed
<1>4. t \in Row
  <2>1. n \in DOMAIN pdf
    BY <1>1, <1>2
  <2>2. PageOK(pdf[n])
    BY <1>3, <2>1 DEF GivenPages
  <2> QED
    BY <2>2, TextIsOwn DEF OwnText
<1>5. /\ texts' \in Seq(Row) /\ Len(texts') = n /\ DOMAIN texts' = 1 .. n
      /\ texts'[n] = t /\ \A i \in 1 .. Len(texts) : texts'[i] = texts[i]
  <2> HIDE DEF t, Row
  <2> QED
    BY <1>1, <1>2, <1>3, <1>4, AppendProperties, LenProperties
<1>6. \A i \in DOMAIN texts' : texts'[i] = ExtractedText(extractor, pdf[i])
  <2> TAKE i \in DOMAIN texts'
  <2>1. CASE i \in 1 .. Len(texts)
    BY <1>2, <1>3, <1>5, <2>1 DEF Parsed
  <2>2. CASE i = n
    BY <1>5, <2>2
  <2> QED
    BY <1>2, <1>5, <2>1, <2>2
<1>7. Parsed'
  <2>1. CASE extractor = "words"
    <3>1. boxes' \in Seq(Boxes) /\ replaced' = {} /\ extractor' = "words"
      BY <1>1, <1>3, <2>1 DEF Parsed
    <3> HIDE DEF t
    <3> QED
      BY <1>1, <1>5, <1>6, <3>1 DEF Parsed
  <2>2. CASE extractor = "layout"
    <3> DEFINE c == boxes \o Boxed(n, t)
    <3>1. n \in Nat /\ boxes \in Seq(Boxes)
      BY <1>2, <1>3 DEF Parsed
    <3>2. /\ FlattenSeq(texts) = [k \in DOMAIN boxes |-> boxes[k].word]
          /\ \A k \in DOMAIN boxes : boxes[k].page \in DOMAIN texts /\ texts[boxes[k].page] # <<>>
      BY <1>3, <2>2 DEF Parsed
    <3> HIDE DEF t, n
    <3>3. /\ c \in Seq(Boxes)
          /\ [k \in DOMAIN c |-> c[k].word] = [k \in DOMAIN boxes |-> boxes[k].word] \o t
          /\ \A k \in DOMAIN c : (k \in DOMAIN boxes /\ c[k] = boxes[k]) \/ (c[k].page = n /\ t # <<>>)
      BY <1>4, <3>1, BoxesTogether DEF BoxesOf
    <3>4. boxes' = c /\ extractor' = extractor /\ replaced' = {} /\ pdf' = pdf
      BY <1>1, <1>3, <2>2 DEF Parsed
    <3> HIDE DEF c
    <3>5. FlattenSeq(texts') = FlattenSeq(texts) \o t
      <4> HIDE DEF Row
      <4>1. texts \in Seq(Seq(PageWords)) /\ t \in Seq(PageWords)
        BY <1>3, <1>4 DEF Row
      <4> QED
        BY <1>1, <4>1, JoinOneMore
    <3>6. FlattenSeq(texts') = [k \in DOMAIN boxes' |-> boxes'[k].word]
      BY <3>2, <3>3, <3>4, <3>5
    <3>7. ASSUME NEW k \in DOMAIN c
          PROVE  c[k].page \in 1 .. n /\ texts'[c[k].page] # <<>>
      <4>1. CASE k \in DOMAIN boxes /\ c[k] = boxes[k]
        <5>1. c[k].page \in 1 .. Len(texts) /\ texts[c[k].page] # <<>>
          BY <1>2, <3>2, <4>1
        <5> QED
          BY <1>2, <1>5, <5>1 DEF n
      <4>2. CASE c[k].page = n /\ t # <<>>
        BY <1>2, <1>5, <4>2 DEF n
      <4> QED
        BY <3>3, <4>1, <4>2
    <3> QED
      BY <1>1, <1>5, <1>6, <3>3, <3>4, <3>6, <3>7 DEF Parsed
  <2> QED
    BY <1>1, <2>1, <2>2
<1>8. ExtractionStages' /\ GivenPages' /\ ReadPages'
  BY <1>1 DEF ExtractionInv, ExtractionStages, GivenPages, ReadPages
<1> QED
  BY <1>1, <1>7, <1>8 DEF ExtractionInv

(* A document whose pages are all parsed is in place when nothing is       *)
(* filled.                                                                 *)
LEMMA UnfilledInPlace ==
  ASSUME ExtractionInv, pageStage # "done", Len(texts) = Len(pdf),
         pageStage' = "done", UNCHANGED <<extractor, pdf, texts, boxes, replaced>>
  PROVE  Filled'
<1>1. /\ Len(texts) \in Nat /\ DOMAIN texts = 1 .. Len(texts) /\ DOMAIN pdf = DOMAIN texts
      /\ texts = [i \in DOMAIN texts |-> texts[i]]
  BY PagesCounted
<1>2. Parsed /\ GivenPages
  BY DEF ExtractionInv
<1>3. replaced = {} /\ \A i \in DOMAIN texts : texts[i] = ExtractedText(extractor, pdf[i])
  BY <1>2 DEF Parsed
<1>4. \A i \in DOMAIN pdf : OwnText(extractor, pdf[i], texts[i])
  BY <1>1, <1>2, <1>3, TextIsOwn DEF GivenPages
<1>5. \A i \in DOMAIN pdf :
         /\ {w \in Body(Words(pdf[i])) : ~w.caption} \subseteq ToSet(texts[i])
         /\ ToSet(texts[i]) \subseteq Words(pdf[i])
         /\ extractor = "words" => InReadingOrder(pdf[i], texts[i])
  BY <1>4 DEF OwnText
<1>6. [i \in DOMAIN texts |-> IF i \in replaced THEN <<>> ELSE texts[i]] = texts
  BY <1>1, <1>3
<1>7. extractor = "layout" => FlattenSeq(texts) = [k \in DOMAIN boxes |-> boxes[k].word]
  BY <1>2 DEF Parsed
<1>8. PagesInPlace'
  BY <1>3, <1>5, <1>6, <1>7 DEF PagesInPlace
<1> QED
  BY <1>1, <1>3, <1>8 DEF Filled

(* A parser that fails keeps it.                                           *)
LEMMA FailingKeeps ==
  ASSUME ExtractionInv, ParseFails
  PROVE  ExtractionInv'
<1>1. /\ pageStage \in {"words", "layout"} /\ pageStage' = "failed"
      /\ UNCHANGED <<extractor, pdf, texts, boxes, recognized, replaced>>
  BY DEF ParseFails
<1>2. ExtractionStages' /\ GivenPages' /\ ReadPages' /\ Parsed'
  BY <1>1 DEF ExtractionInv, ExtractionStages, GivenPages, ReadPages, Parsed
<1> QED
  BY <1>1, <1>2 DEF ExtractionInv

(* The end of the parsing keeps it.                                        *)
LEMMA EndingKeeps ==
  ASSUME ExtractionInv, EndParsing
  PROVE  ExtractionInv'
<1>1. /\ pageStage \in {"words", "layout"} /\ NextPage > Len(pdf)
      /\ pageStage' \in {"paddleocr", "done"}
      /\ UNCHANGED <<extractor, pdf, texts, boxes, recognized, replaced>>
  BY DEF EndParsing
<1>2. Len(texts) = Len(pdf)
  BY <1>1, PagesCounted DEF NextPage
<1>3. ExtractionStages' /\ GivenPages' /\ ReadPages'
  BY <1>1, <1>2 DEF ExtractionInv, ExtractionStages, GivenPages, ReadPages
<1>4. CASE pageStage' = "done"
  BY <1>1, <1>2, <1>3, <1>4, UnfilledInPlace DEF ExtractionInv
<1>5. CASE pageStage' = "paddleocr"
  <2>1. Parsed'
    BY <1>1 DEF ExtractionInv, Parsed
  <2> QED
    BY <1>3, <1>5, <2>1 DEF ExtractionInv
<1> QED
  BY <1>1, <1>4, <1>5

(* Reading a page image keeps it.                                          *)
LEMMA RecognitionKeeps ==
  ASSUME ExtractionInv, NEW n \in Nat, RecognizePage(n)
  PROVE  ExtractionInv'
<1> DEFINE l == Len(recognized)
           scan == Scan(l + 1, n)
           r == [page |-> l + 1, text |-> scan]
<1>1. /\ pageStage \in {"paddleocr", "tesseract"} /\ l < Len(pdf)
      /\ recognized' = recognized \o <<r>>
      /\ UNCHANGED <<pageStage, extractor, pdf, texts, boxes, replaced>>
  BY DEF RecognizePage, PageResult
<1>2. /\ recognized \in Seq(Readings) /\ l \in Nat /\ DOMAIN recognized = 1 .. l
      /\ \A k \in 1 .. l : recognized[k].page = k /\ \A p \in DOMAIN recognized[k].text : recognized[k].text[p].image = k
      /\ Len(pdf) \in Nat
  <2>1. ReadPages /\ recognized \in Seq(Readings)
    BY DEF ExtractionInv, ReadPages
  <2>2. l \in Nat /\ DOMAIN recognized = 1 .. l
    BY <2>1, LenProperties
  <2> HIDE DEF l
  <2> QED
    BY <1>1, <2>1, <2>2, PagesCounted DEF ReadPages
<1>3. scan \in Seq(Scans) /\ \A p \in DOMAIN scan : scan[p].image = l + 1
  <2>1. scan \in [1 .. n -> Scans] /\ \A p \in DOMAIN scan : scan[p].image = l + 1
    BY <1>2 DEF Scan, Scans
  <2> HIDE DEF scan, l
  <2> QED
    BY <2>1, FunIsSeq
<1>4. r \in Readings /\ r.page = l + 1 /\ \A p \in DOMAIN r.text : r.text[p].image = l + 1
  <2> HIDE DEF scan
  <2> QED
    BY <1>2, <1>3 DEF Readings
<1> HIDE DEF r, scan
<1>5. /\ recognized' \in Seq(Readings) /\ Len(recognized') = l + 1 /\ DOMAIN recognized' = 1 .. l + 1
      /\ recognized'[l + 1] = r /\ \A k \in 1 .. l : recognized'[k] = recognized[k]
  <2>1. recognized' = Append(recognized, r)
    BY <1>1, <1>2, <1>4
  <2> QED
    BY <1>2, <1>4, <2>1, AppendProperties, LenProperties
<1>6. ReadPages'
  <2>1. ASSUME NEW k \in DOMAIN recognized'
        PROVE  recognized'[k].page = k /\ \A p \in DOMAIN recognized'[k].text : recognized'[k].text[p].image = k
    <3>1. CASE k \in 1 .. l
      BY <1>2, <1>5, <3>1
    <3>2. CASE k = l + 1
      BY <1>4, <1>5, <3>2
    <3> QED
      BY <1>2, <1>5, <3>1, <3>2
  <2>2. Len(recognized') <= Len(pdf')
    <3> HIDE DEF l
    <3> QED
      BY <1>1, <1>2, <1>5
  <2> QED
    BY <1>5, <2>1, <2>2 DEF ReadPages
<1>7. ExtractionStages' /\ GivenPages' /\ Parsed'
  BY <1>1 DEF ExtractionInv, ExtractionStages, GivenPages, Parsed
<1> QED
  BY <1>1, <1>6, <1>7 DEF ExtractionInv

(* An engine that ends or breaks off keeps it.                             *)
LEMMA EngineKeeps ==
  ASSUME ExtractionInv, EngineEnds
  PROVE  ExtractionInv'
<1>1. /\ pageStage \in {"paddleocr", "tesseract"} /\ pageStage' \in {"fill", "tesseract", "done"}
      /\ recognized' = recognized \/ recognized' = <<>>
      /\ UNCHANGED <<extractor, pdf, texts, boxes, replaced>>
  BY DEF EngineEnds
<1>2. Len(texts) = Len(pdf) /\ Len(pdf) \in Nat
  BY <1>1, PagesCounted DEF ExtractionInv, ExtractionStages
<1>3. ExtractionStages' /\ GivenPages'
  BY <1>1, <1>2 DEF ExtractionInv, ExtractionStages, GivenPages
<1>4. ReadPages'
  <2>1. CASE recognized' = recognized
    BY <1>1, <2>1 DEF ExtractionInv, ReadPages
  <2>2. CASE recognized' = <<>>
    <3>1. recognized' \in Seq(Readings) /\ Len(recognized') = 0 /\ DOMAIN recognized' = {}
      BY <2>2, EmptySeq
    <3> QED
      BY <1>1, <1>2, <3>1 DEF ReadPages
  <2> QED
    BY <1>1, <2>1, <2>2
<1>5. CASE pageStage' = "done"
  BY <1>1, <1>2, <1>3, <1>4, <1>5, UnfilledInPlace DEF ExtractionInv
<1>6. CASE pageStage' # "done"
  <2>1. Parsed'
    BY <1>1 DEF ExtractionInv, Parsed
  <2> QED
    BY <1>3, <1>4, <1>6, <2>1 DEF ExtractionInv
<1> QED
  BY <1>5, <1>6

(* What an engine is asked for is what it read of that very page.          *)
LEMMA CandidateIsOfPage ==
  ASSUME ReadPages, NEW i, Candidate(i) # <<>>
  PROVE  \A k \in DOMAIN Candidate(i) : Candidate(i)[k].image = i
<1> DEFINE K == {k \in DOMAIN recognized : recognized[k].page = i}
           found == Kept(recognized, K)
<1>1. recognized \in Seq(Readings)
  BY DEF ReadPages
<1>2. \A k \in K : k = i /\ \A p \in DOMAIN recognized[k].text : recognized[k].text[p].image = i
  BY DEF ReadPages
<1>3. Candidate(i) = IF found = <<>> THEN <<>> ELSE Last(found).text
  BY DEF Candidate
<1> HIDE DEF K
<1>4. found \in Seq(Readings) /\ ToSet(found) = {recognized[k] : k \in K \cap DOMAIN recognized}
  BY <1>1, KeptElements, Zenon
<1> HIDE DEF found
<1>5. found # <<>> /\ Candidate(i) = Last(found).text
  BY <1>3
<1>6. PICK k \in K : Last(found) = recognized[k]
  <2>1. Len(found) \in 1 .. Len(found) /\ DOMAIN found = 1 .. Len(found)
    BY <1>4, <1>5, EmptySeq, LenProperties
  <2>2. found[Len(found)] \in ToSet(found)
    BY <2>1 DEF ToSet
  <2> QED
    BY <1>4, <2>2 DEF Last
<1> QED
  BY <1>2, <1>5, <1>6

(* Filling in what was read keeps it.                                      *)
LEMMA FillingKeeps ==
  ASSUME ExtractionInv, FillPages
  PROVE  ExtractionInv'
<1> DEFINE n == Len(texts)
<1>1. /\ pageStage = "fill" /\ pageStage' = "done" /\ replaced' = FilledIn
      /\ texts' = [i \in DOMAIN texts |-> IF i \in FilledIn THEN Candidate(i) ELSE texts[i]]
      /\ boxes' = Kept(boxes, {k \in DOMAIN boxes : boxes[k].page \notin FilledIn})
      /\ UNCHANGED <<extractor, pdf, recognized>>
  BY DEF FillPages
<1>2. /\ n \in Nat /\ DOMAIN texts = 1 .. n /\ DOMAIN pdf = 1 .. n /\ n = Len(pdf)
      /\ texts = [i \in DOMAIN texts |-> texts[i]]
  BY <1>1, PagesCounted DEF ExtractionInv, ExtractionStages
<1>3. Parsed /\ GivenPages /\ ReadPages
  BY <1>1 DEF ExtractionInv
<1>4. /\ FilledIn \subseteq 1 .. n /\ \A i \in FilledIn : texts[i] = <<>> /\ Candidate(i) # <<>>
  BY <1>2 DEF FilledIn, EmptyPages
<1> HIDE DEF n
<1>5. texts' \in Seq({texts'[i] : i \in 1 .. n}) /\ Len(texts') = n /\ DOMAIN texts' = 1 .. n
  <2>1. texts' \in [1 .. n -> {texts'[i] : i \in 1 .. n}]
    BY <1>1, <1>2
  <2> QED
    BY <1>2, <2>1, FunIsSeq
<1>6. \A i \in 1 .. n : texts'[i] = IF i \in FilledIn THEN Candidate(i) ELSE texts[i]
  BY <1>1, <1>2
<1>7. \A i \in 1 .. n : OwnText(extractor, pdf[i], texts[i])
  BY <1>2, <1>3, TextIsOwn DEF GivenPages, Parsed
<1>8. ASSUME NEW i \in 1 .. n
      PROVE  IF i \in FilledIn
             THEN Placed(pdf[i]) = <<>> /\ \A k \in DOMAIN texts'[i] : texts'[i][k].image = i
             ELSE /\ {w \in Body(Words(pdf[i])) : ~w.caption} \subseteq ToSet(texts'[i])
                  /\ ToSet(texts'[i]) \subseteq Words(pdf[i])
                  /\ extractor = "words" => InReadingOrder(pdf[i], texts'[i])
  <2>1. CASE i \in FilledIn
    <3>1. texts[i] = <<>> /\ Candidate(i) # <<>> /\ texts'[i] = Candidate(i)
      BY <1>4, <1>6, <2>1
    <3>2. Placed(pdf[i]) = <<>>
      BY <1>7, <3>1 DEF OwnText
    <3>3. \A k \in DOMAIN Candidate(i) : Candidate(i)[k].image = i
      BY <1>3, <3>1, CandidateIsOfPage
    <3> QED
      BY <2>1, <3>1, <3>2, <3>3
  <2>2. CASE i \notin FilledIn
    <3>1. texts'[i] = texts[i]
      BY <1>6, <2>2
    <3> QED
      BY <1>7, <2>2, <3>1 DEF OwnText
  <2> QED
    BY <2>1, <2>2
<1>9. ASSUME extractor = "layout"
      PROVE  FlattenSeq([i \in 1 .. n |-> IF i \in FilledIn THEN <<>> ELSE texts'[i]])
               = [k \in DOMAIN boxes' |-> boxes'[k].word]
  <2>1. [i \in 1 .. n |-> IF i \in FilledIn THEN <<>> ELSE texts'[i]] = texts
    <3>1. \A i \in 1 .. n : (IF i \in FilledIn THEN <<>> ELSE texts'[i]) = texts[i]
      BY <1>4, <1>6
    <3> QED
      BY <1>2, <3>1
  <2>2. boxes \in Seq(Boxes) /\ FlattenSeq(texts) = [k \in DOMAIN boxes |-> boxes[k].word]
        /\ \A k \in DOMAIN boxes : texts[boxes[k].page] # <<>>
    BY <1>3, <1>9 DEF Parsed
  <2> DEFINE K == {k \in DOMAIN boxes : boxes[k].page \notin FilledIn}
  <2>3. 1 .. Len(boxes) \subseteq K
    <3>1. DOMAIN boxes = 1 .. Len(boxes)
      BY <2>2, LenProperties
    <3> QED
      BY <1>4, <2>2, <3>1
  <2> HIDE DEF K
  <2>4. Kept(boxes, K) = boxes
    BY <2>2, <2>3, KeptOfAll
  <2>5. boxes' = boxes
    BY <1>1, <2>4 DEF K
  <2> QED
    BY <2>1, <2>2, <2>5
<1>10. PagesInPlace'
  <2> HIDE DEF Candidate, FilledIn
  <2>1. Len(texts') = Len(pdf') /\ DOMAIN pdf' = 1 .. n /\ DOMAIN texts' = 1 .. n /\ replaced' = FilledIn
        /\ extractor' = extractor /\ pdf' = pdf
    BY <1>1, <1>2, <1>5
  <2> QED
    BY <1>8, <1>9, <2>1 DEF PagesInPlace
<1>11. Filled'
  BY <1>1, <1>2, <1>4, <1>5, <1>10 DEF Filled
<1>12. ExtractionStages' /\ GivenPages' /\ ReadPages'
  BY <1>1, <1>3 DEF ExtractionInv, ExtractionStages, GivenPages, ReadPages
<1> QED
  BY <1>1, <1>11, <1>12 DEF ExtractionInv

(* Every step of an extraction keeps the invariant.                        *)
LEMMA ExtractionKeeps == ExtractionInv /\ [ExtractionNext]_extractionVars => ExtractionInv'
<1> SUFFICES ASSUME ExtractionInv, [ExtractionNext]_extractionVars PROVE ExtractionInv'
  OBVIOUS
<1>1. CASE \E kind \in {"words", "layout"}, document \in Pdfs : OpenPdf(kind, document)
  BY <1>1, OpenKeeps
<1>2. CASE ParseWords \/ ParseLayout
  BY <1>2, ParsingKeeps
<1>3. CASE ParseFails
  BY <1>3, FailingKeeps
<1>4. CASE EndParsing
  BY <1>4, EndingKeeps
<1>5. CASE \E n \in 0 .. MinRecognized : RecognizePage(n)
  <2>1. PICK n \in Nat : RecognizePage(n)
    BY <1>5, ExtractionAssumption
  <2> QED
    BY <2>1, RecognitionKeeps
<1>6. CASE EngineEnds
  BY <1>6, EngineKeeps
<1>7. CASE FillPages
  BY <1>7, FillingKeeps
<1>8. CASE ClosePdf
  <2>1. ExtractionInit'
    BY <1>8 DEF ClosePdf, ExtractionInit
  <2>2. ExtractionStages' /\ GivenPages' /\ ReadPages' /\ Parsed'
    <3>1. /\ <<>> \in Seq(Seq(PageWords)) /\ <<>> \in Seq(Boxes) /\ <<>> \in Seq(Readings) /\ <<>> \in Seq(Pages)
          /\ Len(<<>>) = 0 /\ DOMAIN <<>> = {}
      <4> DEFINE Row == Seq(PageWords)
      <4> HIDE DEF Row
      <4>1. <<>> \in Seq(Row)
        BY EmptySeq
      <4> QED
        BY <4>1, EmptySeq DEF Row
    <3> QED
      BY <2>1, <3>1 DEF ExtractionInit, ExtractionStages, GivenPages, ReadPages, Parsed
  <2>3. pageStage' = "idle"
    BY <2>1 DEF ExtractionInit
  <2> QED
    BY <2>2, <2>3 DEF ExtractionInv
<1>9. CASE UNCHANGED extractionVars
  <2>1. ExtractionStages' /\ GivenPages' /\ ReadPages'
    BY <1>9 DEF extractionVars, ExtractionInv, ExtractionStages, GivenPages, ReadPages
  <2>2. pageStage' = pageStage /\ (Parsed => Parsed') /\ (Filled => Filled')
    BY <1>9 DEF extractionVars, Parsed, Filled, PagesInPlace
  <2> QED
    BY <2>1, <2>2 DEF ExtractionInv
<1> QED
  BY <1>1, <1>2, <1>3, <1>4, <1>5, <1>6, <1>7, <1>8, <1>9 DEF ExtractionNext

(* The invariant gives types and pages in place.                           *)
LEMMA ExtractionHolds == ExtractionInv => ExtractionTypeOK /\ PagesInPlace
<1> SUFFICES ASSUME ExtractionInv PROVE ExtractionTypeOK /\ PagesInPlace
  OBVIOUS
<1>1. ExtractionStages /\ ReadPages /\ GivenPages
  BY DEF ExtractionInv
<1>2. CASE pageStage = "done"
  <2>1. Filled
    BY <1>2 DEF ExtractionInv
  <2>2. Len(texts) <= Len(pdf)
    <3>1. Len(pdf) \in Nat
      BY <1>1, LenProperties DEF GivenPages
    <3> QED
      BY <2>1, <3>1 DEF Filled
  <2> QED
    BY <1>1, <1>2, <2>1, <2>2 DEF Filled, ExtractionTypeOK, ExtractionStages, ReadPages
<1>3. CASE pageStage # "done"
  <2>1. Parsed
    BY <1>3 DEF ExtractionInv
  <2> QED
    BY <1>1, <1>3, <2>1 DEF Parsed, ExtractionTypeOK, ExtractionStages, ReadPages, PagesInPlace
<1> QED
  BY <1>2, <1>3

(* An extraction that ends has every page under its own number: its own    *)
(* text in the order of reading, or what an engine read on that very       *)
(* page, and the blocks that are overlaid are the text of the pages that   *)
(* were not scanned (extract_pages, extract_document_with_layout).         *)
THEOREM PagesStayInPlace == ExtractionSpec => []PagesInPlace
<1>1. ExtractionSpec => []ExtractionInv
  BY ExtractionStarts, ExtractionKeeps, PTL DEF ExtractionSpec
<1> QED
  BY <1>1, ExtractionHolds, PTL
-----------------------------------------------------------------------------
(***************************************************************************)
(* Anchors in an edited text.                                              *)
(***************************************************************************)
(* Of ranks that are bounded below there is always a least one.            *)
LEMMA LeastOf ==
  ASSUME NEW S, S # {}, NEW f, NEW b \in Nat, \A x \in S : f[x] \in Int /\ f[x] >= 0 - b
  PROVE  \E x \in S : \A y \in S : f[x] <= f[y]
<1> DEFINE N == {f[x] + b : x \in S}
<1>1. N \subseteq Nat /\ N # {}
  OBVIOUS
<1> HIDE DEF N
<1>2. PICK i \in N : \A j \in N : i <= j
  BY <1>1, LeastNumber
<1>3. PICK x \in S : i = f[x] + b
  BY DEF N
<1>4. ASSUME NEW y \in S
      PROVE  f[x] <= f[y]
  <2>1. f[y] + b \in N
    BY DEF N
  <2>2. f[x] + b <= f[y] + b
    BY <1>2, <1>3, <2>1
  <2> QED
    BY <2>2
<1> QED
  BY <1>4

(* Ranks of equal length whose numbers are bounded below.                  *)
RanksOf(S, rank, n, b) ==
  /\ n \in Nat /\ b \in Nat
  /\ \A x \in S : DOMAIN rank[x] = 1 .. n /\ \A i \in 1 .. n : rank[x][i] \in Int /\ rank[x][i] >= 0 - b

(* x has a least rank as far as the first m places tell.                   *)
LeastTo(S, rank, m, x) ==
  x \in S /\ \A y \in S : ~ \E i \in 1 .. m : rank[y][i] < rank[x][i] /\ \A j \in 1 .. i - 1 : rank[y][j] = rank[x][j]

(* Among such ranks Best finds one that no other is below.                 *)
LEMMA BestIsBest ==
  ASSUME NEW S, S # {}, NEW rank, NEW n, NEW b, RanksOf(S, rank, n, b)
  PROVE  Best(S, rank) \in S /\ \A y \in S : ~Less(rank[y], rank[Best(S, rank)])
<1> DEFINE Bad == {m \in 0 .. n : ~ \E x : LeastTo(S, rank, m, x)}
<1>1. n \in Nat /\ b \in Nat /\ \A x \in S : DOMAIN rank[x] = 1 .. n
  BY DEF RanksOf
<1>2. 0 \notin Bad
  <2>1. \A x \in S : LeastTo(S, rank, 0, x)
    BY DEF LeastTo
  <2> QED
    BY <1>1, <2>1
<1>3. ASSUME NEW m \in 1 .. n, m - 1 \notin Bad
      PROVE  m \notin Bad
  <2>1. m - 1 \in 0 .. n
    BY <1>1
  <2>2. PICK x : LeastTo(S, rank, m - 1, x)
    BY <1>3, <2>1
  <2> DEFINE T == {y \in S : \A j \in 1 .. m - 1 : rank[y][j] = rank[x][j]}
             f == [y \in T |-> rank[y][m]]
  <2>3. T # {}
    BY <2>2 DEF LeastTo
  <2>4. \A y \in T : f[y] \in Int /\ f[y] >= 0 - b
    BY <1>1 DEF RanksOf
  <2>5. PICK z \in T : \A y \in T : f[z] <= f[y]
    <3> HIDE DEF T, f
    <3> QED
      BY <1>1, <2>3, <2>4, LeastOf
  <2>6. LeastTo(S, rank, m, z)
    <3> SUFFICES ASSUME NEW y \in S, NEW i \in 1 .. m, rank[y][i] < rank[z][i],
                        \A j \in 1 .. i - 1 : rank[y][j] = rank[z][j]
                 PROVE  FALSE
      BY DEF LeastTo
    <3>1. CASE i = m
      <4>1. y \in T
        BY <3>1
      <4>2. rank[z][m] <= rank[y][m]
        BY <2>5, <4>1
      <4>3. rank[z][m] \in Int /\ rank[y][m] \in Int
        BY DEF RanksOf
      <4> QED
        BY <3>1, <4>2, <4>3
    <3>2. CASE i # m
      <4>1. i \in 1 .. m - 1
        BY <1>1, <3>2
      <4>2. rank[z][i] = rank[x][i] /\ \A j \in 1 .. i - 1 : rank[z][j] = rank[x][j]
        BY <1>1, <4>1
      <4>3. rank[y][i] < rank[x][i] /\ \A j \in 1 .. i - 1 : rank[y][j] = rank[x][j]
        BY <4>2
      <4> QED
        BY <2>2, <4>1, <4>3 DEF LeastTo
    <3> QED
      BY <3>1, <3>2
  <2> QED
    BY <2>6
<1>4. Bad = {}
  <2> HIDE DEF Bad
  <2>1. Bad \subseteq 0 .. n
    BY DEF Bad
  <2> QED
    BY <1>1, <1>2, <1>3, <2>1, NoneFails
<1>5. PICK x : LeastTo(S, rank, n, x)
  BY <1>1, <1>4
<1>6. x \in S /\ \A y \in S : ~Less(rank[y], rank[x])
  BY <1>1, <1>5 DEF LeastTo, Less
<1> QED
  BY <1>6 DEF Best

-----------------------------------------------------------------------------
(* Percent of words in common.                                             *)
LEMMA KeptIsAsLong ==
  ASSUME NEW S, NEW s \in Seq(S), NEW K \in SUBSET DOMAIN s
  PROVE  /\ IsFiniteSet(K) /\ Cardinality(K) \in Nat /\ Cardinality(K) <= Len(s)
         /\ Len(Kept(s, K)) = Cardinality(K)
         /\ Cardinality(K) = Len(s) => Kept(s, K) = s
<1> DEFINE t == Kept(s, K)
           n == Len(s)
           m == Len(t)
<1>1. n \in Nat /\ DOMAIN s = 1 .. n /\ m \in Nat
  BY LenProperties, KeptIsList
<1>2. IsFiniteSet(1 .. n) /\ Cardinality(1 .. n) = n /\ IsFiniteSet(1 .. m) /\ Cardinality(1 .. m) = m
  <2>1. \A k \in Nat : IsFiniteSet(1 .. k) /\ Cardinality(1 .. k) = k
    BY FS_Interval
  <2> HIDE DEF n, m
  <2> QED
    BY <1>1, <2>1
<1>3. K \in SUBSET (1 .. n) /\ K \cap (1 .. n) = K
  BY <1>1
<1>4. IsFiniteSet(K) /\ Cardinality(K) \in Nat /\ Cardinality(K) <= n /\ (Cardinality(K) = n => K = 1 .. n)
  <2> HIDE DEF n
  <2>1. IsFiniteSet(K) /\ Cardinality(K) <= Cardinality(1 .. n) /\ (Cardinality(1 .. n) = Cardinality(K) => 1 .. n = K)
    BY <1>2, <1>3, FS_Subset
  <2> QED
    BY <1>2, <2>1, FS_CardinalityType
<1>5. PICK pos : /\ pos \in [1 .. m -> K \cap (1 .. n)]
                 /\ \A i \in K \cap (1 .. n) : \E p \in 1 .. m : pos[p] = i
                 /\ \A p, q \in 1 .. m : p < q => pos[p] < pos[q]
  BY KeptPlaces
<1>6. m = Cardinality(K)
  <2>1. pos \in [1 .. m -> K] /\ \A i \in K : \E p \in 1 .. m : pos[p] = i
    BY <1>3, <1>5
  <2>2. \A p, q \in 1 .. m : pos[p] = pos[q] => p = q
    <3> SUFFICES ASSUME NEW p \in 1 .. m, NEW q \in 1 .. m, pos[p] = pos[q], p # q PROVE FALSE
      OBVIOUS
    <3> HIDE DEF m
    <3>1. pos[p] \in Int /\ pos[q] \in Int
      BY <1>1, <1>3, <2>1
    <3>2. p < q \/ q < p
      BY <1>1
    <3> QED
      BY <1>5, <3>1, <3>2
  <2> HIDE DEF m
  <2>3. pos \in Surjection(1 .. m, K) /\ pos \in Injection(1 .. m, K)
    BY <2>1, <2>2 DEF Surjection, Injection, IsInjective
  <2>4. Cardinality(K) = Cardinality(1 .. m)
    BY <1>2, <2>3, FS_Surjection
  <2> QED
    BY <1>2, <2>4
<1>7. Cardinality(K) = n => Kept(s, K) = s
  <2>1. ASSUME K = 1 .. n PROVE Kept(s, K) = s
    BY <2>1, KeptOfAll
  <2> QED
    BY <1>4, <2>1
<1> QED
  BY <1>4, <1>6, <1>7

(* A share of two lengths is a percentage, full for the whole of both.     *)
LEMMA PercentOf ==
  ASSUME NEW n \in Nat, NEW p \in Nat \ {0}, NEW q \in Nat \ {0}, n <= p, n <= q
  PROVE  /\ (200 * n) \div (p + q) \in 0 .. 100
         /\ (200 * n) \div (p + q) = 100 => n = p /\ n = q
<1> DEFINE d == p + q
           x == 200 * n
           v == x \div d
<1>1. d \in Nat \ {0} /\ x \in Nat /\ x <= 100 * d /\ (x >= 100 * d => n = p /\ n = q)
  OBVIOUS
<1>2. v \in Int /\ d * v <= x /\ x < d * v + d
  <2> HIDE DEF d, x
  <2> QED
    BY <1>1
<1> HIDE DEF d, x, v
<1>3. v >= 0
  <2>1. ASSUME v <= -1 PROVE FALSE
    <3>1. d * v <= 0 - d
      BY <1>1, <1>2, <2>1
    <3> QED
      BY <1>1, <1>2, <3>1
  <2> QED
    BY <1>2, <2>1
<1>4. v <= 100
  <2>1. ASSUME v >= 101 PROVE FALSE
    <3>1. d * v >= d * 101
      BY <1>1, <1>2, <2>1
    <3> QED
      BY <1>1, <1>2, <3>1
  <2> QED
    BY <1>2, <2>1
<1>5. v = 100 => n = p /\ n = q
  BY <1>1, <1>2
<1> QED
  BY <1>2, <1>3, <1>4, <1>5 DEF v, x, d

(* Similarity is a percentage, and full only for equal texts.              *)
LEMMA SimilarityIsPercent ==
  ASSUME NEW S, NEW s \in Seq(S), NEW t \in Seq(S)
  PROVE  /\ Similarity(s, t) \in 0 .. 100
         /\ Similarity(s, t) = 100 <=> s = t
<1> DEFINE common == {n \in 0 .. Len(s) : \E m \in SUBSET DOMAIN s, k \in SUBSET DOMAIN t :
                        Cardinality(m) = n /\ Kept(s, m) = Kept(t, k)}
           c == CHOOSE n \in common : \A m \in common : m <= n
<1>1. /\ Len(s) \in Nat /\ Len(t) \in Nat /\ DOMAIN s = 1 .. Len(s) /\ DOMAIN t = 1 .. Len(t)
  BY LenProperties
<1>2. Similarity(s, t) = IF s = <<>> \/ t = <<>> THEN IF s = t THEN 100 ELSE 0
                         ELSE (200 * c) \div (Len(s) + Len(t))
  BY DEF Similarity
<1>3. ASSUME NEW n \in common
      PROVE  n \in Nat /\ n <= Len(s) /\ n <= Len(t) /\ (n = Len(s) /\ n = Len(t) => s = t)
  <2>1. PICK m \in SUBSET DOMAIN s, k \in SUBSET DOMAIN t : Cardinality(m) = n /\ Kept(s, m) = Kept(t, k)
    OBVIOUS
  <2>2. /\ Cardinality(m) \in Nat /\ Cardinality(m) <= Len(s) /\ Len(Kept(s, m)) = Cardinality(m)
        /\ Cardinality(m) = Len(s) => Kept(s, m) = s
    BY KeptIsAsLong
  <2>3. /\ Cardinality(k) \in Nat /\ Cardinality(k) <= Len(t) /\ Len(Kept(t, k)) = Cardinality(k)
        /\ Cardinality(k) = Len(t) => Kept(t, k) = t
    BY KeptIsAsLong
  <2>4. Cardinality(k) = n
    BY <2>1, <2>2, <2>3
  <2> HIDE DEF common
  <2> QED
    BY <2>1, <2>2, <2>3, <2>4
<1>4. 0 \in common
  <2>1. {} \in SUBSET DOMAIN s /\ {} \in SUBSET DOMAIN t /\ Cardinality({}) = 0
    BY FS_EmptySet
  <2>2. Kept(s, {}) = <<>> /\ Kept(t, {}) = <<>>
    BY KeptOfNone
  <2> QED
    BY <1>1, <2>1, <2>2
<1>5. s = t => Len(s) \in common
  <2> SUFFICES ASSUME s = t PROVE Len(s) \in common
    OBVIOUS
  <2>1. Cardinality(DOMAIN s) = Len(s) /\ DOMAIN s \in SUBSET DOMAIN s
    <3>1. \A k \in Nat : IsFiniteSet(1 .. k) /\ Cardinality(1 .. k) = k
      BY FS_Interval
    <3> QED
      BY <1>1, <3>1
  <2>2. Len(s) \in 0 .. Len(s)
    BY <1>1
  <2> QED
    BY <2>1, <2>2
<1> HIDE DEF common
<1>6. \E n \in common : \A m \in common : m <= n
  <2> DEFINE f == [n \in common |-> 0 - n]
  <2>1. \A n \in common : f[n] \in Int /\ f[n] >= 0 - Len(s)
    BY <1>1, <1>3
  <2>2. common # {}
    BY <1>4
  <2>3. \E n \in common : \A m \in common : f[n] <= f[m]
    <3> HIDE DEF f
    <3> QED
      BY <1>1, <2>1, <2>2, LeastOf
  <2>4. PICK n \in common : \A m \in common : f[n] <= f[m]
    BY <2>3
  <2>5. \A m \in common : 0 - n <= 0 - m
    BY <2>4
  <2> HIDE DEF f
  <2>6. \A m \in common : m <= n
    BY <1>3, <2>5
  <2> QED
    BY <2>6
<1>7. c \in common /\ \A m \in common : m <= c
  BY <1>6
<1> HIDE DEF c
<1>8. CASE s = <<>> \/ t = <<>>
  BY <1>2, <1>8
<1>9. CASE s # <<>> /\ t # <<>>
  <2>1. Len(s) \in Nat \ {0} /\ Len(t) \in Nat \ {0}
    BY <1>9, EmptySeq
  <2>2. c \in Nat /\ c <= Len(s) /\ c <= Len(t) /\ (c = Len(s) /\ c = Len(t) => s = t)
    BY <1>3, <1>7
  <2>3. Similarity(s, t) = (200 * c) \div (Len(s) + Len(t))
    BY <1>2, <1>9
  <2>4. Similarity(s, t) \in 0 .. 100 /\ (Similarity(s, t) = 100 => s = t)
    <3> DEFINE p == Len(s)
               q == Len(t)
               v == (200 * c) \div (p + q)
    <3>1. p \in Nat \ {0} /\ q \in Nat \ {0} /\ c \in Nat /\ c <= p /\ c <= q /\ Similarity(s, t) = v
      BY <2>1, <2>2, <2>3
    <3> HIDE DEF p, q
    <3>2. v \in 0 .. 100 /\ (v = 100 => c = p /\ c = q)
      BY <3>1, PercentOf
    <3> HIDE DEF v
    <3> QED
      BY <2>2, <3>1, <3>2 DEF p, q
  <2>5. ASSUME s = t PROVE Similarity(s, t) = 100
    <3>1. c = Len(s) /\ Len(t) = Len(s)
      <4>1. Len(s) <= c
        BY <1>5, <1>7, <2>5
      <4> QED
        <5>1. Len(t) = Len(s)
          BY <2>5
        <5>2. c = Len(s)
          <6> DEFINE p == Len(s)
          <6>1. p \in Nat /\ c \in Nat /\ c <= p /\ p <= c
            BY <1>1, <2>2, <4>1
          <6> HIDE DEF p
          <6>2. c = p
            BY <6>1
          <6> QED
            BY <6>2 DEF p
        <5> QED
          BY <5>1, <5>2
    <3>2. \A n \in Nat \ {0} : (200 * n) \div (n + n) = 100
      OBVIOUS
    <3> QED
      BY <2>1, <2>3, <3>1, <3>2
  <2> QED
    BY <2>4, <2>5
<1> QED
  BY <1>8, <1>9

-----------------------------------------------------------------------------
(* Slices of a text.                                                       *)
LEMMA SliceIsText ==
  ASSUME NEW S, NEW text \in Seq(S), NEW start \in Int, NEW end \in Int
  PROVE  /\ Slice(text, start, end) \in Seq(S)
         /\ Len(Slice(text, start, end)) <= end - start \/ Slice(text, start, end) = <<>>
         /\ Len(Slice(text, start, end)) = end - start /\ Slice(text, start, end) # <<>>
              => start >= 1 /\ end <= Len(text) + 1
<1> DEFINE first == IF start < 1 THEN 1 ELSE start
           last  == IF end - 1 > Len(text) THEN Len(text) ELSE end - 1
<1>1. Len(text) \in Nat /\ first \in Nat /\ last \in Int /\ first >= 1 /\ last <= Len(text)
      /\ first >= start /\ last <= end - 1
  BY LenProperties
<1>2. Slice(text, start, end) = IF first > last THEN <<>> ELSE SubSeq(text, first, last)
  BY DEF Slice
<1>3. CASE first > last
  <2>1. Slice(text, start, end) = <<>>
    BY <1>2, <1>3
  <2> QED
    BY <2>1
<1>4. CASE ~(first > last)
  <2>1. (first = start => start >= 1) /\ (last = end - 1 => end <= Len(text) + 1)
    BY <1>1
  <2> HIDE DEF first, last
  <2>2. SubSeq(text, first, last) \in Seq(S) /\ Len(SubSeq(text, first, last)) = last - first + 1
    <3>1. \A i \in first .. last : text[i] \in S
      <4>1. \A i \in first .. last : i \in 1 .. Len(text)
        BY <1>1
      <4> QED
        BY <4>1, ElementOfSeq
    <3> QED
      BY <1>1, <1>4, <3>1, SubSeqProperties
  <2>3. Slice(text, start, end) = SubSeq(text, first, last)
    BY <1>2, <1>4
  <2>4. Len(Slice(text, start, end)) = last - first + 1
    BY <2>2, <2>3
  <2>5. last - first + 1 <= end - start /\ (last - first + 1 = end - start => last = end - 1 /\ first = start)
    BY <1>1
  <2> QED
    BY <2>1, <2>2, <2>3, <2>4, <2>5
<1> QED
  BY <1>3, <1>4

(* A slice has the words of the text from its start on.                    *)
CutFrom(S, text, start, n, slice) ==
  slice \in Seq(S) /\ Len(slice) = n /\ \A k \in 1 .. n : slice[k] = text[start + k - 1]

(* A slice inside a text is cut from it.                                   *)
LEMMA SliceInside ==
  ASSUME NEW S, NEW text \in Seq(S), NEW start \in Nat \ {0}, NEW end \in Nat, start <= end, end <= Len(text) + 1
  PROVE  CutFrom(S, text, start, end - start, Slice(text, start, end))
<1>1. Len(text) \in Nat
  BY LenProperties
<1>2. Slice(text, start, end) = IF start > end - 1 THEN <<>> ELSE SubSeq(text, start, end - 1)
  BY <1>1 DEF Slice
<1>3. CASE start > end - 1
  <2>1. end = start /\ Slice(text, start, end) = <<>>
    BY <1>2, <1>3
  <2> QED
    BY <2>1 DEF CutFrom
<1>4. CASE ~(start > end - 1)
  <2>1. \A i \in start .. end - 1 : text[i] \in S
    <3>1. \A i \in start .. end - 1 : i \in 1 .. Len(text)
      BY <1>1
    <3> QED
      BY <3>1, ElementOfSeq
  <2>2. /\ SubSeq(text, start, end - 1) \in Seq(S)
        /\ Len(SubSeq(text, start, end - 1)) = (end - 1) - start + 1
        /\ \A k \in 1 .. (end - 1) - start + 1 : SubSeq(text, start, end - 1)[k] = text[start + k - 1]
    <3>1. start \in Int /\ end - 1 \in Int
      OBVIOUS
    <3> QED
      BY <1>4, <2>1, <3>1, SubSeqProperties
  <2>3. (end - 1) - start + 1 = end - start
    OBVIOUS
  <2> QED
    BY <1>2, <1>4, <2>2, <2>3 DEF CutFrom
<1> QED
  BY <1>3, <1>4

(* Two slices of a text are equal when they have the same length and words.*)
LEMMA SlicesAgree ==
  ASSUME NEW S, NEW text \in Seq(S), NEW piece \in Seq(S), NEW start \in Nat \ {0},
         start + Len(piece) <= Len(text) + 1, CutFrom(S, text, start, Len(piece), piece)
  PROVE  Slice(text, start, start + Len(piece)) = piece
<1> DEFINE n == Len(piece)
           sl == Slice(text, start, start + n)
<1>1. n \in Nat /\ start + n \in Nat /\ start <= start + n /\ (start + n) - start = n
  BY LenProperties
<1>2. sl \in Seq(S) /\ Len(sl) = n /\ \A k \in 1 .. n : sl[k] = text[start + k - 1]
  <2> DEFINE e == start + n
  <2>1. e \in Nat /\ start <= e /\ e <= Len(text) + 1 /\ e - start = n
    BY <1>1
  <2> HIDE DEF e, n, sl
  <2>2. CutFrom(S, text, start, e - start, Slice(text, start, e))
    <3>1. text \in Seq(S) /\ start \in Nat \ {0}
      OBVIOUS
    <3> QED
      BY <2>1, <3>1, SliceInside
  <2> QED
    BY <2>1, <2>2 DEF e, sl, CutFrom
<1> HIDE DEF sl
<1>3. \A k \in 1 .. n : sl[k] = piece[k]
  BY <1>2 DEF CutFrom
<1> HIDE DEF n
<1>4. Len(piece) = n
  BY DEF n
<1>5. sl = piece
  BY <1>2, <1>3, <1>4, SeqEqual
<1> QED
  BY <1>5 DEF sl, n

(* Where a part is found it is found whole.                                *)
LEMMA FoundWhole ==
  ASSUME NEW S, NEW text \in Seq(S), NEW piece \in Seq(S), NEW i
  PROVE  i \in Found(text, piece) <=> /\ i \in Nat \ {0} /\ i + Len(piece) <= Len(text) + 1
                                     /\ Slice(text, i, i + Len(piece)) = piece
<1>1. Len(text) \in Nat /\ Len(piece) \in Nat
  BY LenProperties
<1> QED
  BY <1>1 DEF Found

(* What is found once is found in one place.                               *)
LEMMA FoundOnce ==
  ASSUME NEW S, NEW text \in Seq(S), NEW piece \in Seq(S), Cardinality(Found(text, piece)) = 1
  PROVE  \A i, j \in Found(text, piece) : i = j
<1>1. Len(text) \in Nat /\ Len(piece) \in Nat
  BY LenProperties
<1>2. IsFiniteSet(1 .. Len(text) + 1 - Len(piece))
  BY <1>1, FS_Interval
<1>3. Found(text, piece) \in SUBSET (1 .. Len(text) + 1 - Len(piece))
  BY DEF Found
<1>4. IsFiniteSet(Found(text, piece))
  BY <1>2, <1>3, FS_Subset
<1>5. \E m : Found(text, piece) = {m}
  BY <1>4, FS_Singleton
<1> QED
  BY <1>5

(* Anchors, and where one may point in a text.                             *)
PlacesOfNotes == (1 .. MaxTextWords) \X (1 .. MaxTextWords + 1)
Anchors == [place : PlacesOfNotes \cup {NoPlace}, quote : Seq(TextWords), before : Seq(TextWords),
            after : Seq(TextWords), status : {"anchored", "drifted", "lost"}]
AnchorOK(a) == a \in Anchors /\ (a.status = "lost" <=> a.place = NoPlace)
TextOK(text) == text \in Seq(TextWords) /\ Len(text) <= MaxTextWords

(* The text has the quote in its whole context, no piece of it twice.      *)
UniqueContext(a, text) ==
  /\ a.quote # <<>> /\ Lefts(a) \cup Rights(a) # {} /\ Homes(a, text) # {}
  /\ \A piece \in Lefts(a) \cup Rights(a) : Cardinality(Found(text, piece)) = 1

(* What relocate makes of an anchor in a text.                             *)
PointsIn(a, text, b) ==
  /\ AnchorOK(b)
  /\ b.status = "anchored" => Slice(text, b.place[1], b.place[2]) = b.quote
  /\ b.status = "drifted" => Slice(text, b.place[1], b.place[2]) # b.quote
  /\ UniqueContext(a, text) => b.status = "anchored" /\ b.place[1] \in Homes(a, text)

(* A place that relocate reports, and none.                                *)
PointAt(a, text, x, y) ==
  IF x = y THEN Lost(a) ELSE Anchored(text, x, y, a.quote, StatusOf(a, text, <<x, y>>))

(* The context of a place is text.                                         *)
LEMMA ContextIsText ==
  ASSUME NEW text \in Seq(TextWords), NEW i \in Int
  PROVE  ContextBefore(text, i) \in Seq(TextWords) /\ ContextAfter(text, i) \in Seq(TextWords)
<1>1. i - ContextSize \in Int /\ i + ContextSize \in Int
  BY TextAnchorAssumption
<1> QED
  BY <1>1, SliceIsText DEF ContextBefore, ContextAfter

(* An anchor made at a span of the text is an anchor there.                *)
LEMMA AnchoredIsOK ==
  ASSUME NEW text, TextOK(text), NEW quote \in Seq(TextWords), NEW x \in Nat \ {0}, NEW y \in Nat,
         x < y, y <= Len(text) + 1, NEW status \in {"anchored", "drifted"}
  PROVE  /\ AnchorOK(Anchored(text, x, y, quote, status))
         /\ Anchored(text, x, y, quote, status).place = <<x, y>>
         /\ Anchored(text, x, y, quote, status).status = status
         /\ Anchored(text, x, y, quote, status).quote = quote
<1>1. Len(text) \in Nat /\ MaxTextWords \in Nat /\ Len(text) <= MaxTextWords /\ text \in Seq(TextWords)
  BY LenProperties, TextAnchorAssumption DEF TextOK
<1>2. <<x, y>> \in PlacesOfNotes
  BY <1>1 DEF PlacesOfNotes
<1>3. <<x, y>> # NoPlace
  BY TextAnchorAssumption
<1>4. ContextBefore(text, x) \in Seq(TextWords) /\ ContextAfter(text, y) \in Seq(TextWords)
  BY <1>1, ContextIsText
<1> QED
  BY <1>2, <1>3, <1>4 DEF Anchored, AnchorOK, Anchors

(* A lost anchor is an anchor.                                             *)
LEMMA LostIsOK ==
  ASSUME NEW a, AnchorOK(a)
  PROVE  AnchorOK(Lost(a)) /\ Lost(a).status = "lost"
  BY DEF AnchorOK, Anchors, Lost

(* A reported span points, if it is the home where that is unique.         *)
LEMMA PointingIsOK ==
  ASSUME NEW a, AnchorOK(a), NEW text, TextOK(text), NEW x \in Nat \ {0}, NEW y \in Nat,
         x <= y, y <= Len(text) + 1,
         UniqueContext(a, text) => x # y /\ Slice(text, x, y) = a.quote /\ x \in Homes(a, text)
  PROVE  PointsIn(a, text, PointAt(a, text, x, y))
<1>1. CASE x = y
  <2>1. PointAt(a, text, x, y) = Lost(a)
    BY <1>1 DEF PointAt
  <2> QED
    BY <1>1, <2>1, LostIsOK DEF PointsIn
<1>2. CASE x # y
  <2> DEFINE status == StatusOf(a, text, <<x, y>>)
             b == Anchored(text, x, y, a.quote, status)
  <2>1. status = IF Slice(text, x, y) = a.quote THEN "anchored" ELSE "drifted"
    BY DEF StatusOf
  <2>2. status \in {"anchored", "drifted"} /\ x < y /\ a.quote \in Seq(TextWords)
    BY <1>2, <2>1 DEF AnchorOK, Anchors
  <2>3. PointAt(a, text, x, y) = b
    BY <1>2 DEF PointAt
  <2> HIDE DEF status
  <2>4. AnchorOK(b) /\ b.place = <<x, y>> /\ b.status = status /\ b.quote = a.quote
    <3> DEFINE q == a.quote
    <3>1. q \in Seq(TextWords) /\ b = Anchored(text, x, y, q, status)
      BY <2>2
    <3> HIDE DEF q, b
    <3>2. AnchorOK(b) /\ b.place = <<x, y>> /\ b.status = status /\ b.quote = q
      BY <2>2, <3>1, AnchoredIsOK
    <3> QED
      BY <3>2 DEF q
  <2> HIDE DEF b
  <2>5. b.place[1] = x /\ b.place[2] = y
    BY <2>4
  <2> QED
    BY <2>1, <2>3, <2>4, <2>5 DEF PointsIn
<1> QED
  BY <1>1, <1>2

-----------------------------------------------------------------------------
(* The context around a place: its pieces are found beside that place.     *)
LEMMA LeftsFound ==
  ASSUME NEW a \in Anchors, NEW text \in Seq(TextWords), NEW i \in 1 .. Len(text) + 1,
         ContextBefore(text, i) = a.before, NEW piece \in Lefts(a)
  PROVE  piece \in Seq(TextWords) /\ i - Len(piece) \in Found(text, piece)
<1> DEFINE b == a.before
           n == Len(text)
           first == IF i - ContextSize < 1 THEN 1 ELSE i - ContextSize
<1>1. /\ n \in Nat /\ ContextSize \in Nat /\ i \in Nat /\ i >= 1 /\ i <= n + 1
      /\ b \in Seq(TextWords) /\ Len(b) \in Nat /\ DOMAIN b = 1 .. Len(b)
  <2>1. b \in Seq(TextWords)
    BY DEF Anchors
  <2> HIDE DEF b
  <2> QED
    BY <2>1, LenProperties, TextAnchorAssumption
<1>2. PICK k \in DOMAIN b : piece = Slice(b, k, Len(b) + 1)
  BY DEF Lefts
<1>3. b = Slice(text, i - ContextSize, i)
  BY DEF ContextBefore
<1>4. first \in Nat \ {0} /\ first <= i
  BY <1>1
<1>5. b = Slice(text, first, i)
  <2>1. Slice(text, first, i) = Slice(text, i - ContextSize, i)
    BY <1>1 DEF Slice
  <2> HIDE DEF b, first
  <2> QED
    BY <1>3, <2>1
<1> HIDE DEF b, n, first
<1>6. CutFrom(TextWords, text, first, i - first, b)
  <2>1. i <= Len(text) + 1
    BY <1>1 DEF n
  <2> QED
    BY <1>1, <1>4, <1>5, <2>1, SliceInside
<1>7. CutFrom(TextWords, b, k, Len(b) + 1 - k, piece)
  <2>1. k \in Nat \ {0} /\ Len(b) + 1 \in Nat /\ k <= Len(b) + 1
    BY <1>1
  <2> QED
    BY <1>1, <1>2, <2>1, SliceInside
<1>8. /\ piece \in Seq(TextWords) /\ Len(b) = i - first /\ Len(piece) = Len(b) + 1 - k
      /\ k \in Nat /\ k >= 1 /\ k <= Len(b)
  BY <1>1, <1>6, <1>7 DEF CutFrom
<1> DEFINE l == Len(piece)
           s == i - l
           p == Len(b)
<1>9. s \in Nat \ {0} /\ s = first + k - 1 /\ s + l = i /\ l \in Nat
  <2>1. p = i - first /\ l = p + 1 - k /\ k \in Nat /\ k >= 1 /\ k <= p /\ i \in Nat
    BY <1>1, <1>8
  <2> HIDE DEF l, p
  <2> QED
    BY <1>4, <2>1, SMTT(30)
<1>10. CutFrom(TextWords, text, s, l, piece)
  <2> SUFFICES ASSUME NEW m \in 1 .. l PROVE text[s + m - 1] = piece[m]
    BY <1>8 DEF CutFrom
  <2>1. /\ l = p + 1 - k /\ p = i - first /\ k \in Nat /\ k >= 1 /\ k <= p /\ p \in Nat
        /\ first \in Nat /\ i \in Nat /\ s = first + k - 1
    BY <1>1, <1>4, <1>8, <1>9
  <2>2. piece[m] = b[k + m - 1]
    BY <1>7, <1>8 DEF CutFrom
  <2> HIDE DEF l, p, s
  <2>3. k + m - 1 \in 1 .. i - first
    BY <2>1, SMTT(30)
  <2>4. b[k + m - 1] = text[first + (k + m - 1) - 1]
    BY <1>6, <2>3 DEF CutFrom
  <2>5. first + (k + m - 1) - 1 = s + m - 1
    BY <2>1, SMTT(30)
  <2> QED
    BY <2>2, <2>4, <2>5
<1> HIDE DEF s
<1>11. s + Len(piece) <= Len(text) + 1 /\ s + Len(piece) = i
  BY <1>1, <1>9 DEF n
<1>12. Slice(text, s, s + Len(piece)) = piece
  BY <1>8, <1>9, <1>10, <1>11, SlicesAgree
<1> QED
  BY <1>8, <1>9, <1>11, <1>12, FoundWhole DEF s, l

(* The same behind a place.                                                *)
LEMMA RightsFound ==
  ASSUME NEW a \in Anchors, NEW text \in Seq(TextWords), NEW i \in 1 .. Len(text) + 1,
         ContextAfter(text, i) = a.after, NEW piece \in Rights(a)
  PROVE  piece \in Seq(TextWords) /\ i \in Found(text, piece)
<1> DEFINE b == a.after
           n == Len(text)
           last == IF i + ContextSize > n + 1 THEN n + 1 ELSE i + ContextSize
<1>1. /\ n \in Nat /\ ContextSize \in Nat /\ i \in Nat \ {0} /\ i <= n + 1
      /\ b \in Seq(TextWords) /\ Len(b) \in Nat /\ DOMAIN b = 1 .. Len(b)
  <2>1. b \in Seq(TextWords)
    BY DEF Anchors
  <2> HIDE DEF b
  <2> QED
    BY <2>1, LenProperties, TextAnchorAssumption
<1>2. PICK k \in DOMAIN b : piece = Slice(b, 1, k + 1)
  BY DEF Rights
<1>3. b = Slice(text, i, i + ContextSize)
  BY DEF ContextAfter
<1>4. last \in Nat /\ i <= last /\ last <= n + 1
  BY <1>1
<1>5. b = Slice(text, i, last)
  <2>1. Slice(text, i, last) = Slice(text, i, i + ContextSize)
    BY <1>1 DEF Slice
  <2> HIDE DEF b, last
  <2> QED
    BY <1>3, <2>1
<1> HIDE DEF b, n, last
<1>6. CutFrom(TextWords, text, i, last - i, b)
  <2>1. last <= Len(text) + 1
    BY <1>4 DEF n
  <2> QED
    BY <1>1, <1>4, <1>5, <2>1, SliceInside
<1>7. CutFrom(TextWords, b, 1, k, piece)
  <2>1. 1 \in Nat \ {0} /\ k + 1 \in Nat /\ 1 <= k + 1 /\ k + 1 <= Len(b) + 1 /\ (k + 1) - 1 = k
    BY <1>1
  <2> DEFINE e == k + 1
  <2>2. e \in Nat /\ 1 <= e /\ e <= Len(b) + 1 /\ e - 1 = k /\ piece = Slice(b, 1, e)
    BY <1>2, <2>1
  <2> HIDE DEF e
  <2>3. CutFrom(TextWords, b, 1, e - 1, Slice(b, 1, e))
    BY <1>1, <2>1, <2>2, SliceInside
  <2> QED
    BY <2>2, <2>3
<1>8. /\ piece \in Seq(TextWords) /\ Len(b) = last - i /\ Len(piece) = k
      /\ k \in Nat /\ k >= 1 /\ k <= Len(b)
  BY <1>1, <1>6, <1>7 DEF CutFrom
<1>9. CutFrom(TextWords, text, i, Len(piece), piece)
  <2> SUFFICES ASSUME NEW m \in 1 .. Len(piece) PROVE text[i + m - 1] = piece[m]
    BY <1>8 DEF CutFrom
  <2>1. m \in 1 .. k /\ m \in 1 .. last - i
    BY <1>8
  <2>2. piece[m] = b[1 + m - 1] /\ b[m] = text[i + m - 1]
    BY <1>6, <1>7, <2>1 DEF CutFrom
  <2> QED
    BY <2>1, <2>2
<1>10. i + Len(piece) <= Len(text) + 1
  BY <1>1, <1>4, <1>8 DEF n
<1>11. Slice(text, i, i + Len(piece)) = piece
  BY <1>1, <1>8, <1>9, <1>10, SlicesAgree
<1> QED
  BY <1>1, <1>8, <1>10, <1>11, FoundWhole

(* Whoever has the context beside a place has that place, when no piece of *)
(* the context is found twice.                                             *)
LEMMA HomesAreText ==
  ASSUME NEW a \in Anchors, NEW text \in Seq(TextWords), NEW h \in Homes(a, text), a.quote # <<>>
  PROVE  /\ h \in Nat \ {0} /\ Len(a.quote) \in Nat \ {0} /\ h + Len(a.quote) <= Len(text) + 1
         /\ Slice(text, h, h + Len(a.quote)) = a.quote /\ Len(text) \in Nat
         /\ ContextBefore(text, h) = a.before /\ ContextAfter(text, h + Len(a.quote)) = a.after
         /\ \A piece \in Lefts(a) : piece \in Seq(TextWords) /\ h - Len(piece) \in Found(text, piece)
         /\ \A piece \in Rights(a) : piece \in Seq(TextWords) /\ h + Len(a.quote) \in Found(text, piece)
<1>1. a.quote \in Seq(TextWords)
  BY DEF Anchors
<1>2. h \in Found(text, a.quote) /\ ContextBefore(text, h) = a.before /\ ContextAfter(text, h + Len(a.quote)) = a.after
  BY DEF Homes
<1>3. /\ h \in Nat \ {0} /\ h + Len(a.quote) <= Len(text) + 1 /\ Slice(text, h, h + Len(a.quote)) = a.quote
  BY <1>1, <1>2, FoundWhole
<1>4. Len(a.quote) \in Nat \ {0} /\ Len(text) \in Nat
  BY <1>1, EmptySeq, LenProperties
<1>5. h \in 1 .. Len(text) + 1 /\ h + Len(a.quote) \in 1 .. Len(text) + 1
  BY <1>3, <1>4
<1>6. \A piece \in Lefts(a) : piece \in Seq(TextWords) /\ h - Len(piece) \in Found(text, piece)
  BY <1>2, <1>5, LeftsFound
<1>7. \A piece \in Rights(a) : piece \in Seq(TextWords) /\ h + Len(a.quote) \in Found(text, piece)
  BY <1>2, <1>5, RightsFound
<1> QED
  BY <1>2, <1>3, <1>4, <1>6, <1>7

(* How well a span fits an anchor.                                         *)
LEMMA DistanceIsNat ==
  ASSUME NEW a \in Anchors, NEW i \in Nat
  PROVE  Distance(a, i) \in Nat
<1>1. MaxTextWords \in Nat /\ (a.place = NoPlace \/ a.place \in PlacesOfNotes)
  BY TextAnchorAssumption DEF Anchors
<1>2. a.place \in PlacesOfNotes => a.place[1] \in Nat
  BY <1>1 DEF PlacesOfNotes
<1> QED
  BY <1>1, <1>2 DEF Distance

(* Context similarity is a percentage, full for the same context.          *)
LEMMA ContextIsPercent ==
  ASSUME NEW a \in Anchors, NEW text \in Seq(TextWords), NEW s, s[1] \in Int, s[2] \in Int
  PROVE  LET c == ContextSimilarity(a, text, s)
             full == /\ a.before = <<>> \/ ContextBefore(text, s[1]) = a.before
                     /\ a.after = <<>> \/ ContextAfter(text, s[2]) = a.after
         IN  c \in 0 .. 100 /\ (c = 100 <=> full)
<1> DEFINE left  == Similarity(a.before, ContextBefore(text, s[1]))
           right == Similarity(a.after, ContextAfter(text, s[2]))
<1>1. /\ a.before \in Seq(TextWords) /\ a.after \in Seq(TextWords)
      /\ ContextBefore(text, s[1]) \in Seq(TextWords) /\ ContextAfter(text, s[2]) \in Seq(TextWords)
  BY ContextIsText DEF Anchors
<1>2. /\ left \in 0 .. 100 /\ (left = 100 <=> a.before = ContextBefore(text, s[1]))
      /\ right \in 0 .. 100 /\ (right = 100 <=> a.after = ContextAfter(text, s[2]))
  BY <1>1, SimilarityIsPercent
<1>3. ContextSimilarity(a, text, s) = IF a.before = <<>> /\ a.after = <<>> THEN 100
      ELSE IF a.before = <<>> THEN right ELSE IF a.after = <<>> THEN left
      ELSE (left + right) \div 2
  BY DEF ContextSimilarity
<1> HIDE DEF left, right
<1>4. (left + right) \div 2 \in 0 .. 100 /\ ((left + right) \div 2 = 100 <=> left = 100 /\ right = 100)
  BY <1>2
<1> QED
  BY <1>2, <1>3, <1>4

(* The combined similarity, and when it is full.                           *)
Full == 9500
FitOf(a, text, s) ==
  /\ Combined(a, text, s) \in Nat /\ Combined(a, text, s) <= Full
  /\ ContextSimilarity(a, text, s) \in Nat /\ ContextSimilarity(a, text, s) <= Full
  /\ Combined(a, text, s) = Full <=> /\ Similarity(a.quote, Slice(text, s[1], s[2])) = 100
                                     /\ ContextSimilarity(a, text, s) = 100

(* The combined similarity weighs quote and context.                       *)
LEMMA CombinedIsSum ==
  ASSUME NEW a \in Anchors, NEW text \in Seq(TextWords), NEW s, s[1] \in Int, s[2] \in Int
  PROVE  FitOf(a, text, s)
<1> DEFINE sl == Slice(text, s[1], s[2])
           q == Similarity(a.quote, sl)
           c == ContextSimilarity(a, text, s)
           v == Combined(a, text, s)
<1>1. c \in 0 .. 100
  BY ContextIsPercent
<1>2. a.quote \in Seq(TextWords) /\ sl \in Seq(TextWords)
  BY SliceIsText DEF Anchors
<1>3. v = 68 * q + 27 * c
  BY DEF Combined
<1> HIDE DEF sl, v, c
<1>4. q \in 0 .. 100
  <2> DEFINE w == a.quote
  <2>1. w \in Seq(TextWords) /\ sl \in Seq(TextWords)
    BY <1>2
  <2>2. q = Similarity(w, sl)
    OBVIOUS
  <2> HIDE DEF w, q
  <2>3. Similarity(w, sl) \in 0 .. 100
    BY <2>1, SimilarityIsPercent
  <2> QED
    BY <2>2, <2>3
<1> HIDE DEF q
<1>5. v \in Nat /\ v <= 9500 /\ (v = 9500 <=> q = 100 /\ c = 100) /\ c \in Nat /\ c <= 9500
  BY <1>1, <1>3, <1>4
<1>6. v \in Nat /\ v <= Full /\ (v = Full <=> q = 100 /\ c = 100) /\ c \in Nat /\ c <= Full
  BY <1>5 DEF Full
<1> QED
  BY <1>6 DEF FitOf, v, q, c, sl

(* The best-ranked span is one of the spans, none fits better.             *)
LEMMA RankedIsBest ==
  ASSUME NEW a \in Anchors, NEW text \in Seq(TextWords), NEW spans, spans # {},
         \A s \in spans : s[1] \in Nat /\ s[2] \in Nat
  PROVE  /\ Ranked(a, text, spans) \in spans
         /\ \A s \in spans : Combined(a, text, s) <= Combined(a, text, Ranked(a, text, spans))
<1> DEFINE C(s) == Combined(a, text, s)
           D(s) == ContextSimilarity(a, text, s)
           rank == [s \in spans |-> <<0 - C(s), 0 - D(s), Distance(a, s[1]), s[1], s[2]>>]
           r == Ranked(a, text, spans)
<1>1. r = Best(spans, rank)
  BY DEF Ranked
<1>2. ASSUME NEW s \in spans
      PROVE  /\ C(s) \in Nat /\ C(s) <= Full /\ D(s) \in Nat /\ D(s) <= Full /\ Full \in Nat
             /\ Distance(a, s[1]) \in Nat
  <2>1. s[1] \in Nat /\ s[1] \in Int /\ s[2] \in Int
    OBVIOUS
  <2>2. FitOf(a, text, s)
    BY <2>1, CombinedIsSum
  <2>3. Distance(a, s[1]) \in Nat
    BY <2>1, DistanceIsNat
  <2> QED
    BY <2>2, <2>3 DEF FitOf, Full
<1> HIDE DEF C, D, r
<1>3. RanksOf(spans, rank, 5, Full)
  <2> SUFFICES ASSUME NEW s \in spans
               PROVE  DOMAIN rank[s] = 1 .. 5 /\ \A i \in 1 .. 5 : rank[s][i] \in Int /\ rank[s][i] >= 0 - Full
    BY DEF RanksOf, Full
  <2> DEFINE t == rank[s]
  <2>1. t = <<0 - C(s), 0 - D(s), Distance(a, s[1]), s[1], s[2]>>
    OBVIOUS
  <2> HIDE DEF t
  <2>2. /\ DOMAIN t = 1 .. 5 /\ t[1] = 0 - C(s) /\ t[2] = 0 - D(s)
        /\ t[3] = Distance(a, s[1]) /\ t[4] = s[1] /\ t[5] = s[2]
    BY <2>1
  <2>3. /\ t[1] \in Int /\ t[1] >= 0 - Full /\ t[2] \in Int /\ t[2] >= 0 - Full
        /\ t[3] \in Nat /\ t[4] \in Nat /\ t[5] \in Nat /\ Full \in Nat
    <3> DEFINE x == C(s)
               y == D(s)
    <3>1. x \in Nat /\ x <= Full /\ y \in Nat /\ y <= Full /\ t[1] = 0 - x /\ t[2] = 0 - y /\ Full \in Nat
      BY <1>2, <2>2
    <3> HIDE DEF x, y
    <3>2. t[1] \in Int /\ t[1] >= 0 - Full /\ t[2] \in Int /\ t[2] >= 0 - Full
      BY <3>1
    <3>3. t[3] \in Nat /\ t[4] \in Nat /\ t[5] \in Nat
      BY <1>2, <2>2
    <3> QED
      BY <3>1, <3>2, <3>3
  <2>4. \A i \in 1 .. 5 : t[i] \in Int /\ t[i] >= 0 - Full
    BY <2>3
  <2> QED
    BY <2>2, <2>4 DEF t
<1>4. \A s \in spans : DOMAIN rank[s] = 1 .. 5 /\ rank[s][1] = 0 - C(s)
  OBVIOUS
<1> HIDE DEF rank
<1>5. r \in spans /\ \A s \in spans : ~Less(rank[s], rank[r])
  <2>1. Best(spans, rank) \in spans /\ \A s \in spans : ~Less(rank[s], rank[Best(spans, rank)])
    BY <1>3, BestIsBest
  <2> QED
    BY <1>1, <2>1
<1>6. ASSUME NEW s \in spans
      PROVE  C(s) <= C(r)
  <2>1. ~(rank[s][1] < rank[r][1])
    <3>1. 1 \in DOMAIN rank[s] /\ \A j \in 1 .. 1 - 1 : rank[s][j] = rank[r][j]
      BY <1>4
    <3> QED
      BY <1>5, <3>1 DEF Less
  <2> DEFINE x == C(s)
             y == C(r)
  <2>2. rank[s][1] = 0 - x /\ rank[r][1] = 0 - y
    BY <1>4, <1>5
  <2>3. x \in Nat /\ y \in Nat
    BY <1>2, <1>5
  <2> HIDE DEF x, y
  <2>4. x <= y
    BY <2>1, <2>2, <2>3
  <2> QED
    BY <2>4 DEF x, y
<1> QED
  BY <1>5, <1>6 DEF r, C

(* The boundaries on both sides, and on one.                               *)
LEMMA PiecesAreTexts ==
  ASSUME NEW a \in Anchors
  PROVE  /\ \A piece \in Lefts(a) \cup Rights(a) : piece \in Seq(TextWords) /\ Len(piece) \in Nat
         /\ \A piece \in Lefts(a) : Len(piece) <= Len(a.before)
         /\ \A piece \in Rights(a) : Len(piece) <= Len(a.after)
         /\ Len(a.before) \in Nat /\ Len(a.after) \in Nat
<1>1. a.before \in Seq(TextWords) /\ a.after \in Seq(TextWords)
  BY DEF Anchors
<1>2. Len(a.before) \in Nat /\ Len(a.after) \in Nat /\ DOMAIN a.before = 1 .. Len(a.before) /\ DOMAIN a.after = 1 .. Len(a.after)
  BY <1>1, LenProperties
<1>3. ASSUME NEW s \in Seq(TextWords), NEW i \in 1 .. Len(s)
      PROVE  /\ Slice(s, i, Len(s) + 1) \in Seq(TextWords) /\ Len(Slice(s, i, Len(s) + 1)) <= Len(s)
             /\ Slice(s, 1, i + 1) \in Seq(TextWords) /\ Len(Slice(s, 1, i + 1)) <= Len(s)
  <2>1. Len(s) \in Nat
    BY LenProperties
  <2> DEFINE e == Len(s) + 1
             f == i + 1
             l == Len(s)
  <2>2. /\ i \in Nat \ {0} /\ e \in Nat /\ i <= e /\ e <= Len(s) + 1 /\ e - i <= Len(s)
        /\ 1 \in Nat \ {0} /\ f \in Nat /\ 1 <= f /\ f <= Len(s) + 1 /\ f - 1 <= Len(s)
    BY <2>1
  <2> HIDE DEF e, f
  <2>3. CutFrom(TextWords, s, i, e - i, Slice(s, i, e))
    BY <2>2, SliceInside
  <2>4. CutFrom(TextWords, s, 1, f - 1, Slice(s, 1, f))
    BY <2>2, SliceInside
  <2> QED
    BY <2>2, <2>3, <2>4 DEF CutFrom, e, f
<1>4. \A piece \in Lefts(a) : piece \in Seq(TextWords) /\ Len(piece) <= Len(a.before)
  BY <1>1, <1>2, <1>3 DEF Lefts
<1>5. \A piece \in Rights(a) : piece \in Seq(TextWords) /\ Len(piece) <= Len(a.after)
  BY <1>1, <1>2, <1>3 DEF Rights
<1> QED
  BY <1>2, <1>4, <1>5, LenProperties

(* Both boundaries give the span of one of their matches.                  *)
LEMMA BothAreBetween ==
  ASSUME NEW a \in Anchors, NEW text \in Seq(TextWords), BothSides(a, text) # {}
  PROVE  \E m \in Between(a, text) : BothSides(a, text) = {<<m.start, m.end>>}
<1> DEFINE matches == Between(a, text)
           rank == [n \in matches |-> BetweenRank(a, n)]
           m == Best(matches, rank)
           K == Len(a.before) + Len(a.after)
<1>1. matches # {} /\ BothSides(a, text) = {<<m.start, m.end>>}
  BY DEF BothSides
<1>2. /\ Len(text) \in Nat /\ Len(a.quote) \in Nat /\ K \in Nat
  BY LenProperties, PiecesAreTexts DEF Anchors
<1>3. ASSUME NEW n \in matches
      PROVE  /\ n.start \in Nat /\ n.end \in Nat /\ n.start <= n.end
             /\ Len(n.left) \in Nat /\ Len(n.right) \in Nat /\ Len(n.left) + Len(n.right) <= K
  <2>1. /\ n.left \in Lefts(a) /\ n.right \in Rights(a) /\ n.start \in 1 .. Len(text) + 1
        /\ n.end \in 1 .. Len(text) + 1 /\ n.start <= n.end
    BY DEF Between
  <2>2. /\ Len(n.left) \in Nat /\ Len(n.right) \in Nat /\ Len(n.left) <= Len(a.before)
        /\ Len(n.right) <= Len(a.after) /\ Len(a.before) \in Nat /\ Len(a.after) \in Nat
    BY <2>1, PiecesAreTexts
  <2>3. n.start \in Nat /\ n.end \in Nat
    BY <1>2, <2>1
  <2>4. Len(n.left) + Len(n.right) <= K
    <3> DEFINE l == Len(n.left)
               u == Len(n.right)
               lb == Len(a.before)
               ub == Len(a.after)
    <3>1. l \in Nat /\ u \in Nat /\ l <= lb /\ u <= ub /\ lb \in Nat /\ ub \in Nat /\ K = lb + ub
      BY <2>2
    <3> HIDE DEF l, u, lb, ub, K
    <3>2. l + u <= K
      BY <3>1
    <3> QED
      BY <3>2 DEF l, u
  <2> QED
    BY <2>1, <2>2, <2>3, <2>4
<1> HIDE DEF K
<1>4. RanksOf(matches, rank, 6, K)
  <2> SUFFICES ASSUME NEW n \in matches
               PROVE  DOMAIN rank[n] = 1 .. 6 /\ \A i \in 1 .. 6 : rank[n][i] \in Int /\ rank[n][i] >= 0 - K
    BY <1>2 DEF RanksOf
  <2> DEFINE t == rank[n]
  <2>1. t = <<0 - (Len(n.left) + Len(n.right)), Distance(a, n.start), n.end - n.start,
              Differs(n.end - n.start, Len(a.quote)), n.start, n.end>>
    BY DEF BetweenRank
  <2> HIDE DEF t
  <2>2. /\ DOMAIN t = 1 .. 6 /\ t[1] = 0 - (Len(n.left) + Len(n.right)) /\ t[2] = Distance(a, n.start)
        /\ t[3] = n.end - n.start /\ t[4] = Differs(n.end - n.start, Len(a.quote))
        /\ t[5] = n.start /\ t[6] = n.end
    BY <2>1
  <2>3. /\ Distance(a, n.start) \in Nat /\ n.start \in Nat /\ n.end \in Nat /\ n.end - n.start \in Nat
        /\ Len(n.left) \in Nat /\ Len(n.right) \in Nat /\ Len(n.left) + Len(n.right) <= K
    <3>1. /\ n.start \in Nat /\ n.end \in Nat /\ n.start <= n.end
          /\ Len(n.left) \in Nat /\ Len(n.right) \in Nat /\ Len(n.left) + Len(n.right) <= K
      BY <1>3
    <3>2. n.end - n.start \in Nat
      BY <3>1
    <3>3. Distance(a, n.start) \in Nat
      BY <3>1, DistanceIsNat
    <3> QED
      BY <3>1, <3>2, <3>3
  <2>4. Differs(n.end - n.start, Len(a.quote)) \in Nat
    BY <1>2, <2>3 DEF Differs
  <2>5. /\ t[1] \in Int /\ t[1] >= 0 - K /\ t[2] \in Nat /\ t[3] \in Nat /\ t[4] \in Nat /\ t[5] \in Nat /\ t[6] \in Nat
    <3> DEFINE l == Len(n.left)
               u == Len(n.right)
               x == l + u
    <3>1. x \in Nat /\ x <= K /\ t[1] = 0 - x
      <4>1. l \in Nat /\ u \in Nat /\ l + u <= K /\ t[1] = 0 - (l + u)
        BY <2>2, <2>3
      <4> HIDE DEF l, u
      <4> QED
        BY <4>1
    <3> HIDE DEF x
    <3>2. t[1] \in Int /\ t[1] >= 0 - K
      BY <1>2, <3>1
    <3>3. t[2] \in Nat /\ t[3] \in Nat /\ t[4] \in Nat /\ t[5] \in Nat /\ t[6] \in Nat
      BY <2>2, <2>3, <2>4
    <3> QED
      BY <3>2, <3>3
  <2>6. \A i \in 1 .. 6 : t[i] \in Int /\ t[i] >= 0 - K
    BY <1>2, <2>5, SMTT(30)
  <2> QED
    BY <2>2, <2>6 DEF t
<1> HIDE DEF matches, rank
<1>5. m \in matches
  BY <1>1, <1>4, BestIsBest
<1> QED
  BY <1>1, <1>5 DEF matches

(* One boundary gives a span of the text.                                  *)
LEMMA OneIsSpan ==
  ASSUME NEW a, AnchorOK(a), NEW text \in Seq(TextWords), OneSide(a, text) # {}
  PROVE  \E x, y \in 1 .. Len(text) + 1 : x <= y /\ OneSide(a, text) = {<<x, y>>}
<1> DEFINE ends == {m \in [by : Rights(a), at : 1 .. Len(text) + 1] :
                 Len(m.by) >= MinStrength /\ m.at \in Found(text, m.by) /\ m.at - 1 <= MaxGap}
           starts == {m \in [by : Lefts(a), at : 1 .. Len(text) + 1] :
                   /\ Len(m.by) >= MinStrength /\ m.at - Len(m.by) \in Found(text, m.by)
                   /\ Len(text) + 1 - m.at <= MaxGap}
           re == [m \in ends |-> <<0 - Len(m.by), m.at>>]
           rs == [m \in starts |-> <<0 - Len(m.by), Distance(a, m.at), m.at>>]
<1>1. \/ ends # {} /\ OneSide(a, text) = {<<1, Best(ends, re).at>>}
      \/ starts # {} /\ OneSide(a, text) = {<<Best(starts, rs).at, Len(text) + 1>>}
  BY DEF OneSide
<1>2. Len(text) \in Nat /\ a \in Anchors /\ Len(a.before) \in Nat /\ Len(a.after) \in Nat
  BY LenProperties, PiecesAreTexts DEF AnchorOK
<1>3. \A m \in ends : m.at \in 1 .. Len(text) + 1 /\ Len(m.by) \in Nat /\ Len(m.by) <= Len(a.after)
  BY <1>2, PiecesAreTexts
<1>4. \A m \in starts : /\ m.at \in 1 .. Len(text) + 1 /\ Len(m.by) \in Nat /\ Len(m.by) <= Len(a.before)
                        /\ Distance(a, m.at) \in Nat
  BY <1>2, PiecesAreTexts, DistanceIsNat
<1> HIDE DEF ends, starts
<1>5. RanksOf(ends, re, 2, Len(a.after))
  <2> SUFFICES ASSUME NEW m \in ends
               PROVE  DOMAIN re[m] = 1 .. 2 /\ \A i \in 1 .. 2 : re[m][i] \in Int /\ re[m][i] >= 0 - Len(a.after)
    BY <1>2 DEF RanksOf
  <2>1. DOMAIN re[m] = 1 .. 2 /\ re[m][1] = 0 - Len(m.by) /\ re[m][2] = m.at
    OBVIOUS
  <2> HIDE DEF re
  <2> QED
    BY <1>2, <1>3, <2>1, SMTT(30)
<1>6. RanksOf(starts, rs, 3, Len(a.before))
  <2> SUFFICES ASSUME NEW m \in starts
               PROVE  DOMAIN rs[m] = 1 .. 3 /\ \A i \in 1 .. 3 : rs[m][i] \in Int /\ rs[m][i] >= 0 - Len(a.before)
    BY <1>2 DEF RanksOf
  <2>1. DOMAIN rs[m] = 1 .. 3 /\ rs[m][1] = 0 - Len(m.by) /\ rs[m][2] = Distance(a, m.at) /\ rs[m][3] = m.at
    OBVIOUS
  <2> HIDE DEF rs
  <2> QED
    BY <1>2, <1>4, <2>1, SMTT(30)
<1> HIDE DEF re, rs
<1>7. CASE ends # {} /\ OneSide(a, text) = {<<1, Best(ends, re).at>>}
  <2>1. Best(ends, re) \in ends
    BY <1>5, <1>7, BestIsBest
  <2>2. Best(ends, re).at \in 1 .. Len(text) + 1
    BY <1>3, <2>1
  <2> QED
    BY <1>2, <1>7, <2>2
<1>8. CASE starts # {} /\ OneSide(a, text) = {<<Best(starts, rs).at, Len(text) + 1>>}
  <2>1. Best(starts, rs) \in starts
    BY <1>6, <1>8, BestIsBest
  <2>2. Best(starts, rs).at \in 1 .. Len(text) + 1
    BY <1>4, <2>1
  <2> QED
    BY <1>2, <1>8, <2>2
<1> QED
  BY <1>1, <1>7, <1>8

(* An anchor that is found in place stands at a home, if its context is    *)
(* unique.                                                                 *)
LEMMA StaysHome ==
  ASSUME NEW a, AnchorOK(a), NEW text, TextOK(text), StaysInPlace(a, text), a.quote # <<>>,
         UniqueContext(a, text)
  PROVE  a.place[1] \in Homes(a, text)
<1> DEFINE x == a.place[1]
           y == a.place[2]
           q == a.quote
           lb == Len(a.before)
           la == Len(a.after)
<1>1. /\ a \in Anchors /\ text \in Seq(TextWords) /\ q \in Seq(TextWords)
      /\ a.before \in Seq(TextWords) /\ a.after \in Seq(TextWords)
  BY DEF AnchorOK, Anchors, TextOK
<1>2. /\ x \in Nat \ {0} /\ y \in Nat /\ y = x + Len(q) /\ Slice(text, x, y) = q
      /\ Slice(text, x - lb, x) = a.before /\ Slice(text, y, y + la) = a.after
  BY TextAnchorAssumption, SMTT(30) DEF StaysInPlace, AnchorOK, Anchors, PlacesOfNotes
<1>3. PICK h : h \in Homes(a, text)
  BY DEF UniqueContext
<1>4. /\ h \in Nat \ {0} /\ Len(q) \in Nat \ {0} /\ Len(text) \in Nat
      /\ \A piece \in Lefts(a) : piece \in Seq(TextWords) /\ h - Len(piece) \in Found(text, piece)
      /\ \A piece \in Rights(a) : piece \in Seq(TextWords) /\ h + Len(q) \in Found(text, piece)
  BY <1>1, <1>3, HomesAreText
<1>5. /\ lb \in Nat /\ la \in Nat /\ DOMAIN a.before = 1 .. lb /\ DOMAIN a.after = 1 .. la
  BY <1>1, LenProperties
<1> HIDE DEF x, y, q, lb, la
<1>6. CASE a.before # <<>>
  <2>1. lb >= 1
    BY <1>1, <1>5, <1>6, EmptySeq DEF lb
  <2> DEFINE piece == a.before
  <2>2. piece \in Lefts(a)
    <3>1. Slice(a.before, 1, lb + 1) = a.before
      <4>1. 1 + Len(a.before) <= Len(a.before) + 1 /\ 1 + Len(a.before) = lb + 1 /\ 1 \in Nat \ {0}
        BY <1>5 DEF lb
      <4>2. CutFrom(TextWords, a.before, 1, Len(a.before), a.before)
        BY <1>1, <1>5 DEF CutFrom, lb
      <4>3. Slice(a.before, 1, 1 + Len(a.before)) = a.before
        BY <1>1, <4>1, <4>2, SlicesAgree
      <4> QED
        BY <4>1, <4>3
    <3>2. 1 \in DOMAIN a.before
      BY <1>5, <2>1
    <3> QED
      BY <3>1, <3>2 DEF Lefts, lb
  <2>3. x - lb >= 1 /\ x <= Len(text) + 1
    <3> DEFINE s == x - lb
    <3>1. s \in Int /\ x \in Int /\ x - s = lb
      BY <1>2, <1>5
    <3>2. Len(Slice(text, s, x)) = x - s /\ Slice(text, s, x) # <<>>
      BY <1>2, <1>6, <3>1 DEF lb
    <3> HIDE DEF s
    <3>3. s >= 1 /\ x <= Len(text) + 1
      BY <1>1, <3>1, <3>2, SliceIsText
    <3> QED
      BY <3>3 DEF s
  <2>4. x - lb \in Found(text, piece)
    <3> DEFINE s == x - lb
    <3>1. s \in Nat \ {0} /\ s + Len(piece) = x /\ s + Len(piece) <= Len(text) + 1
      BY <1>2, <1>5, <2>3 DEF lb
    <3>2. Slice(text, s, s + Len(piece)) = piece
      BY <1>2, <3>1
    <3> HIDE DEF s
    <3>3. s \in Found(text, piece)
      BY <1>1, <3>1, <3>2, FoundWhole
    <3> QED
      BY <3>3 DEF s
  <2>5. h - lb \in Found(text, piece)
    BY <1>4, <2>2 DEF lb
  <2>6. Cardinality(Found(text, piece)) = 1
    BY <2>2 DEF UniqueContext
  <2> HIDE DEF piece
  <2>7. x - lb = h - lb
    BY <1>1, <2>4, <2>5, <2>6, FoundOnce DEF piece
  <2>8. x = h
    BY <1>2, <1>4, <1>5, <2>7
  <2> QED
    BY <1>3, <2>8 DEF x
<1>7. CASE a.before = <<>>
  <2> DEFINE piece == a.after
  <2>1. Lefts(a) = {}
    <3>1. DOMAIN a.before = {}
      BY <1>7
    <3> QED
      BY <3>1 DEF Lefts
  <2>2. piece # <<>>
    <3>1. SUFFICES ASSUME piece = <<>> PROVE FALSE
      OBVIOUS
    <3>2. DOMAIN a.after = {}
      BY <3>1
    <3>3. Rights(a) = {}
      BY <3>2 DEF Rights
    <3> QED
      BY <2>1, <3>3 DEF UniqueContext
  <2>3. la >= 1
    BY <1>1, <1>5, <2>2, EmptySeq DEF la
  <2>4. piece \in Rights(a)
    <3>1. Slice(a.after, 1, la + 1) = a.after
      <4>1. 1 + Len(a.after) <= Len(a.after) + 1 /\ 1 + Len(a.after) = la + 1 /\ 1 \in Nat \ {0}
        BY <1>5 DEF la
      <4>2. CutFrom(TextWords, a.after, 1, Len(a.after), a.after)
        BY <1>1, <1>5 DEF CutFrom, la
      <4>3. Slice(a.after, 1, 1 + Len(a.after)) = a.after
        BY <1>1, <4>1, <4>2, SlicesAgree
      <4> QED
        BY <4>1, <4>3
    <3>2. la \in DOMAIN a.after
      BY <1>5, <2>3
    <3> QED
      BY <3>1, <3>2 DEF Rights
  <2>5. y \in Found(text, piece)
    <3> DEFINE e == y + la
    <3>1. y \in Int /\ e \in Int /\ e - y = la /\ y \in Nat \ {0} /\ e = y + Len(piece)
      BY <1>2, <1>4, <1>5, SMTT(30) DEF la
    <3>2. Slice(text, y, e) = piece /\ Len(Slice(text, y, e)) = e - y /\ Slice(text, y, e) # <<>>
      BY <1>2, <2>2, <3>1 DEF la
    <3> HIDE DEF e
    <3>3. e <= Len(text) + 1
      BY <1>1, <3>1, <3>2, SliceIsText
    <3> QED
      BY <1>1, <3>1, <3>2, <3>3, FoundWhole
  <2>6. h + Len(q) \in Found(text, piece)
    BY <1>4, <2>4
  <2>7. Cardinality(Found(text, piece)) = 1
    BY <2>4 DEF UniqueContext
  <2> HIDE DEF piece
  <2>8. y = h + Len(q)
    BY <1>1, <2>5, <2>6, <2>7, FoundOnce DEF piece
  <2>9. x = h
    BY <1>2, <1>4, <2>8
  <2> QED
    BY <1>3, <2>9 DEF x
<1> QED
  BY <1>6, <1>7

(* A span between two boundaries is the home, if the context is unique.    *)
LEMMA BetweenIsHome ==
  ASSUME NEW a \in Anchors, NEW text \in Seq(TextWords), UniqueContext(a, text),
         NEW m \in Between(a, text)
  PROVE  m.start \in Homes(a, text) /\ m.end = m.start + Len(a.quote)
<1>1. PICK h : h \in Homes(a, text)
  BY DEF UniqueContext
<1>2. /\ h \in Nat \ {0} /\ Len(a.quote) \in Nat
      /\ \A piece \in Lefts(a) : piece \in Seq(TextWords) /\ h - Len(piece) \in Found(text, piece)
      /\ \A piece \in Rights(a) : piece \in Seq(TextWords) /\ h + Len(a.quote) \in Found(text, piece)
  BY <1>1, HomesAreText DEF UniqueContext
<1> DEFINE l == m.left
           r == m.right
<1>3. /\ l \in Lefts(a) /\ r \in Rights(a) /\ m.start - Len(l) \in Found(text, l) /\ m.end \in Found(text, r)
      /\ m.start \in 1 .. Len(text) + 1 /\ m.end \in 1 .. Len(text) + 1
  BY DEF Between
<1>4. /\ Cardinality(Found(text, l)) = 1 /\ Cardinality(Found(text, r)) = 1
  BY <1>3 DEF UniqueContext
<1>5. l \in Seq(TextWords) /\ r \in Seq(TextWords) /\ Len(l) \in Nat
  BY <1>3, PiecesAreTexts
<1>6. m.start \in Nat /\ m.end \in Nat
  <2>1. Len(text) \in Nat
    BY LenProperties
  <2> QED
    BY <1>3, <2>1
<1> HIDE DEF l, r
<1>7. m.start - Len(l) = h - Len(l)
  BY <1>2, <1>3, <1>4, <1>5, FoundOnce
<1>8. m.end = h + Len(a.quote)
  BY <1>2, <1>3, <1>4, <1>5, FoundOnce
<1>9. m.start = h
  BY <1>2, <1>5, <1>6, <1>7
<1> QED
  BY <1>1, <1>8, <1>9

(* The spans at which the quote itself stands.                             *)
ExactSpans(a, text) == {<<i, i + Len(a.quote)>> : i \in Found(text, a.quote)}

(* Where the context is unique, the best of them is the home.              *)
LEMMA ExactIsHome ==
  ASSUME NEW a \in Anchors, NEW text \in Seq(TextWords), UniqueContext(a, text)
  PROVE  /\ ExactSpans(a, text) # {}
         /\ Ranked(a, text, ExactSpans(a, text))[1] \in Homes(a, text)
<1> DEFINE q == a.quote
           exact == ExactSpans(a, text)
           best == Ranked(a, text, exact)
<1>1. q \in Seq(TextWords) /\ q # <<>> /\ Len(q) \in Nat \ {0} /\ Len(text) \in Nat
  BY LenProperties, EmptySeq DEF Anchors, UniqueContext
<1>2. PICK h : h \in Homes(a, text)
  BY DEF UniqueContext
<1>3. /\ h \in Nat \ {0} /\ h + Len(q) <= Len(text) + 1 /\ Slice(text, h, h + Len(q)) = q
      /\ ContextBefore(text, h) = a.before /\ ContextAfter(text, h + Len(q)) = a.after
      /\ \A piece \in Lefts(a) : piece \in Seq(TextWords) /\ h - Len(piece) \in Found(text, piece)
      /\ \A piece \in Rights(a) : piece \in Seq(TextWords) /\ h + Len(q) \in Found(text, piece)
  BY <1>1, <1>2, HomesAreText
<1>4. \A i \in Found(text, q) : i \in Nat \ {0} /\ i + Len(q) <= Len(text) + 1 /\ Slice(text, i, i + Len(q)) = q
  BY <1>1, FoundWhole
<1>5. h \in Found(text, q)
  BY <1>1, <1>3, FoundWhole
<1> DEFINE s == <<h, h + Len(q)>>
<1>6. s \in exact /\ exact # {}
  BY <1>5 DEF ExactSpans
<1>7. \A z \in exact : z[1] \in Nat /\ z[2] \in Nat
  BY <1>1, <1>4 DEF ExactSpans
<1> HIDE DEF exact
<1>8. best \in exact /\ \A z \in exact : Combined(a, text, z) <= Combined(a, text, best)
  BY <1>6, <1>7, RankedIsBest
<1> HIDE DEF best
<1>9. Combined(a, text, s) = Full
  <2> HIDE DEF s
  <2>1. s[1] = h /\ s[2] = h + Len(q) /\ s[1] \in Int /\ s[2] \in Int
    BY <1>1, <1>3 DEF s
  <2>2. FitOf(a, text, s)
    BY <2>1, CombinedIsSum
  <2>3. Similarity(a.quote, Slice(text, s[1], s[2])) = 100
    <3>1. Slice(text, s[1], s[2]) = a.quote
      BY <1>3, <2>1
    <3> QED
      BY <1>1, <3>1, SimilarityIsPercent
  <2>4. ContextSimilarity(a, text, s) = 100
    BY <1>3, <2>1, ContextIsPercent
  <2> QED
    BY <2>2, <2>3, <2>4 DEF FitOf
<1> HIDE DEF s
<1>10. PICK i \in Found(text, q) : best = <<i, i + Len(q)>>
  BY <1>8 DEF exact, ExactSpans
<1>11. best[1] = i /\ best[2] = i + Len(q) /\ i \in Nat \ {0} /\ i + Len(q) <= Len(text) + 1
  BY <1>4, <1>10
<1>12. FitOf(a, text, best)
  <2>1. best[1] \in Int /\ best[2] \in Int
    BY <1>1, <1>11
  <2> QED
    BY <2>1, CombinedIsSum
<1>13. ContextSimilarity(a, text, best) = 100
  <2> DEFINE u == Combined(a, text, s)
             v == Combined(a, text, best)
  <2>1. u = Full /\ u <= v /\ v <= Full /\ v \in Nat /\ Full \in Nat
    BY <1>6, <1>8, <1>9, <1>12 DEF FitOf, Full
  <2> HIDE DEF u, v
  <2>2. v = Full
    BY <2>1
  <2> QED
    BY <1>12, <2>2 DEF FitOf, v
<1>14. /\ a.before = <<>> \/ ContextBefore(text, i) = a.before
       /\ a.after = <<>> \/ ContextAfter(text, i + Len(q)) = a.after
  <2>1. best[1] \in Int /\ best[2] \in Int
    BY <1>1, <1>11
  <2>2. LET full == /\ a.before = <<>> \/ ContextBefore(text, best[1]) = a.before
                    /\ a.after = <<>> \/ ContextAfter(text, best[2]) = a.after
        IN  full
    BY <1>13, <2>1, ContextIsPercent
  <2> QED
    BY <1>11, <2>2
<1>15. i \in 1 .. Len(text) + 1 /\ i + Len(q) \in 1 .. Len(text) + 1
  BY <1>1, <1>11
<1>16. CASE \E piece : piece \in Lefts(a)
  <2>1. PICK piece : piece \in Lefts(a)
    BY <1>16
  <2>2. a.before # <<>>
    BY <2>1 DEF Lefts
  <2>3. piece \in Seq(TextWords) /\ i - Len(piece) \in Found(text, piece) /\ h - Len(piece) \in Found(text, piece)
    BY <1>3, <1>14, <1>15, <2>1, <2>2, LeftsFound
  <2>4. Cardinality(Found(text, piece)) = 1
    BY <2>1 DEF UniqueContext
  <2>5. i - Len(piece) = h - Len(piece) /\ Len(piece) \in Nat
    BY <2>3, <2>4, FoundOnce, LenProperties
  <2>6. i = h
    BY <1>3, <1>11, <2>5
  <2> QED
    BY <1>2, <1>6, <1>11, <2>6 DEF best, exact
<1>17. CASE ~ \E piece : piece \in Lefts(a)
  <2>1. PICK piece : piece \in Rights(a)
    BY <1>17 DEF UniqueContext
  <2>2. a.after # <<>>
    BY <2>1 DEF Rights
  <2>3. piece \in Seq(TextWords) /\ i + Len(q) \in Found(text, piece) /\ h + Len(q) \in Found(text, piece)
    BY <1>3, <1>14, <1>15, <2>1, <2>2, RightsFound
  <2>4. Cardinality(Found(text, piece)) = 1
    BY <2>1 DEF UniqueContext
  <2>5. i + Len(q) = h + Len(q)
    BY <2>3, <2>4, FoundOnce
  <2>6. i = h
    BY <1>1, <1>3, <1>11, <2>5
  <2> QED
    BY <1>2, <1>6, <1>11, <2>6 DEF best, exact
<1> QED
  BY <1>16, <1>17

(* relocate, way by way.                                                   *)
AtSpan(a, text, s) ==
  IF s[1] = s[2] THEN Lost(a) ELSE Anchored(text, s[1], s[2], a.quote, StatusOf(a, text, s))

(* A span is reported as the place from its start to its end.              *)
LEMMA AtIsPoint ==
  ASSUME NEW a, NEW text, NEW x \in Int, NEW y \in Int, NEW s, s = <<x, y>>
  PROVE  AtSpan(a, text, s) = PointAt(a, text, x, y)
<1>1. s[1] = x /\ s[2] = y
  OBVIOUS
<1> QED
  BY <1>1 DEF AtSpan, PointAt

(* relocate takes the first way that gives a span.                         *)
LEMMA LocatedByCase ==
  ASSUME NEW a, NEW text
  PROVE  Located(a, text) =
           IF a.quote = <<>> THEN Lost(a)
           ELSE IF StaysInPlace(a, text)
             THEN Anchored(text, a.place[1], a.place[2], a.quote, "anchored")
           ELSE IF BothSides(a, text) # {} THEN AtSpan(a, text, CHOOSE s \in BothSides(a, text) : TRUE)
           ELSE IF ExactSpans(a, text) # {} THEN AtSpan(a, text, Ranked(a, text, ExactSpans(a, text)))
           ELSE IF OneSide(a, text) # {} THEN AtSpan(a, text, CHOOSE s \in OneSide(a, text) : TRUE)
           ELSE IF Fuzzy(a, text) # {} /\ Accepted(a, text, Ranked(a, text, Fuzzy(a, text)))
             THEN AtSpan(a, text, Ranked(a, text, Fuzzy(a, text)))
           ELSE Lost(a)
BY DEF Located, AtSpan, ExactSpans

(* Whichever way it is, the anchor points as it should.                    *)
LEMMA LocatedPoints ==
  ASSUME NEW a, AnchorOK(a), NEW text, TextOK(text)
  PROVE  PointsIn(a, text, Located(a, text))
<1> DEFINE both == BothSides(a, text)
           exact == ExactSpans(a, text)
           one == OneSide(a, text)
           fuzzy == Fuzzy(a, text)
           L == Located(a, text)
<1>1. /\ a \in Anchors /\ text \in Seq(TextWords) /\ a.quote \in Seq(TextWords) /\ Len(text) \in Nat
      /\ Len(a.quote) \in Nat
  BY LenProperties DEF AnchorOK, Anchors, TextOK
<1>2. ASSUME ~UniqueContext(a, text)
      PROVE  PointsIn(a, text, Lost(a))
  BY <1>2, LostIsOK DEF PointsIn
<1>3. CASE a.quote = <<>>
  <2>1. L = Lost(a)
    BY <1>3, LocatedByCase
  <2> QED
    BY <1>2, <1>3, <2>1 DEF UniqueContext
<1>4. CASE a.quote # <<>> /\ StaysInPlace(a, text)
  <2> DEFINE x == a.place[1]
             y == a.place[2]
             q == a.quote
             b == Anchored(text, x, y, q, "anchored")
  <2>1. L = b
    BY <1>4, LocatedByCase
  <2>2. x \in Nat \ {0} /\ y \in Nat /\ y = x + Len(q) /\ Slice(text, x, y) = q
    <3>1. a.place \in PlacesOfNotes /\ MaxTextWords \in Nat
      BY <1>1, <1>4, TextAnchorAssumption DEF StaysInPlace, Anchors
    <3>2. x \in Nat \ {0} /\ y \in Nat
      BY <3>1 DEF PlacesOfNotes
    <3>3. y = x + Len(q) /\ Slice(text, x, y) = q
      BY <1>4 DEF StaysInPlace
    <3> QED
      BY <3>2, <3>3
  <2>3. Len(q) >= 1 /\ q \in Seq(TextWords)
    BY <1>1, <1>4, EmptySeq
  <2>4. UniqueContext(a, text) => x \in Homes(a, text)
    BY <1>4, StaysHome
  <2> HIDE DEF x, y, q
  <2>5. x < y /\ y <= Len(text) + 1
    <3>1. Len(Slice(text, x, y)) = y - x /\ Slice(text, x, y) # <<>>
      BY <1>1, <1>4, <2>2, <2>3 DEF q
    <3> QED
      BY <1>1, <2>2, <2>3, <3>1, SliceIsText, SMTT(30)
  <2>6. AnchorOK(b) /\ b.place = <<x, y>> /\ b.status = "anchored" /\ b.quote = q
    BY <2>2, <2>3, <2>5, AnchoredIsOK
  <2> HIDE DEF b
  <2>7. b.place[1] = x /\ b.place[2] = y
    BY <2>6
  <2>8. PointsIn(a, text, b)
    BY <2>2, <2>4, <2>6, <2>7 DEF PointsIn
  <2> QED
    BY <2>1, <2>8
<1>5. CASE a.quote # <<>> /\ ~StaysInPlace(a, text) /\ both # {}
  <2>1. PICK m \in Between(a, text) : both = {<<m.start, m.end>>}
    BY <1>1, <1>5, BothAreBetween
  <2> DEFINE x == m.start
             y == m.end
  <2>2. x \in 1 .. Len(text) + 1 /\ y \in 1 .. Len(text) + 1 /\ x <= y
    BY DEF Between
  <2>3. UniqueContext(a, text) => x \in Homes(a, text) /\ y = x + Len(a.quote)
    BY <1>1, BetweenIsHome
  <2> HIDE DEF x, y
  <2>4. x \in Nat \ {0} /\ y \in Nat /\ x <= y /\ y <= Len(text) + 1 /\ x \in Int /\ y \in Int
    BY <1>1, <2>2
  <2>5. UniqueContext(a, text) => x # y /\ Slice(text, x, y) = a.quote /\ x \in Homes(a, text)
    <3> SUFFICES ASSUME UniqueContext(a, text) PROVE x # y /\ Slice(text, x, y) = a.quote /\ x \in Homes(a, text)
      OBVIOUS
    <3>1. x \in Homes(a, text) /\ y = x + Len(a.quote)
      BY <2>3
    <3>2. Len(a.quote) \in Nat \ {0} /\ Slice(text, x, x + Len(a.quote)) = a.quote
      BY <1>1, <1>5, <3>1, HomesAreText
    <3> QED
      BY <2>4, <3>1, <3>2
  <2>6. PointsIn(a, text, PointAt(a, text, x, y))
    BY <2>4, <2>5, PointingIsOK
  <2> DEFINE s == CHOOSE s \in both : TRUE
  <2>7. s = <<x, y>>
    BY <2>1 DEF x, y
  <2>8. L = AtSpan(a, text, s)
    BY <1>5, LocatedByCase
  <2> HIDE DEF s
  <2>9. AtSpan(a, text, s) = PointAt(a, text, x, y)
    BY <2>4, <2>7, AtIsPoint
  <2> QED
    BY <2>6, <2>8, <2>9
<1>6. CASE a.quote # <<>> /\ ~StaysInPlace(a, text) /\ both = {} /\ exact # {}
  <2> DEFINE s == Ranked(a, text, exact)
  <2>1. \A z \in exact : \E i \in Nat \ {0} : /\ z = <<i, i + Len(a.quote)>> /\ i + Len(a.quote) <= Len(text) + 1
                                              /\ Slice(text, i, i + Len(a.quote)) = a.quote
    <3>1. \A i \in Found(text, a.quote) : /\ i \in Nat \ {0} /\ i + Len(a.quote) <= Len(text) + 1
                                         /\ Slice(text, i, i + Len(a.quote)) = a.quote
      BY <1>1, FoundWhole
    <3> QED
      BY <3>1 DEF ExactSpans
  <2>2. UniqueContext(a, text) => s[1] \in Homes(a, text)
    BY <1>1, ExactIsHome
  <2>3. L = AtSpan(a, text, s)
    BY <1>6, LocatedByCase
  <2> HIDE DEF exact
  <2>4. s \in exact
    <3>1. \A z \in exact : z[1] \in Nat /\ z[2] \in Nat
      BY <1>1, <2>1
    <3> QED
      BY <1>1, <1>6, <3>1, RankedIsBest
  <2> HIDE DEF s
  <2>5. PICK i \in Nat \ {0} : /\ s = <<i, i + Len(a.quote)>> /\ i + Len(a.quote) <= Len(text) + 1
                               /\ Slice(text, i, i + Len(a.quote)) = a.quote
    BY <2>1, <2>4
  <2> DEFINE y == i + Len(a.quote)
  <2>6. y \in Nat /\ i <= y /\ y <= Len(text) + 1 /\ s = <<i, y>> /\ Slice(text, i, y) = a.quote /\ i # y /\ s[1] = i
    <3>1. Len(a.quote) \in Nat \ {0}
      BY <1>1, <1>6, EmptySeq
    <3> QED
      BY <2>5, <3>1
  <2> HIDE DEF y
  <2>7. PointsIn(a, text, PointAt(a, text, i, y))
    BY <2>2, <2>6, PointingIsOK
  <2>8. AtSpan(a, text, s) = PointAt(a, text, i, y)
    BY <2>6, AtIsPoint
  <2> QED
    BY <2>3, <2>7, <2>8
<1>7. CASE a.quote # <<>> /\ ~StaysInPlace(a, text) /\ both = {} /\ exact = {}
  <2>1. ~UniqueContext(a, text)
    BY <1>1, <1>7, ExactIsHome
  <2>2. CASE one # {}
    <3>1. PICK x \in 1 .. Len(text) + 1, y \in 1 .. Len(text) + 1 : x <= y /\ one = {<<x, y>>}
      BY <1>1, <2>2, OneIsSpan
    <3>2. x \in Nat \ {0} /\ y \in Nat /\ y <= Len(text) + 1 /\ x \in Int /\ y \in Int
      BY <1>1
    <3>3. PointsIn(a, text, PointAt(a, text, x, y))
      BY <2>1, <3>1, <3>2, PointingIsOK
    <3> DEFINE s == CHOOSE s \in one : TRUE
    <3>4. s = <<x, y>> /\ L = AtSpan(a, text, s)
      BY <1>7, <2>2, <3>1, LocatedByCase
    <3> HIDE DEF s
    <3>5. AtSpan(a, text, s) = PointAt(a, text, x, y)
      BY <3>2, <3>4, AtIsPoint
    <3> QED
      BY <3>3, <3>4, <3>5
  <2> DEFINE s == Ranked(a, text, fuzzy)
             ok == fuzzy # {} /\ Accepted(a, text, s)
  <2>3. CASE one = {} /\ ok
    <3>1. \A z \in fuzzy : \E x, y \in 1 .. Len(text) + 1 : z = <<x, y>> /\ x < y
      <4>1. \A z \in Spans(text) : \E x, y \in 1 .. Len(text) + 1 : z = <<x, y>> /\ x < y
        BY <1>1 DEF Spans
      <4> QED
        BY <4>1 DEF Fuzzy
    <3>2. L = AtSpan(a, text, s)
      BY <1>7, <2>3, LocatedByCase
    <3> HIDE DEF fuzzy
    <3>3. s \in fuzzy
      <4>1. \A z \in fuzzy : z[1] \in Nat /\ z[2] \in Nat
        BY <1>1, <3>1
      <4> QED
        BY <1>1, <2>3, <4>1, RankedIsBest
    <3> HIDE DEF s
    <3>4. PICK x \in 1 .. Len(text) + 1, y \in 1 .. Len(text) + 1 : s = <<x, y>> /\ x < y
      BY <3>1, <3>3
    <3>5. x \in Nat \ {0} /\ y \in Nat /\ x <= y /\ y <= Len(text) + 1 /\ x \in Int /\ y \in Int
      BY <1>1, <3>4
    <3>6. PointsIn(a, text, PointAt(a, text, x, y))
      BY <2>1, <3>5, PointingIsOK
    <3>7. AtSpan(a, text, s) = PointAt(a, text, x, y)
      BY <3>4, <3>5, AtIsPoint
    <3> QED
      BY <3>2, <3>6, <3>7
  <2>4. CASE one = {} /\ ~ok
    <3>1. L = Lost(a)
      BY <1>7, <2>4, LocatedByCase
    <3> QED
      BY <1>2, <2>1, <3>1
  <2> QED
    BY <2>2, <2>3, <2>4
<1> QED
  BY <1>3, <1>4, <1>5, <1>6, <1>7

-----------------------------------------------------------------------------
(* The inductive invariant.                                                *)
AnchorInv ==
  /\ TextOK(noteText) /\ TextOK(located.text) /\ AnchorOK(anchor)
  /\ PointsIn(located.was, located.text, anchor)

(* The empty text is a text, and there is an anchor to begin with.         *)
LEMMA EmptyIsText ==
  TextOK(<<>>) /\ AnchorOK(NoAnchor) /\ NoAnchor.quote = <<>> /\ NoAnchor.status = "lost"
<1>1. <<>> \in Seq(TextWords) /\ Len(<<>>) = 0 /\ MaxTextWords \in Nat
  BY TextAnchorAssumption
<1> QED
  BY <1>1 DEF TextOK, AnchorOK, Anchors, NoAnchor

(* A new anchor points where it was made.                                  *)
LEMMA NoAnchorPoints ==
  ASSUME NEW text, NEW b, AnchorOK(b),
         b.status = "anchored" => Slice(text, b.place[1], b.place[2]) = b.quote,
         b.status # "drifted"
  PROVE  PointsIn(NoAnchor, text, b)
<1>1. ~UniqueContext(NoAnchor, text)
  BY EmptyIsText DEF UniqueContext
<1> QED
  BY <1>1 DEF PointsIn

(* The invariant holds before there is a note.                             *)
LEMMA AnchorsStart == TextAnchorInit => AnchorInv
<1> SUFFICES ASSUME TextAnchorInit PROVE AnchorInv
  OBVIOUS
<1>1. /\ noteText = <<>> /\ anchor = NoAnchor /\ located.text = <<>> /\ located.was = NoAnchor
  BY DEF TextAnchorInit
<1>2. PointsIn(NoAnchor, <<>>, NoAnchor)
  BY EmptyIsText, NoAnchorPoints
<1> QED
  BY <1>1, <1>2, EmptyIsText DEF AnchorInv

(* Editing the text keeps it.                                              *)
LEMMA EditKeeps ==
  ASSUME AnchorInv, NEW n \in Int, NEW removed \in Int, NEW added \in Seq(TextWords),
         EditText(n, removed, added)
  PROVE  AnchorInv'
<1> DEFINE left == Slice(noteText, 1, n)
           right == Slice(noteText, n + removed, MaxTextWords + 1)
           text == left \o added \o right
<1>1. noteText' = text /\ Len(text) <= MaxTextWords /\ anchor' = anchor /\ located' = located
  BY DEF EditText
<1>2. left \in Seq(TextWords) /\ right \in Seq(TextWords)
  <2>1. noteText \in Seq(TextWords) /\ 1 \in Int /\ n + removed \in Int /\ MaxTextWords + 1 \in Int
    BY TextAnchorAssumption DEF AnchorInv, TextOK
  <2> QED
    BY <2>1, SliceIsText
<1> HIDE DEF left, right
<1>3. text \in Seq(TextWords)
  BY <1>2, ConcatProperties
<1> HIDE DEF text
<1> QED
  BY <1>1, <1>3 DEF AnchorInv, TextOK

(* Making an anchor keeps it.                                              *)
LEMMA MakeKeeps ==
  ASSUME AnchorInv, NEW draft \in Drafts, NEW quote \in Seq(TextWords), Len(quote) > 0,
         MakeAnchor(draft, quote)
  PROVE  AnchorInv'
<1> DEFINE places == Found(draft, quote)
           start == CHOOSE i \in places : \A j \in places : i <= j
<1>1. /\ noteText' = draft /\ located'.text = draft /\ located'.was = NoAnchor
      /\ anchor' = IF places = {} THEN [NoAnchor EXCEPT !.quote = quote]
                   ELSE Anchored(draft, start, start + Len(quote), quote, "anchored")
  BY DEF MakeAnchor
<1>2. TextOK(draft) /\ draft \in Seq(TextWords) /\ Len(quote) \in Nat \ {0}
  <2>1. Len(quote) \in Nat
    BY LenProperties
  <2> QED
    BY <2>1, TextAnchorAssumption DEF TextOK
<1>3. \A i \in places : i \in Nat \ {0} /\ i + Len(quote) <= Len(draft) + 1 /\ Slice(draft, i, i + Len(quote)) = quote
  BY <1>2, FoundWhole
<1> HIDE DEF places
<1>4. CASE places = {}
  <2>1. AnchorOK([NoAnchor EXCEPT !.quote = quote]) /\ [NoAnchor EXCEPT !.quote = quote].status = "lost"
    <3> DEFINE b == [place |-> NoPlace, quote |-> quote, before |-> <<>>, after |-> <<>>, status |-> "lost"]
    <3>1. [NoAnchor EXCEPT !.quote = quote] = b
      BY DEF NoAnchor
    <3>2. <<>> \in Seq(TextWords)
      OBVIOUS
    <3>3. AnchorOK(b) /\ b.status = "lost"
      BY <3>2 DEF AnchorOK, Anchors
    <3> QED
      BY <3>1, <3>3
  <2>2. anchor' = [NoAnchor EXCEPT !.quote = quote]
    BY <1>1, <1>4
  <2>3. AnchorOK(anchor') /\ anchor'.status = "lost"
    BY <2>1, <2>2
  <2>4. PointsIn(NoAnchor, draft, anchor')
    BY <2>3, NoAnchorPoints
  <2> QED
    BY <1>1, <1>2, <2>3, <2>4 DEF AnchorInv
<1>5. CASE places # {}
  <2>1. places \subseteq Nat
    BY <1>3
  <2>2. start \in places
    <3>1. \E i \in places : \A j \in places : i <= j
      BY <1>5, <2>1, LeastNumber
    <3> QED
      BY <3>1
  <2> HIDE DEF start
  <2> DEFINE y == start + Len(quote)
             b == Anchored(draft, start, y, quote, "anchored")
  <2>3. start \in Nat \ {0} /\ y \in Nat /\ start < y /\ y <= Len(draft) + 1 /\ Slice(draft, start, y) = quote
    BY <1>2, <1>3, <2>2
  <2>4. anchor' = b
    BY <1>1, <1>5
  <2> HIDE DEF y
  <2>5. AnchorOK(b) /\ b.place = <<start, y>> /\ b.status = "anchored" /\ b.quote = quote
    BY <1>2, <2>3, AnchoredIsOK
  <2> HIDE DEF b
  <2>6. b.place[1] = start /\ b.place[2] = y
    BY <2>5
  <2>7. PointsIn(NoAnchor, draft, b)
    BY <2>3, <2>5, <2>6, NoAnchorPoints
  <2> QED
    BY <1>1, <1>2, <2>4, <2>5, <2>7 DEF AnchorInv
<1> QED
  BY <1>4, <1>5

(* Every step keeps the invariant.                                         *)
LEMMA AnchorsKeep == AnchorInv /\ [TextAnchorNext]_textAnchorVars => AnchorInv'
<1> SUFFICES ASSUME AnchorInv, [TextAnchorNext]_textAnchorVars PROVE AnchorInv'
  OBVIOUS
<1>1. MaxTextWords \in Nat
  BY TextAnchorAssumption
<1>2. ASSUME NEW n \in 1 .. MaxTextWords + 1, NEW removed \in 0 .. 1,
             NEW added \in {<<>>} \cup {<<w>> : w \in TextWords}, EditText(n, removed, added)
      PROVE  AnchorInv'
  <2>1. n \in Int /\ removed \in Int /\ <<>> \in Seq(TextWords)
    BY <1>1
  <2>2. added \in Seq(TextWords)
    <3>1. CASE added = <<>>
      BY <2>1, <3>1
    <3>2. CASE \E w \in TextWords : added = <<w>>
      BY <3>2
    <3> QED
      BY <3>1, <3>2
  <2> QED
    BY <1>2, <2>1, <2>2, EditKeeps
<1>3. ASSUME NEW draft \in Drafts,
             NEW quote \in {<<w>> : w \in TextWords} \cup {<<v, w>> : v, w \in TextWords},
             MakeAnchor(draft, quote)
      PROVE  AnchorInv'
  <2>1. quote \in Seq(TextWords) /\ Len(quote) > 0
    <3>1. CASE \E w \in TextWords : quote = <<w>>
      BY <3>1
    <3>2. CASE \E v, w \in TextWords : quote = <<v, w>>
      BY <3>2
    <3> QED
      BY <3>1, <3>2
  <2> QED
    BY <1>3, <2>1, MakeKeeps
<1>4. CASE RelocateAnchor
  <2>1. /\ anchor' = Located(anchor, noteText) /\ located'.text = noteText /\ located'.was = anchor
        /\ noteText' = noteText
    BY <1>4 DEF RelocateAnchor
  <2>2. PointsIn(anchor, noteText, Located(anchor, noteText))
    BY LocatedPoints DEF AnchorInv
  <2>3. AnchorOK(Located(anchor, noteText)) /\ TextOK(noteText)
    BY <2>2 DEF AnchorInv, PointsIn
  <2> QED
    BY <2>1, <2>2, <2>3 DEF AnchorInv
<1>5. CASE UNCHANGED textAnchorVars
  BY <1>5 DEF AnchorInv, textAnchorVars
<1> QED
  BY <1>2, <1>3, <1>4, <1>5 DEF TextAnchorNext

(* The invariant gives types and anchors that point.                       *)
LEMMA AnchorsHold == AnchorInv => AnchorsTypeOK /\ AnchorsPoint
<1> SUFFICES ASSUME AnchorInv PROVE AnchorsTypeOK /\ AnchorsPoint
  OBVIOUS
<1>1. AnchorsTypeOK
  BY DEF AnchorInv, AnchorOK, TextOK, Anchors, PlacesOfNotes, AnchorsTypeOK
<1>2. AnchorsPoint
  <2>1. AnchorOK(anchor) /\ PointsIn(located.was, located.text, anchor)
    BY DEF AnchorInv
  <2> QED
    BY <2>1 DEF AnchorOK, PointsIn, UniqueContext, AnchorsPoint
<1> QED
  BY <1>1, <1>2

(* Wherever a text is edited, an anchored note stands at its quote, a      *)
(* drifted one never, and a quote whose context is whole and unique is     *)
(* found again: argument/anchor.py, for any words, lengths and             *)
(* thresholds.                                                             *)
THEOREM NotesStayAnchored == AnchorsSpec => []AnchorsPoint
<1> QED
  BY AnchorsStart, AnchorsKeep, AnchorsHold, PTL DEF AnchorsSpec

-----------------------------------------------------------------------------
(***************************************************************************)
(* The argument graph: an edge joins two nodes, of the types its relation  *)
(* joins when it was drawn, and a node takes its edges with it.            *)
(***************************************************************************)
EdgeType == [rel : Relations, source : NodeIds, target : NodeIds]

(* A graph with its types whose edges join its nodes.                      *)
JoinedGraph(g) ==
  /\ g.nodes \in [NodeIds -> NodeTypes \cup {Missing}]
  /\ g.edges \in [EdgeIds -> EdgeType \cup {Unused}]
  /\ \A e \in EdgeIds : g.edges[e] # Unused =>
       /\ g.edges[e].source # g.edges[e].target
       /\ g.nodes[g.edges[e].source] # Missing /\ g.nodes[g.edges[e].target] # Missing

GraphShape == \/ graph = NoGraph
              \/ graph \in [nodes : {graph.nodes}, edges : {graph.edges},
                            spans : {graph.spans}, issues : {graph.issues}] /\ JoinedGraph(graph)

(* An edge is no empty tuple.                                              *)
LEMMA EdgesAreUsed == \A e \in EdgeType : e # Unused
BY DEF EdgeType, Unused

(* The pairs allowed are of types a node can have.                         *)
LEMMA ValidJoins ==
  ASSUME NEW g, NEW e \in EdgeType, Valid(g, e)
  PROVE  e.source # e.target /\ g.nodes[e.source] # Missing /\ g.nodes[e.target] # Missing
<1>1. \A r, s, t : <<r, s, t>> \in AllowedEdges => s # Missing /\ t # Missing
  BY DEF AllowedEdges, Missing
<1> QED
  BY <1>1 DEF Valid

(* The fields of a graph with one of them changed.                         *)
LEMMA GraphStep == GraphShape /\ [GraphNext]_graphVars => GraphShape'
<1> SUFFICES ASSUME GraphShape, [GraphNext]_graphVars PROVE GraphShape'
  OBVIOUS
<1>1. CASE graph' = graph \/ graph' = NoGraph
  BY <1>1 DEF GraphShape, JoinedGraph
<1> USE DEF GraphShape, Edit
<1>2. CASE UpsertNode
  <2>1. PICK n \in NodeIds, t \in NodeTypes :
          graph # NoGraph /\ graph' = [graph EXCEPT !.nodes = [graph.nodes EXCEPT ![n] = t]]
    BY <1>2 DEF UpsertNode
  <2> DEFINE nodes == [graph.nodes EXCEPT ![n] = t]
  <2>2. nodes \in [NodeIds -> NodeTypes \cup {Missing}]
    BY <2>1 DEF JoinedGraph
  <2>3. \A m \in NodeIds : graph.nodes[m] # Missing => nodes[m] # Missing
    BY <2>1, GraphAssumption DEF JoinedGraph
  <2> HIDE DEF nodes
  <2>4. graph'.nodes = nodes /\ graph'.edges = graph.edges
    BY <2>1 DEF nodes
  <2>5. JoinedGraph(graph')
    BY <2>1, <2>2, <2>3, <2>4 DEF JoinedGraph, EdgeType
  <2> QED
    BY <2>1, <2>5
<1>3. CASE DeleteNode
  <2>1. PICK n \in Present(graph) : graph # NoGraph /\ graph' = Without(graph, n)
    BY <1>3 DEF DeleteNode
  <2>2. /\ graph'.nodes = [graph.nodes EXCEPT ![n] = Missing]
        /\ graph'.edges = [e \in EdgeIds |->
             IF graph.edges[e] # Unused /\ n \in {graph.edges[e].source, graph.edges[e].target}
             THEN Unused ELSE graph.edges[e]]
    BY <2>1 DEF Without
  <2> DEFINE nodes == graph.nodes
             edges == graph.edges
             pruned == graph'.edges
  <2>3. JoinedGraph(graph) /\ n \in NodeIds /\ graph'.nodes = [nodes EXCEPT ![n] = Missing]
    BY <2>1, <2>2 DEF Present
  <2>4. nodes \in [NodeIds -> NodeTypes \cup {Missing}] /\ edges \in [EdgeIds -> EdgeType \cup {Unused}]
    BY <2>3 DEF JoinedGraph
  <2>5. \A e \in EdgeIds :
          /\ pruned[e] # Unused => pruned[e] = edges[e] /\ n \notin {edges[e].source, edges[e].target}
          /\ pruned[e] \in EdgeType \cup {Unused}
    BY <2>2, <2>4
  <2>6. pruned \in [EdgeIds -> EdgeType \cup {Unused}]
    BY <2>2, <2>5
  <2>7. graph'.nodes \in [NodeIds -> NodeTypes \cup {Missing}]
    BY <2>3, <2>4
  <2>8. ASSUME NEW e \in EdgeIds, pruned[e] # Unused
        PROVE  /\ pruned[e].source # pruned[e].target
               /\ graph'.nodes[pruned[e].source] # Missing /\ graph'.nodes[pruned[e].target] # Missing
    <3>1. /\ pruned[e] = edges[e] /\ edges[e] \in EdgeType
          /\ n # edges[e].source /\ n # edges[e].target
      BY <2>4, <2>5, <2>8
    <3>2. /\ edges[e].source # edges[e].target /\ nodes[edges[e].source] # Missing
          /\ nodes[edges[e].target] # Missing
      BY <2>3, <2>8, <3>1 DEF JoinedGraph
    <3>3. edges[e].source \in NodeIds /\ edges[e].target \in NodeIds
      BY <3>1 DEF EdgeType
    <3> QED
      BY <2>3, <2>4, <3>1, <3>2, <3>3
  <2>9. JoinedGraph(graph')
    BY <2>6, <2>7, <2>8 DEF JoinedGraph
  <2> QED
    BY <2>1, <2>9 DEF Without
<1>4. CASE UpsertEdge
  <2>1. PICK id \in EdgeIds, r \in Relations, s \in NodeIds, t \in NodeIds :
          /\ graph # NoGraph /\ Valid(graph, Edge(r, s, t))
          /\ graph' = [graph EXCEPT !.edges = [graph.edges EXCEPT ![id] = Edge(r, s, t)]]
    BY <1>4 DEF UpsertEdge
  <2>2. Edge(r, s, t) \in EdgeType
    BY DEF Edge, EdgeType
  <2>3. /\ Edge(r, s, t).source # Edge(r, s, t).target
        /\ graph.nodes[Edge(r, s, t).source] # Missing /\ graph.nodes[Edge(r, s, t).target] # Missing
    BY <2>1, <2>2, ValidJoins
  <2>4. graph'.nodes = graph.nodes /\ graph'.edges = [graph.edges EXCEPT ![id] = Edge(r, s, t)]
    BY <2>1
  <2>5. JoinedGraph(graph')
    <3> DEFINE new == Edge(r, s, t)
    <3> HIDE DEF new
    <3> QED
      BY <2>1, <2>2, <2>3, <2>4 DEF JoinedGraph, new
  <2> QED
    BY <2>1, <2>5
<1>5. CASE DeleteEdge
  <2>1. PICK id \in EdgeIds :
          graph # NoGraph /\ graph' = [graph EXCEPT !.edges = [graph.edges EXCEPT ![id] = Unused]]
    BY <1>5 DEF DeleteEdge
  <2>2. graph'.nodes = graph.nodes /\ graph'.edges = [graph.edges EXCEPT ![id] = Unused]
    BY <2>1
  <2>3. JoinedGraph(graph')
    BY <2>1, <2>2 DEF JoinedGraph
  <2> QED
    BY <2>1, <2>3
<1>6. ASSUME AddSpan \/ DeleteSpan \/ SetIssues, graph' # graph
      PROVE  GraphShape'
  <2>1. /\ graph # NoGraph /\ graph'.nodes = graph.nodes /\ graph'.edges = graph.edges
        /\ graph' = [graph EXCEPT !.spans = graph'.spans, !.issues = graph'.issues]
    BY <1>6 DEF AddSpan, DeleteSpan, SetIssues
  <2> QED
    BY <2>1 DEF JoinedGraph
<1>7. CASE ReplaceGraph
  <2>1. PICK types \in UNION {[new -> NodeTypes] : new \in SUBSET NewNodes}, id \in EdgeIds :
          LET nodes == [n \in NodeIds |-> IF n \in DOMAIN types THEN types[n] ELSE Missing]
              bare  == [EmptyGraph EXCEPT !.nodes = nodes, !.issues = graph.issues]
          IN \E edges \in SUBSET {e \in [rel : Relations, source : DOMAIN types, target : DOMAIN types] :
                                    Valid(bare, e)}, quoted \in SUBSET DOMAIN types :
               graph' = ([bare EXCEPT !.spans = quoted,
                            !.edges = IF edges = {} THEN @ ELSE [@ EXCEPT ![id] = CHOOSE e \in edges : TRUE]])
    BY <1>7 DEF ReplaceGraph
  <2> DEFINE nodes == [n \in NodeIds |-> IF n \in DOMAIN types THEN types[n] ELSE Missing]
             bare  == [EmptyGraph EXCEPT !.nodes = nodes, !.issues = graph.issues]
             none  == [e \in EdgeIds |-> Unused]
  <2>2. PICK edges \in SUBSET {e \in [rel : Relations, source : DOMAIN types, target : DOMAIN types] :
                                 Valid(bare, e)}, quoted \in SUBSET DOMAIN types :
          graph' = ([bare EXCEPT !.spans = quoted,
                       !.edges = IF edges = {} THEN @ ELSE [@ EXCEPT ![id] = CHOOSE e \in edges : TRUE]])
    BY <2>1
  <2>3. DOMAIN types \subseteq NodeIds /\ nodes \in [NodeIds -> NodeTypes \cup {Missing}]
    <3>1. PICK new \in SUBSET NewNodes : types \in [new -> NodeTypes]
      OBVIOUS
    <3>2. DOMAIN types = new /\ \A n \in new : types[n] \in NodeTypes
      BY <3>1
    <3>3. new \subseteq NodeIds
      BY <3>1 DEF NewNodes
    <3> QED
      BY <3>2, <3>3
  <2>4. bare.nodes = nodes /\ bare.edges = none
    BY DEF EmptyGraph
  <2> DEFINE drawn == IF edges = {} THEN none ELSE [none EXCEPT ![id] = CHOOSE e \in edges : TRUE]
  <2>5. /\ graph'.nodes = nodes /\ graph'.edges = drawn
        /\ graph' \in [nodes : {graph'.nodes}, edges : {graph'.edges},
                       spans : {graph'.spans}, issues : {graph'.issues}]
    BY <2>2 DEF EmptyGraph
  <2> HIDE DEF nodes, bare
  <2>6. \A e \in edges : /\ e \in EdgeType /\ e.source # e.target
                         /\ nodes[e.source] # Missing /\ nodes[e.target] # Missing
    BY <2>3, <2>4, ValidJoins DEF EdgeType
  <2>7. \A i \in EdgeIds : drawn[i] = Unused \/ drawn[i] \in edges
    OBVIOUS
  <2>8. drawn \in [EdgeIds -> EdgeType \cup {Unused}]
    BY <2>6
  <2> HIDE DEF drawn
  <2>9. JoinedGraph(graph')
    BY <2>3, <2>5, <2>6, <2>7, <2>8 DEF JoinedGraph
  <2> QED
    BY <2>5, <2>9
<1>8. ASSUME \/ DeleteGraph \/ StartExtraction \/ ExtractionFails \/ StartCritique
             \/ UNCHANGED graphVars
      PROVE  graph' = graph \/ graph' = NoGraph
  BY <1>8 DEF DeleteGraph, StartExtraction, ExtractionFails, StartCritique, graphVars
<1> QED
  BY <1>1, <1>2, <1>3, <1>4, <1>5, <1>6, <1>7, <1>8 DEF GraphNext

LEMMA GraphBegins == GraphInit => GraphShape
BY DEF GraphInit, GraphShape, JoinedGraph, EmptyGraph, Present

LEMMA GraphIsTrue == GraphShape => EdgesJoinNodes /\ DraftIsComplete
<1> SUFFICES ASSUME GraphShape PROVE EdgesJoinNodes /\ DraftIsComplete
  OBVIOUS
<1>1. EdgesJoinNodes
  <2> SUFFICES ASSUME graph # NoGraph, NEW e \in EdgeIds, graph.edges[e] # Unused
               PROVE  /\ graph.edges[e].source # graph.edges[e].target
                      /\ {graph.edges[e].source, graph.edges[e].target} \subseteq Present(graph)
    BY DEF EdgesJoinNodes, Edges
  <2> QED
    BY EdgesAreUsed DEF GraphShape, JoinedGraph, Present, EdgeType
<1>2. ASSUME graph # NoGraph
      PROVE  Present(graph) \subseteq UNION GraphToSections(graph)
  <2>1. CASE Claims(graph) = {}
    BY <2>1 DEF GraphToSections
  <2>2. CASE Claims(graph) # {}
    <3> DEFINE sections == {ClaimSection(graph, c) : c \in Claims(graph)}
                             \cup {RebuttalSection(graph, c) : c \in Claims(graph)}
               written == UNION {ClaimSection(graph, c) \cup RebuttalSection(graph, c)
                                 : c \in Claims(graph)}
    <3>1. GraphToSections(graph) = sections \cup {Remaining(graph)}
      BY <2>2 DEF GraphToSections
    <3>2. Remaining(graph) = Present(graph) \ written
      BY DEF Remaining
    <3>3. written \subseteq UNION sections
      OBVIOUS
    <3> HIDE DEF sections, written
    <3> QED
      BY <3>1, <3>2, <3>3
  <2> QED
    BY <2>1, <2>2
<1> QED
  BY <1>1, <1>2 DEF DraftIsComplete

-----------------------------------------------------------------------------
(***************************************************************************)
(* The promise ledger: in every ledger there is or that a relocation may   *)
(* put back, a promise of the model has its anchor, unless it has strayed, *)
(* and what is overridden is there; so what a rebuild keeps has its        *)
(* anchors too.                                                            *)
(***************************************************************************)
WellAnchored(l, gone) ==
  /\ l \in LedgerType
  /\ l.promises \ (Manual \cup gone) \subseteq l.anchors
  /\ l.overridden \subseteq l.promises

KeptAnchored(b, gone) == b.kept \ (Manual \cup gone) \subseteq b.kept_anchors

AnyBuild == [at : Working \cup {"new", "complete", "error"}, rebuilds : BOOLEAN,
             kept : SUBSET Promises, kept_anchors : SUBSET Promises, tried : 0..1]

HeldLedger(gone) ==
  /\ held \in [is : {"none", "current", "old"}, was : {held.was}, anchors : SUBSET Promises]
  /\ held.is = "old" => WellAnchored(held.was, gone)
  /\ held.is = "current" => ledger # NoLedger

LedgerInv ==
  /\ ledger = NoLedger \/ WellAnchored(ledger, strayed)
  /\ HeldLedger(strayed)
  /\ build \in [Builds -> AnyBuild]
  /\ \A b \in Builds : KeptAnchored(build[b], strayed)
  /\ shown \subseteq Promises

(* No ledger is NoLedger.                                                  *)
LEMMA AnchoredIsLedger == ASSUME NEW l, NEW gone, WellAnchored(l, gone) PROVE l # NoLedger
BY LedgerAssumption DEF WellAnchored, LedgerType

(* What is anchored stays so when more has strayed.                        *)
LEMMA MoreStrayed ==
  ASSUME NEW gone, NEW more, gone \subseteq more
  PROVE  /\ \A l : WellAnchored(l, gone) => WellAnchored(l, more)
         /\ \A b : KeptAnchored(b, gone) => KeptAnchored(b, more)
BY DEF WellAnchored, KeptAnchored

(* A build that changes only how far it is keeps what it keeps.            *)
LEMMA BuildMoves ==
  ASSUME LedgerInv,
         \A b \in Builds : /\ build'[b].kept = build[b].kept
                           /\ build'[b].kept_anchors = build[b].kept_anchors
  PROVE  \A b \in Builds : KeptAnchored(build'[b], strayed)
BY DEF LedgerInv, KeptAnchored

LEMMA ReplacesStep ==
  ASSUME LedgerInv, NEW l, l = NoLedger \/ WellAnchored(l, strayed), Replaces(l), UNCHANGED strayed
  PROVE  /\ ledger' = NoLedger \/ WellAnchored(ledger', strayed')
         /\ HeldLedger(strayed)'
BY DEF LedgerInv, Replaces, HeldLedger, WellAnchored

LEMMA AttemptStep == ASSUME LedgerInv, NEW b \in Builds, Attempt(b) PROVE LedgerInv'
<1> DEFINE old == build[b]
<1>0. old \in AnyBuild /\ build \in [Builds -> AnyBuild]
  BY DEF LedgerInv
<1>1. PICK a \in Answers :
        \/ /\ ~EndsTrying(b, a) /\ UNCHANGED <<ledger, held, shown>>
           /\ build' = [build EXCEPT ![b] = [old EXCEPT !.tried = old.tried + 1]]
        \/ /\ \E l \in {New(b), EmptyLedger} : Replaces(l) /\ shown' = shown \cup l.promises
           /\ \E place \in {"complete", "merge"} : build' = [build EXCEPT ![b] = [old EXCEPT !.at = place]]
        \/ /\ UNCHANGED <<ledger, held, shown>>
           /\ \E place \in {"classify", "error"} :
                build' = [build EXCEPT ![b] = [old EXCEPT !.at = place, !.tried = 0]]
  <2>1. PICK a \in Answers :
          \/ /\ ~EndsTrying(b, a) /\ UNCHANGED <<ledger, held, shown>>
             /\ build' = [build EXCEPT ![b].tried = @ + 1]
          \/ \E l \in {New(b), EmptyLedger} : Saves(b, l)
          \/ /\ UNCHANGED <<ledger, held, shown>>
             /\ build' = [build EXCEPT ![b].at = IF a = "success" THEN "classify" ELSE "error",
                                      ![b].tried = 0]
    BY DEF Attempt
  <2>2. CASE ~EndsTrying(b, a) /\ UNCHANGED <<ledger, held, shown>> /\ build' = [build EXCEPT ![b].tried = @ + 1]
    BY <2>2
  <2>3. ASSUME NEW l \in {New(b), EmptyLedger}, Saves(b, l)
        PROVE  /\ Replaces(l) /\ shown' = shown \cup l.promises
               /\ \E place \in {"complete", "merge"} : build' = [build EXCEPT ![b] = [old EXCEPT !.at = place]]
    BY <2>3 DEF Saves
  <2>4. ASSUME build' = [build EXCEPT ![b].at = IF a = "success" THEN "classify" ELSE "error",
                                      ![b].tried = 0]
        PROVE  \E place \in {"classify", "error"} :
                 build' = [build EXCEPT ![b] = [old EXCEPT !.at = place, !.tried = 0]]
    <3>1. PICK place \in {"classify", "error"} :
            build' = [build EXCEPT ![b].at = place, ![b].tried = 0]
      BY <2>4
    <3> DEFINE one == [build EXCEPT ![b].at = place, ![b].tried = 0]
               two == [build EXCEPT ![b] = [old EXCEPT !.at = place, !.tried = 0]]
    <3>2. one[b] = two[b]
      BY <1>0 DEF AnyBuild
    <3>3. DOMAIN one = Builds /\ DOMAIN two = Builds /\ \A d \in Builds \ {b} : one[d] = two[d]
      BY <1>0
    <3>4. one = two
      <4>1. one = [d \in DOMAIN one |-> one[d]] /\ two = [d \in DOMAIN two |-> two[d]]
        OBVIOUS
      <4> HIDE DEF one, two
      <4> QED
        BY <3>2, <3>3, <4>1
    <3> QED
      BY <3>1, <3>4
  <2> QED
    BY <2>1, <2>2, <2>3, <2>4
<1> HIDE DEF old
<1>2. \E m \in AnyBuild : /\ build' = [build EXCEPT ![b] = m]
                          /\ m.kept = old.kept /\ m.kept_anchors = old.kept_anchors
  <2>1. CASE ~EndsTrying(b, a) /\ build' = [build EXCEPT ![b] = [old EXCEPT !.tried = old.tried + 1]]
    <3> DEFINE m == [old EXCEPT !.tried = old.tried + 1]
    <3>1. old.tried + 1 \in 0..1
      BY <1>0, <2>1 DEF EndsTrying, AnyBuild, Attempts, old
    <3>2. m \in AnyBuild /\ m.kept = old.kept /\ m.kept_anchors = old.kept_anchors
      BY <1>0, <3>1 DEF AnyBuild
    <3> QED
      BY <2>1, <3>2
  <2>2. ASSUME NEW place \in {"complete", "merge"},
               build' = [build EXCEPT ![b] = [old EXCEPT !.at = place]]
        PROVE  \E m \in AnyBuild : /\ build' = [build EXCEPT ![b] = m]
                                   /\ m.kept = old.kept /\ m.kept_anchors = old.kept_anchors
    <3> DEFINE m == [old EXCEPT !.at = place]
    <3>1. m \in AnyBuild /\ m.kept = old.kept /\ m.kept_anchors = old.kept_anchors
      BY <1>0 DEF AnyBuild, Working
    <3> QED
      BY <2>2, <3>1
  <2>3. ASSUME NEW place \in {"classify", "error"},
               build' = [build EXCEPT ![b] = [old EXCEPT !.at = place, !.tried = 0]]
        PROVE  \E m \in AnyBuild : /\ build' = [build EXCEPT ![b] = m]
                                   /\ m.kept = old.kept /\ m.kept_anchors = old.kept_anchors
    <3> DEFINE moved == [old EXCEPT !.at = place]
               m == [moved EXCEPT !.tried = 0]
    <3>0. moved \in AnyBuild /\ moved.kept = old.kept /\ moved.kept_anchors = old.kept_anchors
      BY <1>0 DEF AnyBuild, Working
    <3> HIDE DEF moved
    <3>1. m \in AnyBuild /\ m.kept = old.kept /\ m.kept_anchors = old.kept_anchors
      BY <3>0 DEF AnyBuild
    <3> USE DEF moved
    <3> QED
      BY <2>3, <3>1
  <2> QED
    BY <1>1, <2>1, <2>2, <2>3
<1>3. PICK m \in AnyBuild : /\ build' = [build EXCEPT ![b] = m]
                           /\ m.kept = old.kept /\ m.kept_anchors = old.kept_anchors
  BY <1>2
<1>4. /\ build' \in [Builds -> AnyBuild]
      /\ \A d \in Builds : /\ build'[d].kept = build[d].kept
                           /\ build'[d].kept_anchors = build[d].kept_anchors
  BY <1>0, <1>3 DEF old
<1>5. /\ WellAnchored(New(b), strayed) /\ WellAnchored(EmptyLedger, strayed)
      /\ New(b).promises \subseteq Promises /\ EmptyLedger.promises \subseteq Promises
  BY DEF WellAnchored, New, EmptyLedger, LedgerType, Promises
<1>6. UNCHANGED strayed
  BY DEF Attempt
<1>7. /\ ledger' = NoLedger \/ WellAnchored(ledger', strayed')
      /\ HeldLedger(strayed)' /\ shown' \subseteq Promises
  <2>1. CASE UNCHANGED <<ledger, held, shown>>
    BY <1>6, <2>1 DEF LedgerInv, HeldLedger
  <2>2. ASSUME NEW l \in {New(b), EmptyLedger}, Replaces(l), shown' = shown \cup l.promises
        PROVE  /\ ledger' = NoLedger \/ WellAnchored(ledger', strayed')
               /\ HeldLedger(strayed)' /\ shown' \subseteq Promises
    <3>1. WellAnchored(l, strayed) /\ l.promises \subseteq Promises
      BY <1>5
    <3>2. shown' \subseteq Promises
      BY <2>2, <3>1 DEF LedgerInv
    <3> QED
      BY <1>6, <2>2, <3>1, <3>2, ReplacesStep
  <2> QED
    BY <1>1, <2>1, <2>2
<1> QED
  BY <1>4, <1>6, <1>7, BuildMoves DEF LedgerInv

LEMMA NotBuildingYet == NotBuilding \in AnyBuild /\ NotBuilding.kept = {}
BY DEF NotBuilding, AnyBuild

LEMMA RequestBuildStep == ASSUME LedgerInv, NEW b \in Builds, RequestBuild(b) PROVE LedgerInv'
<1>1. \E m \in AnyBuild : build' = [build EXCEPT ![b] = m] /\ KeptAnchored(m, strayed)
  <2>1. CASE ledger = NoLedger
    <3> DEFINE m == [NotBuilding EXCEPT !.at = "extract"]
    <3>1. build' = [build EXCEPT ![b] = m]
      BY <2>1 DEF RequestBuild
    <3>2. m \in AnyBuild /\ m.kept = {}
      BY NotBuildingYet DEF AnyBuild, Working
    <3> QED
      BY <3>1, <3>2 DEF KeptAnchored
  <2>2. CASE ledger # NoLedger
    <3> DEFINE o == ledger.overridden
               k == ledger.overridden \cap ledger.anchors
               m == [NotBuilding EXCEPT !.at = "extract", !.rebuilds = TRUE, !.kept = o,
                                        !.kept_anchors = k]
    <3>1. build' = [build EXCEPT ![b] = m]
      BY <2>2 DEF RequestBuild
    <3>2. o \subseteq Promises /\ k \subseteq Promises /\ o \ (Manual \cup strayed) \subseteq k
      BY <2>2 DEF LedgerInv, WellAnchored, LedgerType
    <3> HIDE DEF o, k
    <3>3. m \in AnyBuild /\ m.kept = o /\ m.kept_anchors = k
      BY <3>2, NotBuildingYet DEF AnyBuild, Working
    <3> QED
      BY <3>1, <3>2, <3>3 DEF KeptAnchored
  <2> QED
    BY <2>1, <2>2
<1>2. UNCHANGED <<ledger, held, shown, strayed>>
  BY DEF RequestBuild
<1>3. build' \in [Builds -> AnyBuild] /\ \A d \in Builds : KeptAnchored(build'[d], strayed)
  BY <1>1 DEF LedgerInv
<1> QED
  BY <1>2, <1>3 DEF LedgerInv, HeldLedger

LEMMA MergeStep == ASSUME LedgerInv, NEW b \in Builds, Merge(b) PROVE LedgerInv'
<1>1. /\ build' \in [Builds -> AnyBuild] /\ UNCHANGED <<held, shown, strayed>>
      /\ \A d \in Builds : /\ build'[d].kept = build[d].kept
                           /\ build'[d].kept_anchors = build[d].kept_anchors
  BY DEF Merge, LedgerInv, AnyBuild, Working
<1>2. ledger' = IF ledger = NoLedger THEN NoLedger ELSE MergedLedger(ledger, b)
  BY DEF Merge
<1>3. KeptAnchored(build[b], strayed) /\ build[b] \in AnyBuild
  BY DEF LedgerInv
<1>4. ASSUME WellAnchored(ledger, strayed)
      PROVE  WellAnchored(MergedLedger(ledger, b), strayed)
  BY <1>3, <1>4 DEF WellAnchored, LedgerType, AnyBuild, KeptAnchored, MergedLedger, WithKept
<1>5. HeldLedger(strayed)'
  <2>1. held.is = "current" => ledger' # NoLedger
    <3>1. ledger # NoLedger => WellAnchored(ledger', strayed)
      BY <1>2, <1>4 DEF LedgerInv
    <3> QED
      BY <3>1, AnchoredIsLedger DEF LedgerInv, HeldLedger
  <2> QED
    BY <1>1, <2>1 DEF LedgerInv, HeldLedger
<1> QED
  BY <1>1, <1>2, <1>4, <1>5, BuildMoves DEF LedgerInv

(* An edit that puts a promise into a ledger without its anchor makes it   *)
(* stray.                                                                  *)
LEMMA UpsertPromiseStep == ASSUME LedgerInv, UpsertPromise PROVE LedgerInv'
<1>1. ledger # NoLedger /\ WellAnchored(ledger, strayed) /\ UNCHANGED <<build, held, shown>>
  BY DEF UpsertPromise, LedgerInv
<1>2. PICK p \in shown \cup Manual :
        /\ ledger' = [ledger EXCEPT !.promises = @ \cup {p}, !.overridden = @ \cup {p}]
        /\ strayed' = strayed \cup ({p} \ (ledger.promises \cup ledger.anchors))
  BY DEF UpsertPromise
<1>3. p \in Promises
  BY DEF LedgerInv, Promises
<1>4. WellAnchored(ledger', strayed')
  BY <1>1, <1>2, <1>3 DEF WellAnchored, LedgerType
<1>5. strayed \subseteq strayed'
  BY <1>2
<1>6. HeldLedger(strayed)'
  BY <1>1, <1>4, <1>5, MoreStrayed, AnchoredIsLedger DEF LedgerInv, HeldLedger
<1> QED
  BY <1>1, <1>4, <1>5, <1>6, MoreStrayed DEF LedgerInv

LEMMA DeletePromiseStep == ASSUME LedgerInv, DeletePromise PROVE LedgerInv'
<1>1. ledger # NoLedger /\ WellAnchored(ledger, strayed) /\ UNCHANGED <<build, held, shown, strayed>>
  BY DEF DeletePromise, LedgerInv
<1>2. WellAnchored(ledger', strayed)
  BY <1>1 DEF DeletePromise, WellAnchored, LedgerType
<1>3. HeldLedger(strayed)'
  BY <1>1, <1>2, AnchoredIsLedger DEF LedgerInv, HeldLedger
<1> QED
  BY <1>1, <1>2, <1>3 DEF LedgerInv

(* A relocation that drops the anchor of a promise makes it stray.         *)
LEMMA RelocatedStep == ASSUME LedgerInv, Relocated PROVE LedgerInv'
<1> DEFINE l == IF held.is = "current" THEN ledger ELSE held.was
<1>1. /\ WellAnchored(l, strayed) /\ held.anchors \subseteq Promises
      /\ held' = NotHeld /\ UNCHANGED <<build, shown>>
  BY DEF Relocated, LedgerInv, HeldLedger
<1>2. PICK late \in SUBSET (l.anchors \ held.anchors) :
        /\ ledger' = [l EXCEPT !.anchors = held.anchors \cup late]
        /\ strayed' = strayed \cup (l.promises \ ledger'.anchors)
  BY DEF Relocated
<1> HIDE DEF l
<1>3. WellAnchored(ledger', strayed')
  BY <1>1, <1>2 DEF WellAnchored, LedgerType
<1>4. HeldLedger(strayed)'
  BY <1>1 DEF HeldLedger, NotHeld
<1>5. strayed \subseteq strayed'
  BY <1>2
<1> QED
  BY <1>1, <1>3, <1>4, <1>5, MoreStrayed DEF LedgerInv

LEMMA LedgerStep == LedgerInv /\ [LedgerNext]_ledgerVars => LedgerInv'
<1> SUFFICES ASSUME LedgerInv, [LedgerNext]_ledgerVars PROVE LedgerInv'
  OBVIOUS
<1>1. ASSUME NEW b \in Builds, BuildStops(b) PROVE LedgerInv'
  <2>1. /\ build' \in [Builds -> AnyBuild] /\ UNCHANGED <<ledger, held, shown, strayed>>
        /\ \A d \in Builds : /\ build'[d].kept = build[d].kept
                             /\ build'[d].kept_anchors = build[d].kept_anchors
    BY <1>1 DEF BuildStops, LedgerInv, AnyBuild, Working
  <2> QED
    BY <2>1, BuildMoves DEF LedgerInv, HeldLedger
<1>2. CASE DeleteLedger
  <2>1. /\ ledger' = NoLedger \/ WellAnchored(ledger', strayed')
        /\ HeldLedger(strayed)' /\ UNCHANGED <<build, shown, strayed>>
    BY <1>2, ReplacesStep DEF DeleteLedger
  <2> QED
    BY <2>1 DEF LedgerInv
<1>3. CASE Relocate
  <2>1. ledger # NoLedger /\ ledger.anchors \subseteq Promises
    BY <1>3 DEF Relocate, LedgerInv, WellAnchored, LedgerType
  <2>2. /\ held' = [is |-> "current", was |-> NoLedger, anchors |-> ledger.anchors]
        /\ UNCHANGED <<ledger, build, shown, strayed>>
    BY <1>3 DEF Relocate
  <2>3. HeldLedger(strayed)'
    BY <2>1, <2>2 DEF HeldLedger
  <2> QED
    BY <2>2, <2>3 DEF LedgerInv
<1>4. CASE UNCHANGED ledgerVars
  BY <1>4 DEF ledgerVars, LedgerInv, HeldLedger
<1> QED
  BY <1>1, <1>2, <1>3, <1>4, AttemptStep, RequestBuildStep, MergeStep, UpsertPromiseStep, DeletePromiseStep,
     RelocatedStep DEF LedgerNext

LEMMA LedgerBegins == LedgerInit => LedgerInv /\ PromisesAnchored
BY DEF LedgerInit, LedgerInv, PromisesAnchored, KeptAnchored, HeldLedger, NotHeld, NotBuilding, AnyBuild

LEMMA LedgerIsTrue == LedgerInv => PromisesAnchored
BY DEF LedgerInv, PromisesAnchored, WellAnchored

-----------------------------------------------------------------------------
(***************************************************************************)
(* Reviews and their sessions: a session's name is that of a review that   *)
(* is done before another review can name it (NamedByDone), so that no     *)
(* session that others were put into is begun anew; and a session holds    *)
(* points of completed reviews only.                                       *)
(***************************************************************************)
ReviewStages == {"new", "ledger", "coherence", "rw", "llm", "parallel", "found", "saving", "done",
            "unsaved", "error", "stopped"}
PointsOf(r) == {p \in Points : p[1] = r}
AnyTurn == [role : {"author", "reviewer"}, of : Rebuttals]

ReviewTypes ==
  /\ listed \subseteq Reviews /\ deleted \subseteq Reviews
  /\ session \in [Reviews -> SUBSET Points]
  /\ review \in [Reviews -> [at : ReviewStages, into : Reviews, points : SUBSET Points]]
  /\ \A r \in Reviews : review[r].points \subseteq PointsOf(r)

NamedByDone ==
  /\ \A s \in listed \cup deleted : review[s].at \in {"done", "unsaved"}
  /\ \A q \in Reviews : review[q].into # q => review[review[q].into].at \in {"done", "unsaved"}
  /\ \A q \in Reviews : review[q].at = "saving" => review[q].into # q

HeldPoints ==
  /\ \A s \in Reviews : \A p \in session[s] : review[p[1]].at \in {"saving", "done", "unsaved"}
  /\ \A r \in Reviews : review[r].at \in {"saving", "done", "unsaved"} =>
                          review[r].points \subseteq session[review[r].into]
  /\ \A r \in Reviews : review[r].at \in {"done", "unsaved"} /\ review[r].into \notin deleted =>
                          review[r].into \in listed

ThreadTypes ==
  /\ thread \in [Points -> Seq(AnyTurn)]
  /\ rebuttal \in [Rebuttals -> [at : {"new", "asking", "over"}, point : Points \cup {<<>>}]]

(* A rebuttal that is asked about has its turn, and replies are of those   *)
(* that are over.                                                          *)
TurnsRecorded ==
  /\ \A b \in Rebuttals : rebuttal[b].at = "asking" =>
       /\ rebuttal[b].point \in Points
       /\ \E j \in DOMAIN thread[rebuttal[b].point] :
            thread[rebuttal[b].point][j] = Turn("author", b)
  /\ \A p \in Points : \A i \in DOMAIN thread[p] :
       thread[p][i].role = "reviewer" => rebuttal[thread[p][i].of].at = "over"

ReviewInv == ReviewTypes /\ NamedByDone /\ HeldPoints /\ ThreadTypes /\ TurnsRecorded /\ RepliesFollow

-----------------------------------------------------------------------------
LEMMA PointFacts ==
  /\ \A p \in Points : p[1] \in Reviews
  /\ \A r \in Reviews, tag \in {"ledger", "coherence", "rw", "llm"} \cup PerspectiveSet :
       <<r, tag>> \in PointsOf(r)
  /\ \A r \in Reviews : PointsOf(r) \subseteq Points
BY DEF Points, PointsOf

(* A review that is not yet put into a session moves on.                   *)
LEMMA UnputMoves ==
  ASSUME ReviewInv, NEW r \in Reviews, review[r].at \notin {"saving", "done", "unsaved"},
         NEW m \in [at : ReviewStages \ {"saving", "done", "unsaved"}, into : Reviews, points : SUBSET PointsOf(r)],
         review' = [review EXCEPT ![r] = m], m.into # r => review[m.into].at \in {"done", "unsaved"},
         UNCHANGED <<listed, session, deleted, thread, rebuttal>>
  PROVE  ReviewInv'
<1>1. \A q \in Reviews : review'[q] = IF q = r THEN m ELSE review[q]
  BY DEF ReviewInv, ReviewTypes
<1>2. /\ m.at \notin {"saving", "done", "unsaved"} /\ m.points \subseteq PointsOf(r) /\ m.into \in Reviews
      /\ m \in [at : ReviewStages, into : Reviews, points : SUBSET Points]
  BY PointFacts
<1>3. ReviewTypes'
  BY <1>1, <1>2, PointFacts DEF ReviewInv, ReviewTypes
<1>4. \A q \in Reviews : /\ review[q].at \in {"done", "unsaved"} <=> review'[q].at \in {"done", "unsaved"}
                         /\ review[q].at = "saving" <=> review'[q].at = "saving"
                         /\ q # r => review'[q] = review[q]
  BY <1>1, <1>2
<1>5. listed \cup deleted \subseteq Reviews /\ review[r].at \notin {"done", "unsaved"}
      /\ \A q \in Reviews : review[q].into \in Reviews
  BY DEF ReviewInv, ReviewTypes
<1>6. NamedByDone'
  BY <1>1, <1>2, <1>4, <1>5 DEF ReviewInv, NamedByDone
<1>7. HeldPoints'
  <2>1. \A s \in Reviews : \A p \in session[s] : p[1] \in Reviews
    BY PointFacts DEF ReviewInv, ReviewTypes
  <2> QED
    BY <1>1, <1>2, <1>4, <2>1 DEF ReviewInv, HeldPoints
<1>8. ThreadTypes' /\ TurnsRecorded' /\ RepliesFollow'
  BY DEF ReviewInv, ThreadTypes, TurnsRecorded, RepliesFollow
<1> QED
  BY <1>3, <1>6, <1>7, <1>8 DEF ReviewInv

LEMMA BeginReviewStep == ASSUME ReviewInv, NEW r \in Reviews, BeginReview(r) PROVE ReviewInv'
<1> DEFINE old == review[r]
<1>1. PICK s \in listed \cup {r}, mode \in {"ledger", "parallel"} :
        review' = [review EXCEPT ![r].at = mode, ![r].into = s]
  BY DEF BeginReview
<1> DEFINE m == [old EXCEPT !.at = mode, !.into = s]
<1>2. /\ old \in [at : ReviewStages, into : Reviews, points : SUBSET Points]
      /\ old.points \subseteq PointsOf(r) /\ old.at = "new" /\ s \in Reviews
      /\ review \in [Reviews -> [at : ReviewStages, into : Reviews, points : SUBSET Points]]
  BY DEF BeginReview, ReviewInv, ReviewTypes
<1>3. review' = [review EXCEPT ![r] = m]
  BY <1>1, <1>2
<1>4. m \in [at : ReviewStages \ {"saving", "done", "unsaved"}, into : Reviews, points : SUBSET PointsOf(r)] /\ m.into = s
  <2> HIDE DEF old
  <2> QED BY <1>2 DEF ReviewStages
<1>5. s # r => review[s].at \in {"done", "unsaved"}
  BY DEF ReviewInv, NamedByDone
<1>6. UNCHANGED <<listed, session, deleted, thread, rebuttal>>
  BY DEF BeginReview
<1> HIDE DEF m
<1> QED
  BY <1>2, <1>3, <1>4, <1>5, <1>6, UnputMoves

LEMMA ToStep ==
  ASSUME ReviewInv, NEW r \in Reviews, review[r].at \notin {"saving", "done", "unsaved"},
         NEW place \in ReviewStages \ {"saving", "done", "unsaved"},
         NEW found \in SUBSET ({"ledger", "coherence", "rw", "llm"} \cup PerspectiveSet),
         To(r, place, found)
  PROVE  ReviewInv'
<1> DEFINE old == review[r]
           m == [old EXCEPT !.at = place, !.points = old.points \cup ({r} \X found)]
<1>1. /\ old \in [at : ReviewStages, into : Reviews, points : SUBSET Points]
      /\ old.points \subseteq PointsOf(r)
      /\ review \in [Reviews -> [at : ReviewStages, into : Reviews, points : SUBSET Points]]
  BY DEF ReviewInv, ReviewTypes
<1>2. review' = [review EXCEPT ![r] = m]
  BY <1>1 DEF To
<1>3. {r} \X found \subseteq PointsOf(r)
  <2> SUFFICES ASSUME NEW p \in {r} \X found PROVE p \in PointsOf(r)
    OBVIOUS
  <2>1. p = <<r, p[2]>> /\ p[2] \in found
    OBVIOUS
  <2>2. <<r, p[2]>> \in PointsOf(r)
    BY <2>1, PointFacts
  <2> QED
    BY <2>1, <2>2
<1>4. m \in [at : ReviewStages \ {"saving", "done", "unsaved"}, into : Reviews, points : SUBSET PointsOf(r)]
      /\ m.into = old.into
  <2> HIDE DEF old
  <2> QED BY <1>1, <1>3
<1>5. old.into # r => review[old.into].at \in {"done", "unsaved"}
  BY DEF ReviewInv, NamedByDone
<1>6. UNCHANGED <<listed, session, deleted, thread, rebuttal>>
  BY DEF To
<1> HIDE DEF m
<1> QED
  BY <1>2, <1>4, <1>5, <1>6, UnputMoves

LEMMA StagesStep ==
  ASSUME ReviewInv, NEW r \in Reviews,
         \/ Stage(r) \/ RelatedWorkCheck(r) \/ NoRelatedWork(r)
         \/ Gather(r) \/ ReviewStops(r)
  PROVE  ReviewInv'
<1> DEFINE Tags == {"ledger", "coherence", "rw", "llm"} \cup PerspectiveSet
<1>1. ASSUME Stage(r) PROVE ReviewInv'
  <2>1. PICK found \in SUBSET {review[r].at} : To(r, After[review[r].at], found)
    BY <1>1 DEF Stage
  <2>2. /\ review[r].at \in {"ledger", "coherence", "llm"}
        /\ After[review[r].at] \in {"coherence", "rw", "found"}
    BY <1>1 DEF Stage, After
  <2>3. found \in SUBSET Tags
    BY <2>2
  <2> QED
    BY <2>1, <2>2, <2>3, ToStep DEF ReviewStages
<1>2. ASSUME RelatedWorkCheck(r) \/ NoRelatedWork(r) PROVE ReviewInv'
  <2>1. review[r].at = "rw" /\ After.rw = "llm"
    BY <1>2 DEF RelatedWorkCheck, NoRelatedWork, After
  <2>2. \E place \in {"llm", "error"}, found \in SUBSET {"rw"} : To(r, place, found)
    BY <1>2, <2>1 DEF RelatedWorkCheck, NoRelatedWork
  <2> QED
    BY <2>1, <2>2, ToStep DEF ReviewStages
<1>3. ASSUME Gather(r) PROVE ReviewInv'
  <2>1. review[r].at = "parallel"
    BY <1>3 DEF Gather
  <2>2. \E place \in {"found", "error"}, found \in SUBSET Tags : To(r, place, found)
    <3>1. PICK first \in SUBSET {"ledger"}, title \in UNION {[answered -> {1, 2}] : answered \in SUBSET PerspectiveSet} :
            LET kept == {Perspectives[i] : i \in {n \in DOMAIN Perspectives :
                      /\ Perspectives[n] \in DOMAIN title
                      /\ \A m \in 1..(n - 1) : Perspectives[m] \in DOMAIN title =>
                           title[Perspectives[m]] # title[Perspectives[n]]}}
            IN IF kept = {} THEN To(r, "error", first) ELSE To(r, "found", first \cup kept)
      BY <1>3 DEF Gather
    <3> DEFINE kept == {Perspectives[i] : i \in {n \in DOMAIN Perspectives :
                      /\ Perspectives[n] \in DOMAIN title
                      /\ \A m \in 1..(n - 1) : Perspectives[m] \in DOMAIN title =>
                           title[Perspectives[m]] # title[Perspectives[n]]}}
    <3>2. kept \subseteq PerspectiveSet
      BY DEF PerspectiveSet
    <3>3. IF kept = {} THEN To(r, "error", first) ELSE To(r, "found", first \cup kept)
      BY <3>1
    <3> HIDE DEF kept
    <3> QED
      BY <3>2, <3>3
  <2> QED
    BY <2>1, <2>2, ToStep DEF ReviewStages
<1>4. ASSUME ReviewStops(r) PROVE ReviewInv'
  <2>1. /\ review[r].at \notin {"saving", "done", "unsaved"} /\ To(r, "stopped", {})
        /\ {} \in SUBSET Tags
    BY <1>4 DEF ReviewStops
  <2> QED
    BY <2>1, ToStep DEF ReviewStages
<1> QED
  BY <1>1, <1>2, <1>3, <1>4

(* The threads stay as they are.                                           *)
LEMMA ThreadsStay ==
  ASSUME ReviewInv, UNCHANGED <<thread, rebuttal>>
  PROVE  ThreadTypes' /\ TurnsRecorded' /\ RepliesFollow'
BY DEF ReviewInv, ThreadTypes, TurnsRecorded, RepliesFollow

LEMMA CompleteStep == ASSUME ReviewInv, NEW r \in Reviews, Complete(r) PROVE ReviewInv'
<1> DEFINE old == review[r]
<1>0. /\ old \in [at : ReviewStages, into : Reviews, points : SUBSET Points]
      /\ old.points \subseteq PointsOf(r) /\ old.at = "found"
      /\ review \in [Reviews -> [at : ReviewStages, into : Reviews, points : SUBSET Points]]
      /\ session \in [Reviews -> SUBSET Points] /\ listed \subseteq Reviews /\ deleted \subseteq Reviews
  BY DEF Complete, ReviewInv, ReviewTypes
<1>1. UNCHANGED <<thread, rebuttal, deleted>>
  BY DEF Complete
<1>2. r \notin listed \cup deleted /\ \A q \in Reviews \ {r} : review[q].into # r
  BY <1>0 DEF ReviewInv, NamedByDone
<1>3. \A s \in Reviews : \A p \in session[s] : p[1] \in Reviews
  BY <1>0, PointFacts
<1>4. CASE old.into \in listed
  <2>1. /\ session' = [session EXCEPT ![old.into] = session[old.into] \cup old.points]
        /\ review' = [review EXCEPT ![r] = [old EXCEPT !.at = "saving"]]
        /\ listed' = listed
    BY <1>0, <1>4 DEF Complete, Extended
  <2>2. \A q \in Reviews : /\ q # r => review'[q] = review[q]
                           /\ review'[q].into = review[q].into /\ review'[q].points = review[q].points
                           /\ review[q].at \in {"saving", "done", "unsaved"} => review'[q].at = review[q].at
    BY <1>0, <2>1
  <2>3. review'[r].at = "saving" /\ old.into # r
    BY <1>0, <1>2, <1>4, <2>1
  <2>4. \A s \in Reviews : /\ session[s] \subseteq session'[s]
                           /\ session'[s] \subseteq session[s] \cup old.points
    BY <1>0, <2>1
  <2>5. old.points \subseteq session'[old.into]
    BY <1>0, <2>1
  <2>6. ReviewTypes'
    <3>1. review' \in [Reviews -> [at : ReviewStages, into : Reviews, points : SUBSET Points]]
      BY <1>0, <2>1 DEF ReviewStages
    <3>2. session' \in [Reviews -> SUBSET Points]
      BY <1>0, <2>1
    <3> QED
      BY <1>0, <1>1, <2>1, <2>2, <3>1, <3>2 DEF ReviewInv, ReviewTypes
  <2>7. NamedByDone'
    BY <1>0, <1>1, <1>2, <2>1, <2>2, <2>3 DEF ReviewInv, NamedByDone
  <2>8. \A p \in old.points : p[1] = r
    BY <1>0 DEF PointsOf
  <2>9. HeldPoints'
    <3>1. \A s \in Reviews : \A p \in session'[s] : review'[p[1]].at \in {"saving", "done", "unsaved"}
      BY <1>3, <2>2, <2>3, <2>4, <2>8 DEF ReviewInv, HeldPoints
    <3>2. \A q \in Reviews : review'[q].at \in {"saving", "done", "unsaved"} =>
                              review'[q].points \subseteq session'[review'[q].into]
      <4> SUFFICES ASSUME NEW q \in Reviews, review'[q].at \in {"saving", "done", "unsaved"}
                   PROVE  review'[q].points \subseteq session'[review'[q].into]
        OBVIOUS
      <4>1. CASE q = r
        BY <2>2, <2>5, <4>1
      <4>2. CASE q # r
        <5>1. review[q].points \subseteq session[review[q].into] /\ review[q].into \in Reviews
          BY <1>0, <2>2, <4>2 DEF ReviewInv, HeldPoints
        <5> QED
          BY <2>2, <2>4, <4>2, <5>1
      <4> QED
        BY <4>1, <4>2
    <3>3. \A q \in Reviews : review'[q].at \in {"done", "unsaved"} /\ review'[q].into \notin deleted' =>
                              review'[q].into \in listed'
      BY <1>1, <2>1, <2>2, <2>3 DEF ReviewInv, HeldPoints
    <3> QED
      BY <3>1, <3>2, <3>3 DEF HeldPoints
  <2> QED
    BY <1>1, <2>6, <2>7, <2>9, ThreadsStay DEF ReviewInv
<1>5. CASE old.into \notin listed
  <2>0. PICK end \in {"done", "unsaved"} : review' = [review EXCEPT ![r].at = end, ![r].into = r]
    BY <1>5 DEF Complete, Saved
  <2>1. /\ session' = [session EXCEPT ![r] = old.points]
        /\ review' = [review EXCEPT ![r] = [old EXCEPT !.at = end, !.into = r]]
        /\ listed' = listed \cup {r}
    BY <1>0, <1>5, <2>0 DEF Complete
  <2>2. /\ \A q \in Reviews \ {r} : review'[q] = review[q]
        /\ review'[r].at \in {"done", "unsaved"} /\ review'[r].into = r /\ review'[r].points = old.points
    BY <1>0, <2>1
  <2>3. /\ \A s \in Reviews \ {r} : session'[s] = session[s]
        /\ session'[r] = old.points
    BY <1>0, <2>1
  <2>4. ReviewTypes'
    <3>1. review' \in [Reviews -> [at : ReviewStages, into : Reviews, points : SUBSET Points]]
      BY <1>0, <2>1 DEF ReviewStages
    <3>2. session' \in [Reviews -> SUBSET Points]
      BY <1>0, <2>1
    <3> QED
      BY <1>0, <1>1, <2>1, <2>2, <3>1, <3>2 DEF ReviewInv, ReviewTypes
  <2>5. NamedByDone'
    BY <1>0, <1>1, <1>2, <2>1, <2>2 DEF ReviewInv, NamedByDone
  <2>6. \A p \in old.points : p[1] = r
    BY <1>0 DEF PointsOf
  <2>7. HeldPoints'
    <3>1. \A s \in Reviews : \A p \in session'[s] : review'[p[1]].at \in {"saving", "done", "unsaved"}
      <4> SUFFICES ASSUME NEW s \in Reviews, NEW p \in session'[s]
                   PROVE  review'[p[1]].at \in {"saving", "done", "unsaved"}
        OBVIOUS
      <4>1. CASE s = r
        BY <2>2, <2>3, <2>6, <4>1
      <4>2. CASE s # r
        BY <1>3, <2>2, <2>3, <4>2 DEF ReviewInv, HeldPoints
      <4> QED
        BY <4>1, <4>2
    <3>2. \A q \in Reviews : review'[q].at \in {"saving", "done", "unsaved"} =>
                              review'[q].points \subseteq session'[review'[q].into]
      BY <1>0, <1>2, <2>2, <2>3 DEF ReviewInv, HeldPoints
    <3>3. \A q \in Reviews : review'[q].at \in {"done", "unsaved"} /\ review'[q].into \notin deleted' =>
                              review'[q].into \in listed'
      BY <1>1, <2>1, <2>2 DEF ReviewInv, HeldPoints
    <3> QED
      BY <3>1, <3>2, <3>3 DEF HeldPoints
  <2> QED
    BY <1>1, <2>4, <2>5, <2>7, ThreadsStay DEF ReviewInv
<1> QED
  BY <1>4, <1>5

LEMMA SaveReviewStep == ASSUME ReviewInv, NEW r \in Reviews, SaveReview(r) PROVE ReviewInv'
<1> DEFINE old == review[r]
<1>0. /\ old \in [at : ReviewStages, into : Reviews, points : SUBSET Points] /\ old.at = "saving"
      /\ review \in [Reviews -> [at : ReviewStages, into : Reviews, points : SUBSET Points]]
  BY DEF SaveReview, ReviewInv, ReviewTypes
<1>a. PICK end \in {"done", "unsaved"} : review' = [review EXCEPT ![r].at = end]
  BY DEF SaveReview, Saved
<1>1. /\ UNCHANGED <<session, thread, rebuttal, deleted>>
      /\ listed' = listed \cup {old.into} /\ review' = [review EXCEPT ![r] = [old EXCEPT !.at = end]]
  BY <1>0, <1>a DEF SaveReview
<1>2. \A q \in Reviews : /\ q # r => review'[q] = review[q]
                         /\ review'[q].into = review[q].into /\ review'[q].points = review[q].points
                         /\ review[q].at \in {"saving", "done", "unsaved"} <=> review'[q].at \in {"saving", "done", "unsaved"}
                         /\ review[q].at \in {"done", "unsaved"} => review'[q].at \in {"done", "unsaved"}
                         /\ review'[q].at = "saving" => review[q].at = "saving"
  BY <1>0, <1>1
<1>3. review'[r].at \in {"done", "unsaved"}
  BY <1>0, <1>1
<1>4. ReviewTypes'
  <2>1. review' \in [Reviews -> [at : ReviewStages, into : Reviews, points : SUBSET Points]]
    BY <1>0, <1>1 DEF ReviewStages
  <2> QED
    BY <1>0, <1>1, <1>2, <2>1 DEF ReviewInv, ReviewTypes
<1>5. NamedByDone'
  <2>1. review[old.into].at \in {"done", "unsaved"} /\ \A q \in Reviews : review[q].into \in Reviews
    BY <1>0 DEF ReviewInv, NamedByDone
  <2>2. listed \cup deleted \subseteq Reviews
    BY DEF ReviewInv, ReviewTypes
  <2> QED
    BY <1>0, <1>1, <1>2, <2>1, <2>2 DEF ReviewInv, NamedByDone
<1>6. HeldPoints'
  <2>1. \A s \in Reviews : \A p \in session[s] : p[1] \in Reviews
    BY PointFacts DEF ReviewInv, ReviewTypes
  <2> QED
    BY <1>1, <1>2, <1>3, <2>1 DEF ReviewInv, HeldPoints
<1> QED
  BY <1>1, <1>4, <1>5, <1>6, ThreadsStay DEF ReviewInv

LEMMA DeleteReviewStep == ASSUME ReviewInv, DeleteReview PROVE ReviewInv'
<1>1. PICK s \in listed : listed' = listed \ {s} /\ deleted' = deleted \cup {s}
  BY DEF DeleteReview
<1>2. UNCHANGED <<session, thread, review, rebuttal>>
  BY DEF DeleteReview
<1>3. ReviewTypes'
  BY <1>1, <1>2 DEF ReviewInv, ReviewTypes
<1>4. NamedByDone' /\ HeldPoints'
  BY <1>1, <1>2 DEF ReviewInv, NamedByDone, HeldPoints
<1> QED
  BY <1>2, <1>3, <1>4, ThreadsStay DEF ReviewInv

-----------------------------------------------------------------------------
LEMMA StartRebuttalStep ==
  ASSUME ReviewInv, NEW b \in Rebuttals, StartRebuttal(b)
  PROVE  ReviewInv'
<1>0. PICK s \in listed : \E p \in session[s], place \in {"asking", "over"} :
        /\ rebuttal' = [rebuttal EXCEPT ![b] = [at |-> place, point |-> p]]
        /\ thread' = [thread EXCEPT ![p] = thread[p] \o <<Turn("author", b)>>]
  BY DEF StartRebuttal, Says, Disputable
<1>1. PICK p \in session[s], place \in {"asking", "over"} :
        /\ rebuttal' = [rebuttal EXCEPT ![b] = [at |-> place, point |-> p]]
        /\ thread' = [thread EXCEPT ![p] = thread[p] \o <<Turn("author", b)>>]
  BY <1>0
<1>2. /\ UNCHANGED <<listed, session, review, deleted>> /\ rebuttal[b].at = "new"
      /\ p \in Points
  BY DEF StartRebuttal, ReviewInv, ReviewTypes
<1> DEFINE new == Turn("author", b)
           n == Len(thread[p])
           longer == thread[p] \o <<new>>
<1>3. new \in AnyTurn /\ new.role = "author" /\ new.of = b
  BY DEF AnyTurn, Turn
<1>4. thread[p] \in Seq(AnyTurn) /\ thread \in [Points -> Seq(AnyTurn)]
  BY <1>2 DEF ReviewInv, ThreadTypes
<1> HIDE DEF new
<1>5. /\ longer \in Seq(AnyTurn) /\ n \in Nat /\ DOMAIN longer = 1..(n + 1)
      /\ DOMAIN thread[p] = 1..n /\ longer[n + 1] = new /\ \A i \in 1..n : longer[i] = thread[p][i]
  BY <1>3, <1>4
<1> HIDE DEF n, longer
<1>6. /\ thread'[p] = longer /\ thread' \in [Points -> Seq(AnyTurn)]
      /\ \A q \in Points \ {p} : thread'[q] = thread[q]
  BY <1>1, <1>2, <1>4, <1>5 DEF longer, new
<1>7. /\ rebuttal'[b] = [at |-> place, point |-> p]
      /\ \A d \in Rebuttals \ {b} : rebuttal'[d] = rebuttal[d]
      /\ rebuttal' \in [Rebuttals -> [at : {"new", "asking", "over"}, point : Points \cup {<<>>}]]
  BY <1>1, <1>2 DEF ReviewInv, ThreadTypes
<1>8. ThreadTypes'
  BY <1>6, <1>7 DEF ThreadTypes
<1>9. \A q \in Points : \A i \in DOMAIN thread[q] :
        i \in DOMAIN thread'[q] /\ thread'[q][i] = thread[q][i]
  BY <1>5, <1>6
<1>10. \A q \in Points : \A i \in DOMAIN thread'[q] :
         \/ i \in DOMAIN thread[q] /\ thread'[q][i] = thread[q][i]
         \/ q = p /\ i = n + 1 /\ thread'[q][i] = new
  BY <1>5, <1>6
<1>11. TurnsRecorded'
  <2>1. ASSUME NEW d \in Rebuttals, rebuttal'[d].at = "asking"
        PROVE  /\ rebuttal'[d].point \in Points
               /\ \E j \in DOMAIN thread'[rebuttal'[d].point] :
                    thread'[rebuttal'[d].point][j] = Turn("author", d)
    <3>1. CASE d = b
      <4>1. n + 1 \in DOMAIN thread'[p] /\ thread'[p][n + 1] = new
        BY <1>5, <1>6
      <4> QED
        BY <1>2, <1>7, <3>1, <4>1 DEF new
    <3>2. CASE d # b
      <4>1. rebuttal'[d] = rebuttal[d]
        BY <1>7, <3>2
      <4>2. /\ rebuttal[d].point \in Points
            /\ \E j \in DOMAIN thread[rebuttal[d].point] :
                 thread[rebuttal[d].point][j] = Turn("author", d)
        BY <2>1, <4>1 DEF ReviewInv, TurnsRecorded
      <4> QED
        BY <1>9, <4>1, <4>2
    <3> QED
      BY <3>1, <3>2
  <2>2. ASSUME NEW q \in Points, NEW i \in DOMAIN thread'[q], thread'[q][i].role = "reviewer"
        PROVE  rebuttal'[thread'[q][i].of].at = "over"
    <3>1. i \in DOMAIN thread[q] /\ thread'[q][i] = thread[q][i]
      BY <1>3, <1>10, <2>2
    <3>2. rebuttal[thread[q][i].of].at = "over" /\ thread[q][i] \in AnyTurn
      BY <2>2, <3>1 DEF ReviewInv, TurnsRecorded, ThreadTypes
    <3>3. thread[q][i].of \in Rebuttals
      BY <3>2 DEF AnyTurn
    <3> QED
      BY <1>2, <1>7, <3>1, <3>2, <3>3
  <2> QED
    BY <2>1, <2>2 DEF TurnsRecorded
<1>12. RepliesFollow'
  <2> SUFFICES ASSUME NEW q \in Points, NEW i \in DOMAIN thread'[q], thread'[q][i].role = "reviewer"
               PROVE  /\ \E j \in 1..(i - 1) : thread'[q][j] = Turn("author", thread'[q][i].of)
                      /\ \A j \in DOMAIN thread'[q] \ {i} : thread'[q][j] # thread'[q][i]
    BY DEF RepliesFollow
  <2>1. i \in DOMAIN thread[q] /\ thread'[q][i] = thread[q][i]
    BY <1>3, <1>10
  <2>2. /\ \E j \in 1..(i - 1) : thread[q][j] = Turn("author", thread[q][i].of)
        /\ \A j \in DOMAIN thread[q] \ {i} : thread[q][j] # thread[q][i]
    BY <2>1 DEF ReviewInv, RepliesFollow
  <2>3. thread[q] \in Seq(AnyTurn)
    BY DEF ReviewInv, ThreadTypes
  <2>4. \A j \in 1..(i - 1) : j \in DOMAIN thread[q]
    BY <2>1, <2>3
  <2> QED
    BY <1>3, <1>9, <1>10, <2>1, <2>2, <2>4
<1>13. ReviewTypes' /\ NamedByDone' /\ HeldPoints'
  BY <1>2 DEF ReviewInv, ReviewTypes, NamedByDone, HeldPoints
<1> QED
  BY <1>8, <1>11, <1>12, <1>13 DEF ReviewInv

LEMMA WriteReplyStep == ASSUME ReviewInv, NEW b \in Rebuttals, WriteReply(b) PROVE ReviewInv'
<1> DEFINE p == rebuttal[b].point
<1>1. UNCHANGED <<listed, session, review, deleted>> /\ rebuttal[b].at = "asking"
  BY DEF WriteReply
<1>2. ReviewTypes' /\ NamedByDone' /\ HeldPoints'
  BY <1>1 DEF ReviewInv, ReviewTypes, NamedByDone, HeldPoints
<1>3. rebuttal \in [Rebuttals -> [at : {"new", "asking", "over"}, point : Points \cup {<<>>}]]
  BY DEF ReviewInv, ThreadTypes
<1>4. ASSUME rebuttal' = [rebuttal EXCEPT ![b].at = "over"], UNCHANGED thread
      PROVE  ReviewInv'
  <2>1. /\ rebuttal' \in [Rebuttals -> [at : {"new", "asking", "over"}, point : Points \cup {<<>>}]]
        /\ rebuttal'[b].at = "over" /\ \A d \in Rebuttals \ {b} : rebuttal'[d] = rebuttal[d]
    BY <1>3, <1>4
  <2>2. ThreadTypes'
    BY <1>4, <2>1 DEF ReviewInv, ThreadTypes
  <2>3. \A q \in Points : \A i \in DOMAIN thread[q] : thread[q][i].of \in Rebuttals
    <3>1. \A q \in Points : \A i \in DOMAIN thread[q] : thread[q][i] \in AnyTurn
      BY DEF ReviewInv, ThreadTypes
    <3> QED
      BY <3>1 DEF AnyTurn
  <2>4. TurnsRecorded'
    BY <1>1, <1>4, <2>1, <2>3, SMTT(30) DEF ReviewInv, TurnsRecorded
  <2>5. RepliesFollow'
    BY <1>4 DEF ReviewInv, RepliesFollow
  <2> QED
    BY <1>2, <2>2, <2>4, <2>5 DEF ReviewInv
<1>5. ASSUME thread' = [thread EXCEPT ![p] = thread[p] \o <<Turn("reviewer", b)>>],
             rebuttal' = [rebuttal EXCEPT ![b].at = "over"]
      PROVE  ReviewInv'
  <2> DEFINE new == Turn("reviewer", b)
             n == Len(thread[p])
             longer == thread[p] \o <<new>>
  <2>1. new \in AnyTurn /\ new.role = "reviewer" /\ new.of = b
    BY DEF AnyTurn, Turn
  <2>2. p \in Points /\ \E j \in DOMAIN thread[p] : thread[p][j] = Turn("author", b)
    BY <1>1 DEF ReviewInv, TurnsRecorded
  <2>3. thread[p] \in Seq(AnyTurn) /\ thread \in [Points -> Seq(AnyTurn)]
    BY <2>2 DEF ReviewInv, ThreadTypes
  <2>4. \A q \in Points : \A i \in DOMAIN thread[q] : thread[q][i] # new
    <3> SUFFICES ASSUME NEW q \in Points, NEW i \in DOMAIN thread[q], thread[q][i] = new
                 PROVE  FALSE
      OBVIOUS
    <3> QED
      BY <1>1, <2>1 DEF ReviewInv, TurnsRecorded
  <2> HIDE DEF new
  <2>5. /\ longer \in Seq(AnyTurn) /\ n \in Nat /\ DOMAIN longer = 1..(n + 1)
        /\ DOMAIN thread[p] = 1..n /\ longer[n + 1] = new /\ \A i \in 1..n : longer[i] = thread[p][i]
    BY <2>1, <2>3
  <2> HIDE DEF n, longer
  <2>6. /\ thread'[p] = longer /\ thread' \in [Points -> Seq(AnyTurn)]
        /\ \A q \in Points \ {p} : thread'[q] = thread[q]
    BY <1>5, <2>2, <2>3, <2>5 DEF longer, new
  <2>7. /\ rebuttal'[b].at = "over" /\ \A d \in Rebuttals \ {b} : rebuttal'[d] = rebuttal[d]
        /\ rebuttal' \in [Rebuttals -> [at : {"new", "asking", "over"}, point : Points \cup {<<>>}]]
    BY <1>3, <1>5
  <2>8. ThreadTypes'
    BY <2>6, <2>7 DEF ThreadTypes
  <2>9. \A q \in Points : \A i \in DOMAIN thread[q] :
          i \in DOMAIN thread'[q] /\ thread'[q][i] = thread[q][i]
    BY <2>5, <2>6
  <2>10. \A q \in Points : \A i \in DOMAIN thread'[q] :
           \/ i \in DOMAIN thread[q] /\ thread'[q][i] = thread[q][i]
           \/ q = p /\ i = n + 1 /\ thread'[q][i] = new
    BY <2>5, <2>6
  <2>11. TurnsRecorded'
    <3>1. ASSUME NEW d \in Rebuttals, rebuttal'[d].at = "asking"
          PROVE  /\ rebuttal'[d].point \in Points
                 /\ \E j \in DOMAIN thread'[rebuttal'[d].point] :
                      thread'[rebuttal'[d].point][j] = Turn("author", d)
      BY <2>7, <2>9, <3>1 DEF ReviewInv, TurnsRecorded
    <3>2. ASSUME NEW q \in Points, NEW i \in DOMAIN thread'[q], thread'[q][i].role = "reviewer"
          PROVE  rebuttal'[thread'[q][i].of].at = "over"
      <4>1. CASE thread'[q][i] = new
        BY <2>1, <2>7, <4>1
      <4>2. CASE thread'[q][i] # new
        <5>1. i \in DOMAIN thread[q] /\ thread'[q][i] = thread[q][i]
          BY <2>10, <4>2
        <5>2. rebuttal[thread[q][i].of].at = "over" /\ thread[q][i] \in AnyTurn
          BY <3>2, <5>1 DEF ReviewInv, TurnsRecorded, ThreadTypes
        <5>3. thread[q][i].of \in Rebuttals
          BY <5>2 DEF AnyTurn
        <5> QED
          BY <2>7, <5>1, <5>2, <5>3
      <4> QED
        BY <4>1, <4>2
    <3> QED
      BY <3>1, <3>2 DEF TurnsRecorded
  <2>12. RepliesFollow'
    <3> SUFFICES ASSUME NEW q \in Points, NEW i \in DOMAIN thread'[q], thread'[q][i].role = "reviewer"
                 PROVE  /\ \E j \in 1..(i - 1) : thread'[q][j] = Turn("author", thread'[q][i].of)
                        /\ \A j \in DOMAIN thread'[q] \ {i} : thread'[q][j] # thread'[q][i]
      BY DEF RepliesFollow
    <3>1. CASE i \in DOMAIN thread[q] /\ thread'[q][i] = thread[q][i]
      <4>2. /\ \E j \in 1..(i - 1) : thread[q][j] = Turn("author", thread[q][i].of)
            /\ \A j \in DOMAIN thread[q] \ {i} : thread[q][j] # thread[q][i]
        BY <3>1 DEF ReviewInv, RepliesFollow
      <4>3. thread[q] \in Seq(AnyTurn)
        BY DEF ReviewInv, ThreadTypes
      <4>4. \A j \in 1..(i - 1) : j \in DOMAIN thread[q]
        BY <3>1, <4>3
      <4>5. thread[q][i] # new
        BY <2>4, <3>1
      <4> QED
        BY <2>9, <2>10, <3>1, <4>2, <4>4, <4>5
    <3>2. CASE q = p /\ i = n + 1 /\ thread'[q][i] = new
      <4>1. PICK j \in DOMAIN thread[p] : thread[p][j] = Turn("author", b)
        BY <2>2
      <4>2. j \in 1..(i - 1) /\ thread'[q][j] = Turn("author", b)
        BY <2>5, <2>9, <3>2, <4>1, <2>2
      <4> QED
        BY <2>1, <2>4, <2>10, <3>2, <4>2
    <3> QED
      BY <2>10, <3>1, <3>2
  <2> QED
    BY <1>2, <2>8, <2>11, <2>12 DEF ReviewInv
<1> QED
  BY <1>4, <1>5 DEF WriteReply, Says

LEMMA ReviewStep == ReviewInv /\ [ReviewNext]_reviewVars => ReviewInv'
<1> SUFFICES ASSUME ReviewInv, [ReviewNext]_reviewVars PROVE ReviewInv'
  OBVIOUS
<1>1. CASE UNCHANGED reviewVars
  BY <1>1 DEF reviewVars, ReviewInv, ReviewTypes, NamedByDone, HeldPoints, ThreadTypes, TurnsRecorded,
              RepliesFollow
<1> QED
  BY <1>1, BeginReviewStep, StagesStep, CompleteStep, SaveReviewStep, DeleteReviewStep,
     StartRebuttalStep, WriteReplyStep DEF ReviewNext

LEMMA ReviewBegins == ReviewInit => ReviewInv
<1> SUFFICES ASSUME ReviewInit PROVE ReviewInv
  OBVIOUS
<1> USE DEF ReviewInit
<1>1. ReviewTypes
  BY DEF ReviewTypes, ReviewStages
<1>2. NamedByDone /\ HeldPoints
  BY DEF NamedByDone, HeldPoints
<1>3. ThreadTypes
  BY DEF ThreadTypes
<1>4. TurnsRecorded /\ RepliesFollow
  BY DEF TurnsRecorded, RepliesFollow
<1> QED
  BY <1>1, <1>2, <1>3, <1>4 DEF ReviewInv

LEMMA ReviewIsTrue == ReviewInv => SessionsHoldReviews /\ RepliesFollow
<1> SUFFICES ASSUME ReviewInv PROVE SessionsHoldReviews
  BY DEF ReviewInv
<1>1. ASSUME NEW r \in Reviews, review[r].at \in {"done", "unsaved"}, review[r].into \notin deleted
      PROVE  review[r].into \in listed /\ review[r].points \subseteq session[review[r].into]
  BY <1>1 DEF ReviewInv, HeldPoints
<1>2. ASSUME NEW r \in Reviews, review[r].at \notin {"saving", "done", "unsaved"},
             NEW s \in listed, NEW p \in session[s] \cap review[r].points
      PROVE  FALSE
  BY <1>2 DEF ReviewInv, HeldPoints, ReviewTypes, PointsOf
<1> QED
  BY <1>1, <1>2 DEF SessionsHoldReviews, Saved

=============================================================================
