---------------------------- MODULE TextAnchors -----------------------------
(* Anchors of notes in a manuscript (argument/anchor.py).  An anchor keeps *)
(* a range, the quote that stood there and the text around it; relocate    *)
(* finds it again in a text that has been edited.  A text is a sequence of *)
(* words; all lengths, of contexts, fragments and gaps, count words.       *)
EXTENDS Integers, FiniteSets, ListFilter

CONSTANTS
  TextWords,
  NoPlace,        \* a lost anchor has no range
  ContextSize,    \* CONTEXT_CHARS
  MinStrength,    \* the least context a boundary match must show
  MaxGap,         \* the widest span between two boundaries
  FuzzyPercent, ContextPercent, CombinedPercent,   \* thresholds of a fuzzy match
  Drafts,         \* texts that an anchor is made in
  MaxTextEdits,   \* bound: edits of the text
  MaxTextWords    \* bound: words of the text

ASSUME TextAnchorAssumption ==
  /\ {ContextSize, MinStrength, MaxGap, MaxTextEdits, MaxTextWords} \subseteq Nat
  /\ \A d \in Drafts : d \in Seq(TextWords) /\ Len(d) <= MaxTextWords
  /\ {FuzzyPercent, ContextPercent, CombinedPercent} \subseteq 0 .. 100
  /\ NoPlace \notin Nat \X Nat

VARIABLES
  noteText,     \* the text
  anchor,       \* the anchor
  textEdits,    \* how often the text was edited
  located       \* the text in which it was last looked for, and the anchor then

textAnchorVars == <<noteText, anchor, textEdits, located>>

(* Words start .. end - 1 of a text, as far as there are such.             *)
Slice(text, start, end) ==
  LET first == IF start < 1 THEN 1 ELSE start
      last  == IF end - 1 > Len(text) THEN Len(text) ELSE end - 1
  IN  IF first > last THEN <<>> ELSE SubSeq(text, first, last)

ContextBefore(text, start) == Slice(text, start - ContextSize, start)
ContextAfter(text, end)    == Slice(text, end, end + ContextSize)

Anchored(text, start, end, quote, status) ==
  [place |-> <<start, end>>, quote |-> quote, before |-> ContextBefore(text, start),
   after |-> ContextAfter(text, end), status |-> status]

Lost(a) == [a EXCEPT !.place = NoPlace, !.status = "lost"]

NoAnchor ==
  [place |-> NoPlace, quote |-> <<>>, before |-> <<>>, after |-> <<>>, status |-> "lost"]

TextAnchorInit ==
  /\ noteText = <<>> /\ textEdits = 0
  /\ anchor = NoAnchor /\ located = [text |-> <<>>, was |-> NoAnchor]

(***************************************************************************)
(* Candidates                                                              *)
(***************************************************************************)
Spans(text) == {s \in (1 .. Len(text)) \X (2 .. Len(text) + 1) : s[1] < s[2]}
Found(text, needle) ==
  {i \in 1 .. Len(text) + 1 - Len(needle) : Slice(text, i, i + Len(needle)) = needle}

(* A least element by a rank that is a sequence of numbers.                *)
Less(s, t) == \E i \in DOMAIN s : s[i] < t[i] /\ \A j \in 1 .. i - 1 : s[j] = t[j]
Best(set, rank) == CHOOSE x \in set : \A y \in set : ~Less(rank[y], rank[x])

Distance(a, start) ==
  IF a.place = NoPlace THEN MaxTextWords + 1
  ELSE IF start < a.place[1] THEN a.place[1] - start ELSE start - a.place[1]

Differs(m, n) == IF m < n THEN n - m ELSE m - n

(* Percent of the words of two sequences that are in a common subsequence. *)
Similarity(s, t) ==
  IF s = <<>> \/ t = <<>> THEN IF s = t THEN 100 ELSE 0
  ELSE LET common == {n \in 0 .. Len(s) : \E m \in SUBSET DOMAIN s, k \in SUBSET DOMAIN t :
                        Cardinality(m) = n /\ Kept(s, m) = Kept(t, k)}
       IN  (200 * CHOOSE n \in common : \A m \in common : m <= n) \div (Len(s) + Len(t))

ContextSimilarity(a, text, span) ==
  LET left  == Similarity(a.before, ContextBefore(text, span[1]))
      right == Similarity(a.after, ContextAfter(text, span[2]))
  IN  IF a.before = <<>> /\ a.after = <<>> THEN 100
      ELSE IF a.before = <<>> THEN right ELSE IF a.after = <<>> THEN left
      ELSE (left + right) \div 2

Combined(a, text, span) ==
  68 * Similarity(a.quote, Slice(text, span[1], span[2])) + 27 * ContextSimilarity(a, text, span)

Ranked(a, text, spans) ==
  Best(spans, [s \in spans |-> <<0 - Combined(a, text, s), 0 - ContextSimilarity(a, text, s),
                                 Distance(a, s[1]), s[1], s[2]>>])

(***************************************************************************)
(* Boundaries: the fragments of the context next to the quote              *)
(***************************************************************************)
Lefts(a)  == {Slice(a.before, i, Len(a.before) + 1) : i \in DOMAIN a.before}
Rights(a) == {Slice(a.after, 1, i + 1) : i \in DOMAIN a.after}

(* The span between a left fragment and the next right one behind it.      *)
Between(a, text) ==
  {m \in [left : Lefts(a), right : Rights(a), start : 1 .. Len(text) + 1, end : 1 .. Len(text) + 1] :
     /\ m.start - Len(m.left) \in Found(text, m.left)
     /\ m.end \in Found(text, m.right) /\ m.start <= m.end
     /\ \A e \in Found(text, m.right) : m.start <= e => m.end <= e
     /\ m.end - m.start <= MaxGap
     /\ Len(m.left) + Len(m.right) >= MinStrength}

BetweenRank(a, m) ==
  <<0 - (Len(m.left) + Len(m.right)), Distance(a, m.start), m.end - m.start,
    Differs(m.end - m.start, Len(a.quote)), m.start, m.end>>

(* Both boundaries, unless the quote still stands between them elsewhere   *)
(* than at their start.                                                    *)
BothSides(a, text) ==
  LET matches == Between(a, text)
      m == Best(matches, [n \in matches |-> BetweenRank(a, n)])
      exact == {i \in Found(text, a.quote) : m.start <= i /\ i + Len(a.quote) <= m.end}
  IN  IF matches = {} \/ (exact # {} /\ exact # {m.start}) THEN {} ELSE {<<m.start, m.end>>}

(* An anchor at the edge of the document has one boundary.                 *)
OneSide(a, text) ==
  LET ends == {m \in [by : Rights(a), at : 1 .. Len(text) + 1] :
                 Len(m.by) >= MinStrength /\ m.at \in Found(text, m.by) /\ m.at - 1 <= MaxGap}
      starts == {m \in [by : Lefts(a), at : 1 .. Len(text) + 1] :
                   /\ Len(m.by) >= MinStrength /\ m.at - Len(m.by) \in Found(text, m.by)
                   /\ Len(text) + 1 - m.at <= MaxGap}
  IN  IF a.place = NoPlace THEN {}
      ELSE IF a.before = <<>> /\ a.place[1] = 1 /\ ends # {}
        THEN {<<1, Best(ends, [m \in ends |-> <<0 - Len(m.by), m.at>>]).at>>}
      ELSE IF a.after = <<>> /\ starts # {} /\ a.place[2] = a.place[1] + Len(a.quote)
        THEN {<<Best(starts, [m \in starts |-> <<0 - Len(m.by), Distance(a, m.at), m.at>>]).at,
                Len(text) + 1>>}
      ELSE {}

(* Spans of about as many words as the quote has.                          *)
Fuzzy(a, text) ==
  {s \in Spans(text) : Differs(s[2] - s[1], Len(a.quote)) <= 1}

(* Only the best of them is tried.                                         *)
Accepted(a, text, span) ==
  /\ Similarity(a.quote, Slice(text, span[1], span[2])) >= FuzzyPercent
  /\ ContextSimilarity(a, text, span) >= ContextPercent
  /\ Combined(a, text, span) >= 100 * CombinedPercent

(***************************************************************************)
(* relocate                                                                *)
(***************************************************************************)
StaysInPlace(a, text) ==
  /\ a.place # NoPlace /\ a.place[2] = a.place[1] + Len(a.quote)
  /\ Slice(text, a.place[1], a.place[2]) = a.quote
  /\ Slice(text, a.place[1] - Len(a.before), a.place[1]) = a.before
  /\ Slice(text, a.place[2], a.place[2] + Len(a.after)) = a.after

TrustBoundary(a, text, span) == "anchored"

StatusOf(a, text, span) ==
  IF Slice(text, span[1], span[2]) = a.quote THEN "anchored" ELSE "drifted"

(* The first of these ways that gives a span; an empty one is lost.        *)
Located(a, text) ==
  LET both  == BothSides(a, text)
      exact == {<<i, i + Len(a.quote)>> : i \in Found(text, a.quote)}
      one   == OneSide(a, text)
      fuzzy == Fuzzy(a, text)
      best  == Ranked(a, text, fuzzy)
      at(span) == IF span[1] = span[2] THEN Lost(a)
                  ELSE Anchored(text, span[1], span[2], a.quote, StatusOf(a, text, span))
      the(set) == CHOOSE s \in set : TRUE
  IN  CASE a.quote = <<>>        -> Lost(a)
        [] a.quote # <<>> /\ StaysInPlace(a, text) ->
             Anchored(text, a.place[1], a.place[2], a.quote, "anchored")
        [] OTHER ->
             IF both # {} THEN at(the(both))
             ELSE IF exact # {} THEN at(Ranked(a, text, exact))
             ELSE IF one # {} THEN at(the(one))
             ELSE IF fuzzy # {} /\ Accepted(a, text, best) THEN at(best)
             ELSE Lost(a)

(***************************************************************************)
(* The note and its text                                                   *)
(***************************************************************************)
EditText(at, removed, added) ==
  LET text == Slice(noteText, 1, at) \o added \o Slice(noteText, at + removed, MaxTextWords + 1)
  IN  /\ at + removed <= Len(noteText) + 1 /\ Len(text) <= MaxTextWords
      /\ anchor.quote # <<>> /\ textEdits < MaxTextEdits
      /\ noteText' = text /\ textEdits' = textEdits + 1
      /\ UNCHANGED <<anchor, located>>

(* make_anchor_from_quote takes the first place of the quote.              *)
MakeAnchor(draft, quote) ==
  LET places == Found(draft, quote)
      start  == CHOOSE i \in places : \A j \in places : i <= j
  IN  /\ anchor.quote = <<>>
      /\ noteText' = draft /\ located' = [text |-> draft, was |-> NoAnchor]
      /\ anchor' = IF places = {} THEN [NoAnchor EXCEPT !.quote = quote]
                   ELSE Anchored(draft, start, start + Len(quote), quote, "anchored")
      /\ UNCHANGED textEdits

RelocateAnchor ==
  /\ anchor.quote # <<>> /\ located.text # noteText
  /\ anchor' = Located(anchor, noteText)
  /\ located' = [text |-> noteText, was |-> anchor]
  /\ UNCHANGED <<noteText, textEdits>>

TextAnchorNext ==
  \/ \E at \in 1 .. MaxTextWords + 1, removed \in 0 .. 1,
        added \in {<<>>} \cup {<<w>> : w \in TextWords} : EditText(at, removed, added)
  \/ \E draft \in Drafts, quote \in {<<w>> : w \in TextWords} \cup {<<v, w>> : v, w \in TextWords} :
       MakeAnchor(draft, quote)
  \/ RelocateAnchor

AnchorsSpec == TextAnchorInit /\ [][TextAnchorNext]_textAnchorVars

(***************************************************************************)
(* Properties                                                              *)
(***************************************************************************)
(* Anchor and texts have their types.                                      *)
AnchorsTypeOK ==
  /\ noteText \in Seq(TextWords) /\ located.text \in Seq(TextWords)
  /\ anchor.status \in {"anchored", "drifted", "lost"}
  /\ anchor.place = NoPlace \/ anchor.place \in (1 .. MaxTextWords) \X (1 .. MaxTextWords + 1)

(* Where the quote stands with all the context the anchor remembers.       *)
Homes(a, text) ==
  {i \in Found(text, a.quote) :
     ContextBefore(text, i) = a.before /\ ContextAfter(text, i + Len(a.quote)) = a.after}

(* An anchored anchor stands where its quote stands; a drifted one never   *)
(* does; a lost one has no place; and relocate, in a text that has the     *)
(* quote in its whole context, and no piece of that context twice, finds   *)
(* it there, whatever was written before, behind and between.              *)
AnchorsPoint ==
  LET at == Slice(located.text, anchor.place[1], anchor.place[2])
      homes == Homes(located.was, located.text)
      context == Lefts(located.was) \cup Rights(located.was)
  IN  /\ anchor.status = "lost" <=> anchor.place = NoPlace
      /\ anchor.status = "anchored" => at = anchor.quote
      /\ anchor.status = "drifted" => at # anchor.quote
      /\ /\ located.was.quote # <<>> /\ context # {} /\ homes # {}
         /\ \A piece \in context : Cardinality(Found(located.text, piece)) = 1
         => anchor.status = "anchored" /\ anchor.place[1] \in homes
=============================================================================
