---------------------------- MODULE ChunkPacking ----------------------------
(***************************************************************************)
(* How a text becomes the chunks a model translates (src/chunker):         *)
(* sentences that are too long are cut at clause boundaries                *)
(* (_split_long_sentence), the segments are merged into chunks up to the   *)
(* token limit with whole segments repeated as overlap (_merge_segments),  *)
(* and typed blocks are packed by the block-aware variant                  *)
(* (pack_blocks_into_chunks).  A text is a sequence of pieces, a piece its *)
(* length and the mark it begins with: a clause may be cut in front of     *)
(* every marked piece.  The input is read one sentence or block at a time, *)
(* which is the order the loops read their lists in.                       *)
(***************************************************************************)
EXTENDS Integers, ListFilter

CONSTANTS
    Sentences,       \* sentences a text may hold: sequences of pieces
    BlockLengths,    \* lengths a typed block may have
    MaxChars,        \* max_chars of a chunk
    Overlaps,        \* overlap_chars a caller may ask for
    RecursionLimit,  \* depth at which Python gives up a recursion
    MaxItems         \* sentences or blocks of a text

ASSUME PackingAssumption ==
    /\ Sentences \subseteq Seq([len : Nat \ {0}, mark : {"plain", "word", "sep"}])
    /\ BlockLengths \subseteq Nat \ {0} /\ Overlaps \subseteq Nat
    /\ MaxChars \in Nat \ {0} /\ MaxItems \in Nat /\ RecursionLimit \in Nat \ {0}

VARIABLES
    packing,    \* "none", "sentences", "blocks", "packed" or "overflowed"
    overlap,    \* overlap_chars of this call
    offered,    \* number of sentences or blocks read so far
    parts,      \* clauses still to be looked at: [text, depth]
    lengths,    \* lengths of the segments in the order they are produced
    merged,     \* how many of the segments the loop has dealt with
    current,    \* current_parts / current: indices of segments
    size,       \* current_len / current_chars
    packed      \* the chunks: sequences of indices of segments

packVars == <<packing, overlap, offered, parts, lengths, merged, current, size, packed>>

\* _split_sentences separates sentences by one blank, the packer blocks by two.
Joint == IF packing = "blocks" THEN 2 ELSE 1
Threshold == (MaxChars * 4) \div 5          \* int(max_chars * 0.8)

TextLength(text) == SumOf([i \in DOMAIN text |-> text[i].len])
TotalOf(indices) == SumOf([k \in DOMAIN indices |-> lengths[indices[k]]])

PackInit ==
    /\ packing = "none" /\ overlap = 0 /\ offered = 0
    /\ parts = <<>> /\ lengths = <<>> /\ merged = 0
    /\ current = <<>> /\ size = 0 /\ packed = <<>>

StartPacking ==
    /\ packing = "none"
    /\ packing' \in {"sentences", "blocks"}
    /\ overlap' \in Overlaps
    /\ UNCHANGED <<offered, parts, lengths, merged, current, size, packed>>

\* The next sentence of the text: only those over the threshold are cut.
ReadSentence ==
    /\ packing = "sentences" /\ parts = <<>> /\ offered < MaxItems
    /\ \E s \in Sentences :
          IF TextLength(s) > Threshold
          THEN parts' = <<[text |-> s, depth |-> 1]>> /\ lengths' = lengths
          ELSE parts' = <<>> /\ lengths' = Append(lengths, TextLength(s))
    /\ offered' = offered + 1
    /\ UNCHANGED <<packing, overlap, merged, current, size, packed>>

ReadBlock ==
    /\ packing = "blocks" /\ offered < MaxItems
    /\ \E n \in BlockLengths : lengths' = Append(lengths, n)
    /\ offered' = offered + 1
    /\ UNCHANGED <<packing, overlap, parts, merged, current, size, packed>>

\* The places _split_long_sentence may cut: before a connector word only when
\* something precedes it, before a separator anywhere, the start included.
CutPoints(text) == {i \in DOMAIN text : text[i].mark = "sep" \/ (i > 1 /\ text[i].mark = "word")}

\* What is between two cuts; nothing precedes a cut at the very start.
Clauses(text) ==
    LET places == [i \in 1..(Len(text) + 1) |-> i]
        cuts == Kept(places, CutPoints(text) \cup {1, Len(text) + 1})
    IN  [k \in 1..(Len(cuts) - 1) |-> SubSeq(text, cuts[k], cuts[k + 1] - 1)]

\* One call of _split_long_sentence on the first clause that waits: a clause
\* that fits, or that has no place to cut, is a segment; the others are split
\* and the function calls itself on those still too long.
CutClause ==
    /\ parts # <<>> /\ packing = "sentences"
    /\ LET text == Head(parts).text
           depth == Head(parts).depth
       IN  IF TextLength(text) =< Threshold \/ CutPoints(text) = {}
           THEN /\ lengths' = Append(lengths, TextLength(text))
                /\ parts' = Tail(parts)
                /\ UNCHANGED packing
           ELSE IF depth = RecursionLimit
           THEN packing' = "overflowed" /\ UNCHANGED <<lengths, parts>>
           ELSE /\ parts' = [k \in DOMAIN Clauses(text) |->
                               [text |-> Clauses(text)[k], depth |-> depth + 1]] \o Tail(parts)
                /\ UNCHANGED <<packing, lengths>>
    /\ UNCHANGED <<overlap, offered, merged, current, size, packed>>

\* The end of the chunk that the next one repeats.  _get_overlap_parts stops
\* before reaching the overlap, pack_blocks before exceeding it; both take the
\* last segment whatever its length.
Fits(total, i) ==
    IF packing = "blocks" THEN total + lengths[i] =< overlap ELSE total + lengths[i] < overlap

Repeated(chunk) ==
    LET Tails == {k \in DOMAIN chunk :
                    \A j \in k..(Len(chunk) - 1) :
                       Fits(TotalOf(SubSeq(chunk, j + 1, Len(chunk))) + Joint * (Len(chunk) - j), chunk[j])}
    IN  IF overlap = 0 \/ chunk = <<>> THEN <<>>
        ELSE SubSeq(chunk, CHOOSE k \in Tails : \A j \in Tails : k =< j, Len(chunk))

Flushed == IF current = <<>> THEN packed ELSE Append(packed, current)

\* A packer that forgets to empty the chunk it has just closed for a long
\* segment.
LongKeepsCurrent ==
    /\ merged < Len(lengths) /\ lengths[merged + 1] > MaxChars
    /\ packed' = Append(Flushed, <<merged + 1>>)
    /\ UNCHANGED <<current, size>>

\* A segment over the limit is a chunk of its own, with no overlap to either side.
PackLong ==
    /\ merged < Len(lengths) /\ lengths[merged + 1] > MaxChars
    /\ packed' = Append(Flushed, <<merged + 1>>)
    /\ current' = <<>> /\ size' = 0

\* Otherwise it joins the current chunk, which is closed first if it would
\* get too long; the new one begins with the overlap.
Joined(before) ==
    /\ current' = Append(before, merged + 1)
    /\ size' = TotalOf(before) + Joint * Len(before) + lengths[merged + 1] + Joint

PackShort ==
    /\ merged < Len(lengths) /\ lengths[merged + 1] =< MaxChars
    /\ IF current # <<>> /\ size + lengths[merged + 1] + Joint > MaxChars
       THEN packed' = Flushed /\ Joined(Repeated(current))
       ELSE packed' = packed /\ Joined(current)

Segment ==
    /\ packing \in {"sentences", "blocks"}
    /\ PackLong \/ PackShort
    /\ merged' = merged + 1
    /\ UNCHANGED <<packing, overlap, offered, parts, lengths>>

\* After the loop what is left is the last chunk.
FinishPacking ==
    /\ packing \in {"sentences", "blocks"} /\ parts = <<>> /\ merged = Len(lengths)
    /\ packing' = "packed"
    /\ packed' = Flushed /\ current' = <<>> /\ size' = 0
    /\ UNCHANGED <<overlap, offered, parts, lengths, merged>>

PackNext ==
    \/ StartPacking \/ ReadSentence \/ ReadBlock \/ CutClause \/ Segment \/ FinishPacking
    \/ packing \in {"packed", "overflowed"} /\ UNCHANGED packVars

PackSpec == PackInit /\ [][PackNext]_packVars
-----------------------------------------------------------------------------
\* Shape of the state.
PackTypeOK ==
    /\ packing \in {"none", "sentences", "blocks", "packed", "overflowed"}
    /\ overlap \in Overlaps \cup {0} /\ offered \in 0..MaxItems
    /\ lengths \in Seq(Nat) /\ merged \in 0..Len(lengths) /\ size \in Nat
    /\ current \in Seq(1..merged) /\ packed \in Seq(Seq(1..merged))

\* What a chunk adds to the one before it: everything after the overlap.
Later(k) == {n \in DOMAIN packed[k] : k = 1 \/ \A j \in DOMAIN packed[k - 1] : packed[k - 1][j] < packed[k][n]}
Fresh(k) == Kept(packed[k], Later(k))

\* Every segment reaches a model exactly once besides the overlap, in the
\* order of the text, whatever the mixture of long and short segments; and
\* what is repeated is the end of the chunk before.
NothingLostInPacking ==
    /\ packing = "packed" =>
          FlattenSeq([k \in DOMAIN packed |-> Fresh(k)]) = [i \in 1..Len(lengths) |-> i]
    /\ \A k \in DOMAIN packed \ {1} :
          IsSuffix(Kept(packed[k], DOMAIN packed[k] \ Later(k)), packed[k - 1])

\* Without overlap a chunk goes over the limit only when it is one segment.
ChunksFit ==
    overlap = 0 => \A k \in DOMAIN packed :
                      Len(packed[k]) > 1 => TotalOf(packed[k]) + Joint * (Len(packed[k]) - 1) =< MaxChars

\* The packer's promises together (_merge_segments and pack_blocks_into_chunks
\* in chunker/splitter.py).
PackingIsSound == NothingLostInPacking /\ ChunksFit

\* What the docstring of _split_long_sentence says: it returns the clauses.
SplittingReturns == packing # "overflowed"

=============================================================================
