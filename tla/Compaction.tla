----------------------------- MODULE Compaction -----------------------------
(* The compaction of a session's history.  Trident drops file operations   *)
(* that a later write supersedes, collapses runs of short messages and     *)
(* clusters similar ones; compact_session then replaces what is older than *)
(* the last messages by a summary.  A message is what these stages look    *)
(* at: the file operations it calls or tells of, its text and whether that *)
(* is long; `stands` holds the positions of the history it stands for.     *)
EXTENDS Integers, FiniteSets, SequencesExt, ListFilter

CONSTANTS
  Texts,          \* texts that messages have
  NoText, Gist,   \* no text; the text of a summary
  Similar,        \* pairs of texts whose word sets overlap enough
  CallSets,       \* sequences of calls one message may carry
  CollapseAt,     \* collapse_threshold
  ClusterMin,     \* cluster_min_size
  KeepLast,       \* keep_last of compact_session
  Threshold,      \* input_token_threshold
  MaxMessages     \* bound: messages of a history

Operations == {"read", "write", "other"}

ASSUME CompactionAssumption ==
  /\ NoText \notin Texts \cup {Gist}
  /\ \A calls \in CallSets : /\ calls # <<>> /\ calls \in Seq(ToSet(calls))
                             /\ \A i \in DOMAIN calls : calls[i].op \in Operations
  /\ {CollapseAt, ClusterMin, KeepLast} \subseteq Nat \ {0}
  /\ Threshold \in Nat /\ MaxMessages \in Nat

VARIABLES
  history,    \* Session.messages
  compacted   \* the last compaction: what it took, its first stage, its result

compactionVars == <<history, compacted>>

CompactionInit == history = <<>> /\ compacted = [from |-> <<>>, first |-> <<>>, result |-> <<>>]

(***************************************************************************)
(* The history                                                             *)
(***************************************************************************)
Said(role, text, long, calls, place) ==
  [role |-> role, text |-> text, long |-> long, calls |-> calls, stands |-> {place}]

Speak(text, long) ==
  /\ Len(history) < MaxMessages
  /\ history' = Append(history, Said("speech", text, long, <<>>, Len(history) + 1))
  /\ UNCHANGED compacted

(* A message with calls is followed by one result for each of them, which  *)
(* counts as an operation itself when a path can be read from it.          *)
CallTools(text, calls, named) ==
  /\ Len(history) + 1 + Len(calls) <= MaxMessages
  /\ history' = history \o
       <<Said("speech", text, FALSE, calls, Len(history) + 1)>> \o
       [i \in DOMAIN calls |-> Said("tool", NoText, FALSE, IF named THEN <<calls[i]>> ELSE <<>>,
                                    Len(history) + 1 + i)]
  /\ UNCHANGED compacted

(***************************************************************************)
(* Stage 1: superseded file operations                                     *)
(***************************************************************************)
Touches(message, path, ops) ==
  \E i \in DOMAIN message.calls :
    message.calls[i].op \in ops /\ message.calls[i].path = path

Paths(messages) ==
  UNION {{messages[i].calls[j].path :
            j \in {k \in DOMAIN messages[i].calls : messages[i].calls[k].op # "other"}} :
         i \in DOMAIN messages}

Superseded(messages) ==
  {i \in DOMAIN messages :
     \E path \in Paths(messages) :
       /\ Touches(messages[i], path, {"read", "write"})
       /\ \E j \in DOMAIN messages : i < j /\ Touches(messages[j], path, {"write"})}

(* Mutant: the results of superseded calls stay.                           *)
NoAnswers(messages, calls) == {}

ResultsAfter(messages, calls) ==
  {i \in DOMAIN messages : i - 1 \in calls /\ messages[i].role = "tool"}

(* A superseded message goes with the result that follows it.              *)
Obsolete(messages) ==
  LET calls == Superseded(messages) IN calls \cup ResultsAfter(messages, calls)

WithoutAt(messages, gone) == Kept(messages, DOMAIN messages \ gone)

Supersede(messages) == WithoutAt(messages, Obsolete(messages))

(***************************************************************************)
(* Stage 2: runs of short messages                                         *)
(***************************************************************************)
Chatty(message) == message.role # "tool" /\ message.calls = <<>> /\ ~message.long

First(places) == CHOOSE i \in places : \A j \in places : i <= j

Summary(messages, group) ==
  [role |-> "system", text |-> Gist, long |-> FALSE, calls |-> <<>>,
   stands |-> UNION {messages[i].stands : i \in group}]

(* The summary of a group stands in its first message's place.             *)
Condensed(messages, groups) ==
  LET of(i) == {group \in groups : i \in group}
      shown == [i \in DOMAIN messages |->
                  IF of(i) = {} THEN messages[i]
                  ELSE Summary(messages, CHOOSE group \in of(i) : TRUE)]
  IN  WithoutAt(shown, {i \in DOMAIN messages : \E group \in of(i) : i # First(group)})

ChattyRuns(messages) ==
  LET chatty == {i \in DOMAIN messages : Chatty(messages[i])}
  IN  {{j \in chatty : i..j \subseteq chatty /\ j..i \subseteq chatty} : i \in chatty}

(* A run that is too short stays as it is.                                 *)
Collapse(messages) ==
  IF Len(messages) < CollapseAt THEN messages
  ELSE Condensed(messages, {run \in ChattyRuns(messages) : Cardinality(run) >= CollapseAt})

(***************************************************************************)
(* Stage 3: similar messages                                               *)
(***************************************************************************)
Alike(messages, i, j) == <<messages[i].text, messages[j].text>> \in Similar

Spoken(messages) == {i \in DOMAIN messages : messages[i].text # NoText}

(* A message with a text gathers the later ones like it that no cluster    *)
(* has yet.                                                                *)
Gathered(messages, clusters, i) ==
  LET free    == Spoken(messages) \ UNION clusters
      members == {j \in free : j = i \/ (j > i /\ Alike(messages, i, j))}
  IN  IF i \in free /\ Cardinality(members) >= ClusterMin THEN clusters \cup {members} ELSE clusters

Clusters(messages) ==
  LET made[n \in 0..Len(messages)] == IF n = 0 THEN {} ELSE Gathered(messages, made[n - 1], n)
  IN  IF Cardinality(Spoken(messages)) < ClusterMin THEN {} ELSE made[Len(messages)]

Cluster(messages) == Condensed(messages, Clusters(messages))

(***************************************************************************)
(* What is older than the last messages                                    *)
(***************************************************************************)
Tokens(messages) ==
  FoldLeft(LAMBDA n, m : n + (IF m.text = NoText THEN 0 ELSE IF m.long THEN 2 ELSE 1), 0, messages)

CompactSession(messages) ==
  LET split == Len(messages) - KeepLast
  IN  IF Tokens(messages) < Threshold \/ split <= 0 THEN messages
      ELSE Condensed(messages, {1..split})

Compact(supersede, collapse, cluster) ==
  LET first  == IF supersede THEN Supersede(history) ELSE history
      second == IF collapse THEN Collapse(first) ELSE first
      third  == IF cluster THEN Cluster(second) ELSE second
  IN  /\ history # <<>>
      /\ compacted' = [from |-> history, first |-> first, result |-> CompactSession(third)]
      /\ UNCHANGED history

CompactionNext ==
  \/ \E text \in Texts, long \in BOOLEAN : Speak(text, long)
  \/ \E text \in Texts \cup {NoText}, calls \in CallSets, named \in BOOLEAN :
       CallTools(text, calls, named)
  \/ \E supersede, collapse, cluster \in BOOLEAN : Compact(supersede, collapse, cluster)

CompactionSpec == CompactionInit /\ [][CompactionNext]_compactionVars

(***************************************************************************)
(* Properties                                                              *)
(***************************************************************************)
(* Histories and what becomes of them are sequences of messages.           *)
CompactionTypeOK ==
  \A messages \in {history, compacted.from, compacted.first, compacted.result} :
    \A i \in DOMAIN messages :
      /\ messages[i].role \in {"speech", "tool", "system"}
      /\ messages[i].text \in Texts \cup {NoText, Gist}
      /\ messages[i].stands # {} /\ messages[i].stands \subseteq 1 .. MaxMessages

StandsFor(messages) == UNION {messages[i].stands : i \in DOMAIN messages}

(* Compaction (trident_compact_session) forgets nothing but superseded     *)
(* operations: every other message is in the result or in one summary of   *)
(* it, in the order of the history.  As long as no message makes two calls *)
(* and no result reads like an operation, stage1_supersede keeps each      *)
(* path's last write, and a call and its result stay or go together.       *)
CompactionSound ==
  LET from == compacted.from
      first == compacted.first
      result == compacted.result
      kept == StandsFor(first)
      single == \A i \in DOMAIN from : /\ Len(from[i].calls) <= 1
                                       /\ from[i].role = "tool" => from[i].calls = <<>>
      gone == {i \in DOMAIN from : i \notin kept}
  IN  /\ StandsFor(result) = kept
      /\ \A i, j \in DOMAIN result :
           i < j => /\ result[i].stands \cap result[j].stands = {}
                    /\ First(result[i].stands) < First(result[j].stands)
      /\ gone \subseteq Obsolete(from)
      /\ single =>
           /\ \A path \in Paths(from) :
                (\E i \in DOMAIN from : Touches(from[i], path, {"write"})) =>
                  \E i \in DOMAIN first : Touches(first[i], path, {"write"})
           /\ \A i \in DOMAIN from : from[i].role = "tool" => (i \in kept <=> i - 1 \in kept)

(* stage1_supersede keeps "only the latest write per file".                *)
LatestWriteKept ==
  \A path \in Paths(compacted.from) :
    (\E i \in DOMAIN compacted.from : Touches(compacted.from[i], path, {"write"})) =>
      \E i \in DOMAIN compacted.first : Touches(compacted.first[i], path, {"write"})
=============================================================================
