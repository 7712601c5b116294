--------------------------- MODULE ProviderStream ---------------------------
(***************************************************************************)
(* One streamed answer of a model provider (providers/openai_compat.py and *)
(* providers/ollama.py): the lines of the wire become pieces shown to the  *)
(* caller at once and, at the end, one response.  The OpenAI-compatible    *)
(* provider tries a client that honours the system's proxies and, when its *)
(* transport fails before anything was shown, one that connects directly.  *)
(*                                                                         *)
(* A piece is numbered in the order of the wire; what it says is left out. *)
(* A tool call arrives in fragments that name its index: here "name" and   *)
(* "args" fragments.  Lines that are not JSON are skipped: no action.      *)
(***************************************************************************)
EXTENDS Naturals, Sequences, SequencesExt, ListFilter

CONSTANTS MaxIndex,     \* bound on the indexes of tool calls
          MaxLines      \* bound on the lines of one stream

ASSUME StreamAssumption == MaxIndex \in Nat /\ MaxLines \in Nat

CallIndexes == 0..MaxIndex

VARIABLES provider,  \* which provider streams
          attempt,   \* the client in use: 1 by the proxies, 2 direct
          wire,      \* "idle", "open" while lines come, "over"
          lines,     \* lines received on this connection
          blocks,    \* blocks collected on this connection
          calls,     \* tc_map: the fragments of each call of this connection
          finished,  \* a completion marker was seen
          shown,     \* what the caller was given, with the attempt it is of
          toolBlocks,  \* the calls the turn has collected, by their ids
          outcome    \* "", or how chat_stream ended

streamVars == <<provider, attempt, wire, lines, blocks, calls, finished, shown,
                toolBlocks, outcome>>

Pieces == [kind : {"text", "thinking", "usage", "call"}, line : 1..MaxLines]
Fragments == [part : {"name", "args"}, line : 1..MaxLines]

StreamTypeOK ==
    /\ provider \in {"none", "openai", "ollama"}
    /\ attempt \in 1..2 /\ wire \in {"idle", "open", "over"}
    /\ lines \in 0..MaxLines
    /\ blocks \in Seq(Pieces)
    /\ calls \in [CallIndexes -> Seq(Fragments)]
    /\ finished \in BOOLEAN
    /\ shown \in Seq([attempt : 1..2, piece : Pieces])
    /\ toolBlocks \in Seq(Nat)
    /\ outcome \in {"", "response", "api error", "transport error"}

StreamInit ==
    /\ provider = "none" /\ attempt = 1 /\ wire = "idle" /\ lines = 0
    /\ blocks = <<>> /\ calls = [i \in CallIndexes |-> <<>>]
    /\ finished = FALSE /\ shown = <<>> /\ toolBlocks = <<>> /\ outcome = ""

Connection == <<lines, blocks, calls, finished>>

Fresh ==
    /\ lines' = 0 /\ blocks' = <<>> /\ finished' = FALSE
    /\ calls' = [i \in CallIndexes |-> <<>>]

----------------------------------------------------------------------------

AskModel(p) ==
    /\ provider = "none"
    /\ provider' = p
    /\ UNCHANGED <<attempt, wire, Connection, shown, toolBlocks, outcome>>

Connect ==
    /\ provider # "none" /\ wire = "idle"
    /\ wire' = "open"
    /\ Fresh
    /\ UNCHANGED <<provider, attempt, shown, toolBlocks, outcome>>

EndWith(result) == wire' = "over" /\ outcome' = result

(* Mutant: the direct client is tried whatever was shown.                  *)
FallBackAlways == provider = "openai" /\ attempt = 1

\* The transport fails: connecting, or while lines come.  Ollama's provider
\* has one client; the other one falls back only when nothing was shown.
MayFallBack == provider = "openai" /\ attempt = 1 /\ shown = <<>>

TransportFails ==
    /\ provider # "none" /\ wire # "over"
    /\ IF MayFallBack
       THEN attempt' = 2 /\ wire' = "idle" /\ UNCHANGED outcome
       ELSE /\ EndWith(IF provider = "openai" THEN "api error" ELSE "transport error")
            /\ UNCHANGED attempt
    /\ UNCHANGED <<provider, Connection, shown, toolBlocks>>

\* An HTTP status of failure, or a line that is an error.
Rejected ==
    /\ wire = "open"
    /\ EndWith("api error")
    /\ UNCHANGED <<provider, attempt, Connection, shown, toolBlocks>>

----------------------------------------------------------------------------
(* The lines.                                                              *)

Line == wire = "open" /\ lines < MaxLines /\ lines' = lines + 1

Show(piece) == shown' = Append(shown, [attempt |-> attempt, piece |-> piece])

\* Text, thinking or usage goes to the caller as it comes; the OpenAI parser
\* keeps the text for the response, Ollama's keeps text and thinking.
Collected == IF provider = "openai" THEN {"text"} ELSE {"text", "thinking", "call"}

Piece(kind) ==
    /\ Line
    /\ ~finished \/ provider = "openai"
    /\ Show([kind |-> kind, line |-> lines'])
    /\ blocks' = IF kind \in Collected THEN Append(blocks, [kind |-> kind, line |-> lines'])
                                       ELSE blocks
    /\ toolBlocks' = IF kind = "call" THEN Append(toolBlocks, lines') ELSE toolBlocks
    /\ UNCHANGED <<provider, attempt, wire, calls, finished, outcome>>

\* Ollama sends a tool call whole, the others in fragments that stay inside.
Fragment(i, part) ==
    /\ provider = "openai" /\ Line
    /\ calls' = [calls EXCEPT ![i] = Append(@, [part |-> part, line |-> lines'])]
    /\ UNCHANGED <<provider, attempt, wire, blocks, finished, shown, toolBlocks,
                   outcome>>

\* finish_reason: the stream may go on, with the usage or with [DONE].
FinishReason ==
    /\ provider = "openai" /\ Line /\ ~finished
    /\ finished' = TRUE
    /\ UNCHANGED <<provider, attempt, wire, blocks, calls, shown, toolBlocks,
                   outcome>>

\* The calls of the response: those that were named, in the order of their
\* indexes, whatever the order their fragments came in; Ollama's as they came.
NamedCalls == {i \in CallIndexes : \E n \in DOMAIN calls[i] : calls[i][n].part = "name"}

CallBlocks ==
  LET indexes == [n \in 1..(MaxIndex + 1) |-> n - 1]
      whole   == Kept(blocks, {n \in DOMAIN blocks : blocks[n].kind = "call"})
  IN  IF provider = "openai" THEN Kept(indexes, {n \in DOMAIN indexes : indexes[n] \in NamedCalls})
      ELSE [n \in DOMAIN whole |-> whole[n].line]

(* Mutant: the turn takes the calls of the response without comparing ids. *)
MergedBlindly(ids) == toolBlocks \o ids

\* The turn adds the calls that were not streamed to it before.
Merged(ids) == toolBlocks \o Kept(ids, {n \in DOMAIN ids : ids[n] \notin ToSet(toolBlocks)})

Respond == EndWith("response") /\ toolBlocks' = Merged(CallBlocks)

(* Mutant: a stream that just ends counts as complete.                     *)
EndsWell == Respond

\* The wire ends: a response if the completion marker was seen.
WireEnds == IF finished THEN Respond ELSE EndWith("api error") /\ UNCHANGED toolBlocks

Done ==
    /\ wire = "open"
    /\ finished' = TRUE
    /\ Respond
    /\ UNCHANGED <<provider, attempt, lines, blocks, calls, shown>>

Hangup ==
    /\ wire = "open"
    /\ WireEnds
    /\ UNCHANGED <<provider, attempt, Connection, shown>>

StreamNext ==
    \/ \E p \in {"openai", "ollama"} : AskModel(p)
    \/ Connect \/ TransportFails \/ Rejected
    \/ \E kind \in {"text", "thinking", "usage"} : Piece(kind)
    \/ provider = "ollama" /\ Piece("call")
    \/ \E i \in CallIndexes, part \in {"name", "args"} : Fragment(i, part)
    \/ FinishReason \/ Done \/ Hangup

StreamSpec == StreamInit /\ [][StreamNext]_streamVars

----------------------------------------------------------------------------

\* The caller never sees the beginning of one connection followed by that of
\* another: all it was shown belongs to the connection that ends the stream.
ShownOnce == \A n \in DOMAIN shown : shown[n].attempt = attempt

TextOf(pieces) == Kept(pieces, {n \in DOMAIN pieces : pieces[n].kind = "text"})

\* A response exists only for a stream the provider completed, and repeats the
\* text the caller was shown, piece by piece, on that connection.
ResponseIsWhole ==
    outcome = "response" =>
        /\ finished
        /\ TextOf(blocks) = TextOf([n \in DOMAIN shown |-> shown[n].piece])

\* The turn runs every call of the response once, in its order, although some
\* were streamed to it before the response repeated them.
CallsOnce == outcome = "response" => toolBlocks = CallBlocks

\* What reaches the turn loop from a provider's stream.
StreamIsFaithful == ShownOnce /\ ResponseIsWhole /\ CallsOnce
=============================================================================
