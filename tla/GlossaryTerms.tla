---------------------------- MODULE GlossaryTerms ----------------------------
(* The terminology glossary, shared by every translation: seed files,      *)
(* imported rows, the suggestions learned from translated chunks, and the  *)
(* list with which PUT /api/glossary replaces it, item by item, in a       *)
(* thread of its own while the event loop translates.                      *)
EXTENDS Naturals, FiniteSets, Sequences

CONSTANTS
  Terms,      \* source terms, as numbers in their alphabetical order
  Targets,    \* what they may be translated to; the empty target is one too
  Replacements, \* the lists that PUT /api/glossary may bring
  Malformed,  \* an item that is no dictionary
  NoTerm,
  PromptSize, \* max_entries of build_prompt_text
  MaxPuts     \* bound: replacements of the whole list

GlossaryEntry == [target : Targets, locked : BOOLEAN]
Item == [term : Terms, target : Targets, locked : BOOLEAN]

ASSUME GlossaryAssumption ==
  /\ Terms \subseteq Nat /\ IsFiniteSet(Terms) /\ PromptSize \in Nat /\ MaxPuts \in Nat
  /\ \A list \in Replacements : list \in Seq(Item \cup {Malformed})
  /\ NoTerm \notin GlossaryEntry /\ Malformed \notin Item

VARIABLES
  entries,  \* term -> its entry, or NoTerm
  put,      \* the items PUT still has to add, and whether it runs
  puts,     \* replacements so far
  prompt,   \* the terms the last prompt was given: those locked, those suggested
  chunk     \* the chunk that is checked: its terms, what they became, what is left

glossaryVars == <<entries, put, puts, prompt, chunk>>

NoPut == [runs |-> FALSE, items |-> <<>>]
NoChunk == [at |-> "none", has |-> {}, became |-> {}, left |-> {}, size |-> 0,
            missed |-> {}]

GlossaryInit ==
  /\ entries = [t \in Terms |-> NoTerm]
  /\ put = NoPut /\ puts = 0
  /\ prompt = [locked |-> {}, suggested |-> {}]
  /\ chunk = NoChunk

Known(t) == entries[t] # NoTerm
Locked(t) == Known(t) /\ entries[t].locked
Size == Cardinality({t \in Terms : Known(t)})

(* The event loop runs one handler at a time; a check holds it.            *)
LoopIsFree == chunk.at # "checking"

(***************************************************************************)
(* Rows of a seed file or of an imported CSV or TBX file                   *)
(***************************************************************************)
KeepsAny(t, locked) == FALSE
Keeps(t, locked) == Locked(t) /\ ~locked

ImportRow(item) ==
  /\ LoopIsFree
  /\ ~Keeps(item.term, item.locked)
  /\ entries' = [entries EXCEPT ![item.term] = [target |-> item.target,
                                                locked |-> item.locked]]
  /\ UNCHANGED <<put, puts, prompt, chunk>>

(***************************************************************************)
(* PUT /api/glossary: update_from_list                                     *)
(***************************************************************************)
StartPut(list) ==
  /\ ~put.runs /\ puts < MaxPuts
  /\ entries' = [t \in Terms |-> NoTerm]
  /\ put' = [runs |-> TRUE, items |-> list]
  /\ puts' = puts + 1
  /\ UNCHANGED <<prompt, chunk>>

PutItem ==
  /\ put.items # <<>> /\ Head(put.items) # Malformed
  /\ entries' = [entries EXCEPT ![Head(put.items).term] =
                   [target |-> Head(put.items).target, locked |-> Head(put.items).locked]]
  /\ put' = [put EXCEPT !.items = Tail(@)]
  /\ UNCHANGED <<puts, prompt, chunk>>

(* An item that is no dictionary ends the request where it stands.         *)
PutEnds ==
  /\ put.runs
  /\ put.items # <<>> => Head(put.items) = Malformed
  /\ put' = NoPut
  /\ UNCHANGED <<entries, puts, prompt, chunk>>

(***************************************************************************)
(* Translation                                                             *)
(***************************************************************************)
FirstOf(S, n) == {t \in S : Cardinality({u \in S : u < t}) < n}

LockedPart == FirstOf({t \in Terms : Locked(t)}, PromptSize)

(* Mutant: the suggestions have a limit of their own.                      *)
SuggestedAfresh == FirstOf({t \in Terms : Known(t) /\ ~Locked(t)}, PromptSize)

SuggestedPart ==
  FirstOf({t \in Terms : Known(t) /\ ~Locked(t)}, PromptSize - Cardinality(LockedPart))

BuildPrompt ==
  /\ LoopIsFree /\ Size > 0
  /\ prompt' = [locked |-> LockedPart, suggested |-> SuggestedPart]
  /\ UNCHANGED <<entries, put, puts, chunk>>

(* An empty glossary is skipped, and with it what the chunk would teach.   *)
StartCheck(has, became) ==
  /\ chunk.at = "none" /\ Size > 0
  /\ chunk' = [at |-> "checking", has |-> has, became |-> became,
               left |-> {t \in Terms : Known(t)}, size |-> Size, missed |-> {}]
  /\ UNCHANGED <<entries, put, puts, prompt>>

(* A locked term of the chunk became its target; one with the empty target *)
(* stayed as it is, which is a target of its own here.                     *)
Honoured(t) == <<t, entries[t].target>> \in chunk.became
Reports(t) == Locked(t) /\ t \in chunk.has /\ ~Honoured(t)

(* The dictionary must not change its size under the loop.                 *)
CheckTerm(t) ==
  /\ chunk.at = "checking" /\ t \in chunk.left /\ Size = chunk.size
  /\ chunk' = [chunk EXCEPT !.left = @ \ {t},
                            !.missed = IF Reports(t) THEN @ \cup {t} ELSE @]
  /\ UNCHANGED <<entries, put, puts, prompt>>

CheckBreaks ==
  /\ chunk.at = "checking" /\ chunk.left # {} /\ Size # chunk.size
  /\ chunk' = [NoChunk EXCEPT !.at = "failed"]
  /\ UNCHANGED <<entries, put, puts, prompt>>

Overwrites(t) == TRUE
Teaches(t) == ~Known(t)

(* add_suggestions for what the chunk taught.                              *)
Learn ==
  /\ chunk.at = "checking" /\ chunk.left = {}
  /\ chunk' = [chunk EXCEPT !.at = "checked"]
  /\ entries' = [t \in Terms |->
       IF Teaches(t) /\ \E x \in Targets : <<t, x>> \in chunk.became
       THEN [target |-> CHOOSE x \in Targets : <<t, x>> \in chunk.became, locked |-> FALSE]
       ELSE entries[t]]
  /\ UNCHANGED <<put, puts, prompt>>

NextChunk ==
  /\ chunk.at \in {"checked", "failed"}
  /\ chunk' = NoChunk
  /\ UNCHANGED <<entries, put, puts, prompt>>

Renderings(has) == {became \in SUBSET (has \X Targets) :
                      \A t \in has : Cardinality({p \in became : p[1] = t}) <= 1}

GlossaryNext ==
  \/ \E item \in Item : ImportRow(item)
  \/ \E list \in Replacements : StartPut(list)
  \/ PutItem \/ PutEnds
  \/ BuildPrompt
  \/ \E has \in SUBSET Terms : \E became \in Renderings(has) : StartCheck(has, became)
  \/ \E t \in Terms : CheckTerm(t)
  \/ CheckBreaks \/ Learn \/ NextChunk

GlossarySpec == GlossaryInit /\ [][GlossaryNext]_glossaryVars

(***************************************************************************)
(* Properties                                                              *)
(***************************************************************************)
(* Entries, the running replacement and the chunk under check are what     *)
(* they are declared to be, and a prompt never exceeds its size.           *)
GlossaryTypeOK ==
  /\ entries \in [Terms -> GlossaryEntry \cup {NoTerm}]
  /\ put.items \in Seq(Item \cup {Malformed}) /\ puts \in 0 .. MaxPuts
  /\ Cardinality(prompt.locked) + Cardinality(prompt.suggested) <= PromptSize
  /\ chunk.left \subseteq Terms /\ chunk.missed \subseteq chunk.has

(* Only a replacement of the whole list takes a locked term away or        *)
(* unlocks it: not a seed file, not an imported row and not a suggestion   *)
(* learned from a chunk that was translated otherwise, which never changes *)
(* any entry that is there (import_csv, import_tbx, add_suggestions).      *)
TermsAreAuthoritative ==
  [][/\ ~put.runs /\ ~put'.runs => \A t \in Terms : Locked(t) => Locked(t)'
     /\ chunk.at = "checking" /\ chunk'.at = "checked" =>
          \A t \in Terms : Known(t) => entries'[t] = entries[t]]_glossaryVars
=============================================================================
