------------------------------ MODULE AgentChat ------------------------------
(***************************************************************************)
(* The agent's chat in the window (composables/useAgentChat.ts): one       *)
(* message at a time goes to the server and its answer is streamed back; a *)
(* stream that breaks is resumed or asked for again; cards ask the user    *)
(* for approvals.  The state is one set of module-level refs, which the    *)
(* stream, late answers of the server and the user change in turn: nothing *)
(* holds a conversation still while a request is under way.                *)
(***************************************************************************)
EXTENDS Naturals, FiniteSets

CONSTANTS Conversations,   \* ids of sessions, saved and to come
          Saved,           \* those the server has at the start
          Events,          \* requests for an approval
          Unset,           \* null
          MaxSends         \* bound on the messages

ASSUME ChatAssumption ==
    /\ Saved \subseteq Conversations
    /\ Unset \notin Conversations \cup Events
    /\ Unset \notin [event : Events, session : Conversations]
    /\ "any" \notin Events
    /\ MaxSends \in Nat

VARIABLES conversation,  \* conversationWorkflowId
          runSession,    \* activeRunSessionId
          card,          \* pendingApproval
          keptCard,      \* _approvalBySession
          sendRun,       \* the run of sendMessage
          awaited,       \* the server's answers that are still to come
          server,        \* sessions there are, and which asked for what
          chatLog        \* what was shown and done, for the properties

chatVars == <<conversation, runSession, card, keptCard, sendRun, awaited, server, chatLog>>

MaxRetries == 2
AnyCard == "any"
Cards == [event : Events, session : Conversations]

ChatTypeOK ==
    /\ conversation \in Conversations \cup {Unset}
    /\ runSession \in Conversations \cup {Unset}
    /\ card \in Cards \cup {Unset}
    /\ keptCard \in [Conversations -> Events \cup {Unset}]
    /\ sendRun \in [at : {"idle", "hashing", "posting", "streaming", "broken", "over"},
                    attempt : 0..(MaxRetries + 1), selection : BOOLEAN, listed : BOOLEAN,
                    started : BOOLEAN, stopped : BOOLEAN, on : Conversations \cup {Unset}]
    /\ awaited \in [loads : SUBSET Conversations, abort : BOOLEAN, decisions : SUBSET Events]
    /\ server.known \subseteq Conversations /\ server.asker \in [Events -> Conversations \cup {Unset}]
    /\ chatLog.shown \in Conversations \cup {Unset} /\ chatLog.sends \in 0..MaxSends

AtRest == [at |-> "idle", attempt |-> 0, selection |-> FALSE, listed |-> FALSE,
           started |-> FALSE, stopped |-> FALSE, on |-> Unset]

ChatInit ==
    /\ conversation = Unset /\ runSession = Unset /\ card = Unset
    /\ keptCard = [s \in Conversations |-> Unset]
    /\ sendRun = AtRest
    /\ awaited = [loads |-> {}, abort |-> FALSE, decisions |-> {}]
    /\ server = [known |-> Saved, asker |-> [e \in Events |-> Unset]]
    /\ chatLog = [shown |-> Unset, crossed |-> FALSE, sends |-> 0, latest |-> Unset,
                  settled |-> {}, rerun |-> FALSE]

----------------------------------------------------------------------------
(* The approval card.                                                      *)

Raise(e) ==
    /\ card' = [event |-> e, session |-> runSession]
    /\ keptCard' = [keptCard EXCEPT ![runSession] = e]

\* Mutant: without the guard of another card's event.
ClearWhichever(which) ==
    LET owner == IF card # Unset THEN card.session ELSE runSession IN
    /\ card' = Unset
    /\ keptCard' = IF owner = Unset THEN keptCard ELSE [keptCard EXCEPT ![owner] = Unset]

\* Mutant: the copy kept for the session is not cleared.
ClearShownOnly(which) ==
    /\ card' = IF which = AnyCard \/ (card # Unset /\ card.event = which) THEN Unset ELSE card
    /\ keptCard' = keptCard

\* _clearApproval: of an event, or of whatever is shown.
Clear(which) ==
    IF which # AnyCard /\ (card = Unset \/ card.event # which)
    THEN UNCHANGED <<card, keptCard>>
    ELSE LET owner == IF card # Unset THEN card.session ELSE runSession IN
         /\ card' = Unset
         /\ keptCard' = IF owner = Unset THEN keptCard ELSE [keptCard EXCEPT ![owner] = Unset]

\* The watch on activeRunSessionId: the card of the session that comes up.
Restored(s) ==
    /\ card' = IF keptCard[s] = Unset THEN Unset ELSE [event |-> keptCard[s], session |-> s]
    /\ keptCard' = keptCard

Settle(events) == chatLog' = [chatLog EXCEPT !.settled = @ \cup events]

----------------------------------------------------------------------------
(* sendMessage.                                                            *)

SendMessage(edit) ==
    /\ sendRun.at = "idle" /\ chatLog.sends < MaxSends
    /\ Clear(AnyCard)
    /\ sendRun' = [AtRest EXCEPT !.at = "hashing", !.selection = edit, !.listed = TRUE]
    /\ chatLog' = [chatLog EXCEPT !.sends = @ + 1, !.settled = Events]
    /\ UNCHANGED <<conversation, runSession, awaited, server>>

\* The finally block; a selection's session is no conversation to go on with.
Ended(was) ==
    /\ sendRun' = [AtRest EXCEPT !.listed = was.listed]
    /\ conversation' = IF ~was.selection /\ runSession # Unset THEN runSession ELSE conversation
    /\ runSession' = Unset

\* Mutant: a selection's session is gone on with as well.
EndedAlike(was) ==
    /\ sendRun' = [AtRest EXCEPT !.listed = was.listed]
    /\ conversation' = IF runSession # Unset THEN runSession ELSE conversation
    /\ runSession' = Unset

EndRun(was) == Ended(was)

\* doFetch: the conversation is the one there is when the request is written.
Target == IF sendRun.selection THEN Unset ELSE conversation

Served(s) ==
    /\ server' = [server EXCEPT !.known = @ \cup {s}]
    /\ sendRun' = [sendRun EXCEPT !.at = "streaming", !.on = s]
    /\ chatLog' = [chatLog EXCEPT !.rerun = @ \/ (sendRun.started /\ ~chatLog.crossed)]
    /\ UNCHANGED <<conversation, runSession>>

Failed ==
    /\ sendRun' = [sendRun EXCEPT !.at = "broken", !.attempt = @ + 1]
    /\ UNCHANGED <<conversation, runSession>>

Post ==
    /\ sendRun.at \in {"hashing", "posting"}
    /\ \/ /\ ~sendRun.stopped
          /\ \E s \in IF Target = Unset THEN Conversations \ server.known ELSE {Target} : Served(s)
       \/ ~sendRun.stopped /\ Failed /\ UNCHANGED <<server, chatLog>>
       \/ EndRun(sendRun) /\ UNCHANGED <<server, chatLog>>    \* refused, or stopped before it
    /\ UNCHANGED <<card, keptCard, awaited>>

\* Mutant: every broken stream is asked for again.
ResumeNever == FALSE

\* Resuming needs a session that has started and that the window still knows.
MayResume == sendRun.started /\ runSession # Unset

\* The next attempt: the session is resumed, or the message is sent again.
TryAgain ==
    /\ sendRun.at = "broken" /\ ~sendRun.stopped /\ sendRun.attempt <= MaxRetries
    /\ IF MayResume
       THEN \/ sendRun' = [sendRun EXCEPT !.at = "streaming", !.on = runSession]
            \/ sendRun' = [sendRun EXCEPT !.attempt = @ + 1]
       ELSE sendRun' = [sendRun EXCEPT !.at = "posting"]
    /\ UNCHANGED <<conversation, runSession, card, keptCard, awaited, server, chatLog>>

RunGivesUp ==
    /\ sendRun.at = "broken" /\ (sendRun.stopped \/ sendRun.attempt > MaxRetries)
    /\ EndRun(sendRun)
    /\ UNCHANGED <<card, keptCard, awaited, server, chatLog>>

----------------------------------------------------------------------------
(* readSseStream and handleEvent: an event of a run whose message is no    *)
(* longer in the list is dropped, though the run takes note of it.         *)

Streams == sendRun.at = "streaming" /\ ~sendRun.stopped

SessionStarted ==
    /\ Streams
    /\ sendRun' = [sendRun EXCEPT !.started = TRUE]
    /\ IF sendRun.listed
       THEN /\ runSession' = sendRun.on
            /\ IF runSession = sendRun.on THEN UNCHANGED <<card, keptCard>> ELSE Restored(sendRun.on)
            /\ chatLog' = IF sendRun.selection THEN chatLog ELSE [chatLog EXCEPT !.shown = sendRun.on]
       ELSE UNCHANGED <<runSession, card, keptCard, chatLog>>
    /\ UNCHANGED <<conversation, awaited, server>>

AwaitApproval(e) ==
    /\ Streams /\ sendRun.started /\ server.asker[e] = Unset
    /\ server' = [server EXCEPT !.asker[e] = sendRun.on]
    /\ IF sendRun.listed
       THEN Raise(e) /\ chatLog' = [chatLog EXCEPT !.latest = e, !.settled = @ \ {e}]
       ELSE UNCHANGED <<card, keptCard, chatLog>>
    /\ UNCHANGED <<conversation, runSession, sendRun, awaited>>

ApprovalReceived(e) ==
    /\ Streams /\ server.asker[e] = sendRun.on
    /\ IF sendRun.listed THEN Clear(e) /\ Settle({e}) ELSE UNCHANGED <<card, keptCard, chatLog>>
    /\ UNCHANGED <<conversation, runSession, sendRun, awaited, server>>

\* done, error or aborted: the last event of a run.
LastEvent ==
    /\ Streams
    /\ sendRun' = [sendRun EXCEPT !.at = "over"]
    /\ \/ UNCHANGED <<card, keptCard, chatLog>>
       \/ sendRun.listed /\ Clear(AnyCard) /\ Settle(Events)
    /\ UNCHANGED <<conversation, runSession, awaited, server>>

BreakOff ==
    /\ Streams /\ Failed
    /\ UNCHANGED <<card, keptCard, awaited, server, chatLog>>

RunReturns ==
    /\ sendRun.at = "over" \/ (sendRun.at = "streaming" /\ sendRun.stopped)
    /\ EndRun(sendRun)
    /\ UNCHANGED <<card, keptCard, awaited, server, chatLog>>

----------------------------------------------------------------------------
(* What the user asks for, and the server's answers to it.                 *)

Stopped == sendRun' = IF sendRun.at = "idle" THEN sendRun ELSE [sendRun EXCEPT !.stopped = TRUE]

AbortSession ==
    /\ sendRun.at # "idle" /\ ~awaited.abort
    /\ IF runSession = Unset
       THEN Stopped /\ UNCHANGED awaited
       ELSE awaited' = [awaited EXCEPT !.abort = TRUE] /\ UNCHANGED sendRun
    /\ UNCHANGED <<conversation, runSession, card, keptCard, server, chatLog>>

\* The answer ends whatever run there is by then.
AbortAnswered ==
    /\ awaited.abort
    /\ awaited' = [awaited EXCEPT !.abort = FALSE]
    /\ Stopped
    /\ \/ Clear(AnyCard) /\ Settle(Events)
       \/ UNCHANGED <<card, keptCard, chatLog>>
    /\ UNCHANGED <<conversation, runSession, server>>

\* Mutant: by the ref that is right while the run streams.
RouteByRun(shownCard) == runSession

Route(shownCard) == shownCard.session

SendApproval ==
    /\ card # Unset /\ Route(card) # Unset /\ card.event \notin awaited.decisions
    /\ awaited' = [awaited EXCEPT !.decisions = @ \cup {card.event}]
    /\ UNCHANGED <<conversation, runSession, card, keptCard, sendRun, server, chatLog>>

ApprovalAnswered(e) ==
    /\ e \in awaited.decisions
    /\ awaited' = [awaited EXCEPT !.decisions = @ \ {e}]
    /\ \/ Clear(e) /\ Settle({e})
       \/ UNCHANGED <<card, keptCard, chatLog>>
    /\ UNCHANGED <<conversation, runSession, sendRun, server>>

LoadWorkflow(s) ==
    /\ s \in server.known \ awaited.loads
    /\ awaited' = [awaited EXCEPT !.loads = @ \cup {s}]
    /\ UNCHANGED <<conversation, runSession, card, keptCard, sendRun, server, chatLog>>

\* The messages arrive, whether or not a run is under way.
WorkflowLoaded(s) ==
    /\ s \in awaited.loads
    /\ awaited' = [awaited EXCEPT !.loads = @ \ {s}]
    /\ Clear(AnyCard)
    /\ conversation' = s
    /\ sendRun' = [sendRun EXCEPT !.listed = FALSE]
    /\ chatLog' = [chatLog EXCEPT !.shown = s, !.settled = Events, !.crossed = sendRun.at # "idle"]
    /\ UNCHANGED <<runSession, server>>

LoadFailed(s) ==
    /\ s \in awaited.loads
    /\ awaited' = [awaited EXCEPT !.loads = @ \ {s}]
    /\ UNCHANGED <<conversation, runSession, card, keptCard, sendRun, server, chatLog>>

\* The button of a new conversation is off while a run or a card is there.
StartNew ==
    /\ sendRun.at = "idle" /\ card = Unset
    /\ conversation' = Unset /\ runSession' = Unset
    /\ Clear(AnyCard)
    /\ sendRun' = AtRest
    /\ chatLog' = [chatLog EXCEPT !.shown = Unset, !.crossed = FALSE]
    /\ UNCHANGED <<awaited, server>>

ChatNext ==
    \/ \E edit \in BOOLEAN : SendMessage(edit)
    \/ Post \/ TryAgain \/ RunGivesUp \/ RunReturns
    \/ SessionStarted \/ LastEvent \/ BreakOff
    \/ \E e \in Events : AwaitApproval(e) \/ ApprovalReceived(e) \/ ApprovalAnswered(e)
    \/ AbortSession \/ AbortAnswered \/ SendApproval \/ StartNew
    \/ \E s \in Conversations : LoadWorkflow(s) \/ WorkflowLoaded(s) \/ LoadFailed(s)

ChatSpec == ChatInit /\ [][ChatNext]_chatVars

----------------------------------------------------------------------------
(* A decision on the card goes to the session that asked for it ("never    *)
(* route via mutable global state", useAgentChat.ts:169), after retries, a *)
(* stream that broke for good and a conversation opened in between.        *)
ApprovalReachesAsker == card # Unset => Route(card) = server.asker[card.event]

(* The last card raised stays until it was decided or the user moved on:   *)
(* no late answer about another card takes it away (useAgentChat.ts:224),  *)
(* and a settled card never comes back with its session.                   *)
CardsAreCurrent ==
    /\ chatLog.latest \notin chatLog.settled \cup {Unset} =>
          card # Unset /\ card.event = chatLog.latest
    /\ card # Unset => card.event \notin chatLog.settled

(* Unless another conversation was opened while a message was answered,    *)
(* the next message goes to the conversation that is shown, and a message  *)
(* whose session had started is resumed and not run again                  *)
(* (useAgentChat.ts:558).                                                  *)
ConversationGoesOn ==
    /\ sendRun.at = "idle" /\ ~chatLog.crossed => conversation = chatLog.shown
    /\ ~chatLog.rerun

(* The same for every order of opening and answering: what the code does   *)
(* not keep, for loadWorkflowMessages waits for no run.                    *)
ShownGoesOn == sendRun.at = "idle" => conversation = chatLog.shown

ChatIsCoherent == ApprovalReachesAsker /\ CardsAreCurrent /\ ConversationGoesOn
=============================================================================
