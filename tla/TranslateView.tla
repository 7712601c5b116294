---------------------------- MODULE TranslateView ----------------------------
(***************************************************************************)
(* The window's view of a translation (composables/useTranslate.ts): one   *)
(* reactive state, fed by the event stream of one task, which is connected *)
(* to again when it breaks.  A file may be dropped on the window at any    *)
(* time (App.vue, onDrop): the calls of translate() for earlier files are  *)
(* then still under way, each at one of its awaits.                        *)
(***************************************************************************)
EXTENDS Naturals

CONSTANTS Files,        \* documents; each becomes the task of that name
          Parts,        \* the blocks of a document
          Blankness,    \* nothing there
          StoredBefore, \* what IndexedDB holds when the window opens
          MaxReconnects,\* SSE_RECONNECT_MAX_ATTEMPTS
          MaxDrops      \* bound on the calls of translate()

ASSUME ViewAssumption ==
    /\ Blankness \notin Files /\ StoredBefore \in Files \cup {Blankness}
    /\ MaxReconnects \in Nat /\ MaxDrops \in Nat

VARIABLES view,        \* state
          calls,       \* the call of translate() for each file
          controller,  \* the call whose stream abortController aborts
          streamId,    \* _currentStreamId
          reconnecting,\* _isReconnecting
          retried,     \* retries of blocks: the task and block of each answer to come
          stored,      \* the translation IndexedDB would give back
          viewLog      \* what the user did, for the properties

viewVars == <<view, calls, controller, streamId, reconnecting, retried, stored, viewLog>>

InProgress == {"uploading", "working"}
MaxStreams == MaxDrops * (MaxReconnects + 2)

ViewTypeOK ==
    /\ view \in [status : InProgress \cup {"idle", "done", "error"}, offline : BOOLEAN,
                 task : Files \cup {Blankness}, skeleton : Files \cup {Blankness},
                 texts : [Parts -> Files \cup {Blankness}],
                 content : Files \cup {Blankness}]
    /\ calls \in [Files -> [at : {"none", "uploading", "connecting", "aborted", "open", "waiting"},
                            id : 0..MaxStreams, attempt : 0..MaxReconnects, told : BOOLEAN]]
    /\ controller \in Files \cup {Blankness} /\ streamId \in 0..MaxStreams
    /\ reconnecting \in BOOLEAN
    /\ retried \subseteq Files \X Parts
    /\ stored \in Files \cup {Blankness}
    /\ viewLog \in [drops : 0..MaxDrops, overlap : BOOLEAN, booting : BOOLEAN]

FreshView == [status |-> "idle", offline |-> FALSE, task |-> Blankness, skeleton |-> Blankness,
          texts |-> [blk \in Parts |-> Blankness], content |-> Blankness]

NotCalled == [at |-> "none", id |-> 0, attempt |-> 0, told |-> FALSE]

ViewInit ==
    /\ view = FreshView
    /\ calls = [f \in Files |-> NotCalled]
    /\ controller = Blankness /\ streamId = 0 /\ reconnecting = FALSE
    /\ retried = {}
    /\ stored = StoredBefore
    /\ viewLog = [drops |-> 0, overlap |-> FALSE, booting |-> TRUE]

----------------------------------------------------------------------------

\* abort(): a fetch that waits for its answer throws; a stream that is read
\* ends, though what has arrived of it may still be handled; a call that waits
\* to reconnect is not reached.
AbortOf(f) ==
    [other \in Files |-> IF other = f /\ calls[other].at = "connecting" THEN [calls[other] EXCEPT !.at = "aborted"]
                     ELSE calls[other]]

\* Requests whose answers will be taken for those of the next translation.
Outstanding ==
    retried # {} \/ \E f \in Files : calls[f].at \in {"uploading", "connecting", "aborted"}

\* Mutant: a stream that still runs stays the current one.
ResetKeepsStream ==
    /\ controller' = Blankness /\ reconnecting' = FALSE
    /\ UNCHANGED streamId

ResetStreams ==
    /\ controller' = Blankness /\ reconnecting' = FALSE
    /\ streamId' = streamId + 1

\* reset, and translate or translateFromPath up to the first await.
Drop(f) ==
    /\ calls[f].at = "none" /\ viewLog.drops < MaxDrops
    /\ ResetStreams
    /\ calls' = [AbortOf(controller) EXCEPT ![f] = [NotCalled EXCEPT !.at = "uploading"]]
    /\ view' = [FreshView EXCEPT !.status = "uploading"]
    /\ viewLog' = [viewLog EXCEPT !.drops = @ + 1, !.overlap = @ \/ Outstanding]
    /\ UNCHANGED <<retried, stored>>

\* reset alone, and after discardPersisted has deleted what was stored.
StartOver ==
    /\ viewLog.drops < MaxDrops
    /\ ResetStreams
    /\ calls' = AbortOf(controller)
    /\ view' = FreshView
    /\ stored' \in {stored, Blankness}
    /\ viewLog' = [viewLog EXCEPT !.drops = @ + 1, !.overlap = @ \/ Outstanding]
    /\ UNCHANGED retried

\* The catch of translate.
ShowError == view' = [view EXCEPT !.status = IF @ = "done" THEN @ ELSE "error"]

Fails(f) ==
    /\ calls' = [calls EXCEPT ![f] = NotCalled]
    /\ ShowError
    /\ UNCHANGED <<controller, streamId, retried, stored, viewLog>>

\* startStream up to its fetch: the stream before it is aborted.
StartStream(f, attempt) ==
    /\ controller' = f
    /\ streamId' = streamId + 1
    /\ calls' = [IF controller = f THEN calls ELSE AbortOf(controller) EXCEPT
                    ![f] = [NotCalled EXCEPT !.at = "connecting", !.id = streamId + 1, !.attempt = attempt]]

Uploaded(f) ==
    /\ calls[f].at = "uploading"
    /\ view' = [view EXCEPT !.task = f]
    /\ StartStream(f, 0)
    /\ UNCHANGED <<reconnecting, retried, stored, viewLog>>

\* The backend is not there, the upload is refused, the task runs already, or
\* the fetch was aborted: nothing but a finished translation hides the error.
CallFails(f) ==
    /\ calls[f].at \in {"uploading", "connecting", "aborted"}
    /\ Fails(f)
    /\ UNCHANGED reconnecting

Connected(f) ==
    /\ calls[f].at = "connecting"
    /\ calls' = [calls EXCEPT ![f].at = "open"]
    /\ UNCHANGED <<view, controller, streamId, reconnecting, retried, stored, viewLog>>

----------------------------------------------------------------------------
(* The events of a stream; those of one that is not the current are left.  *)
(* Each stream tells the task from its beginning.                          *)

Current(f) == calls[f].id = streamId

\* Mutant: any stream that is still read is listened to.
ListenToAll(f) == TRUE

Heeded(f) == Current(f)

Event(f) ==
    /\ calls[f].at = "open" /\ Heeded(f)
    /\ UNCHANGED <<controller, streamId, reconnecting, retried, viewLog>>

Progress(f) ==
    /\ Event(f)
    /\ UNCHANGED calls
    /\ view' = [view EXCEPT !.status = "working"]
    /\ UNCHANGED stored

\* The document's blocks without their translations, also the second time.
Chunked(f) ==
    /\ Event(f) /\ ~calls[f].told
    /\ calls' = [calls EXCEPT ![f].told = TRUE]
    /\ view' = [view EXCEPT !.skeleton = f, !.texts = [blk \in Parts |-> Blankness]]
    /\ UNCHANGED stored

BlockTranslated(f, blk) ==
    /\ Event(f) /\ calls[f].told /\ UNCHANGED calls
    /\ view' = [view EXCEPT !.texts[blk] = f]
    /\ UNCHANGED stored

TranslationComplete(f) ==
    /\ Event(f) /\ calls[f].told /\ UNCHANGED calls
    /\ view' = [view EXCEPT !.status = "done", !.task = f, !.skeleton = f, !.content = f,
                            !.texts = [blk \in Parts |-> f]]
    /\ stored' = f

ErrorTold(f) == Event(f) /\ ShowError /\ UNCHANGED <<calls, stored>>

\* The stream ends: well, if the translation is over or another took its place.
EndsWell(f) ==
    /\ calls[f].at = "open"
    /\ ~Current(f) \/ view.status \notin InProgress
    /\ calls' = [calls EXCEPT ![f] = NotCalled]
    /\ UNCHANGED <<view, controller, streamId, reconnecting, retried, stored, viewLog>>

----------------------------------------------------------------------------
(* Reconnecting.                                                           *)

\* It broke, or ended before the translation did.
Breaks(f) ==
    /\ calls[f].at = "open" /\ Current(f) /\ view.status \in InProgress
    /\ IF calls[f].attempt < MaxReconnects
       THEN /\ calls' = [calls EXCEPT ![f] = IF reconnecting THEN NotCalled ELSE [@ EXCEPT !.at = "waiting"]]
            /\ reconnecting' = TRUE
            /\ UNCHANGED <<view, controller, streamId, retried, stored, viewLog>>
       ELSE Fails(f) /\ UNCHANGED reconnecting

\* Mutant: the flag stays up while the stream is connected to again.
FlagStays == UNCHANGED reconnecting

FlagDown == reconnecting' = FALSE

\* The delay is over, and the backend answers.
Reconnect(f) ==
    /\ calls[f].at = "waiting" /\ Current(f) /\ controller # Blankness
    /\ StartStream(f, calls[f].attempt + 1)
    /\ FlagDown
    /\ UNCHANGED <<view, retried, stored, viewLog>>

\* It is over, and another stream has taken the place: the flag goes down,
\* whoever put it up.
NotNeeded(f) ==
    /\ calls[f].at = "waiting" /\ (~Current(f) \/ controller = Blankness)
    /\ calls' = [calls EXCEPT ![f] = NotCalled]
    /\ FlagDown
    /\ UNCHANGED <<view, controller, streamId, retried, stored, viewLog>>

BackendGone(f) ==
    /\ calls[f].at = "waiting" /\ Current(f)
    /\ Fails(f)
    /\ FlagDown

----------------------------------------------------------------------------

\* retryBlock: a failed block of a finished translation is asked for again;
\* the answer goes into the blocks there are when it comes, and is stored.
\* (Bound: one retry at a time.)
RetryBlock(blk) ==
    /\ view.status = "done" /\ view.task # Blankness /\ retried = {}
    /\ retried' = retried \cup {<<view.task, blk>>}
    /\ UNCHANGED <<view, calls, controller, streamId, reconnecting, stored, viewLog>>

RetryAnswered(t, blk) ==
    /\ <<t, blk>> \in retried
    /\ retried' = retried \ {<<t, blk>>}
    /\ \/ /\ view' = IF view.skeleton = Blankness THEN view ELSE [view EXCEPT !.texts[blk] = t]
          /\ stored' = IF view.task = Blankness THEN stored ELSE view.task
       \/ UNCHANGED <<view, stored>>
    /\ UNCHANGED <<calls, controller, streamId, reconnecting, viewLog>>

\* recoverTranslation, once, when the window has come up.
Recover ==
    /\ viewLog.booting
    /\ view' = IF stored = Blankness THEN view
               ELSE [view EXCEPT !.status = "done", !.task = stored, !.skeleton = stored,
                                 !.content = stored, !.texts = [blk \in Parts |-> stored]]
    /\ viewLog' = [viewLog EXCEPT !.booting = FALSE,
                      !.overlap = @ \/ \E f \in Files : calls[f].at # "none"]
    /\ UNCHANGED <<calls, controller, streamId, reconnecting, retried, stored>>

\* The health check, or the shell, says that the backend is gone, or back.
BackendOffline ==
    /\ ~view.offline /\ view.status # "done"
    /\ view' = [view EXCEPT !.offline = TRUE, !.status = "error"]
    /\ UNCHANGED <<calls, controller, streamId, reconnecting, retried, stored, viewLog>>

BackendBack ==
    /\ view.offline
    /\ view' = [view EXCEPT !.offline = FALSE, !.status = IF @ = "error" THEN "idle" ELSE @]
    /\ UNCHANGED <<calls, controller, streamId, reconnecting, retried, stored, viewLog>>

ViewNext ==
    \/ \E f \in Files :
          \/ Drop(f) \/ Uploaded(f) \/ CallFails(f) \/ Connected(f)
          \/ Progress(f) \/ Chunked(f) \/ TranslationComplete(f) \/ ErrorTold(f) \/ EndsWell(f)
          \/ Breaks(f) \/ Reconnect(f) \/ NotNeeded(f) \/ BackendGone(f)
          \/ \E blk \in Parts : BlockTranslated(f, blk) \/ RetryAnswered(f, blk)
    \/ \E blk \in Parts : RetryBlock(blk)
    \/ StartOver \/ Recover \/ BackendOffline \/ BackendBack

ViewSpec == ViewInit /\ [][ViewNext]_viewVars

----------------------------------------------------------------------------
(* What is shown, exported and stored is one task's, whatever streams      *)
(* break, end late or are connected to again ("Discard events from stale   *)
(* streams", useTranslate.ts:268), as long as no request was outstanding   *)
(* when the user went on to another file.                                  *)
OneTaskShown ==
    ~viewLog.overlap =>
       \A owner \in {view.skeleton, view.content} \cup {view.texts[blk] : blk \in Parts} :
          owner \in {view.task, Blankness}

(* And a translation that is shown as going on is: it is uploaded, or its  *)
(* stream is the current one, open, connected to, or about to be.          *)
NobodyWaits ==
    ~viewLog.overlap /\ view.status \in InProgress =>
       \E f \in Files : calls[f].at = "uploading" \/ (calls[f].at # "none" /\ Current(f))

ViewIsTrue == OneTaskShown /\ NobodyWaits

(* A call that was aborted does not speak for the next translation: what   *)
(* the code does not keep, for an aborted fetch ends in the catch of       *)
(* translate.                                                              *)
ErrorsAreOwn ==
    [][\A f \in Files : calls[f].at = "aborted" /\ calls'[f].at = "none" => view' = view]_viewVars
=============================================================================
