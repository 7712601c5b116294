---------------------------- MODULE ReviewSessions ----------------------------
(***************************************************************************)
(* Reviews of a manuscript: run_review, run_review_parallel and            *)
(* continue_rebuttal of argument/reviewer.py, the review part of           *)
(* argument/companion_store.py and its endpoints in routers/argument.py.   *)
(*                                                                         *)
(* A review asks the model stage by stage, streams each point it finds,    *)
(* and at its end puts them into a session, the one the request names or a *)
(* new one.  The author answers a point, and the model replies.  Endpoints *)
(* that await nothing run in worker threads.  The status of a point, which *)
(* user and model set at will, is left out.                                *)
(***************************************************************************)
EXTENDS Naturals, Sequences

CONSTANTS
  Reviews,       \* requests for a review; a new session is named after its request
  Rebuttals,     \* answers of the author
  Perspectives,  \* the perspectives of a parallel review, in their order
  Disputed       \* bound: the sorts of points that the author answers

PerspectiveSet == {Perspectives[i] : i \in DOMAIN Perspectives}
Points == Reviews \X ({"ledger", "coherence", "rw", "llm"} \cup PerspectiveSet)

VARIABLES
  listed,     \* the keys of _reviews: the sessions there are
  session,    \* the points of each session, in memory as long as it is used
  thread,     \* the turns about each point
  review,     \* each review: its stage, its session, its points
  rebuttal,   \* each rebuttal: its point and how far it is
  deleted     \* history: sessions that were deleted

reviewVars == <<listed, session, thread, review, rebuttal, deleted>>

ReviewInit ==
  /\ listed = {} /\ deleted = {} /\ session = [s \in Reviews |-> {}]
  /\ thread = [p \in Points |-> <<>>]
  /\ review = [r \in Reviews |-> [at |-> "new", into |-> r, points |-> {}]]
  /\ rebuttal = [b \in Rebuttals |-> [at |-> "new", point |-> <<>>]]

-----------------------------------------------------------------------------
BeginReview(r) ==
  /\ review[r].at = "new"
  /\ \E s \in listed \cup {r}, mode \in {"ledger", "parallel"} :
       review' = [review EXCEPT ![r].at = mode, ![r].into = s]
  /\ UNCHANGED <<listed, session, thread, rebuttal, deleted>>

To(r, place, found) ==
  /\ review' = [review EXCEPT ![r].at = place, ![r].points = @ \cup ({r} \X found)]
  /\ UNCHANGED <<listed, session, thread, rebuttal, deleted>>

After == [ledger |-> "coherence", coherence |-> "rw", rw |-> "llm", llm |-> "found"]

(* A stage finds something or not; one whose call fails finds nothing.     *)
Stage(r) ==
  /\ review[r].at \in {"ledger", "coherence", "llm"}
  /\ \E found \in SUBSET {review[r].at} : To(r, After[review[r].at], found)

RelatedWorkCheck(r) ==
  /\ review[r].at = "rw"
  /\ \E found \in SUBSET {"rw"} : To(r, After.rw, found)

(* Without a section of related work there is a point for sure.  Its       *)
(* severity is "info" when the text has the word elsewhere, which is not a *)
(* severity that a point can have: the review ends with an error.          *)
NoRelatedWork(r) ==
  /\ review[r].at = "rw"
  /\ To(r, After.rw, {"rw"}) \/ To(r, "error", {})

(* All perspectives at once: those that fail or find nothing are left out, *)
(* and of two points with one title the first is kept.                     *)
Gather(r) ==
  /\ review[r].at = "parallel"
  /\ \E ledger \in SUBSET {"ledger"}, title \in UNION {[answered -> {1, 2}] : answered \in SUBSET PerspectiveSet} :
       LET kept == {Perspectives[i] : i \in {n \in DOMAIN Perspectives :
                      /\ Perspectives[n] \in DOMAIN title
                      /\ \A m \in 1..(n - 1) : Perspectives[m] \in DOMAIN title =>
                           title[Perspectives[m]] # title[Perspectives[n]]}}
       IN IF kept = {} THEN To(r, "error", ledger) ELSE To(r, "found", ledger \cup kept)

(* Mutant: the session gets the points of this review only.                *)
OwnPoints(r) == review[r].points

Extended(r) == session[review[r].into] \cup review[r].points

(* The disk may refuse the session's file: then the review ends with an    *)
(* error, and the session in memory has its points all the same.           *)
Saved == {"done", "unsaved"}

(* The points are put into the session, if it is still there; the session  *)
(* is saved in the step after it, and a thread may come between.           *)
Complete(r) ==
  /\ review[r].at = "found"
  /\ IF review[r].into \in listed
       THEN /\ session' = [session EXCEPT ![review[r].into] = Extended(r)]
            /\ review' = [review EXCEPT ![r].at = "saving"]
            /\ UNCHANGED listed
       ELSE /\ session' = [session EXCEPT ![r] = review[r].points]
            /\ listed' = listed \cup {r}
            /\ \E end \in Saved : review' = [review EXCEPT ![r].at = end, ![r].into = r]
  /\ UNCHANGED <<thread, rebuttal, deleted>>

SaveReview(r) ==
  /\ review[r].at = "saving"
  /\ listed' = listed \cup {review[r].into}
  /\ \E end \in Saved : review' = [review EXCEPT ![r].at = end]
  /\ UNCHANGED <<session, thread, rebuttal, deleted>>

(* The client is gone, or the model of a focused review cannot be called.  *)
ReviewStops(r) ==
  /\ review[r].at \in {"ledger", "coherence", "rw", "llm", "parallel", "found"}
  /\ To(r, "stopped", {})

-----------------------------------------------------------------------------
Turn(role, b) == [role |-> role, of |-> b]
Says(p, turns) == thread' = [thread EXCEPT ![p] = @ \o turns]

Disputable(s) == {p \in session[s] : p[2] \in Disputed}

(* Mutant: the author's turn is written with the reply.                    *)
StartSilently(b) ==
  /\ rebuttal[b].at = "new"
  /\ \E s \in listed : \E p \in Disputable(s) : rebuttal' = [rebuttal EXCEPT ![b] = [at |-> "asking", point |-> p]]
  /\ UNCHANGED <<listed, session, thread, review, deleted>>

(* A turn is in memory even if the session's file cannot be written, which *)
(* ends the rebuttal.                                                      *)
StartRebuttal(b) ==
  /\ rebuttal[b].at = "new"
  /\ \E s \in listed : \E p \in Disputable(s), place \in {"asking", "over"} :
       /\ rebuttal' = [rebuttal EXCEPT ![b] = [at |-> place, point |-> p]]
       /\ Says(p, <<Turn("author", b)>>)
  /\ UNCHANGED <<listed, session, review, deleted>>

(* The model's reply, or the text that it cannot be reached, whether the   *)
(* file can be written or not.  A session that was deleted is a KeyError.  *)
WriteReply(b) ==
  LET p == rebuttal[b].point IN
  /\ rebuttal[b].at = "asking"
  /\ IF \E s \in listed : p \in session[s]
       THEN Says(p, <<Turn("reviewer", b)>>)
       ELSE UNCHANGED thread
  /\ rebuttal' = [rebuttal EXCEPT ![b].at = "over"]
  /\ UNCHANGED <<listed, session, review, deleted>>

DeleteReview ==
  /\ \E s \in listed : listed' = listed \ {s} /\ deleted' = deleted \cup {s}
  /\ UNCHANGED <<session, thread, review, rebuttal>>

ReviewNext ==
  \/ \E r \in Reviews : \/ BeginReview(r) \/ Stage(r) \/ RelatedWorkCheck(r) \/ NoRelatedWork(r)
                        \/ Gather(r) \/ Complete(r) \/ SaveReview(r) \/ ReviewStops(r)
  \/ \E b \in Rebuttals : StartRebuttal(b) \/ WriteReply(b)
  \/ DeleteReview

ReviewSpec == ReviewInit /\ [][ReviewNext]_reviewVars

-----------------------------------------------------------------------------
(* Types of the state.                                                     *)
ReviewTypeOK ==
  /\ session \in [Reviews -> SUBSET Points] /\ listed \subseteq Reviews /\ deleted \subseteq Reviews
  /\ \A p \in Points : \A i \in DOMAIN thread[p] :
       thread[p][i] \in [role : {"author", "reviewer"}, of : Rebuttals]
  /\ \A r \in Reviews : review[r].into \in Reviews /\ review[r].points \subseteq {p \in Points : p[1] = r}

(* A session has all points of the reviews that were completed into it, be *)
(* its file written or not, and none of a review that failed before: with  *)
(* reviews into the same session at the same time, and sessions deleted    *)
(* under them.                                                             *)
SessionsHoldReviews ==
  \A r \in Reviews :
    /\ review[r].at \in Saved /\ review[r].into \notin deleted =>
         review[r].into \in listed /\ review[r].points \subseteq session[review[r].into]
    /\ review[r].at \notin Saved \cup {"saving"} => \A s \in listed : session[s] \cap review[r].points = {}

(* A reply stands after the answer it replies to, in the thread of that    *)
(* point, and there is one: with rebuttals of one point at the same time.  *)
RepliesFollow ==
  \A p \in Points : \A i \in DOMAIN thread[p] :
    thread[p][i].role = "reviewer" =>
      /\ \E j \in 1..(i - 1) : thread[p][j] = Turn("author", thread[p][i].of)
      /\ \A j \in DOMAIN thread[p] \ {i} : thread[p][j] # thread[p][i]

(* "The deterministic rw_check adds 'no Related Work section' -> at least  *)
(* 1 point": a review of such a text is not given up at that check.        *)
RelatedWorkReported ==
  [][\A r \in Reviews : NoRelatedWork(r) => <<r, "rw">> \in review'[r].points]_reviewVars
=============================================================================
