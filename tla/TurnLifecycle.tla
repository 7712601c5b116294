----------------------------- MODULE TurnLifecycle -----------------------------
(***************************************************************************)
(* What a session promises about the state it reports (meta.state of       *)
(* session.py): a turn passes through working states to an outcome, which  *)
(* stays until the next turn; a turn whose report of partial work is being *)
(* drawn up never ends in anything else; a turn that is cut off, or whose  *)
(* outcome could not be saved, is reported as PARTIAL or leaves the report *)
(* of the turn before.                                                     *)
(***************************************************************************)
VARIABLES
  state,    \* the state the session reports
  working,  \* a turn is running
  before    \* the state it reported before the (latest) turn

lifeVars == <<state, working, before>>

Active   == {"RUNNING", "RECOVERING"}
Terminal == {"COMPLETE", "PARTIAL", "FAILED", "ABORTED"}

Init == state = "IDLE" /\ working = FALSE /\ before = "IDLE"

(* A turn starts on a session at rest. *)
Begin == /\ ~working
         /\ state' = "RUNNING" /\ working' = TRUE /\ before' = state

(* A file mutation the turn failed at is being worked on. *)
Recover == /\ working /\ state \in Active
           /\ state' = "RECOVERING" /\ UNCHANGED <<working, before>>

(* The turn was stopped and its report is drawn up. *)
Stop == /\ working /\ state \in Active
        /\ state' = "FINALIZING" /\ UNCHANGED <<working, before>>

(* The turn ends: a stopped one is PARTIAL. *)
Finish == /\ working /\ working' = FALSE
          /\ state' \in IF state = "FINALIZING" THEN {"PARTIAL"} ELSE Terminal
          /\ UNCHANGED before

(* The turn is cut off, or its outcome not saved. *)
Interrupt == /\ working /\ working' = FALSE
             /\ state' \in {"PARTIAL", before}
             /\ UNCHANGED before

Next == Begin \/ Recover \/ Stop \/ Finish \/ Interrupt

Spec == Init /\ [][Next]_lifeVars
=============================================================================
