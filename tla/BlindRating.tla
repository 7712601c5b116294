----------------------------- MODULE BlindRating -----------------------------
(* The blind rating of the development model screen                          *)
(* (methods/reviewer_validation/scripts/run_model_selection.py): two raters  *)
(* fill in one form per pair of answers, each rater's set is locked by the   *)
(* hash of every file, and a model is selected from the locked sets.  The    *)
(* forms are files in the raters' hands, so they change between any two      *)
(* reads of them; the commands of the coordinator run one at a time.         *)
EXTENDS Integers, FiniteSets

CONSTANTS PairCount,    \* the pairs are 1 .. PairCount, in the index's order
          Raters,       \* the two raters
          Labels,       \* the two blind labels
          Prior,        \* the label of the model the team would rather have
          Contents,     \* what a form may hold
          Void,         \* a field left empty
          MinPairs,     \* minimum_common_valid_pairs
          MaxFills      \* bound: how often a form is changed that was filled in

RatedPairs == 1..PairCount

Forms == [preference : Labels \cup {"tie", Void}, unsupported : [Labels -> {0, 1, 2, Void}]]

Unfilled == [preference |-> Void, unsupported |-> [l \in Labels |-> Void]]

ASSUME RatingAssumption ==
    /\ PairCount \in Nat \ {0} /\ MinPairs \in Nat \ {0} /\ MaxFills \in Nat
    /\ \E a, b \in Raters : a # b /\ Raters = {a, b}
    /\ \E a, b \in Labels : a # b /\ Labels = {a, b}
    /\ Prior \in Labels /\ {"tie", "blocked"} \cap Labels = {}
    /\ Contents \subseteq Forms

VARIABLES published,   \* None, or the pairs that may be rated and the run's verdict on itself
          forms,       \* the files: what rater r has written on pair p
          protected,   \* the raters whose files were made read-only
          locks,       \* the lock file of each rater
          locking,     \* the lock command in progress
          tampered,    \* a file of the blind package was changed
          selection,   \* selection_result.json
          fills

ratingVars == <<published, forms, protected, locks, locking, tampered, selection, fills>>

RatingInit ==
    /\ published = Void /\ forms = [r \in Raters |-> [p \in RatedPairs |-> Unfilled]]
    /\ protected = {} /\ locks = [r \in Raters |-> Void] /\ locking = Void
    /\ tampered = FALSE /\ selection = Void /\ fills = 0

(* The run has written the blind package and its summary: a pair may be      *)
(* rated when both answers are valid, and the run is technically eligible    *)
(* only with enough such pairs; other conditions may still fail it.          *)
Publish(eligible, technical) ==
    /\ published = Void
    /\ technical => Cardinality(eligible) >= MinPairs
    /\ published' = [eligible |-> eligible, technical |-> technical]
    /\ UNCHANGED <<forms, protected, locks, locking, tampered, selection, fills>>

(* Raters rate the pairs that may be rated, and may change their mind.  Once *)
(* the package is tampered with no command does anything, so no form is      *)
(* changed in the model after that.                                          *)
Fill(r, p, content) ==
    /\ published # Void /\ ~tampered /\ p \in published.eligible /\ r \notin protected /\ forms[r][p] # content
    /\ forms[r][p] # Unfilled => fills < MaxFills
    /\ forms' = [forms EXCEPT ![r][p] = content]
    /\ fills' = IF forms[r][p] = Unfilled THEN fills ELSE fills + 1
    /\ UNCHANGED <<published, protected, locks, locking, tampered, selection>>

Tamper ==
    /\ published # Void /\ ~tampered
    /\ tampered' = TRUE
    /\ UNCHANGED <<published, forms, protected, locks, locking, selection, fills>>

(* _rating_context: both roots are there and no file of the blind package    *)
(* has drifted from its manifest.                                            *)
ContextHolds == published # Void /\ ~tampered

Whole(form) == form.preference # Void /\ \A l \in Labels : form.unsupported[l] # Void

LockStart(r) ==
    /\ ContextHolds /\ locking = Void /\ locks[r] = Void
    /\ locking' = [rater |-> r, pair |-> 1, checked |-> FALSE, records |-> [p \in {} |-> Unfilled]]
    /\ UNCHANGED <<published, forms, protected, locks, tampered, selection, fills>>

(* The form is parsed and validated; a pair that may not be rated passes.    *)
(* An incomplete form ends the command.                                      *)
LockCheck ==
    /\ locking # Void /\ locking.pair \in RatedPairs /\ ~locking.checked
    /\ locking' = IF locking.pair \in published.eligible => Whole(forms[locking.rater][locking.pair])
                  THEN [locking EXCEPT !.checked = TRUE]
                  ELSE Void
    /\ UNCHANGED <<published, forms, protected, locks, tampered, selection, fills>>

(* The bytes are read again for the hash.                                    *)
LockRecord ==
    /\ locking # Void /\ locking.checked
    /\ LET p == locking.pair
           read == [q \in 1..p |-> IF q = p THEN forms[locking.rater][p] ELSE locking.records[q]]
       IN  locking' = [locking EXCEPT !.checked = FALSE, !.pair = p + 1, !.records = read]
    /\ UNCHANGED <<published, forms, protected, locks, tampered, selection, fills>>

(* The lock file is created exclusively; then the forms are made read-only.  *)
LockWrite ==
    /\ locking # Void /\ locking.pair = PairCount + 1 /\ locks[locking.rater] = Void
    /\ locks' = [locks EXCEPT ![locking.rater] = locking.records]
    /\ UNCHANGED <<published, forms, protected, locking, tampered, selection, fills>>

LockProtect ==
    /\ locking # Void /\ locks[locking.rater] # Void
    /\ protected' = protected \cup {locking.rater}
    /\ locking' = Void
    /\ UNCHANGED <<published, forms, locks, tampered, selection, fills>>

LockKilled ==
    /\ locking # Void
    /\ locking' = Void
    /\ UNCHANGED <<published, forms, protected, locks, tampered, selection, fills>>

(* Mutant: the first rater's preference decides.                            *)
AggregateFirst(left, right) == IF left = "tie" THEN right ELSE left

(* _aggregate_preference                                                     *)
Aggregate(left, right) ==
    IF left = right THEN left
    ELSE IF left = "tie" THEN right
    ELSE IF right = "tie" THEN left
    ELSE "tie"

Wins(rated, l) ==
    LET pair == CHOOSE rs \in Raters \X Raters : rs[1] # rs[2]
    IN  Cardinality({p \in published.eligible :
            Aggregate(rated[pair[1]][p].preference, rated[pair[2]][p].preference) = l})

(* The sum of the scores 0, 1 and 2: what is above 0, and above 1 once more.  *)
Unsupported(rated, l) ==
    LET Scores(S) == Cardinality({rp \in Raters \X published.eligible :
                                     rated[rp[1]][rp[2]].unsupported[l] \in S})
    IN  Scores({1, 2}) + Scores({2})

(* The decision of select_model_from_locked_ratings over the forms read.     *)
Decision(rated) ==
    LET one   == CHOOSE l \in Labels : TRUE
        other == CHOOSE l \in Labels : l # one
        winner == IF Wins(rated, one) > Wins(rated, other) THEN one
                  ELSE IF Wins(rated, other) > Wins(rated, one) THEN other
                  ELSE IF Unsupported(rated, one) < Unsupported(rated, other) THEN one
                  ELSE IF Unsupported(rated, other) < Unsupported(rated, one) THEN other
                  ELSE Prior
        loser == CHOOSE l \in Labels : l # winner
    IN  IF /\ Wins(rated, winner) > Wins(rated, loser)
           /\ Unsupported(rated, winner) > Unsupported(rated, loser)
        THEN "blocked" ELSE winner

LocksExist == \A r \in Raters : locks[r] # Void

(* Every locked file must still have its hash.                               *)
LocksHold == \A r \in Raters : locks[r] # Void /\ forms[r] = locks[r]

(* A score that is missing raises before the result is written.              *)
Scored(form) == \A l \in Labels : form.unsupported[l] # Void

Select ==
    /\ ContextHolds /\ locking = Void /\ selection = Void /\ LocksHold
    /\ Cardinality(published.eligible) >= MinPairs
    /\ \A r \in Raters, p \in published.eligible : Scored(forms[r][p])
    /\ selection' = Decision(forms)
    /\ UNCHANGED <<published, forms, protected, locks, locking, tampered, fills>>

RatingNext ==
    \/ \E eligible \in SUBSET RatedPairs, technical \in BOOLEAN : Publish(eligible, technical)
    \/ \E r \in Raters, p \in RatedPairs, content \in Contents : Fill(r, p, content)
    \/ Tamper \/ (\E r \in Raters : LockStart(r))
    \/ LockCheck \/ LockRecord \/ LockWrite \/ LockProtect \/ LockKilled
    \/ Select

RatingSpec == RatingInit /\ [][RatingNext]_ratingVars

-----------------------------------------------------------------------------
Sheets == [RatedPairs -> Forms]

(* Every variable stays in its range; a lock command has read the pairs      *)
(* before the one it is at.                                                  *)
RatingTypeOK ==
    /\ published = Void \/ published \in [eligible : SUBSET RatedPairs, technical : BOOLEAN]
    /\ \A r \in Raters, p \in RatedPairs : forms[r][p] \in Contents \cup {Unfilled}
    /\ protected \subseteq Raters /\ tampered \in BOOLEAN /\ fills \in 0..MaxFills
    /\ \A r \in Raters : locks[r] = Void \/ DOMAIN locks[r] = RatedPairs
    /\ locking = Void \/ DOMAIN locking.records = 1..(locking.pair - 1)
    /\ selection \in Labels \cup {Void, "blocked"}

Finished(rated) == \A r \in Raters, p \in published.eligible : Whole(rated[r][p])

(* What the selection rule of model_selection.yaml says of a label: more     *)
(* pairs than the other (a pair counts for a label one rater prefers and no  *)
(* rater prefers the other), without more unsupported content; on a tie less *)
(* unsupported content; on both ties the prior.                              *)
Preferred(rated, l) ==
    LET m == CHOOSE m \in Labels : m # l
        Won(a, b) == Cardinality({p \in published.eligible :
                         /\ \E r \in Raters : rated[r][p].preference = a
                         /\ \A r \in Raters : rated[r][p].preference # b})
        more == Won(l, m) - Won(m, l)
        bad  == Unsupported(rated, l) - Unsupported(rated, m)
    IN  \/ more > 0 /\ bad <= 0
        \/ more = 0 /\ bad < 0
        \/ more = 0 /\ bad = 0 /\ l = Prior

(* A selection rests on enough pairs and on both locked sets, exactly as     *)
(* locked: whatever the raters do to their files, before or after, the model *)
(* selected is the one the rule prefers on the locked forms, and none is     *)
(* selected exactly when the rule prefers neither.                           *)
SelectionByRule ==
    selection # Void =>
        /\ LocksExist /\ Cardinality(published.eligible) >= MinPairs
        /\ Finished(locks) =>
               \A l \in Labels : (selection = l) <=> Preferred(locks, l)

(* inputs/development/model_selection.yaml, selection_rule: "Exclude a       *)
(* technically ineligible candidate; if both are ineligible, selection       *)
(* remains blocked."  select_model_from_locked_ratings never reads the       *)
(* run's technical verdict, so a run that failed it still selects.           *)
SelectedIsEligible == selection \in Labels => published.technical
=============================================================================
