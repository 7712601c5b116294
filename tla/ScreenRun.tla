------------------------------ MODULE ScreenRun ------------------------------
(* The paid run of the development model screen (run_model_selection.py      *)
(* with run_ledger.py and run_venue_ab.py): two commands start a run, the    *)
(* slots of the plan are executed one after the other, every request is      *)
(* written to an append-only audit before it is sent, every answer costs     *)
(* money, and the process may die between any two steps.                     *)
EXTENDS Integers, Sequences, FiniteSets

CONSTANTS PairsPlanned,    \* slots 2k-1 and 2k are the two models on one input
          MinSlots,        \* minimum_valid_invocations_per_model
          MinCommon,       \* minimum_common_valid_pairs
          Versions,        \* what the provider may report as the model's name
          NoReport,          \* no report: an answer without a model name, no summary
          MaxCommands      \* bound: how often "run" is started

ASSUME ScreenAssumption ==
    /\ PairsPlanned \in Nat \ {0} /\ MaxCommands \in Nat \ {0}
    /\ MinSlots \in Nat /\ MinCommon \in Nat

Slots == 1..(2 * PairsPlanned)
PairOf(s) == (s + 1) \div 2
ModelOf(s) == s % 2
Workflow(s) == IF PairOf(s) % 2 = 1 THEN "ledger" ELSE "venue"

VARIABLES roots,      \* the directories of the run exist
          screenCommand, \* where the running command is, or "none"
          slotAt,     \* the slot being executed
          letOut,     \* requests of this slot that were let out
          named,      \* model names the answers of this slot carried
          attempts,   \* attempts of the workflow in this slot
          sequence,   \* requests of this attempt
          audit,      \* request_started lines in the audit file
          sent,       \* requests the provider got
          records,    \* the slot records written, in order
          paid,       \* slots begun, over all commands
          summary,    \* final_summary.json
          commands

screenVars == <<roots, screenCommand, slotAt, letOut, named, attempts, sequence, audit, sent, records, paid,
                summary, commands>>

ScreenInit ==
    /\ roots = FALSE /\ screenCommand = "none" /\ slotAt = 0 /\ letOut = 0 /\ named = {} /\ attempts = 0 /\ sequence = 0
    /\ audit = 0 /\ sent = 0 /\ records = <<>> /\ paid = [s \in Slots |-> 0]
    /\ summary = NoReport /\ commands = 0

-----------------------------------------------------------------------------
(* Mutant: an existing run is taken up again.                                *)
StartOver(ready) == ready

(* "run": the preflight must have found no blocker, and none of the three    *)
(* output directories may exist: a run is never resumed.                     *)
MayStart(ready) == ready /\ ~roots

StartRun(ready) ==
    /\ screenCommand = "none" /\ commands < MaxCommands
    /\ commands' = commands + 1
    /\ IF MayStart(ready)
       THEN /\ roots' = TRUE /\ screenCommand' = "slot" /\ slotAt' = 1
            /\ UNCHANGED <<letOut, named, attempts, sequence, audit, sent, records, paid, summary>>
       ELSE UNCHANGED <<roots, screenCommand, slotAt, letOut, named, attempts, sequence, audit, sent, records,
                        paid, summary>>

(* The run ends where it is; what it wrote stays.                            *)
Stops ==
    /\ screenCommand' = "none"
    /\ slotAt' = 0 /\ letOut' = 0 /\ named' = {} /\ attempts' = 0 /\ sequence' = 0

Killed ==
    /\ screenCommand # "none"
    /\ Stops
    /\ UNCHANGED <<roots, audit, sent, records, paid, summary, commands>>

BeginSlot ==
    /\ screenCommand = "slot" /\ slotAt \in Slots
    /\ screenCommand' = "prepare" /\ letOut' = 0 /\ named' = {} /\ attempts' = 1 /\ sequence' = 0
    /\ paid' = [paid EXCEPT ![slotAt] = @ + 1]
    /\ UNCHANGED <<roots, slotAt, audit, sent, records, summary, commands>>

(* Mutant: the event is kept in the process and not appended.                *)
AuditInMemory(matches) ==
    /\ screenCommand = "prepare"
    /\ IF matches
       THEN /\ screenCommand' = "send" /\ letOut' = letOut + 1 /\ sequence' = sequence + 1
       ELSE screenCommand' = "failed" /\ UNCHANGED <<letOut, sequence>>
    /\ UNCHANGED <<roots, slotAt, named, attempts, audit, sent, records, paid, summary, commands>>

(* The audit hook checks the payload against the frozen slot, then appends   *)
(* and syncs the line; a request that drifted raises before either.  The     *)
(* workflow takes that as a failure of the attempt.                          *)
Audit(matches) ==
    /\ screenCommand = "prepare"
    /\ IF matches
       THEN /\ screenCommand' = "send"
            /\ audit' = audit + 1 /\ letOut' = letOut + 1 /\ sequence' = sequence + 1
       ELSE screenCommand' = "failed" /\ UNCHANGED <<audit, letOut, sequence>>
    /\ UNCHANGED <<roots, slotAt, named, attempts, sent, records, paid, summary, commands>>

Send ==
    /\ screenCommand = "send"
    /\ sent' = sent + 1 /\ screenCommand' = "wait"
    /\ UNCHANGED <<roots, slotAt, letOut, named, attempts, sequence, audit, records, paid, summary,
                   commands>>

(* An answer carries the name of the model.  A ledger extraction asks once   *)
(* more when the answer is empty or not JSON; the venue review calls once.   *)
SlotAnswer(name, status) ==
    /\ screenCommand = "wait" /\ status \in {"usable", "unusable"}
    /\ named' = named \cup {name}
    /\ IF status = "unusable" /\ Workflow(slotAt) = "ledger" /\ attempts = 1
       THEN screenCommand' = "prepare" /\ attempts' = 2 /\ sequence' = 0
       ELSE screenCommand' = status /\ UNCHANGED <<attempts, sequence>>
    /\ UNCHANGED <<roots, slotAt, letOut, audit, sent, records, paid, summary, commands>>

(* The budget went into reasoning: the client asks once more with a larger   *)
(* one, within the same attempt.                                             *)
OutOfBudget(name) ==
    /\ screenCommand = "wait" /\ sequence = 1
    /\ named' = named \cup {name}
    /\ screenCommand' = "prepare"
    /\ UNCHANGED <<roots, slotAt, letOut, attempts, sequence, audit, sent, records, paid, summary,
                   commands>>

RequestFails ==
    /\ screenCommand = "wait"
    /\ screenCommand' = "failed"
    /\ UNCHANGED <<roots, slotAt, letOut, named, attempts, sequence, audit, sent, records, paid,
                   summary, commands>>

SlotOutcomes == {"usable", "unusable", "failed"}

(* A slot without a request in the audit ends the run; otherwise its record  *)
(* is written.  It may be rated when it ended well and every answer named    *)
(* the same model.                                                           *)
FinishSlot ==
    /\ screenCommand \in SlotOutcomes
    /\ IF letOut = 0
       THEN Stops /\ UNCHANGED records
       ELSE /\ records' = Append(records,
                   [slot |-> slotAt, requests |-> letOut, named |-> named,
                    valid |-> screenCommand = "usable" /\ \E v \in Versions : named = {v}])
            /\ screenCommand' = IF slotAt + 1 \in Slots THEN "slot" ELSE "package"
            /\ slotAt' = slotAt + 1 /\ letOut' = 0 /\ named' = {} /\ attempts' = 0 /\ sequence' = 0
    /\ UNCHANGED <<roots, audit, sent, paid, summary, commands>>

SlotValid(s) == \E i \in DOMAIN records : records[i].slot = s /\ records[i].valid

Common(parity) == {p \in 1..PairsPlanned : p \in parity /\ SlotValid(2 * p - 1) /\ SlotValid(2 * p)}

Names(m) ==
    UNION {records[i].named : i \in {j \in DOMAIN records : ModelOf(records[j].slot) = m}} \ {NoReport}

ValidOf(m) == {s \in Slots : ModelOf(s) = m /\ SlotValid(s)}

Eligible(parity) ==
    /\ \A m \in {0, 1} : /\ Cardinality(ValidOf(m)) >= MinSlots
                         /\ Cardinality(Names(m)) = 1
                         /\ {Workflow(s) : s \in ValidOf(m)} = {Workflow(s) : s \in Slots}
    /\ Cardinality(Common(parity)) >= MinCommon
    /\ parity = 1..PairsPlanned

(* The requests of the slots, added up.                                      *)
Requested(recs) ==
    LET total[n \in 0..Len(recs)] == IF n = 0 THEN 0 ELSE total[n - 1] + recs[n].requests
    IN  total[Len(recs)]

(* The pairs' requests are compared, the blind package is built and the      *)
(* summary written.  Excerpts that differ, or a model's name that the        *)
(* redaction missed, end the run before the summary.                         *)
Package(parity, blind) ==
    /\ screenCommand = "package"
    /\ summary' = IF blind
                  THEN [requests |-> Requested(records),
                        common |-> Common(parity), eligible |-> Eligible(parity)]
                  ELSE summary
    /\ Stops
    /\ UNCHANGED <<roots, audit, sent, records, paid, commands>>

ScreenNext ==
    \/ \E ready \in BOOLEAN : StartRun(ready)
    \/ Killed \/ BeginSlot \/ (\E matches \in BOOLEAN : Audit(matches)) \/ Send
    \/ \E name \in Versions \cup {NoReport}, status \in SlotOutcomes : SlotAnswer(name, status)
    \/ \E name \in Versions \cup {NoReport} : OutOfBudget(name)
    \/ RequestFails \/ FinishSlot
    \/ \E parity \in SUBSET (1..PairsPlanned), blind \in BOOLEAN : Package(parity, blind)

ScreenSpec == ScreenInit /\ [][ScreenNext]_screenVars

-----------------------------------------------------------------------------
(* Every variable stays in its range.                                        *)
ScreenTypeOK ==
    /\ screenCommand \in {"none", "slot", "prepare", "send", "wait", "package"} \cup SlotOutcomes
    /\ slotAt \in 0..(2 * PairsPlanned + 1) /\ letOut \in 0..4 /\ attempts \in 0..2
    /\ sequence \in 0..2 /\ named \subseteq Versions \cup {NoReport}
    /\ roots \in BOOLEAN /\ commands \in 0..MaxCommands
    /\ audit \in Nat /\ sent \in Nat /\ (screenCommand # "none" => roots)
    /\ \A i \in DOMAIN records : records[i].slot = i /\ records[i].requests > 0

(* No request reaches the provider before its line is in the audit file,     *)
(* wherever the process dies.                                                *)
SentWasAudited == sent <= audit

(* No slot is paid for twice: a run that died is not resumed, and starting   *)
(* it again under its name is refused.                                       *)
PaidOnce == \A s \in Slots : paid[s] <= 1

(* A run with a summary executed the whole plan once, and the summary counts *)
(* every request the audit file holds and the provider got.                  *)
SummaryIsWhole ==
    summary # NoReport =>
        /\ Len(records) = 2 * PairsPlanned
        /\ summary.requests = audit /\ audit = sent

(* The money the screen spends is accounted for.                             *)
SpendingIsAudited == SentWasAudited /\ PaidOnce /\ SummaryIsWhole
=============================================================================
