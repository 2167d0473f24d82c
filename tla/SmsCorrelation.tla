--------------------------- MODULE SmsCorrelation ---------------------------
(***************************************************************************)
(* An outgoing SMS and the reports on it: SMSCorrelationStore of           *)
(* core/sms_correlation.py, the /sms handlers of agent/routes.py and the   *)
(* report channel with its AGI script.                                     *)
(*                                                                         *)
(* What the record says and what happens to the message are apart: the AMI *)
(* may answer late or not at all for a message that is sent, and the       *)
(* report of the modem may overtake the answer.  Every change of a record  *)
(* is appended to a file, as a line that may fail or be cut short, and the *)
(* file is all that a restart leaves.                                      *)
(*                                                                         *)
(* Refused requests (number, blacklist, limit) change no record and are no *)
(* steps.  The agent has one dongle.  Not modelled: metrics, audit, and    *)
(* the notification of the sender, which follows a recorded outcome and    *)
(* changes nothing in the agent.                                           *)
(***************************************************************************)
EXTENDS Naturals, FiniteSets

CONSTANTS
    Msgs,      \* the sms ids the agent may ever issue (uuid4, never reused)
    Numbers,   \* recipients
    NoNumber,  \* a text without a number that any record has; no recipient yet
    MaxFaults  \* bound on writes of the file that fail

ASSUME MsgAssumption    == IsFiniteSet(Msgs)
ASSUME NumberAssumption == NoNumber \notin Numbers
ASSUME FaultAssumption  == MaxFaults \in Nat

VARIABLES
    to,       \* phone_number of the record
    rec,      \* SMSCorrelationStore._records
    file,     \* for each message, its last readable line in the file
    torn,     \* the file ends in the middle of a line
    sending,  \* POST /sms handlers that wait for the AMI
    fate,     \* what becomes of the message in Asterisk and the network
    report,   \* the report channel of the message
    clock,    \* the time of the latest submission
    faults    \* failed writes so far

vars == <<to, rec, file, torn, sending, fate, report, clock, faults>>

-----------------------------------------------------------------------------
(* Records and their file                                                  *)

\* No record, and a new one; `at` orders the records by submitted_at.
Unknown == [submit |-> "none", delivery |-> "none", at |-> 0]
Fresh   == [submit |-> "pending", delivery |-> "pending", at |-> 0]

\* Mutant: the store is told of the change, the file is not.
UpdateMemory(m, r) ==
    /\ rec' = [rec EXCEPT ![m] = r]
    /\ UNCHANGED <<file, torn, faults>>

\* Every update of a record, and _persist: a line that follows a torn one
\* makes a single unreadable line with it.  A failed write is only logged.
Update(m, r) ==
    /\ rec' = [rec EXCEPT ![m] = r]
    /\ \/ /\ file' = IF torn THEN file ELSE [file EXCEPT ![m] = r]
          /\ torn' = FALSE
          /\ UNCHANGED faults
       \/ /\ faults < MaxFaults
          /\ faults' = faults + 1
          /\ torn' \in {torn, TRUE}
          /\ UNCHANGED file

-----------------------------------------------------------------------------
(* POST /sms                                                               *)

\* create, and the handler waits for ami.send_sms.
SendSms(m, n) ==
    /\ to[m] = NoNumber
    /\ to' = [to EXCEPT ![m] = n]
    /\ Update(m, Fresh)
    /\ sending' = sending \cup {m}
    /\ UNCHANGED <<fate, report, clock>>

\* The action is written to Asterisk, with the sms id as its payload.
WriteAction(m) ==
    /\ m \in sending
    /\ fate[m] = "none"
    /\ fate' = [fate EXCEPT ![m] = "written"]
    /\ UNCHANGED <<to, rec, file, torn, sending, report, clock, faults>>

\* send_sms returns: mark_submitted.
SendReturns(m) ==
    /\ m \in sending
    /\ fate[m] # "none"
    /\ clock' = clock + 1
    /\ Update(m, [rec[m] EXCEPT !.submit = "submitted", !.at = clock'])
    /\ sending' = sending \ {m}
    /\ UNCHANGED <<to, fate, report>>

\* Mutant: the submission's failure is recorded as the delivery's.
SendRaisesFailingDelivery(m) ==
    /\ m \in sending
    /\ Update(m, [rec[m] EXCEPT !.submit = "failed", !.delivery = "failed"])
    /\ sending' = sending \ {m}
    /\ UNCHANGED <<to, fate, report, clock>>

\* Mutant: a status that no reader of the record knows.
SendRaisesUnknown(m) ==
    /\ m \in sending
    /\ Update(m, [rec[m] EXCEPT !.submit = "error"])
    /\ sending' = sending \ {m}
    /\ UNCHANGED <<to, fate, report, clock>>

\* send_sms raises, before the action is written or while it waits for the
\* answer: mark_failed of the submission.
SendRaises(m) ==
    /\ m \in sending
    /\ Update(m, [rec[m] EXCEPT !.submit = "failed"])
    /\ sending' = sending \ {m}
    /\ UNCHANGED <<to, fate, report, clock>>

-----------------------------------------------------------------------------
(* Asterisk, the network and the report channel                            *)

\* Asterisk refuses a written action, or the message is on its way.
Accepted(m, f) ==
    /\ fate[m] = "written"
    /\ fate' = [fate EXCEPT ![m] = f]
    /\ UNCHANGED <<to, rec, file, torn, sending, report, clock, faults>>

\* The dongle opens a report channel, also for a message it failed to send.
Resolved(m, f) ==
    /\ fate[m] = "queued"
    /\ fate' = [fate EXCEPT ![m] = f]
    /\ report' = [report EXCEPT ![m] = "due"]
    /\ UNCHANGED <<to, rec, file, torn, sending, clock, faults>>

\* The AGI script posts once; the agent may be down.
ReportLost(m) ==
    /\ report[m] = "due"
    /\ report' = [report EXCEPT ![m] = "lost"]
    /\ UNCHANGED <<to, rec, file, torn, sending, fate, clock, faults>>

\* POST /sms/{id}/delivered and /sms/{id}/failed, in any state of the record.
ReportById(m) ==
    /\ report[m] = "due"
    /\ rec[m] # Unknown
    /\ report' = [report EXCEPT ![m] = "taken"]
    /\ Update(m, [rec[m] EXCEPT !.delivery = fate[m]])
    /\ UNCHANGED <<to, sending, fate, clock>>

\* ... 404: the record did not survive a restart.
ReportUnknown(m) ==
    /\ report[m] = "due"
    /\ rec[m] = Unknown
    /\ report' = [report EXCEPT ![m] = "lost"]
    /\ UNCHANGED <<to, rec, file, torn, sending, fate, clock, faults>>

-----------------------------------------------------------------------------
(* POST /sms/report                                                        *)

\* Mutant: what became of the submission is not looked at.
CandidatesUnsent == {m \in Msgs : rec[m].delivery = "pending"}

Candidates == {m \in Msgs : rec[m].submit = "submitted" /\ rec[m].delivery = "pending"}

\* Mutant: the number is looked for in every record.
PoolOfAll(named) ==
    LET hinted == {m \in Msgs : to[m] = named /\ rec[m].submit = "submitted"}
    IN IF hinted = {} THEN Candidates ELSE hinted

\* match_report: the candidates the text names, or else all of them.
Pool(named) ==
    LET hinted == {m \in Candidates : to[m] = named}
    IN IF hinted = {} THEN Candidates ELSE hinted

Newest(pool) == {m \in pool : \A o \in pool : rec[o].at <= rec[m].at}

\* The number a text names and what it says of the delivery are anything.
ReportByText(named, outcome) ==
    /\ \E m \in Newest(Pool(named)) :
           Update(m, [rec[m] EXCEPT !.delivery = outcome])
    /\ UNCHANGED <<to, sending, fate, report, clock>>

-----------------------------------------------------------------------------
(* The specification                                                       *)

\* The agent stops and _load reads the file again.
Restart ==
    /\ rec' = file
    /\ sending' = {}
    /\ UNCHANGED <<to, file, torn, fate, report, clock, faults>>

Init ==
    /\ to = [m \in Msgs |-> NoNumber]
    /\ rec = [m \in Msgs |-> Unknown]
    /\ file = [m \in Msgs |-> Unknown]
    /\ torn = FALSE
    /\ sending = {}
    /\ fate = [m \in Msgs |-> "none"]
    /\ report = [m \in Msgs |-> "none"]
    /\ clock = 0
    /\ faults = 0

Outcomes == {"delivered", "failed"}

Next ==
    \/ \E m \in Msgs :
           \/ \E n \in Numbers : SendSms(m, n)
           \/ WriteAction(m)
           \/ SendReturns(m)
           \/ SendRaises(m)
           \/ \E f \in {"queued", "refused"} : Accepted(m, f)
           \/ \E f \in Outcomes : Resolved(m, f)
           \/ ReportLost(m)
           \/ ReportById(m)
           \/ ReportUnknown(m)
    \/ \E named \in Numbers \cup {NoNumber}, outcome \in Outcomes :
           ReportByText(named, outcome)
    \/ Restart

Spec == Init /\ [][Next]_vars

-----------------------------------------------------------------------------
(* Properties                                                              *)

Record == [submit   : {"none", "pending", "submitted", "failed"},
           delivery : {"none", "pending"} \cup Outcomes,
           at       : Nat]

TypeOK ==
    /\ to \in [Msgs -> Numbers \cup {NoNumber}]
    /\ rec \in [Msgs -> Record]
    /\ file \in [Msgs -> Record]
    /\ torn \in BOOLEAN
    /\ sending \subseteq Msgs
    /\ fate \in [Msgs -> {"none", "written", "queued", "refused"} \cup Outcomes]
    /\ report \in [Msgs -> {"none", "due", "taken", "lost"}]
    /\ clock \in Nat
    /\ faults \in 0..MaxFaults

\* Once the modem's own report on a message is taken, the record says what
\* the report said, and goes on saying so: no late answer of the AMI, no text
\* report about another message and no restart changes it, as long as the
\* file can be written.
ReportStands ==
    faults = 0 =>
        \A m \in Msgs : report[m] = "taken" => rec[m].delivery = fate[m]

\* "Correlation survives restarts": a write that fails costs the state of two
\* messages at most, its own and that of the line glued to a torn one, so
\* without a failed write a restart changes no record at all.
LossIsBounded == Cardinality({m \in Msgs : rec[m] # file[m]}) <= 2 * faults

\* A message whose send was never written to Asterisk is not shown as
\* delivered: the guess of a text report stays among messages that were sent.
OnlyWrittenResolved ==
    \A m \in Msgs : rec[m].delivery \in Outcomes => fate[m] # "none"

-----------------------------------------------------------------------------
(* What the store promises of a message                                    *)

Ledger == INSTANCE SmsLedger
              WITH begun <- {m \in Msgs : to[m] # NoNumber},
                   sent <- {m \in Msgs : fate[m] # "none"},
                   reported <- {m \in Msgs : report[m] = "taken"},
                   shown <- [m \in Msgs |-> rec[m].delivery],
                   kept <- [m \in Msgs |-> file[m].delivery],
                   losses <- faults

\* Records, their file, the guesses and the reports implement the ledger: only a
\* message that left is resolved, by a guess only while it is pending and once by
\* its report, and a restart goes back to what was kept and no further.
ImplementsLedger == Ledger!LedgerSpec
=============================================================================
