------------------------ MODULE SmsCorrelationProofs -------------------------
(***************************************************************************)
(* The safety properties of SmsCorrelation, for every set of messages and  *)
(* recipients and any number of failed writes.                             *)
(*                                                                         *)
(* None of the three is inductive.  What a record may become depends on    *)
(* how far the message is (Progress), what a restart brings back on what   *)
(* the file lacks, and what the next write costs on whether the last one   *)
(* was torn (LossInv).  The same invariant carries the step-by-step proof  *)
(* that the store implements the ledger of SmsLedger.                      *)
(***************************************************************************)
EXTENDS SmsCorrelation, FiniteSetTheorems, TLAPS

\* A record that was sent or resolved belongs to a written message.
Written(m, r) ==
    r.submit = "submitted" \/ r.delivery \in Outcomes => fate[m] # "none"

\* A record that exists says something of the delivery.
Speaks(r) == r.delivery = "none" => r = Unknown

\* A message that was never sent has left no trace, a handler that waits for
\* the AMI finds the record it wrote, and the report channel
\* is opened when, and only when, the fate of the message is known.
Progress(m) ==
    /\ to[m] = NoNumber => /\ rec[m] = Unknown
                           /\ file[m] = Unknown
                           /\ m \notin sending
                           /\ fate[m] = "none"
    /\ report[m] = "none" <=> fate[m] \notin Outcomes
    /\ m \in sending => rec[m].delivery # "none"
    /\ Written(m, rec[m]) /\ Speaks(rec[m])
    /\ Written(m, file[m]) /\ Speaks(file[m])

\* The messages a restart would change.
Differ == {m \in Msgs : rec[m] # file[m]}

\* A torn line is a loss that is still to come.
LossInv == Cardinality(Differ) + (IF torn THEN 1 ELSE 0) <= 2 * faults

StandInv == faults = 0 => /\ rec = file
                          /\ ~torn
                          /\ \A m \in Msgs : report[m] = "taken" => rec[m].delivery = fate[m]

IInv == TypeOK /\ (\A m \in Msgs : Progress(m)) /\ LossInv /\ StandInv

-----------------------------------------------------------------------------
(* What an update does to memory and file                                  *)

\* Memory holds the new record; the file holds the new or the old one.
LEMMA UpdateTyped ==
    ASSUME TypeOK, NEW m \in Msgs, NEW r \in Record, Update(m, r)
    PROVE  /\ rec' \in [Msgs -> Record]
           /\ file' \in [Msgs -> Record]
           /\ torn' \in BOOLEAN
           /\ faults' \in 0..MaxFaults
           /\ rec'[m] = r
           /\ file'[m] \in {r, file[m]}
           /\ \A o \in Msgs \ {m} : rec'[o] = rec[o] /\ file'[o] = file[o]
<1>1. faults' \in 0..MaxFaults /\ torn' \in BOOLEAN
  <2>1. faults \in 0..MaxFaults /\ torn \in BOOLEAN
    BY DEF TypeOK
  <2>2. faults' = faults \/ (faults < MaxFaults /\ faults' = faults + 1)
    BY DEF Update
  <2>3. torn' \in {torn, TRUE, FALSE}
    BY DEF Update
  <2>4. faults' \in 0..MaxFaults
    BY <2>1, <2>2, FaultAssumption
  <2>5. torn' \in BOOLEAN
    BY <2>1, <2>3
  <2>. QED
    BY <2>4, <2>5
<1>2. rec' = [rec EXCEPT ![m] = r] /\ file' \in {file, [file EXCEPT ![m] = r]}
  BY DEF Update
<1>3. rec \in [Msgs -> Record] /\ file \in [Msgs -> Record]
  BY DEF TypeOK
<1>. QED
  BY <1>1, <1>2, <1>3

\* A failed write loses its own record and, if torn, the one after it.
LEMMA UpdateLoses ==
    ASSUME TypeOK, LossInv, NEW m \in Msgs, NEW r \in Record, Update(m, r)
    PROVE  LossInv'
<1>1. IsFiniteSet(Differ) /\ Cardinality(Differ) \in Nat
  BY MsgAssumption, FS_Subset, FS_CardinalityType DEF Differ
<1>2. Differ' \subseteq Differ \cup {m}
  BY UpdateTyped DEF Differ
<1>3. /\ IsFiniteSet(Differ \cup {m})
      /\ Cardinality(Differ \cup {m}) <= Cardinality(Differ) + 1
  <2>1. CASE m \in Differ
    BY <1>1, <2>1, FS_AddElement
  <2>2. CASE m \notin Differ
    BY <1>1, <2>2, FS_AddElement
  <2>. QED
    BY <2>1, <2>2
<1>4. Cardinality(Differ') \in Nat /\ Cardinality(Differ') <= Cardinality(Differ) + 1
  BY <1>1, <1>2, <1>3, FS_Subset, FS_CardinalityType
<1>5. faults \in Nat /\ torn \in BOOLEAN
  BY FaultAssumption DEF TypeOK
<1>6. CASE ~torn /\ file' = [file EXCEPT ![m] = r] /\ torn' = FALSE /\ UNCHANGED faults
  <2>1. Differ' \subseteq Differ
    BY <1>2, <1>6 DEF Differ, TypeOK, Update
  <2>2. Cardinality(Differ') <= Cardinality(Differ)
    BY <1>1, <2>1, FS_Subset
  <2>. QED
    BY <1>1, <1>4, <1>5, <1>6, <2>2 DEF LossInv
<1>7. CASE torn /\ torn' = FALSE /\ UNCHANGED faults
  BY <1>1, <1>4, <1>5, <1>7 DEF LossInv
<1>8. CASE faults' = faults + 1 /\ torn' \in {torn, TRUE}
  BY <1>1, <1>4, <1>5, <1>8 DEF LossInv
<1>. QED
  BY <1>5, <1>6, <1>7, <1>8 DEF Update

\* Without a failed write the file follows the memory.
LEMMA UpdateSaves ==
    ASSUME TypeOK, NEW m \in Msgs, NEW r, Update(m, r), faults' = 0,
           faults = 0 => rec = file /\ ~torn
    PROVE  faults = 0 /\ rec' = file' /\ ~torn'
<1>1. faults \in Nat
  BY FaultAssumption DEF TypeOK
<1>2. faults' # faults + 1
  BY <1>1
<1>3. /\ rec' = [rec EXCEPT ![m] = r]
      /\ file' = IF torn THEN file ELSE [file EXCEPT ![m] = r]
      /\ ~torn'
      /\ faults' = faults
  BY <1>2 DEF Update
<1>. QED
  BY <1>3

-----------------------------------------------------------------------------
(* The invariant                                                           *)

\* Nothing is sent, nothing is written, nothing is lost.
LEMMA InitIInv == Init => IInv
<1>. SUFFICES ASSUME Init PROVE IInv
  OBVIOUS
<1>1. TypeOK
  <2>1. Unknown \in Record
    BY DEF Unknown, Record
  <2>2. faults \in 0..MaxFaults /\ clock \in Nat
    BY FaultAssumption DEF Init
  <2>3. torn \in BOOLEAN
    BY DEF Init
  <2>. QED
    BY <2>1, <2>2, <2>3 DEF Init, TypeOK
<1>2. \A m \in Msgs : Progress(m)
  BY DEF Init, Progress, Written, Speaks, Unknown, Outcomes
<1>3. LossInv
  <2>1. Differ = {}
    BY DEF Init, Differ
  <2>. QED
    BY <2>1, FS_EmptySet DEF Init, LossInv
<1>4. StandInv
  BY DEF Init, StandInv
<1>. QED
  BY <1>1, <1>2, <1>3, <1>4 DEF IInv

\* A step that writes one record keeps the invariant, if the new record and
\* the new progress of its message fit each other.
LEMMA UpdateKeeps ==
    ASSUME IInv, NEW m \in Msgs, NEW r \in Record, Update(m, r),
           to' \in [Msgs -> Numbers \cup {NoNumber}],
           report' \in [Msgs -> {"none", "due", "taken", "lost"}],
           sending' \subseteq Msgs, clock' \in Nat, fate' = fate,
           \A o \in Msgs \ {m} : /\ to'[o] = to[o] /\ report'[o] = report[o]
                                 /\ o \in sending' => o \in sending,
           to'[m] # NoNumber,
           report'[m] = "none" <=> fate[m] \notin Outcomes,
           Written(m, r), r.delivery # "none",
           faults = 0 /\ report'[m] = "taken" => r.delivery = fate[m]
    PROVE  IInv'
<1>. USE DEF IInv
<1>1. TypeOK'
  BY UpdateTyped DEF TypeOK
<1>2. ASSUME NEW o \in Msgs PROVE Progress(o)'
  BY UpdateTyped DEF Progress, Written, Speaks
<1>3. LossInv'
  BY UpdateLoses
<1>4. StandInv'
  <2>. SUFFICES ASSUME faults' = 0 PROVE StandInv'
    BY DEF StandInv
  <2>1. faults = 0 /\ rec' = file' /\ ~torn'
    BY UpdateSaves DEF StandInv
  <2>. QED
    BY <2>1, UpdateTyped DEF StandInv
<1>. QED
  BY <1>1, <1>2, <1>3, <1>4

\* A step that leaves records and file alone keeps the invariant, if it keeps
\* the message's progress.
LEMMA FateKeeps ==
    ASSUME IInv, NEW m \in Msgs,
           UNCHANGED <<to, rec, file, torn, sending, clock, faults>>,
           fate' \in [Msgs -> {"none", "written", "queued", "refused"} \cup Outcomes],
           report' \in [Msgs -> {"none", "due", "taken", "lost"}],
           \A o \in Msgs \ {m} : fate'[o] = fate[o] /\ report'[o] = report[o],
           to[m] # NoNumber, fate'[m] # "none",
           report'[m] = "none" <=> fate'[m] \notin Outcomes,
           report'[m] # "taken"
    PROVE  IInv'
<1>. USE DEF IInv
<1>1. TypeOK'
  BY DEF TypeOK
<1>2. ASSUME NEW o \in Msgs PROVE Progress(o)'
  BY DEF Progress, Written, Speaks
<1>3. LossInv'
  BY DEF LossInv, Differ
<1>4. StandInv'
  BY DEF StandInv
<1>. QED
  BY <1>1, <1>2, <1>3, <1>4

\* Every step keeps the invariant: one step of the proof per action.
LEMMA StepIInv == IInv /\ [Next]_vars => IInv'
<1>. SUFFICES ASSUME IInv, [Next]_vars PROVE IInv'
  OBVIOUS
<1>. USE DEF IInv
<1>1. ASSUME NEW m \in Msgs, NEW n \in Numbers, SendSms(m, n) PROVE IInv'
  <2>1. Fresh \in Record /\ Written(m, Fresh) /\ Fresh.delivery # "none"
    BY DEF Fresh, Record, Written, Outcomes
  <2>2. to'[m] # NoNumber
    BY <1>1, NumberAssumption DEF SendSms, TypeOK
  <2>3. report[m] = "none" /\ fate[m] \notin Outcomes
    BY <1>1 DEF SendSms, Progress, Outcomes
  <2>. QED
    BY <1>1, <2>1, <2>2, <2>3, UpdateKeeps DEF SendSms, TypeOK
<1>2. ASSUME NEW m \in Msgs, WriteAction(m) PROVE IInv'
  BY <1>2, FateKeeps DEF WriteAction, TypeOK, Progress, Outcomes
<1>3. ASSUME NEW m \in Msgs, SendReturns(m) PROVE IInv'
  <2>. DEFINE r == [rec[m] EXCEPT !.submit = "submitted", !.at = clock']
  <2>1. clock' \in Nat /\ r \in Record /\ r.delivery = rec[m].delivery
    <3>1. clock' \in Nat
      BY <1>3 DEF SendReturns, TypeOK
    <3>2. rec[m] \in Record
      BY DEF TypeOK
    <3>. QED
      BY <3>1, <3>2 DEF Record
  <2>2. Written(m, r) /\ to[m] # NoNumber /\ r.delivery # "none"
    BY <1>3, <2>1 DEF SendReturns, Written, Progress
  <2>3. Update(m, r)
    BY <1>3 DEF SendReturns
  <2>4. report[m] = "none" <=> fate[m] \notin Outcomes
    BY DEF Progress
  <2>5. faults = 0 /\ report[m] = "taken" => r.delivery = fate[m]
    BY <2>1 DEF StandInv
  <2>. HIDE DEF r
  <2>. QED
    BY <1>3, <2>1, <2>2, <2>3, <2>4, <2>5, UpdateKeeps DEF SendReturns, TypeOK
<1>4. ASSUME NEW m \in Msgs, SendRaises(m) PROVE IInv'
  <2>. DEFINE r == [rec[m] EXCEPT !.submit = "failed"]
  <2>1. r \in Record /\ r.delivery = rec[m].delivery
    BY DEF TypeOK, Record
  <2>2. Written(m, r) /\ to[m] # NoNumber /\ r.delivery # "none"
    BY <1>4, <2>1 DEF SendRaises, Written, Progress, TypeOK, Record
  <2>3. Update(m, r)
    BY <1>4 DEF SendRaises
  <2>4. report[m] = "none" <=> fate[m] \notin Outcomes
    BY DEF Progress
  <2>5. faults = 0 /\ report[m] = "taken" => r.delivery = fate[m]
    BY <2>1 DEF StandInv
  <2>. HIDE DEF r
  <2>. QED
    BY <1>4, <2>1, <2>2, <2>3, <2>4, <2>5, UpdateKeeps DEF SendRaises, TypeOK
<1>5. ASSUME NEW m \in Msgs, NEW f \in {"queued", "refused"}, Accepted(m, f) PROVE IInv'
  BY <1>5, FateKeeps DEF Accepted, TypeOK, Progress, Outcomes
<1>6. ASSUME NEW m \in Msgs, NEW f \in Outcomes, Resolved(m, f) PROVE IInv'
  BY <1>6, FateKeeps DEF Resolved, TypeOK, Progress, Outcomes
<1>7. ASSUME NEW m \in Msgs, ReportLost(m) \/ ReportUnknown(m) PROVE IInv'
  <2>1. to[m] # NoNumber /\ fate[m] \in Outcomes /\ fate[m] # "none"
    BY <1>7 DEF ReportLost, ReportUnknown, Progress, Outcomes
  <2>. QED
    BY <1>7, <2>1, FateKeeps DEF ReportLost, ReportUnknown, TypeOK
<1>8. ASSUME NEW m \in Msgs, ReportById(m) PROVE IInv'
  <2>. DEFINE r == [rec[m] EXCEPT !.delivery = fate[m]]
  <2>1. fate[m] \in Outcomes /\ to[m] # NoNumber
    BY <1>8 DEF ReportById, Progress, Outcomes
  <2>2. r \in Record /\ r.delivery = fate[m] /\ Written(m, r) /\ r.delivery # "none"
    BY <2>1 DEF TypeOK, Record, Written, Outcomes
  <2>3. Update(m, r)
    BY <1>8 DEF ReportById
  <2>. HIDE DEF r
  <2>. QED
    BY <1>8, <2>1, <2>2, <2>3, UpdateKeeps DEF ReportById, TypeOK
<1>9. ASSUME NEW named \in Numbers \cup {NoNumber}, NEW outcome \in Outcomes,
             ReportByText(named, outcome)
      PROVE  IInv'
  <2>1. PICK m \in Newest(Pool(named)) : Update(m, [rec[m] EXCEPT !.delivery = outcome])
    BY <1>9 DEF ReportByText
  <2>2. m \in Msgs /\ rec[m].submit = "submitted" /\ rec[m].delivery = "pending"
    BY DEF Newest, Pool, Candidates
  <2>. DEFINE r == [rec[m] EXCEPT !.delivery = outcome]
  <2>3. fate[m] # "none" /\ to[m] # NoNumber
    BY <2>2 DEF Progress, Written, Unknown
  <2>4. r \in Record /\ Written(m, r) /\ r.delivery # "none"
    BY <2>2, <2>3 DEF TypeOK, Record, Written, Outcomes
  <2>5. report[m] = "none" <=> fate[m] \notin Outcomes
    BY <2>2 DEF Progress
  <2>6. faults = 0 => report[m] # "taken"
    BY <2>2, <2>5 DEF StandInv, Outcomes
  <2>7. Update(m, r)
    BY <2>1
  <2>. HIDE DEF r
  <2>. QED
    BY <1>9, <2>2, <2>3, <2>4, <2>5, <2>6, <2>7, UpdateKeeps DEF ReportByText, TypeOK
<1>10. CASE Restart
  <2>1. TypeOK'
    BY <1>10 DEF Restart, TypeOK
  <2>2. \A m \in Msgs : Progress(m)'
    BY <1>10 DEF Restart, Progress, Written, Speaks
  <2>3. LossInv'
    <3>1. Differ' = {}
      BY <1>10 DEF Restart, Differ
    <3>2. Cardinality(Differ) \in Nat
      BY MsgAssumption, FS_Subset, FS_CardinalityType DEF Differ
    <3>. QED
      BY <1>10, <3>1, <3>2, FS_EmptySet, FaultAssumption DEF Restart, LossInv, TypeOK
  <2>4. StandInv'
    BY <1>10 DEF Restart, StandInv
  <2>. QED
    BY <2>1, <2>2, <2>3, <2>4
<1>11. CASE UNCHANGED vars
  BY <1>11 DEF vars, TypeOK, Progress, Written, Speaks, LossInv, Differ, StandInv
<1>. QED
  BY <1>1, <1>2, <1>3, <1>4, <1>5, <1>6, <1>7, <1>8, <1>9, <1>10, <1>11 DEF Next

\* The invariant holds in every reachable state.
THEOREM SmsInductive == Spec => []IInv
  BY InitIInv, StepIInv, PTL DEF Spec

\* Every variable of the store, its file and the messages keeps its type.
THEOREM SmsTypeCorrect == Spec => []TypeOK
<1>1. IInv => TypeOK
  BY DEF IInv
<1>. QED
  BY <1>1, SmsInductive, PTL

\* Once the modem's report is taken, nothing the agent hears later, and no
\* restart, changes what the record says of the delivery.
THEOREM ReportHasLastWord == Spec => []ReportStands
<1>1. IInv => ReportStands
  BY DEF IInv, StandInv, ReportStands
<1>. QED
  BY <1>1, SmsInductive, PTL

\* A failed write costs two records at most.
THEOREM LossBounded == Spec => []LossIsBounded
<1>1. IInv => LossIsBounded
  <2>. SUFFICES ASSUME IInv PROVE LossIsBounded
    OBVIOUS
  <2>1. Cardinality(Differ) \in Nat /\ faults \in Nat
    BY MsgAssumption, FS_Subset, FS_CardinalityType, FaultAssumption DEF Differ, IInv, TypeOK
  <2>2. Cardinality(Differ) <= 2 * faults
    BY <2>1 DEF IInv, LossInv
  <2>. QED
    BY <2>2 DEF LossIsBounded, Differ
<1>. QED
  BY <1>1, SmsInductive, PTL

\* No message is shown as delivered or failed that was never sent.
THEOREM ResolvedWasWritten == Spec => []OnlyWrittenResolved
<1>1. IInv => OnlyWrittenResolved
  BY DEF IInv, Progress, Written, OnlyWrittenResolved
<1>. QED
  BY <1>1, SmsInductive, PTL

-----------------------------------------------------------------------------
(* The store implements the ledger                                         *)

\* The ledger counts as FiniteSets does.
LEMMA LedgerCounts == \A S : Ledger!Cardinality(S) = Cardinality(S)
  BY DEF Ledger!Cardinality, Cardinality

\* An update of a record is a note of the ledger: the new status is shown, it
\* is kept or not, and what a crash would take back stays within the losses.
LEMMA UpdateNotes ==
    ASSUME IInv, IInv', NEW m \in Msgs, NEW r \in Record, Update(m, r)
    PROVE  Ledger!Note(m, r.delivery)
<1>. DEFINE shown == [o \in Msgs |-> rec[o].delivery]
            kept  == [o \in Msgs |-> file[o].delivery]
            exposed == {o \in Msgs : shown[o] # kept[o]}
<1>1. /\ rec'[m] = r
      /\ file'[m] \in {r, file[m]}
      /\ \A o \in Msgs \ {m} : rec'[o] = rec[o] /\ file'[o] = file[o]
  BY UpdateTyped DEF IInv
<1>2. shown' = [shown EXCEPT ![m] = r.delivery]
  BY <1>1
<1>3. kept' \in {kept, [kept EXCEPT ![m] = r.delivery]}
  BY <1>1
<1>4. faults' \in {faults, faults + 1}
  BY DEF Update
<1>5. Cardinality(exposed') <= 2 * faults'
  <2>1. IsFiniteSet(Differ') /\ Cardinality(Differ') \in Nat
    BY MsgAssumption, FS_Subset, FS_CardinalityType DEF Differ
  <2>2. exposed' \subseteq Differ'
    BY DEF Differ
  <2>3. Cardinality(exposed') \in Nat /\ Cardinality(exposed') <= Cardinality(Differ')
    BY <2>1, <2>2, FS_Subset, FS_CardinalityType
  <2>4. Cardinality(Differ') <= 2 * faults'
    <3>1. Cardinality(Differ') + (IF torn' THEN 1 ELSE 0) <= 2 * faults'
      BY DEF IInv, LossInv
    <3>2. faults' \in Nat
      BY FaultAssumption DEF IInv, TypeOK
    <3>. QED
      BY <2>1, <3>1, <3>2
  <2>5. faults' \in Nat
    BY FaultAssumption DEF IInv, TypeOK
  <2>. HIDE DEF exposed
  <2>. QED
    BY <2>1, <2>3, <2>4, <2>5
<1>. QED
  BY <1>2, <1>3, <1>4, <1>5, LedgerCounts DEF Ledger!Note, Ledger!Exposed

\* Nothing was submitted, sent, shown or lost.
LEMMA LedgerStart == Init => Ledger!LedgerInit
  BY NumberAssumption DEF Init, Ledger!LedgerInit, Unknown

\* Every step of the store is a step of the ledger, or none that it tells.
LEMMA LedgerStep == IInv /\ IInv' /\ [Next]_vars => [Ledger!LedgerNext]_(Ledger!ledgerVars)
<1>. SUFFICES ASSUME IInv, IInv', [Next]_vars
              PROVE  Ledger!LedgerNext \/ UNCHANGED Ledger!ledgerVars
  OBVIOUS
<1>0. /\ TypeOK
      /\ \A m \in Msgs : Progress(m) /\ rec[m] \in Record
      /\ \A r \in Record, status \in {"none", "pending"} \cup Outcomes :
             /\ [r EXCEPT !.delivery = status] \in Record
             /\ [r EXCEPT !.delivery = status].delivery = status
  BY DEF IInv, TypeOK, Record
<1>1. ASSUME NEW m \in Msgs, NEW n \in Numbers, SendSms(m, n)
      PROVE  Ledger!Begin(m)
  <2>1. Fresh \in Record /\ Fresh.delivery = "pending"
    BY DEF Fresh, Record
  <2>2. Ledger!Note(m, "pending")
    BY <1>1, <2>1, UpdateNotes DEF SendSms
  <2>3. {o \in Msgs : to'[o] # NoNumber} = {o \in Msgs : to[o] # NoNumber} \cup {m}
    BY <1>0, <1>1, NumberAssumption DEF SendSms, TypeOK
  <2>. QED
    BY <1>1, <2>2, <2>3 DEF SendSms, Ledger!Begin
<1>2. ASSUME NEW m \in Msgs, WriteAction(m)
      PROVE  Ledger!Leave(m)
  <2>1. to[m] # NoNumber
    BY <1>0, <1>2 DEF WriteAction, Progress
  <2>2. {o \in Msgs : fate'[o] # "none"} = {o \in Msgs : fate[o] # "none"} \cup {m}
    BY <1>0, <1>2 DEF WriteAction, TypeOK
  <2>. QED
    BY <1>2, <2>1, <2>2 DEF WriteAction, Ledger!Leave
<1>3. ASSUME NEW m \in Msgs, SendReturns(m) \/ SendRaises(m)
      PROVE  Ledger!Acknowledge(m)
  <2>1. to[m] # NoNumber
    BY <1>0, <1>3 DEF SendReturns, SendRaises, Progress
  <2>2. PICK r \in Record : Update(m, r) /\ r.delivery = rec[m].delivery
    <3>1. rec[m] \in Record
      BY <1>0
    <3>2. CASE SendReturns(m)
      <4>1. clock' \in Nat
        BY <1>0, <3>2 DEF SendReturns, TypeOK
      <4>2. [rec[m] EXCEPT !.submit = "submitted", !.at = clock'] \in Record
        BY <3>1, <4>1 DEF Record
      <4>. QED
        BY <3>1, <3>2, <4>2 DEF SendReturns, Record
    <3>3. CASE SendRaises(m)
      BY <3>1, <3>3 DEF SendRaises, Record
    <3>. QED
      BY <1>3, <3>2, <3>3
  <2>3. Ledger!Note(m, rec[m].delivery)
    BY <2>2, UpdateNotes DEF Ledger!Note, Ledger!Exposed
  <2>. QED
    BY <1>3, <2>1, <2>3
       DEF SendReturns, SendRaises, Ledger!Acknowledge, Ledger!Note, Ledger!Exposed
<1>4. ASSUME NEW m \in Msgs, NEW f \in {"queued", "refused"}, Accepted(m, f)
      PROVE  UNCHANGED Ledger!ledgerVars
  <2>1. {o \in Msgs : fate'[o] # "none"} = {o \in Msgs : fate[o] # "none"}
    BY <1>0, <1>4 DEF Accepted, TypeOK
  <2>. QED
    BY <1>4, <2>1 DEF Accepted, Ledger!ledgerVars
<1>5. ASSUME NEW m \in Msgs, NEW f \in Outcomes, Resolved(m, f)
      PROVE  UNCHANGED Ledger!ledgerVars
  <2>1. {o \in Msgs : fate'[o] # "none"} = {o \in Msgs : fate[o] # "none"}
    BY <1>0, <1>5 DEF Resolved, TypeOK, Outcomes
  <2>2. {o \in Msgs : report'[o] = "taken"} = {o \in Msgs : report[o] = "taken"}
    BY <1>0, <1>5 DEF Resolved, TypeOK, Progress, Outcomes
  <2>. QED
    BY <1>5, <2>1, <2>2 DEF Resolved, Ledger!ledgerVars
<1>6. ASSUME NEW m \in Msgs, ReportLost(m) \/ ReportUnknown(m)
      PROVE  UNCHANGED Ledger!ledgerVars
  <2>1. {o \in Msgs : report'[o] = "taken"} = {o \in Msgs : report[o] = "taken"}
    BY <1>0, <1>6 DEF ReportLost, ReportUnknown, TypeOK
  <2>. QED
    BY <1>6, <2>1 DEF ReportLost, ReportUnknown, Ledger!ledgerVars
<1>7. ASSUME NEW m \in Msgs, ReportById(m)
      PROVE  \E result \in Ledger!Results : Ledger!Report(m, result)
  <2>1. PICK result \in Ledger!Results : result = fate[m] /\ fate[m] # "none"
    BY <1>0, <1>7 DEF ReportById, Progress, Outcomes, Ledger!Results
  <2>. DEFINE r == [rec[m] EXCEPT !.delivery = result]
  <2>2. r \in Record /\ r.delivery = result /\ Update(m, r)
    BY <1>0, <1>7, <2>1 DEF ReportById, Outcomes, Ledger!Results
  <2>. HIDE DEF r
  <2>4. Ledger!Note(m, result)
    BY <2>2, UpdateNotes DEF Ledger!Note, Ledger!Exposed
  <2>5. rec[m].delivery # "none"
    BY <1>0, <1>7 DEF ReportById, Progress, Speaks
  <2>6. {o \in Msgs : report'[o] = "taken"} = {o \in Msgs : report[o] = "taken"} \cup {m}
    BY <1>0, <1>7 DEF ReportById, TypeOK
  <2>7. Ledger!Report(m, result)
    BY <1>7, <2>1, <2>4, <2>5, <2>6
       DEF ReportById, Ledger!Report, Ledger!Note, Ledger!Exposed
  <2>. QED
    BY <2>1, <2>7
<1>8. ASSUME NEW named \in Numbers \cup {NoNumber}, NEW outcome \in Outcomes,
             ReportByText(named, outcome)
      PROVE  \E m \in Msgs, result \in Ledger!Results : Ledger!Guess(m, result)
  <2>1. PICK m \in Newest(Pool(named)) : Update(m, [rec[m] EXCEPT !.delivery = outcome])
    BY <1>8 DEF ReportByText
  <2>2. m \in Msgs /\ rec[m].submit = "submitted" /\ rec[m].delivery = "pending"
    BY DEF Newest, Pool, Candidates
  <2>. DEFINE r == [rec[m] EXCEPT !.delivery = outcome]
  <2>3. r \in Record /\ r.delivery = outcome /\ Update(m, r)
    BY <1>0, <2>1, <2>2
  <2>. HIDE DEF r
  <2>4. Ledger!Note(m, outcome)
    BY <2>2, <2>3, UpdateNotes DEF Ledger!Note, Ledger!Exposed
  <2>5. fate[m] # "none"
    BY <1>0, <2>2 DEF Progress, Written
  <2>6. Ledger!Guess(m, outcome)
    BY <1>8, <2>2, <2>4, <2>5
       DEF ReportByText, Ledger!Guess, Ledger!Note, Ledger!Exposed
  <2>. QED
    BY <2>2, <2>6 DEF Outcomes, Ledger!Results
<1>9. CASE Restart
  BY <1>9 DEF Restart, Ledger!LedgerNext, Ledger!Crash
<1>10. CASE UNCHANGED vars
  BY <1>10 DEF vars, Ledger!ledgerVars
<1>. QED
  BY <1>1, <1>2, <1>3, <1>4, <1>5, <1>6, <1>7, <1>8, <1>9, <1>10 DEF Next, Ledger!LedgerNext

\* The records, their file, the guesses and the reports implement the ledger.
THEOREM LedgerImplemented == Spec => ImplementsLedger
  BY LedgerStart, LedgerStep, SmsInductive, PTL DEF Spec, ImplementsLedger, Ledger!LedgerSpec
=============================================================================
