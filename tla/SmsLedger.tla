------------------------------ MODULE SmsLedger ------------------------------
(***************************************************************************)
(* What the agent promises the sender of an SMS, without the AMI, the      *)
(* records' fields and the lines of the file that implement it: a message  *)
(* that left is shown as pending until a guess or the modem's own report   *)
(* resolves it, a guess resolves a pending message only, the report has    *)
(* the last word, and a crash shows again what was kept.  What a crash     *)
(* takes back is bounded by the writes that were lost.                     *)
(***************************************************************************)
EXTENDS Naturals, FiniteSets

CONSTANTS Msgs

VARIABLES
    begun,      \* messages that were ever submitted
    sent,       \* those that have left the agent
    reported,   \* those whose own report was taken
    shown,      \* what the agent says of the delivery
    kept,       \* what it would say after a crash
    losses      \* writes that were lost

ledgerVars == <<begun, sent, reported, shown, kept, losses>>

Results == {"delivered", "failed"}

LedgerInit ==
    /\ begun = {} /\ sent = {} /\ reported = {}
    /\ shown = [m \in Msgs |-> "none"]
    /\ kept = [m \in Msgs |-> "none"]
    /\ losses = 0

\* The messages a crash would change.
Exposed == {m \in Msgs : shown[m] # kept[m]}

\* A change is kept, or it is one of two that a lost write may cost.
Note(m, status) ==
    /\ shown' = [shown EXCEPT ![m] = status]
    /\ kept' \in {kept, [kept EXCEPT ![m] = status]}
    /\ losses' \in {losses, losses + 1}
    /\ Cardinality(Exposed') <= 2 * losses'

Begin(m) ==
    /\ m \notin begun
    /\ begun' = begun \cup {m}
    /\ Note(m, "pending")
    /\ UNCHANGED <<sent, reported>>

\* No message leaves twice.
Leave(m) ==
    /\ m \in begun \ sent
    /\ sent' = sent \cup {m}
    /\ UNCHANGED <<begun, reported, shown, kept, losses>>

\* What becomes of the submission says nothing of the delivery.
Acknowledge(m) ==
    /\ m \in begun
    /\ Note(m, shown[m])
    /\ UNCHANGED <<begun, sent, reported>>

Guess(m, result) ==
    /\ m \in sent
    /\ shown[m] = "pending"
    /\ Note(m, result)
    /\ UNCHANGED <<begun, sent, reported>>

Report(m, result) ==
    /\ m \in sent \ reported
    /\ shown[m] # "none"
    /\ reported' = reported \cup {m}
    /\ Note(m, result)
    /\ UNCHANGED <<begun, sent>>

Crash ==
    /\ shown' = kept
    /\ UNCHANGED <<begun, sent, reported, kept, losses>>

LedgerNext ==
    \/ \E m \in Msgs : Begin(m) \/ Leave(m) \/ Acknowledge(m)
    \/ \E m \in Msgs, result \in Results : Guess(m, result) \/ Report(m, result)
    \/ Crash

LedgerSpec == LedgerInit /\ [][LedgerNext]_ledgerVars
=============================================================================
