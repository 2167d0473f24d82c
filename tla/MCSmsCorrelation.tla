-------------------------- MODULE MCSmsCorrelation ---------------------------
(* SmsCorrelation for TLC: the recipients are interchangeable.               *)
EXTENDS SmsCorrelation, FiniteSets, TLC

\* What tells messages apart is followed with two recipients, what they compete
\* for with one: two messages, or any number of them to the same recipient.
MaxMixed == 2
Begun == {m \in Msgs : to'[m] # NoNumber}
FewOrAlike ==
    \/ Cardinality(Begun) <= MaxMixed
    \/ \A m, n \in Begun : to'[m] = to'[n]

\* The two outcomes are treated alike, so the first to occur may be a delivery.
Settled ==
    \E m \in Msgs : {fate[m], rec[m].delivery, file[m].delivery} \cap Outcomes # {}
DeliveredFirst ==
    Settled \/ \A m \in Msgs : "failed" \notin {fate'[m], rec'[m].delivery}

SmsNext == Next /\ FewOrAlike /\ DeliveredFirst

SmsSpec == Init /\ [][SmsNext]_vars

Symmetry == Permutations(Numbers) \cup Permutations(Msgs)
=============================================================================
