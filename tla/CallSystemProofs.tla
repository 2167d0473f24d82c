--------------------------- MODULE CallSystemProofs ---------------------------
(***************************************************************************)
(* The safety properties of a call end to end, for every number of calls,  *)
(* modems and sweeps and for every kind of number.                         *)
(*                                                                         *)
(* The userbot, the bridge and the dialplan are clients like any other, so *)
(* the composed system implements CallControl and inherits its invariant.  *)
(* What the properties of a channel need beyond it is ChannelWell: that a  *)
(* channel which carries a call id carries it alone, and that nobody but   *)
(* this channel's own reports ends the call while it dials.                *)
(***************************************************************************)
EXTENDS MCCalls, CallControlProofs

\* An outgoing call that the bridge has not delivered an accept for.
Early == {"requested", "acl_checked", "modem_reserved", "telegram_calling"}

\* A channel and the call it carries: there is none while the user is still
\* rung, the id is set by the accept or by the
\* arrival of a GSM call, for a call that has begun and is pending no more;
\* an outgoing channel that dials or has dialled carries an outgoing call
\* whose record still says so; what Dial returned stays on the channel.
ChannelWell(c) ==
    /\ kind[c] # "none" \/ ring[c] # "none" => state[c] # "idle"
    /\ ring[c] \in {"submitted", "ringing"} => leg[c] = "none"
    /\ callId[c] # NoCall => /\ leg[c] \notin {"none", "invited"}
                             /\ state[callId[c]] # "idle"
                             /\ dir[callId[c]] = "outgoing" => state[callId[c]] \notin Early
    /\ kind[c] # "none" /\ leg[c] \in {"dialing", "talking", "returned"}
           => /\ callId[c] # NoCall
              /\ dir[callId[c]] = "outgoing"
              /\ state[callId[c]] \in {"gsm_dialing", "lost"}
    /\ leg[c] = "returned" => dialstatus[c] # "none"
    /\ dialstatus[c] # "none" => leg[c] \in {"returned", "hanging", "gone"}

\* Only a report of a channel, which dials no more, makes a handler wait to hang a
\* call up.
ClosedByItsChannel ==
    \A d \in Calls :
        Suspended("close", d)
            => \E c \in Calls : callId[c] = d /\ leg[c] \in {"hanging", "gone"}

SysLife == (\A c \in Calls : ChannelWell(c)) /\ AcceptConsumedOnce /\ ClosedByItsChannel

SysInv == SysTypeOK /\ IInv /\ ToldOnceAndTruly /\ SysLife

-----------------------------------------------------------------------------
(* The composition implements the registry                                 *)

\* A report of the dialplan is a request that any client may send.
LEMMA CompleteIsRequest ==
    ASSUME NEW d \in Calls, NEW status, Complete(d, status)
    PROVE  Request(d)
  <1>1. CASE CompleteBridged(d) \/ CompleteIncomingAnswered(d)
                 \/ CompleteOutgoingAnswered(d) \/ HangupCall(d)
    BY <1>1 DEF Request
  <1>2. CASE CompleteIncomingUnanswered(d, IncomingOutcome(status))
    BY <1>2 DEF Request, CompleteIncomingUnanswered
  <1>3. CASE CompleteOutgoingFailed(d, OutgoingOutcome(status))
    BY <1>3 DEF Request, CompleteOutgoingFailed
  <1> QED BY <1>1, <1>2, <1>3 DEF Complete

LEMMA ReportIsStep ==
    ASSUME SysTypeOK, NEW c \in Calls, NEW status, Report(c, status)
    PROVE  [Next]_vars
  <1>1. CASE UNCHANGED vars
    BY <1>1
  <1>2. CASE callId[c] # NoCall /\ Complete(callId[c], status)
    <2>1. callId[c] \in Calls
      BY <1>2 DEF SysTypeOK
    <2>2. Request(callId[c])
      BY <1>2, <2>1, CompleteIsRequest
    <2> QED BY <2>1, <2>2 DEF Next
  <1> QED BY <1>1, <1>2 DEF Report

\* Whatever the userbot, the bridge, the dialplan and the timers do is a step
\* of the registry, or none.
LEMMA SysStepIsStep ==
    ASSUME SysTypeOK, [SysNext]_allVars
    PROVE  [Next]_vars
  <1>1. ASSUME NEW c \in Calls, PeerStep(c) PROVE [Next]_vars
    <2>1. ASSUME NEW k \in Kinds, NEW m \in Modems \cup {NoModem}, PlaceCall(c, k, m)
          PROVE  [Next]_vars
      BY <2>1 DEF PlaceCall, Next, Request
    <2>2. CASE UserbotRejects(c)
      BY <2>2 DEF UserbotRejects, Next, Request
    <2>3. CASE UNCHANGED vars
      BY <2>3
    <2> QED BY <1>1, <2>1, <2>2, <2>3
            DEF PeerStep, BridgeRings, BridgeStartFails, UserAccepts, RingEnds
  <1>2. ASSUME NEW c \in Calls, ChannelStep(c) PROVE [Next]_vars
    <2>1. CASE GsmCallArrives(c)
      BY <2>1, DongleAssumption DEF GsmCallArrives, Next, Request
    <2>2. ASSUME NEW d \in Calls, AcceptIsMatched(c, d) PROVE [Next]_vars
      BY <2>2 DEF AcceptIsMatched, Next, Request
    <2>6. ASSUME NEW d \in Calls, AcceptReplyIsLost(c, d) PROVE [Next]_vars
      BY <2>6 DEF AcceptReplyIsLost, Next, Request
    <2>3. CASE ReportDialstatus(c)
      BY <2>3, ReportIsStep DEF ReportDialstatus
    <2>4. CASE ReportEnded(c)
      BY <2>4, ReportIsStep DEF ReportEnded
    <2>5. CASE UNCHANGED vars
      BY <2>5
    <2> QED BY <1>2, <2>1, <2>2, <2>3, <2>4, <2>5, <2>6
            DEF ChannelStep, AcceptIsRefused, AcceptIsLost, DialIsAnswered,
                DialReturns, ChannelHangsUp
  <1>3. CASE AgentStep
    BY <1>3, DongleAssumption DEF AgentStep, Next
  <1>4. CASE AgentRestarts
    BY <1>4 DEF AgentRestarts, Next
  <1>5. CASE UNCHANGED allVars
    BY <1>5 DEF allVars
  <1> QED BY <1>1, <1>2, <1>3, <1>4, <1>5 DEF SysNext

-----------------------------------------------------------------------------
(* Type correctness                                                        *)

\* What the peers keep beside the registry.
PeerTypeOK ==
    /\ kind \in [Calls -> Kinds \cup {"none"}]
    /\ ring \in [Calls -> {"none", "submitted", "ringing", "over"}]
    /\ rejecting \subseteq Calls
    /\ leg \in [Calls -> {"none", "invited", "dialing", "talking", "returned",
                          "hanging", "gone"}]
    /\ callId \in [Calls -> Calls \cup {NoCall}]
    /\ dialstatus \in [Calls -> Dialstatus \cup {"none"}]
    /\ faults \in 0..MaxFaults

LEMMA SysTypeParts == SysTypeOK <=> TypeOK /\ PeerTypeOK
  BY DEF SysTypeOK, PeerTypeOK

LEMMA SysTypeInit == SysInit => SysTypeOK
  BY TypeInit, FaultAssumption DEF SysInit, SysTypeOK

LEMMA FaultType ==
    ASSUME PeerTypeOK, faults < MaxFaults, faults' = faults + 1
    PROVE  faults' \in 0..MaxFaults
  BY FaultAssumption DEF PeerTypeOK

LEMMA PeerStepType ==
    ASSUME PeerTypeOK, NEW c \in Calls, PeerStep(c)
    PROVE  PeerTypeOK'
  <1>1. ASSUME NEW k \in Kinds, NEW m, PlaceCall(c, k, m) PROVE PeerTypeOK'
    BY <1>1 DEF PlaceCall, PeerTypeOK
  <1>2. CASE BridgeRings(c)
    BY <1>2 DEF BridgeRings, PeerTypeOK
  <1>3. CASE BridgeStartFails(c)
    BY <1>3 DEF BridgeStartFails, PeerTypeOK
  <1>4. CASE UserbotRejects(c)
    BY <1>4 DEF UserbotRejects, PeerTypeOK
  <1>5. CASE UserAccepts(c)
    BY <1>5 DEF UserAccepts, PeerTypeOK
  <1>6. CASE RingEnds(c)
    BY <1>6 DEF RingEnds, PeerTypeOK
  <1> QED BY <1>1, <1>2, <1>3, <1>4, <1>5, <1>6 DEF PeerStep

LEMMA ChannelStepType ==
    ASSUME PeerTypeOK, NEW c \in Calls, ChannelStep(c)
    PROVE  PeerTypeOK'
  <1>1. CASE GsmCallArrives(c)
    BY <1>1, FaultType DEF GsmCallArrives, PeerTypeOK
  <1>2. ASSUME NEW d \in Calls, AcceptIsMatched(c, d) PROVE PeerTypeOK'
    BY <1>2 DEF AcceptIsMatched, PeerTypeOK
  <1>3. CASE AcceptIsRefused(c)
    BY <1>3 DEF AcceptIsRefused, PeerTypeOK
  <1>4. CASE AcceptIsLost(c)
    BY <1>4, FaultType DEF AcceptIsLost, PeerTypeOK
  <1>5. CASE DialIsAnswered(c)
    BY <1>5 DEF DialIsAnswered, PeerTypeOK
  <1>10. ASSUME NEW d, AcceptReplyIsLost(c, d) PROVE PeerTypeOK'
    BY <1>10, FaultType DEF AcceptReplyIsLost, PeerTypeOK
  <1>6. ASSUME NEW status \in Dialstatus, DialReturns(c, status)
        PROVE  PeerTypeOK'
    BY <1>6 DEF DialReturns, PeerTypeOK
  <1>7. CASE ChannelHangsUp(c)
    BY <1>7 DEF ChannelHangsUp, PeerTypeOK
  <1>8. CASE ReportDialstatus(c)
    <2>1. faults' \in 0..MaxFaults
      BY <1>8, FaultType DEF ReportDialstatus, Report, PeerTypeOK
    <2> QED BY <1>8, <2>1 DEF ReportDialstatus, PeerTypeOK
  <1>9. CASE ReportEnded(c)
    <2>1. faults' \in 0..MaxFaults
      BY <1>9, FaultType DEF ReportEnded, Report, PeerTypeOK
    <2> QED BY <1>9, <2>1 DEF ReportEnded, PeerTypeOK
  <1> QED BY <1>1, <1>2, <1>3, <1>4, <1>5, <1>6, <1>7, <1>8, <1>9, <1>10 DEF ChannelStep

LEMMA SysTypeStep == SysTypeOK /\ [SysNext]_allVars => SysTypeOK'
  <1> SUFFICES ASSUME SysTypeOK, [SysNext]_allVars PROVE SysTypeOK'
    OBVIOUS
  <1>0. TypeOK /\ PeerTypeOK
    BY SysTypeParts
  <1>1. TypeOK'
    BY <1>0, SysStepIsStep, TypeStep
  <1>2. ASSUME AgentStep PROVE PeerTypeOK'
    BY <1>0, <1>2 DEF AgentStep, sysVars, PeerTypeOK
  <1>3. ASSUME AgentRestarts PROVE PeerTypeOK'
    <2>1. faults' \in 0..MaxFaults
      BY <1>0, <1>3, FaultType DEF AgentRestarts
    <2> QED BY <1>0, <1>3, <2>1 DEF AgentRestarts, PeerTypeOK
  <1>4. ASSUME UNCHANGED allVars PROVE PeerTypeOK'
    BY <1>0, <1>4 DEF allVars, sysVars, PeerTypeOK
  <1>5. PeerTypeOK'
    BY <1>0, <1>2, <1>3, <1>4, PeerStepType, ChannelStepType DEF SysNext
  <1> QED BY <1>1, <1>5 DEF SysTypeOK, PeerTypeOK

\* Every variable of the userbot, the bridge and the dialplan keeps its type,
\* and so do the registry's under what they send.
THEOREM SysTypeCorrect == SysSpec => []SysTypeOK
  BY SysTypeInit, SysTypeStep, PTL DEF SysSpec

\* The composed system is the registry under clients that send some of the
\* requests it is ready for: what is proved of the registry holds here.
THEOREM SysImplementsRegistry == SysSpec => Spec
  <1>1. SysInit => Init
    BY DEF SysInit
  <1>2. SysTypeOK /\ [SysNext]_allVars => [Next]_vars
    BY SysStepIsStep
  <1> QED BY <1>1, <1>2, SysTypeCorrect, PTL DEF SysSpec, Spec

-----------------------------------------------------------------------------
(* What a step of the registry does to a call that somebody else carries    *)

\* A call that has begun keeps its direction and its modem, and does not
\* become pending again.
Gentle ==
    \A d \in Calls :
        /\ state[d] # "idle" => /\ state'[d] # "idle"
                                /\ dir'[d] = dir[d]
                                /\ modem'[d] = modem[d]
        /\ state'[d] \in Early => state[d] \in {"idle", state'[d]}

\* A dialling call that no handler waits to hang up is not ended, but by a
\* restart, and no handler begins to wait.
Spares(d) ==
    /\ state[d] = "gsm_dialing" /\ ~Suspended("close", d)
           => state'[d] \in {"gsm_dialing", "lost"}
    /\ Suspended("close", d)' => Suspended("close", d)

\* A call enters a state; dir and modem of the others stay.
LEMMA EnteringGentle ==
    ASSUME TypeOK, NEW c \in Calls, NEW to, Enter(c, to), to # "idle",
           to \notin Early \/ state[c] = "idle",
           \A d \in Calls : d # c \/ state[c] # "idle"
                                => dir'[d] = dir[d] /\ modem'[d] = modem[d]
    PROVE  Gentle
  BY DEF Enter, TypeOK, Gentle

\* Nobody enters an early state but from "idle" or another early one.
LEMMA MovingGentle ==
    ASSUME TypeOK, NEW c \in Calls, NEW to, CanMove(c, to), Enter(c, to),
           to \notin Early, UNCHANGED <<dir, modem>>
    PROVE  Gentle
  BY TransitionTarget, EnteringGentle DEF CanMove

LEMMA ClosingGentle ==
    ASSUME TypeOK, NEW c \in Calls, ForceClose(c), UNCHANGED <<dir, modem>>
    PROVE  Gentle
  <1>1. CASE Close(c)
    BY <1>1, MovingGentle DEF Close, Early
  <1>2. CASE UNCHANGED state
    BY <1>2 DEF Gentle
  <1> QED BY <1>1, <1>2 DEF ForceClose

LEMMA ContinuingGentle ==
    ASSUME TypeOK, NEW c \in Calls, NEW then, Continue(then, c), UNCHANGED <<dir, modem>>
    PROVE  Gentle
  BY ClosingGentle DEF Continue, ForceClose, Gentle

\* The call that goes from one state to another was not dialling.
LEMMA EnteringSpares ==
    ASSUME TypeOK, NEW c \in Calls, NEW to, Enter(c, to), state[c] # "gsm_dialing",
           \A d \in Calls : Suspended("close", d)' => Suspended("close", d)
    PROVE  \A d \in Calls : Spares(d)
  BY DEF Enter, TypeOK, Spares

\* A handler that goes on after its await ends a dialling call only if it was
\* a hangup that waited.
LEMMA ContinuingSpares ==
    ASSUME TypeOK, LifeInv, NEW c \in Calls, NEW then, Continue(then, c),
           Suspended(then, c),
           \A d \in Calls : Suspended("close", d)' => Suspended("close", d)
    PROVE  \A d \in Calls : Spares(d)
  <1>0. CallWell(c)
    BY DEF LifeInv
  <1>1. CASE UNCHANGED state
    BY <1>1 DEF Spares
  <1>2. CASE state[c] # "gsm_dialing" /\ Close(c)
    BY <1>2, EnteringSpares DEF Close
  <1>4. CASE Suspended("close", c) /\ Close(c)
    BY <1>4 DEF Close, Enter, TypeOK, Spares
  <1>3. ASSUME state[c] = "gsm_dialing" PROVE then \notin {"force_close", "cleanup"}
    BY <1>0, <1>3 DEF CallWell, Ended, Terminal
  <1> QED BY <1>1, <1>2, <1>3, <1>4 DEF Continue, ForceClose

LEMMA SweepGentle ==
    ASSUME TypeOK, LifeInv, NEW s \in Sweeps, SweepStep(s)
    PROVE  Gentle
  <1>1. CASE SweepStart(s)
    BY <1>1 DEF SweepStart, callVars, Gentle
  <1>2. CASE SweepResume(s)
    <2>1. sweep[s].on \in Calls
      BY <1>2 DEF SweepResume, Busy, TypeOK
    <2> QED BY <1>2, <2>1, ContinuingGentle DEF SweepResume
  <1>3. ASSUME NEW c \in Calls, SweepRing(s, c) PROVE Gentle
    BY <1>3, MovingGentle DEF SweepRing, Early
  <1>4. ASSUME NEW c \in Calls, SweepInvite(s, c) PROVE Gentle
    BY <1>4, MovingGentle DEF SweepInvite, Early
  <1>5. ASSUME NEW c \in Calls, SweepBridged(s, c) PROVE Gentle
    BY <1>5, ClosingGentle DEF SweepBridged, Gentle
  <1>6. ASSUME NEW c \in Calls, SweepSkip(s, c) PROVE Gentle
    BY <1>6 DEF SweepSkip, callVars, Gentle
  <1> QED BY <1>1, <1>2, <1>3, <1>4, <1>5, <1>6 DEF SweepStep

LEMMA SweepSpares ==
    ASSUME TypeOK, LifeInv, NEW s \in Sweeps, SweepStep(s)
    PROVE  \A d \in Calls : Spares(d)
  <1>1. CASE SweepStart(s)
    <2>1. \A d \in Calls : Suspended("close", d)' => Suspended("close", d)
      BY <1>1, CallAssumption DEF SweepStart, Suspended, IdleSweep, TypeOK
    <2> QED BY <1>1, <2>1 DEF SweepStart, callVars, Spares
  <1>2. CASE SweepResume(s)
    <2> DEFINE c == sweep[s].on
    <2>1. c \in Calls
      BY <1>2 DEF SweepResume, Busy, TypeOK
    <2>2. Suspended(sweep[s].then, c)
      BY DEF Suspended
    <2>3. \A d \in Calls : Suspended("close", d)' => Suspended("close", d)
      BY <1>2, SweepGoesOn DEF SweepResume
    <2> QED BY <1>2, <2>1, <2>2, <2>3, ContinuingSpares DEF SweepResume
  <1>3. ASSUME NEW c \in Calls, SweepRing(s, c) PROVE \A d \in Calls : Spares(d)
    <2>1. \A d \in Calls : Suspended("close", d)' => Suspended("close", d)
      BY <1>3, SweepGoesOn DEF SweepRing, Busy
    <2> QED BY <1>3, <2>1, EnteringSpares DEF SweepRing, RingStates
  <1>4. ASSUME NEW c \in Calls, SweepInvite(s, c) PROVE \A d \in Calls : Spares(d)
    <2>1. \A d \in Calls : Suspended("close", d)' => Suspended("close", d)
      BY <1>4, SweepSuspends DEF SweepInvite
    <2> QED BY <1>4, <2>1, EnteringSpares DEF SweepInvite, InviteStates
  <1>5. ASSUME NEW c \in Calls, SweepBridged(s, c) PROVE \A d \in Calls : Spares(d)
    <2>1. CASE SuspendOn(s, c, "force_close") /\ UNCHANGED state
      <3>1. \A d \in Calls : Suspended("close", d)' => Suspended("close", d)
        BY <1>5, <2>1, SweepSuspends DEF SweepBridged
      <3> QED BY <2>1, <3>1 DEF Spares
    <2>2. CASE ForceClose(c) /\ Done(s, c)
      <3>1. \A d \in Calls : Suspended("close", d)' => Suspended("close", d)
        BY <1>5, <2>2, SweepGoesOn DEF SweepBridged, Busy
      <3> QED BY <1>5, <2>2, <3>1, EnteringSpares
              DEF SweepBridged, ForceClose, Close, Spares
    <2> QED BY <1>5, <2>1, <2>2 DEF SweepBridged
  <1>6. ASSUME NEW c \in Calls, SweepSkip(s, c) PROVE \A d \in Calls : Spares(d)
    <2>1. \A d \in Calls : Suspended("close", d)' => Suspended("close", d)
      BY <1>6, SweepGoesOn DEF SweepSkip, Busy
    <2> QED BY <1>6, <2>1 DEF SweepSkip, callVars, Spares
  <1> QED BY <1>1, <1>2, <1>3, <1>4, <1>5, <1>6 DEF SweepStep

\* The agent's own steps, the timers included.
LEMMA AgentSparesDials ==
    ASSUME TypeOK, LifeInv, AgentStep \/ Restart \/ UNCHANGED vars
    PROVE  Gentle /\ \A d \in Calls : Spares(d)
  <1>1. ASSUME NEW c \in Calls, Age(c) PROVE Gentle /\ \A d \in Calls : Spares(d)
    BY <1>1, SameSuspended DEF Age, Gentle, Spares
  <1>2. ASSUME NEW w \in waiting, Resume(w) PROVE Gentle /\ \A d \in Calls : Spares(d)
    <2>1. w.call \in Calls /\ w = [then |-> w.then, call |-> w.call]
      BY DEF TypeOK
    <2>2. Suspended(w.then, w.call)
      BY <2>1 DEF Suspended
    <2>3. \A d \in Calls : Suspended("close", d)' => Suspended("close", d)
      BY <1>2, <2>1, ResumeRemoves DEF Resume
    <2>4. Gentle
      BY <1>2, <2>1, ContinuingGentle DEF Resume
    <2> QED BY <1>2, <2>1, <2>2, <2>3, <2>4, ContinuingSpares DEF Resume
  <1>3. ASSUME NEW m, ModemReport(m) PROVE Gentle /\ \A d \in Calls : Spares(d)
    BY <1>3, SameSuspended DEF ModemReport, callVars, Gentle, Spares
  <1>4. CASE Restart
    <2>1. \A u : \A c \in Calls : ~Suspended(u, c)'
      BY <1>4, CallAssumption DEF Restart, Suspended, IdleSweep
    <2>2. \A d \in Calls : state'[d] \in {state[d], "lost"}
      BY <1>4 DEF Restart
    <2>3. Gentle
      BY <1>4, <2>2 DEF Restart, Gentle, Early
    <2> QED BY <2>1, <2>2, <2>3 DEF Spares
  <1>5. CASE UNCHANGED vars
    BY <1>5, SameSuspended DEF vars, callVars, Gentle, Spares
  <1> QED BY <1>1, <1>2, <1>3, <1>4, <1>5, SweepGentle, SweepSpares DEF AgentStep

\* A report is about one call, which alone may be ended or hung up.
LEMMA CompleteSparesOthers ==
    ASSUME TypeOK, LifeInv, NEW d \in Calls, NEW status, Complete(d, status)
    PROVE  /\ Gentle
           /\ \A e \in Calls \ {d} : Spares(e)
  <1>1. CASE CompleteIncomingAnswered(d)
    <2>1. Gentle
      BY <1>1, EnteringGentle DEF CompleteIncomingAnswered, Early
    <2> QED BY <1>1, <2>1, SameSuspended
            DEF CompleteIncomingAnswered, Enter, TypeOK, Spares
  <1>2. CASE CompleteOutgoingAnswered(d)
    <2>1. Gentle
      BY <1>2, EnteringGentle DEF CompleteOutgoingAnswered, Early
    <2> QED BY <1>2, <2>1, SameSuspended
            DEF CompleteOutgoingAnswered, Enter, TypeOK, Spares
  <1>3. ASSUME NEW to, CompleteIncomingUnanswered(d, to)
        PROVE  /\ Gentle
               /\ \A e \in Calls \ {d} : Spares(e)
    <2>1. Gentle
      BY <1>3, MovingGentle DEF CompleteIncomingUnanswered, Early
    <2> QED BY <1>3, <2>1, SameSuspended
            DEF CompleteIncomingUnanswered, Enter, TypeOK, Spares
  <1>4. ASSUME NEW to, CompleteOutgoingFailed(d, to)
        PROVE  /\ Gentle
               /\ \A e \in Calls \ {d} : Spares(e)
    <2>1. Gentle
      BY <1>4, MovingGentle DEF CompleteOutgoingFailed, Early
    <2> QED BY <1>4, <2>1, SuspendAdds
            DEF CompleteOutgoingFailed, Enter, TypeOK, Spares
  <1>5. CASE CompleteBridged(d)
    <2>1. CASE HangUpLegs(d, "force_close")
      <3>1. Gentle
        BY <1>5, <2>1 DEF CompleteBridged, HangUpLegs, Gentle
      <3> QED BY <1>5, <2>1, <3>1, SuspendAdds DEF CompleteBridged, HangUpLegs, Spares
    <2>2. CASE ForceClose(d) /\ UNCHANGED waiting
      <3>1. Gentle
        BY <1>5, <2>2, ClosingGentle DEF CompleteBridged
      <3> QED BY <1>5, <2>2, <3>1, SameSuspended
              DEF CompleteBridged, ForceClose, Close, Enter, TypeOK, Spares
    <2> QED BY <1>5, <2>1, <2>2 DEF CompleteBridged
  <1>6. CASE HangupCall(d)
    <2>1. CASE HangUpLegs(d, "close")
      <3>1. Gentle
        BY <1>6, <2>1 DEF HangupCall, HangUpLegs, Gentle
      <3> QED BY <1>6, <2>1, <3>1, SuspendAdds DEF HangupCall, HangUpLegs, Spares
    <2>2. CASE Close(d) /\ UNCHANGED waiting
      <3>1. Gentle
        BY <1>6, <2>2, ClosingGentle DEF HangupCall, ForceClose
      <3> QED BY <1>6, <2>2, <3>1, SameSuspended
              DEF HangupCall, Close, Enter, TypeOK, Spares
    <2> QED BY <1>6, <2>1, <2>2 DEF HangupCall
  <1> QED BY <1>1, <1>2, <1>3, <1>4, <1>5, <1>6 DEF Complete

-----------------------------------------------------------------------------
(* The life of a channel                                                   *)

LEMMA SysLifeInit == SysInit => SysLife
  <1> SUFFICES ASSUME SysInit PROVE SysLife
    OBVIOUS
  <1>1. \A u : \A c \in Calls : ~Suspended(u, c)
    BY CallAssumption DEF SysInit, Init, Suspended, IdleSweep
  <1>2. \A c \in Calls : ChannelWell(c)
    BY DEF SysInit, ChannelWell
  <1> QED BY <1>1, <1>2 DEF SysInit, SysLife, AcceptConsumedOnce, ClosedByItsChannel

\* A call that is carried by a channel that has not made a report is not waiting
\* to be hung up.
LEMMA CarriedIsNotClosed ==
    ASSUME SysTypeOK, SysLife, NEW c \in Calls, callId[c] # NoCall,
           leg[c] \notin {"hanging", "gone"}
    PROVE  ~Suspended("close", callId[c])
  BY DEF SysTypeOK, SysLife, ClosedByItsChannel, AcceptConsumedOnce

\* A call that died with the agent stays lost.
LostStays == \A d \in Calls : state[d] = "lost" => state'[d] = "lost"

\* A channel stays well if it does not move and its call is spared.
LEMMA StaysWell ==
    ASSUME SysTypeOK, SysLife, Gentle, LostStays, NEW c \in Calls,
           callId[c] # NoCall => Spares(callId[c]),
           kind'[c] = kind[c], ring'[c] = ring[c], leg'[c] = leg[c],
           callId'[c] = callId[c], dialstatus'[c] = dialstatus[c]
    PROVE  ChannelWell(c)'
  <1>1. callId[c] # NoCall => callId[c] \in Calls
    BY DEF SysTypeOK
  <1>2. ChannelWell(c)
    BY DEF SysLife
  <1>3. state[c] # "idle" => state'[c] # "idle"
    BY DEF Gentle
  <1>4. callId[c] # NoCall =>
            /\ state'[callId[c]] # "idle"
            /\ dir'[callId[c]] = dir[callId[c]]
            /\ dir'[callId[c]] = "outgoing" => state'[callId[c]] \notin Early
    BY <1>1, <1>2 DEF Gentle, ChannelWell, Early
  <1>5. ASSUME callId[c] # NoCall, leg[c] \notin {"hanging", "gone"},
               state[callId[c]] \in {"gsm_dialing", "lost"}
        PROVE  state'[callId[c]] \in {"gsm_dialing", "lost"}
    BY <1>1, <1>5, CarriedIsNotClosed DEF Spares, LostStays
  <1> QED BY <1>2, <1>3, <1>4, <1>5 DEF ChannelWell

\* No channel moves, and every dialling call is spared.
LEMMA ChannelsStay ==
    ASSUME SysTypeOK, SysLife, Gentle, LostStays, \A d \in Calls : Spares(d),
           NEW c \in Calls, \A e \in Calls \ {c} : kind'[e] = kind[e] /\ ring'[e] = ring[e],
           UNCHANGED <<leg, callId, dialstatus>>,
           ChannelWell(c)'
    PROVE  SysLife'
  <1>1. ASSUME NEW e \in Calls, e # c PROVE ChannelWell(e)'
    BY <1>1, StaysWell DEF SysTypeOK
  <1>2. AcceptConsumedOnce'
    BY DEF SysLife, AcceptConsumedOnce
  <1>3. ClosedByItsChannel'
    BY DEF SysLife, ClosedByItsChannel, Spares
  <1> QED BY <1>1, <1>2, <1>3 DEF SysLife

\* One channel or one ring moves, and the agent does nothing.
LEMMA PeerMoves ==
    ASSUME SysLife, UNCHANGED vars, UNCHANGED callId, NEW c \in Calls,
           leg[c] \notin {"hanging", "gone"},
           \A e \in Calls \ {c} : /\ kind'[e] = kind[e]
                                  /\ ring'[e] = ring[e]
                                  /\ leg'[e] = leg[e]
                                  /\ dialstatus'[e] = dialstatus[e],
           ChannelWell(c)'
    PROVE  SysLife'
  <1>1. UNCHANGED <<state, dir, waiting, sweep>>
    BY DEF vars, callVars
  <1>2. ASSUME NEW e \in Calls, e # c PROVE ChannelWell(e)'
    BY <1>1, <1>2 DEF SysLife, ChannelWell
  <1>3. AcceptConsumedOnce'
    BY DEF SysLife, AcceptConsumedOnce
  <1>4. ClosedByItsChannel'
    BY <1>1, SameSuspended DEF SysLife, ClosedByItsChannel
  <1> QED BY <1>2, <1>3, <1>4 DEF SysLife

LEMMA LostStaysStep ==
    ASSUME TypeOK, LifeInv, [Next]_vars
    PROVE  LostStays
  BY SettledStep DEF LostStays, Ended

\* The agent's own steps, and those of the others that leave the agent alone.
LEMMA AgentLife ==
    ASSUME SysTypeOK, IInv, SysLife, LostStays, AgentStep \/ AgentRestarts
    PROVE  SysLife'
  <1>1. Gentle /\ \A d \in Calls : Spares(d)
    BY AgentSparesDials DEF IInv, AgentRestarts
  <1>2. UNCHANGED <<kind, ring, leg, callId, dialstatus>>
    BY DEF AgentStep, AgentRestarts, sysVars
  <1>3. CASE Calls = {}
    BY <1>3 DEF SysLife, AcceptConsumedOnce, ClosedByItsChannel
  <1>4. ASSUME NEW c \in Calls PROVE SysLife'
    <2>1. ChannelWell(c)'
      BY <1>1, <1>2, StaysWell DEF SysTypeOK
    <2> QED BY <1>1, <1>2, <2>1, ChannelsStay
  <1> QED BY <1>3, <1>4

\* The userbot and the bridge.
LEMMA PeerLife ==
    ASSUME SysTypeOK, IInv, SysLife, LostStays, NEW c \in Calls, PeerStep(c)
    PROVE  SysLife'
  <1>0. ChannelWell(c) /\ TypeOK /\ LifeInv /\ PeerTypeOK
    BY SysTypeParts DEF SysLife, IInv
  <1>1. ASSUME NEW k \in Kinds, NEW m, PlaceCall(c, k, m) PROVE SysLife'
    <2>1. state[c] = "idle" /\ state'[c] = "telegram_calling" /\ leg[c] = "none"
      BY <1>0, <1>1 DEF PlaceCall, CallOutgoing, Enter, TypeOK
    <2>2. Gentle
      BY <1>0, <1>1, EnteringGentle DEF PlaceCall, CallOutgoing, TypeOK
    <2>3. \A d \in Calls : Spares(d)
      BY <1>0, <1>1, SameSuspended, EnteringSpares DEF PlaceCall, CallOutgoing
    <2>4. ChannelWell(c)'
      BY <1>0, <1>1, <2>1 DEF PlaceCall, ChannelWell
    <2>5. /\ \A e \in Calls \ {c} : kind'[e] = kind[e] /\ ring'[e] = ring[e]
          /\ UNCHANGED <<leg, callId, dialstatus>>
      BY <1>0, <1>1 DEF PlaceCall, PeerTypeOK
    <2> QED BY <2>2, <2>3, <2>4, <2>5, ChannelsStay
  <1>2. CASE BridgeRings(c)
    BY <1>0, <1>2, PeerMoves DEF BridgeRings, PeerTypeOK, ChannelWell, vars, callVars
  <1>3. CASE BridgeStartFails(c)
    BY <1>0, <1>3, PeerMoves DEF BridgeStartFails, PeerTypeOK, ChannelWell, vars, callVars
  <1>4. CASE UserbotRejects(c)
    <2>1. Gentle /\ \A d \in Calls : Spares(d)
      <3>1. CASE RejectCall(c)
        <4>1. state[c] # "gsm_dialing"
          BY <3>1 DEF RejectCall, CanMove, Transitions, IncomingTransitions, OutgoingTransitions
        <4> QED BY <1>0, <3>1, <4>1, SameSuspended, MovingGentle, EnteringSpares
                DEF RejectCall, Early
      <3>2. CASE UNCHANGED vars
        BY <1>0, <3>2, AgentSparesDials
      <3> QED BY <1>4, <3>1, <3>2 DEF UserbotRejects
    <2>2. UNCHANGED <<kind, ring, leg, callId, dialstatus>>
      BY <1>4 DEF UserbotRejects
    <2>3. ChannelWell(c)'
      BY <2>1, <2>2, StaysWell DEF SysTypeOK
    <2> QED BY <2>1, <2>2, <2>3, ChannelsStay
  <1>5. CASE UserAccepts(c)
    BY <1>0, <1>5, PeerMoves DEF UserAccepts, PeerTypeOK, ChannelWell, vars, callVars
  <1>6. CASE RingEnds(c)
    BY <1>0, <1>6, PeerMoves DEF RingEnds, PeerTypeOK, ChannelWell, vars, callVars
  <1> QED BY <1>1, <1>2, <1>3, <1>4, <1>5, <1>6 DEF PeerStep

\* A report ends a call only of the channel that makes it, which has stopped
\* dialling by then.
LEMMA ReportLife ==
    ASSUME SysTypeOK, IInv, SysLife, LostStays, NEW c \in Calls, NEW status,
           NEW to \in {"hanging", "gone"}, Report(c, status),
           leg[c] \in {"returned", "hanging"},
           leg' = [leg EXCEPT ![c] = to],
           UNCHANGED <<kind, ring, callId, dialstatus>>
    PROVE  SysLife'
  <1> DEFINE d == callId[c]
  <1>0. TypeOK /\ LifeInv /\ PeerTypeOK /\ ChannelWell(c) /\ d \in Calls \cup {NoCall}
    BY SysTypeParts DEF IInv, SysLife, SysTypeOK
  <1>1. /\ Gentle
        /\ \A e \in Calls \ {d} : Spares(e)
    <2>1. CASE UNCHANGED vars
      BY <1>0, <2>1, AgentSparesDials DEF Spares
    <2>2. CASE d # NoCall /\ Complete(d, status)
      BY <1>0, <2>2, CompleteSparesOthers
    <2> QED BY <2>1, <2>2 DEF Report
  <1>2. leg'[c] = to /\ \A e \in Calls \ {c} : leg'[e] = leg[e]
    BY <1>0 DEF PeerTypeOK
  <1>3. ASSUME NEW e \in Calls, e # c PROVE ChannelWell(e)'
    <2>1. callId[e] # NoCall => callId[e] \in Calls /\ callId[e] # d
      BY <1>3 DEF SysLife, AcceptConsumedOnce, SysTypeOK
    <2> QED BY <1>1, <1>2, <1>3, <2>1, StaysWell
  <1>4. ChannelWell(c)'
    BY <1>0, <1>1, <1>2 DEF ChannelWell, Gentle, Early
  <1>5. AcceptConsumedOnce'
    BY DEF SysLife, AcceptConsumedOnce
  <1>6. ASSUME NEW e \in Calls, Suspended("close", e)'
        PROVE  \E f \in Calls : callId'[f] = e /\ leg'[f] \in {"hanging", "gone"}
    <2>1. CASE e = d
      BY <1>2, <2>1
    <2>2. CASE Suspended("close", e)
      BY <1>2, <2>2 DEF SysLife, ClosedByItsChannel
    <2> QED BY <1>1, <1>6, <2>1, <2>2, CallAssumption DEF Spares
  <1>7. ClosedByItsChannel'
    BY <1>6 DEF ClosedByItsChannel
  <1> QED BY <1>3, <1>4, <1>5, <1>7 DEF SysLife

\* A channel gets the id of a call: one that has just begun, or one that was
\* pending, and that no channel carries.  Or the reply with the id is lost.
LEMMA GetsId ==
    ASSUME SysTypeOK, SysLife, Gentle, LostStays, \A e \in Calls : Spares(e),
           NEW c \in Calls, NEW d \in Calls, leg[c] \in {"none", "invited"},
           state[d] = "idle" \/ (dir[d] = "outgoing" /\ state[d] \in Early),
           callId' \in {callId, [callId EXCEPT ![c] = d]},
           NEW to \in {"dialing", "hanging"}, leg' = [leg EXCEPT ![c] = to],
           UNCHANGED <<kind, ring, dialstatus>>,
           ChannelWell(c)'
    PROVE  SysLife'
  <1>0. ChannelWell(c) /\ PeerTypeOK
    BY SysTypeParts DEF SysLife
  <1>1. callId[c] = NoCall /\ \A e \in Calls : callId[e] # d
    BY CallAssumption, <1>0 DEF SysLife, ChannelWell, PeerTypeOK
  <1>2. \A e \in Calls \ {c} : leg'[e] = leg[e] /\ callId'[e] = callId[e]
    BY <1>0 DEF PeerTypeOK
  <1>3. ASSUME NEW e \in Calls, e # c PROVE ChannelWell(e)'
    BY <1>2, <1>3, StaysWell DEF SysTypeOK
  <1>4. callId'[c] \in {NoCall, d}
    BY <1>0, <1>1 DEF PeerTypeOK
  <1>5. AcceptConsumedOnce'
    BY <1>1, <1>2, <1>4 DEF SysLife, AcceptConsumedOnce
  <1>6. ASSUME NEW e \in Calls, Suspended("close", e)'
        PROVE  \E f \in Calls : callId'[f] = e /\ leg'[f] \in {"hanging", "gone"}
    <2>1. PICK f \in Calls : callId[f] = e /\ leg[f] \in {"hanging", "gone"}
      BY <1>6 DEF SysLife, ClosedByItsChannel, Spares
    <2> QED BY <1>2, <2>1
  <1>7. ClosedByItsChannel'
    BY <1>6 DEF ClosedByItsChannel
  <1> QED BY <1>3, <1>5, <1>7 DEF SysLife

\* The dialplan.
LEMMA ChannelLife ==
    ASSUME SysTypeOK, IInv, SysLife, LostStays, NEW c \in Calls, ChannelStep(c)
    PROVE  SysLife'
  <1>0. ChannelWell(c) /\ TypeOK /\ LifeInv /\ PeerTypeOK
    BY SysTypeParts DEF SysLife, IInv
  <1>1. CASE GsmCallArrives(c)
    <2>1. /\ state[c] = "idle" /\ state'[c] = "telegram_ringing"
          /\ dir'[c] = "incoming" /\ leg[c] = "none"
      BY <1>0, <1>1 DEF GsmCallArrives, CallIncoming, Enter, TypeOK
    <2>2. Gentle
      BY <1>0, <1>1, EnteringGentle DEF GsmCallArrives, CallIncoming, Early, TypeOK
    <2>3. \A e \in Calls : Spares(e)
      BY <1>0, <1>1, SameSuspended, EnteringSpares DEF GsmCallArrives, CallIncoming
    <2>4. /\ callId' \in {callId, [callId EXCEPT ![c] = c]}
          /\ leg' = [leg EXCEPT ![c] = "dialing"]
          /\ UNCHANGED <<kind, ring, dialstatus>>
      BY <1>1 DEF GsmCallArrives
    <2>5. /\ leg'[c] = "dialing" /\ callId'[c] \in {NoCall, c}
          /\ kind[c] = "none" /\ ring[c] = "none" /\ dialstatus[c] = "none"
      BY <1>0, <2>1, <2>4 DEF PeerTypeOK, ChannelWell
    <2>6. ChannelWell(c)'
      BY <2>1, <2>4, <2>5 DEF ChannelWell
    <2> QED BY <2>1, <2>2, <2>3, <2>4, <2>6, GetsId
  <1>2. ASSUME NEW d \in Calls, AcceptIsMatched(c, d) PROVE SysLife'
    <2>1. /\ dir[d] = "outgoing" /\ state[d] \in Early
          /\ state'[d] = "gsm_dialing" /\ dir'[d] = "outgoing" /\ leg[c] = "invited"
      BY <1>0, <1>2
      DEF AcceptIsMatched, CallOutgoingAccepted, Pending, Early, Enter, TypeOK
    <2>2. Gentle
      BY <1>0, <1>2, EnteringGentle DEF AcceptIsMatched, CallOutgoingAccepted, Early
    <2>3. \A e \in Calls : Spares(e)
      <3>1. state[d] # "gsm_dialing"
        BY <2>1 DEF Early
      <3> QED BY <1>0, <1>2, <3>1, SameSuspended, EnteringSpares
              DEF AcceptIsMatched, CallOutgoingAccepted
    <2>4. /\ callId' = [callId EXCEPT ![c] = d]
          /\ leg' = [leg EXCEPT ![c] = "dialing"]
          /\ UNCHANGED <<kind, ring, dialstatus>>
      BY <1>2 DEF AcceptIsMatched
    <2>5. /\ leg'[c] = "dialing" /\ callId'[c] = d /\ dialstatus[c] = "none"
          /\ ring[c] \notin {"submitted", "ringing"}
          /\ kind[c] # "none" \/ ring[c] # "none" => state'[c] # "idle"
      BY <1>0, <2>1, <2>2, <2>4 DEF PeerTypeOK, ChannelWell, Gentle
    <2>6. ChannelWell(c)'
      BY <2>1, <2>4, <2>5, CallAssumption DEF ChannelWell, Early
    <2> QED BY <2>1, <2>2, <2>3, <2>4, <2>6, GetsId
  <1>10. ASSUME NEW d \in Calls, AcceptReplyIsLost(c, d) PROVE SysLife'
    <2>1. /\ dir[d] = "outgoing" /\ state[d] \in Early
          /\ state'[d] = "gsm_dialing" /\ leg[c] = "invited" /\ callId[c] = NoCall
      BY <1>0, <1>10
      DEF AcceptReplyIsLost, CallOutgoingAccepted, Pending, Early, Enter, TypeOK, ChannelWell
    <2>2. Gentle
      BY <1>0, <1>10, EnteringGentle DEF AcceptReplyIsLost, CallOutgoingAccepted, Early
    <2>3. \A e \in Calls : Spares(e)
      <3>1. state[d] # "gsm_dialing"
        BY <2>1 DEF Early
      <3> QED BY <1>0, <1>10, <3>1, SameSuspended, EnteringSpares
              DEF AcceptReplyIsLost, CallOutgoingAccepted
    <2>4. /\ UNCHANGED <<callId, kind, ring, dialstatus>>
          /\ leg' = [leg EXCEPT ![c] = "hanging"]
      BY <1>10 DEF AcceptReplyIsLost
    <2>5. /\ leg'[c] = "hanging" /\ callId'[c] = NoCall /\ dialstatus[c] = "none"
          /\ ring[c] \notin {"submitted", "ringing"}
          /\ kind[c] # "none" \/ ring[c] # "none" => state'[c] # "idle"
      BY <1>0, <2>1, <2>2, <2>4 DEF PeerTypeOK, ChannelWell, Gentle
    <2>6. ChannelWell(c)'
      BY <2>4, <2>5 DEF ChannelWell
    <2> QED BY <2>1, <2>2, <2>3, <2>4, <2>6, GetsId
  <1>3. CASE AcceptIsRefused(c)
    BY <1>0, <1>3, PeerMoves DEF AcceptIsRefused, PeerTypeOK, ChannelWell, vars, callVars
  <1>4. CASE AcceptIsLost(c)
    BY <1>0, <1>4, PeerMoves DEF AcceptIsLost, PeerTypeOK, ChannelWell, vars, callVars
  <1>5. CASE DialIsAnswered(c)
    BY <1>0, <1>5, PeerMoves DEF DialIsAnswered, PeerTypeOK, ChannelWell, vars, callVars
  <1>6. ASSUME NEW status \in Dialstatus, DialReturns(c, status)
        PROVE  SysLife'
    BY <1>0, <1>6, PeerMoves
    DEF Dialstatus, Unanswered, DialReturns, PeerTypeOK, ChannelWell, vars, callVars
  <1>7. CASE ChannelHangsUp(c)
    BY <1>0, <1>7, PeerMoves DEF ChannelHangsUp, PeerTypeOK, ChannelWell, vars, callVars
  <1>8. CASE ReportDialstatus(c)
    BY <1>8, ReportLife DEF ReportDialstatus
  <1>9. CASE ReportEnded(c)
    BY <1>9, ReportLife DEF ReportEnded
  <1> QED BY <1>1, <1>2, <1>3, <1>4, <1>5, <1>6, <1>7, <1>8, <1>9, <1>10 DEF ChannelStep

LEMMA SysLifeStep ==
    ASSUME SysTypeOK, IInv, SysLife, [SysNext]_allVars
    PROVE  SysLife'
  <1>1. LostStays
    BY SysStepIsStep, LostStaysStep DEF IInv
  <1>2. CASE UNCHANGED allVars
    BY <1>2, SameSuspended
    DEF allVars, vars, callVars, sysVars, SysLife, ChannelWell, AcceptConsumedOnce,
        ClosedByItsChannel
  <1> QED BY <1>1, <1>2, AgentLife, PeerLife, ChannelLife DEF SysNext

-----------------------------------------------------------------------------
(* What the user is told of a dial                                         *)

\* Where a step tells the user of a call: after a report of the dialplan, by
\* the channel that carries the call, or when his own ring has expired.
LEMMA WhoTells ==
    ASSUME SysTypeOK, [SysNext]_allVars
    PROVE  \/ told' = told
           \/ \E c \in Calls : ReportDialstatus(c) /\ callId[c] \in Calls
                               /\ Complete(callId[c], StatusOf(dialstatus[c]))
           \/ \E s \in Sweeps, c \in Calls : SweepInvite(s, c) /\ UNCHANGED sysVars
  <1>1. ASSUME NEW c \in Calls, PeerStep(c) PROVE told' = told
    BY <1>1 DEF PeerStep, PlaceCall, CallOutgoing, BridgeRings, BridgeStartFails,
        UserbotRejects, RejectCall, UserAccepts, RingEnds, vars, callVars
  <1>2. ASSUME NEW c \in Calls, ReportEnded(c) PROVE told' = told
    <2>1. ASSUME NEW d, Complete(d, "ended") PROVE told' = told
      BY <2>1 DEF Complete, CompleteBridged, CompleteIncomingUnanswered, HangupCall
    <2> QED BY <1>2, <2>1 DEF ReportEnded, Report, vars, callVars
  <1>3. ASSUME NEW c \in Calls, ReportDialstatus(c)
        PROVE  \/ told' = told
               \/ callId[c] \in Calls /\ Complete(callId[c], StatusOf(dialstatus[c]))
    BY <1>3 DEF ReportDialstatus, Report, vars, callVars, SysTypeOK
  <1>4. ASSUME NEW c \in Calls, ChannelStep(c), ~ReportEnded(c), ~ReportDialstatus(c)
        PROVE  told' = told
    BY <1>4 DEF ChannelStep, GsmCallArrives, CallIncoming, AcceptIsMatched,
        CallOutgoingAccepted, AcceptIsRefused, AcceptIsLost, AcceptReplyIsLost, DialIsAnswered,
        DialReturns, ChannelHangsUp, vars, callVars
  <1>5. CASE AgentStep
    <2>1. ASSUME NEW s \in Sweeps, SweepStep(s)
          PROVE  told' = told \/ \E c \in Calls : SweepInvite(s, c)
      BY <2>1 DEF SweepStep, SweepStart, SweepResume, SweepRing, SweepBridged, SweepSkip,
          callVars
    <2>2. CASE \E c \in Calls : Age(c)
      BY <2>2 DEF Age
    <2>3. CASE \E w \in waiting : Resume(w)
      BY <2>3 DEF Resume
    <2>4. CASE ModemReport(Dongle)
      BY <2>4 DEF ModemReport, callVars
    <2> QED BY <1>5, <2>1, <2>2, <2>3, <2>4 DEF AgentStep
  <1>6. CASE AgentRestarts \/ UNCHANGED allVars
    BY <1>6 DEF AgentRestarts, Restart, allVars, vars, callVars
  <1> QED BY <1>1, <1>2, <1>3, <1>4, <1>5, <1>6 DEF SysNext

\* What Dial returned on a channel, and the call the channel carries, do not
\* change any more.
LEMMA DialstatusStays ==
    ASSUME SysTypeOK, SysLife, [SysNext]_allVars, NEW c \in Calls,
           dialstatus[c] # "none"
    PROVE  dialstatus'[c] = dialstatus[c] /\ callId'[c] = callId[c]
  <1>0. PeerTypeOK /\ leg[c] \in {"returned", "hanging", "gone"}
    BY SysTypeParts DEF SysLife, ChannelWell
  <1>1. ASSUME NEW d \in Calls, PeerStep(d)
        PROVE  UNCHANGED <<dialstatus, callId>>
    BY <1>1 DEF PeerStep, PlaceCall, BridgeRings, BridgeStartFails,
        UserbotRejects, UserAccepts, RingEnds
  <1>2. ASSUME NEW d \in Calls, ChannelStep(d)
        PROVE  dialstatus'[c] = dialstatus[c] /\ callId'[c] = callId[c]
    BY <1>0, <1>2 DEF PeerTypeOK, ChannelStep, GsmCallArrives, AcceptIsMatched,
        AcceptIsRefused, AcceptIsLost, AcceptReplyIsLost, DialIsAnswered, DialReturns,
        ChannelHangsUp, ReportDialstatus, ReportEnded
  <1>3. CASE AgentStep \/ AgentRestarts \/ UNCHANGED allVars
    BY <1>3 DEF AgentStep, AgentRestarts, allVars, sysVars
  <1> QED BY <1>1, <1>2, <1>3 DEF SysNext

\* What a user may be told when Dial has returned.
Tells(status) ==
    {<<Meaning(status)>>} \cup IF status = "ANSWER" THEN {<<"failed">>} ELSE {}

\* The outcome the user is told is the one Dial returned, but for an answered call.
LEMMA ReportTellsDialstatus ==
    ASSUME SysTypeOK, SysLife, NEW c \in Calls, leg[c] = "returned",
           NEW d \in Calls, told[d] = <<>>, Complete(d, StatusOf(dialstatus[c])),
           told'[d] # <<>>
    PROVE  told'[d] \in Tells(dialstatus[c])
  <1>0. TypeOK /\ dialstatus[c] \in Dialstatus
    BY SysTypeParts DEF SysLife, ChannelWell, PeerTypeOK
  <1> DEFINE status == StatusOf(dialstatus[c])
  <1>1. status # "answered"
    BY <1>0 DEF StatusOf, Dialstatus, Unanswered
  <1>2. CASE /\ status \in {"no_answer", "busy", "failed"}
             /\ CompleteOutgoingFailed(d, OutgoingOutcome(status))
    <2>1. told'[d] = <<NoticeOf(OutgoingOutcome(status))>>
      BY <1>0, <1>2 DEF CompleteOutgoingFailed, TypeOK
    <2>2. CASE status = "no_answer"
      <3>1. dialstatus[c] = "NOANSWER"
        BY <1>0, <2>2 DEF StatusOf, Dialstatus, Unanswered
      <3> QED BY <2>1, <2>2, <3>1 DEF OutgoingOutcome, NoticeOf, Meaning, Tells
    <2>3. CASE status = "busy"
      <3>1. dialstatus[c] = "BUSY"
        BY <1>0, <2>3 DEF StatusOf, Dialstatus, Unanswered
      <3> QED BY <2>1, <2>3, <3>1 DEF OutgoingOutcome, NoticeOf, Meaning, Tells
    <2>4. CASE status = "failed"
      <3>1. dialstatus[c] \in {"CONGESTION", "ANSWER"}
        BY <1>0, <2>4 DEF StatusOf, Dialstatus, Unanswered
      <3> QED BY <2>1, <2>4, <3>1 DEF OutgoingOutcome, NoticeOf, Meaning, Tells
    <2> QED BY <1>2, <2>2, <2>3, <2>4
  <1>3. CASE told' = told
    BY <1>3
  <1> QED BY <1>1, <1>2, <1>3
          DEF Complete, CompleteBridged, CompleteIncomingAnswered,
              CompleteIncomingUnanswered, HangupCall

\* ToldWhatDialReturned, call by call.
LEMMA ToldByChannel ==
    ToldWhatDialReturned <=>
        \A c \in Calls :
            told[c] # <<>> =>
                \/ \E d \in Calls : callId[d] = c /\ told[c] \in Tells(dialstatus[d])
                \/ told[c] = <<"no_answer">> /\ state[c] \in {"telegram_timeout", "lost"}
  BY DEF ToldWhatDialReturned, Tells

LEMMA ToldDialStep ==
    ASSUME SysTypeOK, IInv, SysLife, ToldOnceAndTruly, ToldOnceAndTruly',
           ToldWhatDialReturned, [SysNext]_allVars
    PROVE  ToldWhatDialReturned'
  <1> SUFFICES ASSUME NEW c \in Calls, told'[c] # <<>>
               PROVE  \/ \E d \in Calls : callId'[d] = c /\ told'[c] \in Tells(dialstatus'[d])
                      \/ told'[c] = <<"no_answer">>
                         /\ state'[c] \in {"telegram_timeout", "lost"}
    BY DEF ToldWhatDialReturned, Tells
  <1>0. TypeOK /\ LifeInv /\ PeerTypeOK
    BY SysTypeParts DEF IInv
  <1>1. CASE told'[c] = told[c]
    <2>2. CASE \E d \in Calls : callId[d] = c /\ told[c] \in Tells(dialstatus[d])
      <3>1. PICK d \in Calls : callId[d] = c /\ told[c] \in Tells(dialstatus[d])
        BY <2>2
      <3>2. dialstatus[d] # "none"
        <4>1. told[c] # <<"nothing">>
          BY <1>1 DEF ToldOnceAndTruly
        <4> QED BY <3>1, <4>1 DEF Tells, Meaning
      <3>3. dialstatus'[d] = dialstatus[d] /\ callId'[d] = callId[d]
        BY <3>1, <3>2, DialstatusStays
      <3> QED BY <1>1, <3>1, <3>3
    <2>3. CASE told[c] = <<"no_answer">> /\ state[c] \in {"telegram_timeout", "lost"}
      <3>1. state'[c] \in {state[c], "lost"}
        BY <1>0, <2>3, SysStepIsStep, SettledStep DEF Ended, Terminal
      <3> QED BY <1>1, <2>3, <3>1
    <2> QED BY <1>1, <2>2, <2>3, ToldByChannel
  <1>2. ASSUME told'[c] # told[c], NEW d \in Calls, ReportDialstatus(d),
               callId[d] \in Calls, Complete(callId[d], StatusOf(dialstatus[d]))
        PROVE  \E e \in Calls : callId'[e] = c /\ told'[c] \in Tells(dialstatus'[e])
    <2>1. callId[d] = c /\ state[c] \notin Ended \cup {"bridged"}
      <3>1. CASE CompleteOutgoingAnswered(callId[d])
        BY <1>0, <1>2, <3>1, MovesFromLife, BridgedHangsUp
        DEF CompleteOutgoingAnswered, TypeOK, CanMove
      <3>2. ASSUME NEW to, CompleteOutgoingFailed(callId[d], to)
            PROVE  callId[d] = c /\ state[c] \notin Ended \cup {"bridged"}
        BY <1>0, <1>2, <3>2, MovesFromLife, BridgedHangsUp
        DEF CompleteOutgoingFailed, TypeOK, CanMove
      <3>3. CASE told' = told
        BY <1>2, <3>3
      <3> QED BY <1>2, <3>1, <3>2, <3>3
              DEF Complete, CompleteBridged, CompleteIncomingAnswered,
                  CompleteIncomingUnanswered, HangupCall
    <2>2. told[c] = <<>>
      BY <2>1, NotToldYet
    <2>3. told'[c] \in Tells(dialstatus[d])
      BY <1>2, <2>1, <2>2, ReportTellsDialstatus DEF ReportDialstatus
    <2> QED BY <1>2, <2>1, <2>3 DEF ReportDialstatus
  <1>3. ASSUME told'[c] # told[c], NEW s \in Sweeps, NEW d \in Calls, SweepInvite(s, d)
        PROVE  told'[c] = <<"no_answer">> /\ state'[c] \in {"telegram_timeout", "lost"}
    <2>1. d = c /\ state'[c] = "telegram_timeout"
      BY <1>0, <1>3 DEF SweepInvite, Enter, TypeOK
    <2>2. told'[c] = <<"no_answer">>
      BY <2>1 DEF ToldOnceAndTruly
    <2> QED BY <2>1, <2>2
  <1> QED BY <1>1, <1>2, <1>3, WhoTells

-----------------------------------------------------------------------------
(* The theorems                                                            *)

\* The registry's invariant and the life of the channels, for every reachable
\* state of the composed system.
THEOREM SysInductive == SysSpec => []SysInv
  <1>1. SysInit => SysInv
    BY SysTypeInit, SysLifeInit, TypeInit, LifeInit, ModemInit
    DEF SysInv, SysInit, Init, IInv, ToldOnceAndTruly
  <1>2. SysInv /\ [SysNext]_allVars => SysInv'
    BY SysTypeStep, SysStepIsStep, TypeStep, LifeStep, ModemStep, ToldStep, SysLifeStep
    DEF SysInv, IInv
  <1> QED BY <1>1, <1>2, PTL DEF SysSpec

\* However late, crossed or lost the accepts of the bridge are, no two
\* channels ever carry the same call.
THEOREM AcceptOnce == SysSpec => []AcceptConsumedOnce
  <1>1. SysInv => AcceptConsumedOnce
    BY DEF SysInv, SysLife
  <1> QED BY <1>1, SysInductive, PTL

LEMMA DialKnown == SysInv => DialedCallKnown
  BY DEF SysInv, SysLife, ChannelWell, DialedCallKnown, Live

\* While a channel dials or talks, the agent's record of its call says that it
\* is being dialled: no timeout, reject or foreign report ends it underneath,
\* for any number of overlapping calls and sweeps.
THEOREM DialedIsKnown == SysSpec => []DialedCallKnown
  BY DialKnown, SysInductive, PTL

\* The pool has one member, the modem of the dialplan.
OnePool ==
    /\ ready \subseteq {Dongle}
    /\ \A c \in Calls : modem[c] \in {Dongle, NoModem}

LEMMA CompleteKeepsPool ==
    ASSUME NEW d \in Calls, NEW status, Complete(d, status)
    PROVE  UNCHANGED <<ready, modem>>
  BY DEF Complete, CompleteBridged, CompleteIncomingAnswered, CompleteOutgoingAnswered,
         CompleteIncomingUnanswered, CompleteOutgoingFailed, HangupCall

LEMMA SweepKeepsPool ==
    ASSUME NEW s \in Sweeps, SweepStep(s)
    PROVE  UNCHANGED <<ready, modem>>
  BY DEF SweepStep, SweepStart, SweepResume, SweepRing, SweepInvite, SweepBridged,
         SweepSkip, callVars

LEMMA OnePoolStep ==
    ASSUME SysTypeOK, OnePool, [SysNext]_allVars
    PROVE  OnePool'
  <1>0. TypeOK
    BY DEF SysTypeOK
  <1>1. CASE UNCHANGED <<ready, modem>>
    BY <1>1 DEF OnePool
  <1>2. ASSUME NEW c \in Calls, PeerStep(c) PROVE OnePool'
    <2>1. ASSUME NEW k \in Kinds, NEW m \in Modems \cup {NoModem}, PlaceCall(c, k, m)
          PROVE  OnePool'
      <3>1. m \in {Dongle, NoModem}
        BY <2>1 DEF PlaceCall, CallOutgoing, Available, OnePool
      <3>2. ready' = ready /\ modem' = [modem EXCEPT ![c] = m]
        BY <2>1 DEF PlaceCall, CallOutgoing
      <3> QED BY <1>0, <3>1, <3>2 DEF OnePool, TypeOK
    <2>2. CASE UserbotRejects(c)
      BY <1>1, <2>2 DEF UserbotRejects, RejectCall, vars, callVars
    <2>3. CASE UNCHANGED vars
      BY <1>1, <2>3 DEF vars, callVars
    <2> QED BY <1>2, <2>1, <2>2, <2>3
            DEF PeerStep, BridgeRings, BridgeStartFails, UserAccepts, RingEnds
  <1>3. ASSUME NEW c \in Calls, ChannelStep(c) PROVE OnePool'
    <2>1. CASE GsmCallArrives(c)
      BY <1>0, <2>1 DEF GsmCallArrives, CallIncoming, OnePool, TypeOK
    <2>2. ASSUME NEW d \in Calls, AcceptIsMatched(c, d) \/ AcceptReplyIsLost(c, d)
          PROVE  OnePool'
      BY <1>1, <2>2 DEF AcceptIsMatched, AcceptReplyIsLost, CallOutgoingAccepted
    <2>3. ASSUME NEW status, Report(c, status) PROVE OnePool'
      BY <1>1, <2>3, CompleteKeepsPool DEF Report, SysTypeOK, vars, callVars
    <2>4. CASE UNCHANGED vars
      BY <1>1, <2>4 DEF vars, callVars
    <2> QED BY <1>3, <2>1, <2>2, <2>3, <2>4
            DEF ChannelStep, AcceptIsRefused, AcceptIsLost, DialIsAnswered,
                DialReturns, ChannelHangsUp, ReportDialstatus, ReportEnded
  <1>4. CASE AgentStep
    <2>1. CASE ModemReport(Dongle)
      BY <2>1 DEF ModemReport, callVars, OnePool
    <2>2. ASSUME NEW w \in waiting, Resume(w) PROVE OnePool'
      BY <1>1, <2>2 DEF Resume
    <2>3. ASSUME NEW c \in Calls, Age(c) PROVE OnePool'
      BY <1>1, <2>3 DEF Age
    <2> QED BY <1>1, <1>4, <2>1, <2>2, <2>3, SweepKeepsPool DEF AgentStep
  <1>5. CASE AgentRestarts
    BY <1>5 DEF AgentRestarts, Restart, OnePool
  <1> QED BY <1>1, <1>2, <1>3, <1>4, <1>5 DEF SysNext, allVars, vars, callVars

LEMMA OneDialOfPool == SysInv /\ OnePool => OneDialPerModem
  <1> SUFFICES ASSUME SysInv, OnePool, NEW c \in Calls, NEW d \in Calls,
                      DialsReserved(c), DialsReserved(d)
               PROVE  c = d
    BY DEF OneDialPerModem
  <1>1. ASSUME NEW e \in Calls, DialsReserved(e)
        PROVE  /\ callId[e] \in registered
               /\ HoldsModem(callId[e])
               /\ modem[callId[e]] = Dongle
               /\ callId[e] # NoCall
    <2>1. /\ callId[e] # NoCall
          /\ callId[e] \in Calls
          /\ state[callId[e]] = "gsm_dialing"
      BY <1>1 DEF SysInv, SysLife, SysTypeOK, ChannelWell, DialsReserved, DialsModem, Live
    <2>2. callId[e] \in registered
      BY <2>1 DEF SysInv, IInv, LifeInv, CallWell, Ended, Terminal
    <2> QED BY <1>1, <2>1, <2>2 DEF DialsReserved, HoldsModem, OnePool
  <1>2. callId[c] = callId[d]
    BY <1>1 DEF SysInv, IInv, ModemHeldByOneCall
  <1> QED BY <1>1, <1>2 DEF SysInv, SysLife, AcceptConsumedOnce

\* The dialplan dials one fixed modem for every call.  Of all the channels that do
\* so at once, for calls of any kind, at most one does it for a call that holds the
\* reservation, unless the agent forgot the others in a restart.
THEOREM OneDial == SysSpec => []OneDialPerModem
  <1>1. SysInit => OnePool
    BY DEF SysInit, Init, OnePool
  <1>3. SysTypeOK /\ OnePool /\ [SysNext]_allVars => OnePool'
    BY OnePoolStep
  <1>4. SysSpec => []OnePool
    BY <1>1, <1>3, SysTypeCorrect, PTL DEF SysSpec
  <1> QED BY <1>4, OneDialOfPool, SysInductive, PTL

\* What the user is told of a dial is what Dial returned on the channel that
\* carried his call, or that his own ring expired; only of an answered call may
\* he be told that it failed.
THEOREM ToldDial == SysSpec => []ToldWhatDialReturned
  <1>1. SysInit => ToldWhatDialReturned
    BY DEF SysInit, Init, ToldWhatDialReturned
  <1>2. SysInv /\ SysInv' /\ ToldWhatDialReturned /\ [SysNext]_allVars
            => ToldWhatDialReturned'
    BY ToldDialStep DEF SysInv
  <1> QED BY <1>1, <1>2, SysInductive, PTL DEF SysSpec

\* The same of the runs' specification, in which the clients are either those
\* of the system or arbitrary ones.
THEOREM RealOutcome == CallsSpec => []RealOutcomeTold
  <1> DEFINE J == clients = "real" => SysInv /\ ToldWhatDialReturned
  <1>1. CallsInit => J
    BY SysTypeInit, SysLifeInit, TypeInit, LifeInit, ModemInit
    DEF CallsInit, SysInv, SysInit, Init, IInv, ToldOnceAndTruly, ToldWhatDialReturned
  <1>2. J /\ [CallsNext]_callsVars => J'
    <2> SUFFICES ASSUME J, [CallsNext]_callsVars, clients' = "real"
                 PROVE  SysInv' /\ ToldWhatDialReturned'
      OBVIOUS
    <2>1. clients = "real" /\ [SysNext]_allVars
      BY DEF CallsNext, AnyClient, RealClient, callsVars
    <2>2. SysInv'
      BY <2>1, SysTypeStep, SysStepIsStep, TypeStep, LifeStep, ModemStep, ToldStep,
         SysLifeStep
      DEF SysInv, IInv
    <2> QED BY <2>1, <2>2, ToldDialStep DEF SysInv
  <1>3. J => RealOutcomeTold
    BY DEF RealOutcomeTold
  <1> QED BY <1>1, <1>2, <1>3, PTL DEF CallsSpec
=============================================================================
