------------------------------ MODULE CallSystem ------------------------------
(***************************************************************************)
(* A call end to end: the userbot that places it, the voice bridge that     *)
(* rings the Telegram user, the Asterisk channel whose dialplan reports to  *)
(* the agent, and the agent itself (CallControl).                           *)
(*                                                                          *)
(* The parts share nothing but messages.  The bridge is told of a call by   *)
(* the userbot and delivers the accept as an INVITE, which does not carry   *)
(* the call id; the agent's timeout never reaches the bridge (nobody calls  *)
(* BridgeControl.cancel_call); the dialplan learns the call id from the     *)
(* agent's reply and posts each outcome once, without a retry.              *)
(*                                                                          *)
(* The pool has one member, and the dialplan dials Dongle/${MODEM_ID}       *)
(* whatever the record says: both are the yaml's asterisk.dongle.           *)
(***************************************************************************)
EXTENDS CallControl

CONSTANTS
    Kinds,        \* the kinds of number the users dial, see DialsModem
    Dongle,       \* asterisk.dongle: the modem of the agent's pool, and MODEM_ID
    MaxFaults     \* bound on lost messages and agent restarts

ASSUME KindAssumption == Kinds \subseteq {"gsm", "internal", "service"}
ASSUME DongleAssumption == Dongle \in Modems
ASSUME FaultAssumption == MaxFaults \in Nat

VARIABLES
    kind,         \* the number of an outgoing call
    ring,         \* the call in Telegram: userbot and bridge
    rejecting,    \* calls the userbot is about to reject at the agent
    leg,          \* the Asterisk channel of the call
    callId,       \* the channel variable CALL_ID
    dialstatus,   \* what Dial returned on the channel
    faults        \* lost messages and restarts so far

sysVars == <<kind, ring, rejecting, leg, callId, dialstatus, faults>>

-----------------------------------------------------------------------------
(* Numbers                                                                 *)

\* parse_destination: four digits are an internal extension, and that is what
\* a service number like 0611 is to the agent.  No modem is reserved.
Reserves(k) == k = "gsm"

\* [tg-bridge]: _0XXX is more specific than _XXXX, so the dialplan sends a
\* service number to the modem; any other four digits go to [internal].
DialsModem(k) == k \in {"gsm", "service"}

-----------------------------------------------------------------------------
(* The userbot and the bridge                                              *)

\* _place_call: the agent registers the call.  Its answer may come too late.
PlaceCall(c, k, m) ==
    /\ leg[c] = "none"
    /\ Reserves(k) <=> m # NoModem
    /\ CallOutgoing(c, m)
    /\ kind' = [kind EXCEPT ![c] = k]
    /\ \E r \in {"submitted", "over"} : ring' = [ring EXCEPT ![c] = r]
    /\ UNCHANGED <<rejecting, leg, callId, dialstatus, faults>>

\* start_call answered "ok": the bridge rings the user.
BridgeRings(c) ==
    /\ ring[c] = "submitted"
    /\ ring' = [ring EXCEPT ![c] = "ringing"]
    /\ UNCHANGED <<vars, kind, rejecting, leg, callId, dialstatus, faults>>

\* start_call answered "busy" or "error", and the userbot goes on to reject
\* the call; after a timeout of the request the bridge may be ringing.
BridgeStartFails(c) ==
    /\ ring[c] = "submitted"
    /\ \E r \in {"over", "ringing"} : ring' = [ring EXCEPT ![c] = r]
    /\ rejecting' = rejecting \cup {c}
    /\ UNCHANGED <<vars, kind, leg, callId, dialstatus, faults>>

\* POST /call/{id}/reject; a refusal is not looked at.
UserbotRejects(c) ==
    /\ c \in rejecting
    /\ rejecting' = rejecting \ {c}
    /\ \/ RejectCall(c)
       \/ ~CanMove(c, "rejected") /\ UNCHANGED vars
    /\ UNCHANGED <<kind, ring, leg, callId, dialstatus, faults>>

\* The user accepts: the bridge sends the INVITE and [tg-bridge] answers it.
UserAccepts(c) ==
    /\ ring[c] = "ringing"
    /\ ring' = [ring EXCEPT ![c] = "over"]
    /\ leg' = [leg EXCEPT ![c] = "invited"]
    /\ UNCHANGED <<vars, kind, rejecting, callId, dialstatus, faults>>

\* The user declines or lets it ring; nobody tells the agent.
RingEnds(c) ==
    /\ ring[c] = "ringing"
    /\ ring' = [ring EXCEPT ![c] = "over"]
    /\ UNCHANGED <<vars, kind, rejecting, leg, callId, dialstatus, faults>>

-----------------------------------------------------------------------------
(* The dialplan                                                            *)

\* [incoming-mobile]: the agent registers the call, Dial rings the bridge.
\* Without a reply the channel goes on without a CALL_ID.
GsmCallArrives(c) ==
    /\ leg[c] = "none"
    /\ CallIncoming(c, Dongle, {"gsm"})
    /\ leg' = [leg EXCEPT ![c] = "dialing"]
    /\ \/ /\ callId' = [callId EXCEPT ![c] = c]
          /\ UNCHANGED faults
       \/ /\ faults < MaxFaults
          /\ faults' = faults + 1
          /\ UNCHANGED callId
    /\ UNCHANGED <<kind, ring, rejecting, dialstatus>>

\* AGI outgoing-accepted: the agent picks the call d, whoever was rung.
AcceptIsMatched(c, d) ==
    /\ leg[c] = "invited"
    /\ CallOutgoingAccepted(d, {"bridge"})
    /\ leg' = [leg EXCEPT ![c] = "dialing"]
    /\ callId' = [callId EXCEPT ![c] = d]
    /\ UNCHANGED <<kind, ring, rejecting, dialstatus, faults>>

\* Mutant: a refusal leaves the CALL_ID of the call that was rung.
AcceptRefusedDialing(c) ==
    /\ leg[c] = "invited"
    /\ \A d \in Calls : Pending # {d}
    /\ leg' = [leg EXCEPT ![c] = "dialing"]
    /\ callId' = [callId EXCEPT ![c] = c]
    /\ UNCHANGED <<vars, kind, ring, rejecting, dialstatus, faults>>

\* 404 or 409: no CALL_ID, and the nocal gate hangs up.
AcceptIsRefused(c) ==
    /\ leg[c] = "invited"
    /\ \A d \in Calls : Pending # {d}
    /\ leg' = [leg EXCEPT ![c] = "hanging"]
    /\ UNCHANGED <<vars, kind, ring, rejecting, callId, dialstatus, faults>>

\* The request does not reach the agent: as above, but the call stays pending.
AcceptIsLost(c) ==
    /\ leg[c] = "invited"
    /\ faults < MaxFaults
    /\ faults' = faults + 1
    /\ leg' = [leg EXCEPT ![c] = "hanging"]
    /\ UNCHANGED <<vars, kind, ring, rejecting, callId, dialstatus>>

\* The agent takes the accept, and its reply is lost or comes after the
\* script's timeout: no CALL_ID either, and the record says dialling.
AcceptReplyIsLost(c, d) ==
    /\ leg[c] = "invited"
    /\ faults < MaxFaults
    /\ faults' = faults + 1
    /\ CallOutgoingAccepted(d, {"bridge"})
    /\ leg' = [leg EXCEPT ![c] = "hanging"]
    /\ UNCHANGED <<kind, ring, rejecting, callId, dialstatus>>

\* The dialled party answers.  Dial goes on, and the agent hears nothing.
DialIsAnswered(c) ==
    /\ leg[c] = "dialing"
    /\ leg' = [leg EXCEPT ![c] = "talking"]
    /\ UNCHANGED <<vars, kind, ring, rejecting, callId, dialstatus, faults>>

\* DIALSTATUS as Asterisk sets it.  CONGESTION stands for all that the script
\* has no key for, and so does ANSWER: its key is ANSWERED.
Unanswered == {"NOANSWER", "BUSY", "CANCEL", "", "CONGESTION"}
Dialstatus == Unanswered \cup {"ANSWER"}

\* Dial returns: nobody answered, or the dialled party hung up.
DialReturns(c, status) ==
    /\ \/ leg[c] = "dialing" /\ status \in Unanswered
       \/ leg[c] = "talking" /\ status = "ANSWER"
    /\ leg' = [leg EXCEPT ![c] = "returned"]
    /\ dialstatus' = [dialstatus EXCEPT ![c] = status]
    /\ UNCHANGED <<vars, kind, ring, rejecting, callId, faults>>

\* The calling party hangs up: the channel goes straight to the h extension.
ChannelHangsUp(c) ==
    /\ leg[c] \in {"dialing", "talking"}
    /\ leg' = [leg EXCEPT ![c] = "hanging"]
    /\ UNCHANGED <<vars, kind, ring, rejecting, callId, dialstatus, faults>>

\* Mutant: an unknown key instead of BUSY.
StatusOfDroppingBusy(dialed) ==
    CASE dialed = "ANSWERED"      -> "answered"
      [] dialed = "NOANSWER"      -> "no_answer"
      [] dialed = "CANCEL"        -> "cancelled"
      [] dialed \in {"", "ENDED"} -> "ended"
      [] OTHER                    -> "failed"

\* DIALSTATUS_TO_STATUS, and what it does with any other value.
StatusOf(dialed) ==
    CASE dialed = "ANSWERED"      -> "answered"
      [] dialed = "NOANSWER"      -> "no_answer"
      [] dialed = "BUSY"          -> "busy"
      [] dialed = "CANCEL"        -> "cancelled"
      [] dialed \in {"", "ENDED"} -> "ended"
      [] OTHER                    -> "failed"

IncomingOutcome(status) ==
    CASE status = "no_answer" -> "voicemail"
      [] status = "busy"      -> "rejected"
      [] OTHER                -> "hangup"

OutgoingOutcome(status) ==
    CASE status = "no_answer" -> "gsm_no_answer"
      [] status = "busy"      -> "gsm_busy"
      [] status = "failed"    -> "gsm_error"

\* POST /call/{id}/complete, by status, direction and state.
Complete(d, status) ==
    \/ status # "answered" /\ CompleteBridged(d)
    \/ status = "answered" /\ CompleteIncomingAnswered(d)
    \/ status = "answered" /\ CompleteOutgoingAnswered(d)
    \/ status # "answered" /\ CompleteIncomingUnanswered(d, IncomingOutcome(status))
    \/ /\ status \in {"no_answer", "busy", "failed"}
       /\ state[d] # "bridged"
       /\ CompleteOutgoingFailed(d, OutgoingOutcome(status))
    \/ /\ status \in {"ended", "cancelled"}
       /\ CompletableCall(d)
       /\ dir[d] = "outgoing" /\ state[d] # "bridged"
       /\ HangupCall(d)

\* The same request when it is refused.
CompleteRefused(d, status) ==
    \/ ~CompletableCall(d)
    \/ state[d] = "bridged" /\ status = "answered"
    \/ /\ dir[d] = "outgoing" /\ state[d] # "bridged"
       /\ status \notin {"ended", "cancelled"}
       /\ state[d] # "gsm_dialing"

\* AGI complete: without a CALL_ID nothing is posted, and whatever the agent
\* answers, if it answers at all, the dialplan goes on.
Report(c, status) ==
    LET d == callId[c] IN
    \/ d = NoCall /\ UNCHANGED <<vars, faults>>
    \/ /\ d # NoCall
       /\ \/ Complete(d, status)
          \/ CompleteRefused(d, status) /\ UNCHANGED vars
       /\ UNCHANGED faults
    \/ /\ d # NoCall
       /\ faults < MaxFaults
       /\ faults' = faults + 1
       /\ UNCHANGED vars

ReportDialstatus(c) ==
    /\ leg[c] = "returned"
    /\ leg' = [leg EXCEPT ![c] = "hanging"]
    /\ Report(c, StatusOf(dialstatus[c]))
    /\ UNCHANGED <<kind, ring, rejecting, callId, dialstatus>>

\* The h extension.
ReportEnded(c) ==
    /\ leg[c] = "hanging"
    /\ leg' = [leg EXCEPT ![c] = "gone"]
    /\ Report(c, "ended")
    /\ UNCHANGED <<kind, ring, rejecting, callId, dialstatus>>

-----------------------------------------------------------------------------
(* The whole system                                                        *)

\* Steps of the agent that no message triggers.
AgentStep ==
    /\ \/ \E c \in Calls : Age(c)
       \/ \E w \in waiting : Resume(w)
       \/ \E s \in Sweeps : SweepStep(s)
       \/ ModemReport(Dongle)
    /\ UNCHANGED sysVars

\* Asterisk and the bridge live on when the agent restarts.
AgentRestarts ==
    /\ faults < MaxFaults
    /\ Restart
    /\ faults' = faults + 1
    /\ UNCHANGED <<kind, ring, rejecting, leg, callId, dialstatus>>

SysInit ==
    /\ Init
    /\ kind = [c \in Calls |-> "none"]
    /\ ring = [c \in Calls |-> "none"]
    /\ rejecting = {}
    /\ leg = [c \in Calls |-> "none"]
    /\ callId = [c \in Calls |-> NoCall]
    /\ dialstatus = [c \in Calls |-> "none"]
    /\ faults = 0

PeerStep(c) ==
    \/ \E k \in Kinds, m \in Modems \cup {NoModem} : PlaceCall(c, k, m)
    \/ BridgeRings(c)
    \/ BridgeStartFails(c)
    \/ UserbotRejects(c)
    \/ UserAccepts(c)
    \/ RingEnds(c)

ChannelStep(c) ==
    \/ GsmCallArrives(c)
    \/ \E d \in Calls : AcceptIsMatched(c, d)
    \/ AcceptIsRefused(c)
    \/ AcceptIsLost(c)
    \/ \E d \in Calls : AcceptReplyIsLost(c, d)
    \/ DialIsAnswered(c)
    \/ \E status \in Dialstatus : DialReturns(c, status)
    \/ ChannelHangsUp(c)
    \/ ReportDialstatus(c)
    \/ ReportEnded(c)

SysNext ==
    \/ \E c \in Calls : PeerStep(c) \/ ChannelStep(c)
    \/ AgentStep
    \/ AgentRestarts

allVars == <<vars, sysVars>>

SysSpec == SysInit /\ [][SysNext]_allVars

\* Beyond the agent's own fairness: the dialplan runs on after Dial returned
\* and after a hangup.  Nobody has to answer, accept, decline or hang up.
SysFairSpec ==
    /\ SysSpec
    /\ Fairness
    /\ \A c \in Calls : /\ WF_allVars(ReportDialstatus(c))
                        /\ WF_allVars(ReportEnded(c))

-----------------------------------------------------------------------------
(* Properties                                                              *)

SysTypeOK ==
    /\ TypeOK
    /\ kind \in [Calls -> Kinds \cup {"none"}]
    /\ ring \in [Calls -> {"none", "submitted", "ringing", "over"}]
    /\ rejecting \subseteq Calls
    /\ leg \in [Calls -> {"none", "invited", "dialing", "talking", "returned",
                          "hanging", "gone"}]
    /\ callId \in [Calls -> Calls \cup {NoCall}]
    /\ dialstatus \in [Calls -> Dialstatus \cup {"none"}]
    /\ faults \in 0..MaxFaults

\* A channel that is ringing or connecting the dialled party.
Live(c) == leg[c] \in {"dialing", "talking"}

\* The accept of one call never starts two dials: no two channels carry the
\* same CALL_ID, although the bridge's accepts do not say which call they mean.
AcceptConsumedOnce ==
    \A c, d \in Calls : callId[c] = callId[d] /\ callId[c] # NoCall => c = d

\* While the dialplan dials or holds a call to the GSM side, the agent knows
\* it as dialling: no sweep, no late reject of the userbot and no report of
\* another channel closes the record, and frees the modem, under a live call.
DialedCallKnown ==
    \A c \in Calls :
        kind[c] # "none" /\ Live(c)
            => state[callId[c]] \in {"gsm_dialing", "lost"}

\* A channel that dials the modem, for a call that has reserved it and that the
\* agent has not forgotten in a restart.
DialsReserved(c) ==
    /\ DialsModem(kind[c]) /\ Live(c)
    /\ HoldsModem(callId[c]) /\ state[callId[c]] # "lost"

\* The dialplan dials one and the same modem for every call, and no two channels
\* do so for calls with a reservation at once: a second dial on the modem is one
\* that OnlyReservedCallsDialModem forbids, or one after a restart.
OneDialPerModem ==
    \A c, d \in Calls : DialsReserved(c) /\ DialsReserved(d) => c = d

\* What a status of Dial means for the user who placed the call; after CANCEL,
\* and when there is none, there is nothing to tell.
Meaning(status) ==
    CASE status = "ANSWER"     -> "answered"
      [] status = "NOANSWER"   -> "no_answer"
      [] status = "BUSY"       -> "busy"
      [] status = "CONGESTION" -> "failed"
      [] OTHER                 -> "nothing"

\* What the user is told of a dial is what Dial returned on the channel that
\* carried the call, or that his own ring expired.  The one exception is the
\* answered call of AnsweredIsNotFailed.
ToldWhatDialReturned ==
    \A c \in Calls :
        told[c] # <<>> =>
            \/ \E d \in Calls :
                  /\ callId[d] = c
                  /\ \/ told[c] = <<Meaning(dialstatus[d])>>
                     \/ dialstatus[d] = "ANSWER" /\ told[c] = <<"failed">>
            \/ /\ told[c] = <<"no_answer">>
               /\ state[c] \in {"telegram_timeout", "lost"}

\* "Dial(Dongle) returned ANSWERED = the target answered and the call ran": a
\* user who has talked to the number he dialled is not told that it failed.
AnsweredIsNotFailed ==
    \A c \in Calls :
        callId[c] # NoCall /\ dialstatus[c] = "ANSWER" => told[callId[c]] # <<"failed">>

\* Some channel carries the call.
Carried(c) == \E d \in Calls : callId[d] = c /\ Live(d)

\* The reply to its accept, or its last report, was lost while it was dialled:
\* no sweep looks at such a record, and it stays until the agent restarts.
Stranded(c) == faults > 0 /\ state[c] = "gsm_dialing"

\* A record whose channel is finished, or that never got one, leaves the
\* registry, through the reports or, when they are lost, through the sweep; only
\* a stranded one need not.
RecordsEnd ==
    \A c \in Calls :
        (c \in registered /\ ~Carried(c))
            ~> (c \notin registered \/ Carried(c) \/ Stranded(c))

\* "A late accept must not ring a real phone for a call that no longer
\* exists": whatever is dialled is dialled for a call in the registry.
NoDialForExpiredCall ==
    \A c \in Calls : kind[c] # "none" /\ leg[c] = "dialing" => state[c] \notin Terminal

\* Internal calls never touch the GSM modem: a channel dials it only for a
\* call that holds its reservation.
OnlyReservedCallsDialModem ==
    \A c \in Calls :
        DialsModem(kind[c]) /\ leg[c] = "dialing" => HoldsModem(callId[c])

\* Voicemail is the outcome of a ring that nobody answered.
VoicemailOnlyUnanswered ==
    \A c \in Calls : state[c] = "voicemail" => leg[c] # "talking"
=============================================================================
