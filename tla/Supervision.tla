---------------------------- MODULE Supervision ----------------------------
(***************************************************************************)
(* What the agent does about a modem that goes away and comes back: the    *)
(* poller feeds the provider from the device, the provider derives a state *)
(* (core/modem.py), the watchdog resets a modem that stays broken          *)
(* (core/recovery.py), and the supervisor turns changes of state into      *)
(* alerts to the master user (agent/supervisor.py).  Both are suspended    *)
(* while an alert is on its way.                                           *)
(*                                                                         *)
(* Time is abstracted, and with it the cooldowns of the AlertManager       *)
(* (core/alerting.py), which watchdog and supervisor share: any alert may  *)
(* fall into one, also the first after a boot, since the clock they are    *)
(* measured with starts at the zero that counts as the last sending.       *)
(***************************************************************************)
EXTENDS Naturals

CONSTANTS MaxResets     \* failed checks before a reset

ASSUME ResetsAssumption == MaxResets \in Nat

VARIABLES
    dongle,     \* the modem itself
    amiUp,      \* whether Asterisk answers a status request
    provider,   \* what the provider holds of the device
    peerUp,     \* whether the userbot's node answers a health check
    supState,   \* the supervisor's memory of the last cycle
    supCycle,   \* the cycle in progress: where it is and what it has read
    watchdog,   \* the watchdog: where it is and how many checks have failed
    told,       \* the last alert of the supervisor on the modem that arrived
    silenced    \* history: the last one it wanted to send did not

supVars == <<dongle, amiUp, provider, peerUp, supState, supCycle, watchdog,
             told, silenced>>

\* "searching" reports a signal without a network, "mute" neither.
Dongles == {"absent", "mute", "searching", "registered"}
Rules == {"dongle_offline", "gsm_registration_lost", "modem_recovery",
          "peer_unreachable", "peer_recovery"}
Replies == {"yes", "no"}
Unseen == [present |-> "unseen", registered |-> "unseen", peer |-> "unseen"]
YesNo(b) == IF b THEN "yes" ELSE "no"
AtRest == [at |-> "rest"]
Stages == {"presence", "registration", "recovery", "peer"}
Says == [dongle_offline |-> "offline", gsm_registration_lost |-> "unregistered",
         modem_recovery |-> "recovered"]

SupTypeOK ==
    /\ dongle \in Dongles
    /\ {amiUp, peerUp, silenced} \subseteq BOOLEAN
    /\ provider \in [observed : BOOLEAN, registered : BOOLEAN, signal : BOOLEAN]
    /\ supState \in [{"present", "registered", "peer"} -> Replies \cup {"unseen"}]
    /\ supCycle \in {AtRest} \cup
        [at : Stages, present : Replies, registered : Replies, peer : Replies] \cup
        [at : Stages, present : Replies, registered : Replies, peer : Replies, sends : Rules]
    /\ watchdog \in [at : {"rest", "resetting", "says_recovered", "says_stuck"},
                     fails : 0 .. MaxResets + 1]
    /\ told \in {"nothing", "offline", "unregistered", "recovered"}

SupInit ==
    /\ dongle \in Dongles
    /\ amiUp \in BOOLEAN
    /\ provider = [observed |-> FALSE, registered |-> FALSE, signal |-> FALSE]
    /\ peerUp = TRUE
    /\ supState = Unseen /\ supCycle = AtRest
    /\ watchdog = [at |-> "rest", fails |-> 0]
    /\ told = "nothing" /\ silenced = FALSE

-----------------------------------------------------------------------------
(* The modem, Asterisk, the peer and the calls.                             *)

DongleChanges(d) ==
    /\ dongle # d
    /\ dongle' = d
    /\ UNCHANGED <<amiUp, provider, peerUp, supState, supCycle, watchdog,
                   told, silenced>>

AmiChanges ==
    /\ amiUp' = ~amiUp
    /\ UNCHANGED <<dongle, provider, peerUp, supState, supCycle, watchdog,
                   told, silenced>>

PeerChanges ==
    /\ peerUp' = ~peerUp
    /\ UNCHANGED <<dongle, amiUp, provider, supState, supCycle, watchdog,
                   told, silenced>>

\* _derive_state: without registration the signal tells a searching modem
\* from one that is gone.  "ready" stands for the busy states too: all are
\* online, none is broken.
ProviderState ==
    IF provider.registered THEN "ready"
    ELSE IF provider.signal THEN "initializing" ELSE "offline"

Online == ProviderState \in {"initializing", "ready"}
IsBroken == ProviderState = "offline"

\* One poll.  A modem that reports no signal keeps the one it reported last;
\* without an answer of Asterisk everything is kept.
Poll ==
    /\ amiUp
    /\ provider' =
        IF dongle = "absent"
        THEN [observed |-> TRUE, registered |-> FALSE, signal |-> FALSE]
        ELSE [observed |-> TRUE,
              registered |-> dongle = "registered",
              signal |-> provider.signal \/ dongle # "mute"]
    /\ UNCHANGED <<dongle, amiUp, peerUp, supState, supCycle, watchdog,
                   told, silenced>>

\* A connection that ends under the poll reads as an empty status: no device.
PollCutOff ==
    /\ ~amiUp
    /\ provider' = [observed |-> TRUE, registered |-> FALSE, signal |-> FALSE]
    /\ UNCHANGED <<dongle, amiUp, peerUp, supState, supCycle, watchdog,
                   told, silenced>>

-----------------------------------------------------------------------------
(* The supervisor: one cycle reads the provider once and then asks for up   *)
(* to three alerts, each of which may suspend it.                           *)

NextStage == [presence |-> "registration", registration |-> "recovery",
              recovery |-> "peer", peer |-> "rest"]

\* The alert a stage of the cycle asks for, "none" without an edge.
EdgeAlert(c) ==
    CASE c.at = "presence" /\ supState.present = "yes" /\ c.present = "no" -> "dongle_offline"
      [] c.at = "registration" /\ supState.registered = "yes"
            /\ c.registered = "no" /\ c.present = "yes" -> "gsm_registration_lost"
      [] c.at = "recovery" /\ supState.registered = "no" /\ c.registered = "yes" ->
            "modem_recovery"
      [] c.at = "peer" /\ supState.peer # "unseen" /\ c.peer # supState.peer ->
            IF c.peer = "yes" THEN "peer_recovery" ELSE "peer_unreachable"
      [] OTHER -> "none"

\* Mutant: the state of the modem is read again after the alerts.
RememberLate(c) ==
    supState' = CASE c.at = "recovery" ->
                        [supState EXCEPT !.present = YesNo(Online),
                                         !.registered = YesNo(provider.registered)]
                  [] c.at = "peer" -> [supState EXCEPT !.peer = c.peer]
                  [] OTHER -> supState

\* Mutant: a modem that is away leaves the memory alone.
RememberPresent(c) ==
    supState' = CASE c.at = "recovery" /\ c.present = "yes" ->
                        [supState EXCEPT !.present = c.present, !.registered = c.registered]
                  [] c.at = "peer" -> [supState EXCEPT !.peer = c.peer]
                  [] OTHER -> supState

\* What the cycle keeps for the next one, after the stage of its alerts.
Remember(c) ==
    supState' = CASE c.at = "recovery" ->
                        [supState EXCEPT !.present = c.present, !.registered = c.registered]
                  [] c.at = "peer" -> [supState EXCEPT !.peer = c.peer]
                  [] OTHER -> supState

Advance(c) ==
    /\ Remember(c)
    /\ supCycle' = IF c.at = "peer" THEN AtRest
                   ELSE [at |-> NextStage[c.at], present |-> c.present,
                         registered |-> c.registered, peer |-> c.peer]

\* check_all, then the provider's snapshot.
CycleStarts ==
    /\ supCycle = AtRest
    /\ supCycle' = [at |-> "presence", present |-> YesNo(Online),
                    registered |-> YesNo(provider.registered), peer |-> YesNo(peerUp)]
    /\ UNCHANGED <<dongle, amiUp, provider, peerUp, supState, watchdog,
                   told, silenced>>

AtStage == supCycle # AtRest /\ "sends" \notin DOMAIN supCycle

NoAlertHere ==
    /\ AtStage
    /\ EdgeAlert(supCycle) = "none"
    /\ Advance(supCycle)
    /\ UNCHANGED <<dongle, amiUp, provider, peerUp, watchdog, told, silenced>>

\* should_send says no: the edge is gone all the same.
AlertSuppressed ==
    LET rule == EdgeAlert(supCycle) IN
    /\ AtStage
    /\ rule # "none"
    /\ silenced' = (silenced \/ rule \in DOMAIN Says)
    /\ Advance(supCycle)
    /\ UNCHANGED <<dongle, amiUp, provider, peerUp, watchdog, told>>

AlertStarts ==
    LET rule == EdgeAlert(supCycle) IN
    /\ AtStage
    /\ rule # "none"
    /\ supCycle' = [at |-> supCycle.at, present |-> supCycle.present,
                    registered |-> supCycle.registered, peer |-> supCycle.peer,
                    sends |-> rule]
    /\ UNCHANGED <<dongle, amiUp, provider, peerUp, supState, watchdog,
                   told, silenced>>

\* The post to /events/alert and the message to the master: either may fail,
\* and the userbot answers 200 if only the second does.
AlertDone(arrives) ==
    LET c == supCycle IN
    /\ c # AtRest /\ "sends" \in DOMAIN c
    /\ IF c.sends \in DOMAIN Says
       THEN /\ told' = IF arrives THEN Says[c.sends] ELSE told
            /\ silenced' = ~arrives
       ELSE UNCHANGED <<told, silenced>>
    /\ Advance(c)
    /\ UNCHANGED <<dongle, amiUp, provider, peerUp, watchdog>>

-----------------------------------------------------------------------------
(* The watchdog.                                                            *)

\* make_modem_check: a modem that was never observed has not failed.
Healthy == ~provider.observed \/ ~IsBroken

Count(n) == IF n > MaxResets THEN n ELSE n + 1

WatchdogCheck ==
    LET fails == IF Healthy THEN watchdog.fails ELSE Count(watchdog.fails)
        next == IF Healthy THEN IF fails > 0 THEN "says_recovered" ELSE "rest"
                ELSE IF fails >= MaxResets THEN "resetting" ELSE "rest"
    IN
    /\ watchdog.at = "rest"
    /\ watchdog' = [at |-> next, fails |-> fails]
    /\ UNCHANGED <<dongle, amiUp, provider, peerUp, supState, supCycle,
                   told, silenced>>

\* The reset, a new connection to the AMI, works or raises.
ResetDone(works) ==
    /\ watchdog.at = "resetting"
    /\ works => amiUp
    /\ watchdog' = IF works THEN [at |-> "rest", fails |-> 0]
                   ELSE [watchdog EXCEPT !.at = "says_stuck"]
    /\ UNCHANGED <<dongle, amiUp, provider, peerUp, supState, supCycle,
                   told, silenced>>

\* Its alert is through, whatever became of it.
WatchdogTold ==
    /\ watchdog.at \in {"says_recovered", "says_stuck"}
    /\ watchdog' = IF watchdog.at = "says_recovered" THEN [at |-> "rest", fails |-> 0]
                   ELSE [watchdog EXCEPT !.at = "rest"]
    /\ UNCHANGED <<dongle, amiUp, provider, peerUp, supState, supCycle,
                   told, silenced>>

SupCycleStep ==
    CycleStarts \/ NoAlertHere \/ AlertSuppressed \/ AlertStarts \/ \E b \in BOOLEAN : AlertDone(b)

WatchdogStep == WatchdogCheck \/ WatchdogTold \/ \E b \in BOOLEAN : ResetDone(b)

SupNext ==
    \/ \E d \in Dongles : DongleChanges(d)
    \/ AmiChanges \/ PeerChanges \/ Poll \/ PollCutOff
    \/ SupCycleStep \/ WatchdogStep

SupSpec == SupInit /\ [][SupNext]_supVars

\* Poller, supervisor and watchdog are loops of the event loop: each sleeps for
\* its interval and goes on, and an alert ends with its request's timeout.
SupFairness ==
    WF_supVars(Poll) /\ WF_supVars(SupCycleStep) /\ WF_supVars(WatchdogStep)

-----------------------------------------------------------------------------
\* Between two cycles, what the supervisor last told the master of the modem
\* is how it last saw it, unless that alert fell into a cooldown or was lost:
\* no edge goes by because of what happened while an alert was on its way.
SupToldWhatItSaw ==
    supCycle = AtRest /\ ~silenced =>
        /\ supState.registered = "yes" => told \in {"recovered", "nothing"}
        /\ supState.registered = "no" => told # "recovered"

\* A modem that stays registered, or away, while Asterisk answers is in the end
\* seen as that by the supervisor, whatever its alerts run into.
SupSeesDevice ==
    /\ <>[](dongle = "registered" /\ amiUp) => <>[](supState.registered = "yes")
    /\ <>[](dongle = "absent" /\ amiUp) => <>[](supState.present = "no")
=============================================================================
