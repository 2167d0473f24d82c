------------------------------- MODULE MCCalls -------------------------------
(* The calls for TLC, with either kind of client.  "any" client calls any    *)
(* endpoint of the agent in any order, as CallControl assumes; the "real"    *)
(* ones are the userbot, the bridge and the dialplan of CallSystem.  A       *)
(* behaviour has one kind of client for good, so the two state spaces add up. *)
EXTENDS MCCallSystem, FiniteSets

VARIABLE clients

callsVars == <<allVars, clients>>

CallsInit == SysInit /\ clients \in {"any", "real"}

\* Overlapping sweeps are left to the clients that do the worst.
OneSweep == Cardinality({s \in Sweeps : sweep'[s] # IdleSweep}) <= 1

\* The dialplan knows one modem.  Any client may have a pool of several, all
\* alike.
Pool == IF clients = "real" THEN {Dongle} ELSE Modems \ {Dongle}

AnyClient  ==
    /\ clients = "any" /\ Next /\ UNCHANGED sysVars
    /\ Dongle \notin ready'
    /\ \A c \in Calls : modem'[c] # Dongle
RealClient == clients = "real" /\ SysNext /\ OneSweep

\* The bounds on what is followed.  The first three leave out only behaviours that
\* differ from one followed in what no property sees.

\* Nothing but Available reads ready: a modem that stops being ready only takes
\* choices away from the calls that follow, and one that becomes ready may as well
\* have done so before the calls there are.  So all are ready when a call begins.
StaysReady ==
    ready' # ready => \/ registered = {} /\ ready \subseteq ready'
                      \/ registered' # registered
AllReady == registered' \subseteq registered \/ ready = Pool

\* What counts is whether a call has a leg to hang up: a late one is recorded
\* where there is none.
FirstLeg ==
    \A c \in Calls :
        legs[c] # {} => legs'[c] = legs[c]

\* Handlers and sweeps in flight at once.
MaxInFlight == 3
InFlight ==
    Cardinality(waiting') + Cardinality({s \in Sweeps : sweep'[s] # IdleSweep}) <= MaxInFlight

CallsNext ==
    /\ AnyClient \/ RealClient
    /\ StaysReady /\ AllReady /\ FirstLeg /\ InFlight
    /\ UNCHANGED clients

CallsSpec == CallsInit /\ [][CallsNext]_callsVars

\* For liveness no calls are interchangeable, so the ids are issued in one order.
InOrder ==
    \A c \in Calls :
        state[c] = "idle" /\ state'[c] # "idle"
            => c = CHOOSE d \in Calls : state[d] = "idle"

\* One of each fate: the user is told and the call removed after that, or its legs
\* are hung up first.
FewStatuses == \A c \in Calls : dialstatus'[c] \in {"none", "BUSY", "CANCEL", "ANSWER"}

\* One call is enough for any client: what a call waits for is its own sweep
\* and its own handlers.  The real clients confuse two.
OneCall == clients = "any" => Cardinality({c \in Calls : state'[c] # "idle"}) <= 1

CallsLiveNext ==
    /\ AnyClient \/ RealClient
    /\ StaysReady /\ AllReady /\ FirstLeg /\ InOrder /\ OneCall /\ FewStatuses
    /\ UNCHANGED clients

\* The fairness of SysFairSpec; with any client no channel ever reports.  No
\* bound stops a step that is fair: none of these makes a modem ready, records a
\* leg, begins a call or ends a dial.
CallsFairSpec ==
    /\ CallsInit /\ [][CallsLiveNext]_callsVars
    /\ Fairness
    /\ \A c \in Calls : /\ WF_allVars(ReportDialstatus(c))
                        /\ WF_allVars(ReportEnded(c))

CallsSymmetry == Symmetry \cup Permutations(Sweeps)

\* ToldWhatDialReturned: what the user is told of a dial of the dialplan is what
\* Dial returned (any client may report anything).
RealOutcomeTold == clients = "real" => ToldWhatDialReturned

=============================================================================
