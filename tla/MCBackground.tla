---------------------------- MODULE MCBackground -----------------------------
(* What must go on in the background, for TLC: the AMI connection, the       *)
(* supervisor with the watchdog, and the voicemail.  A behaviour is one of   *)
(* them for good while the others rest, so the state spaces add up.          *)
EXTENDS AmiClient, Supervision, Voicemail

VARIABLE part

backgroundVars == <<vars, supVars, vmVars, part>>

\* Asterisk is down for the parts that rest.
AmiRests ==
    /\ up = FALSE /\ device = "registered" /\ link = "none" /\ retries = 0
    /\ inbox = <<>> /\ stream = <<>> /\ queue = <<>> /\ turn = Idle
    /\ recorded = "unknown" /\ since = {}

SupRests ==
    /\ dongle = "registered" /\ amiUp = FALSE /\ peerUp = TRUE
    /\ provider = [observed |-> FALSE, registered |-> FALSE, signal |-> FALSE]
    /\ supState = Unseen /\ supCycle = AtRest /\ watchdog = [at |-> "rest", fails |-> 0]
    /\ told = "nothing" /\ silenced = FALSE

BgInit ==
    \/ part = "ami" /\ Init /\ SupRests /\ VmInit
    \/ part = "supervision" /\ SupInit /\ dongle \in Devices /\ AmiRests /\ VmInit
    \/ part = "voicemail" /\ VmInit /\ AmiRests /\ SupRests

\* The bounds on what is followed; none stops a step that is fair.

\* A simple action takes whatever message comes, so one kind of reply is enough.
OneReply == \A i \in DOMAIN stream' : stream'[i].kind # "error"

\* The watchdog joins the queue before the reconnector is started, not after.
WatchdogFirst ==
    ~InQueue("watchdog") /\ retries > 0
        => \A i \in DOMAIN queue' : queue'[i] # "watchdog"

\* The modem is there or not, and the peer of the supervisor stays up; MCServices
\* has the rest.
TwoDongles == dongle' \in Devices

\* Posts are interchangeable.
FirstFreePost ==
    \A p \in Posts :
        handler[p] = NoHandler /\ handler'[p] # NoHandler
            => p = CHOOSE q \in Posts : handler[q] = NoHandler

\* One handler that nobody waits for at a time; a forwarder that waits for
\* another still gets its answer.
OneLateHandler ==
    \E p \in Posts : handler'[p] = NoHandler \/ (\E f \in Forwarders : Awaits(f, p))'

BgNext ==
    /\ UNCHANGED part
    /\ \/ /\ part = "ami" /\ Next /\ OneReply /\ WatchdogFirst
          /\ UNCHANGED <<supVars, vmVars>>
       \/ /\ part = "supervision" /\ SupNext /\ TwoDongles
          /\ UNCHANGED <<peerUp, vars, vmVars>>
       \/ /\ part = "voicemail" /\ VmNext /\ FirstFreePost /\ OneLateHandler
          /\ UNCHANGED <<vars, supVars>>

BgSpec == BgInit /\ [][BgNext]_backgroundVars

\* AmiClient.Fairness, SupFairness and VmFairness; what rests is never asked to
\* move.
BgFairSpec ==
    /\ BgSpec
    /\ \A who \in Callers : WF_vars(part = "ami" /\ Transact(who))
    /\ \A k \in Connectors :
          /\ WF_vars(part = "ami" /\ (ConnectSucceeds(k) \/ ConnectFails(k)))
          /\ SF_vars(part = "ami" /\ ConnectSucceeds(k))
    /\ WF_vars(part = "ami" /\ Call("poller"))
    /\ WF_vars(part = "ami" /\ StartConnect("reconnector"))
    /\ WF_vars(part = "ami" /\ ResetArrives)
    /\ WF_supVars(part = "supervision" /\ Poll)
    /\ WF_supVars(part = "supervision" /\ SupCycleStep)
    /\ WF_supVars(part = "supervision" /\ WatchdogStep)
    /\ \A r \in Recordings : WF_vmVars(part = "voicemail" /\ Grow(r))
    /\ WF_vmVars(part = "voicemail" /\ SweepWorks)
    /\ \A f \in Forwarders : WF_vmVars(part = "voicemail" /\ ForwardWorks(f))
    /\ \A p \in Posts : WF_vmVars(part = "voicemail" /\ HandlerWorks(p))
=============================================================================
