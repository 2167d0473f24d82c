----------------------------- MODULE MCServices ------------------------------
(* The parts around the calls, for TLC.  They share no state with each other *)
(* and are modules of their own; a behaviour is one of them for good while   *)
(* the others rest, so the state spaces add up.                              *)
EXTENDS Blacklist, Voicemail, Admission, Supervision, ModemProfile, Installer

VARIABLE part

servicesVars == <<blVars, vmVars, admVars, supVars, mpVars, instVars, part>>

BlRests == BlInit /\ oneNode = TRUE
AdmRests == AdmInit /\ sender = [r \in Requests |-> CHOOSE u \in Users : TRUE]
SupRests == SupInit /\ dongle = "absent" /\ amiUp = FALSE
MpRests ==
    /\ book = [p \in Profiles |-> Absent]
    /\ mpDisk = Absent /\ mpAsterisk = Absent /\ mpAgent = Absent /\ good = Absent
    /\ tool = NoTool /\ tried = {} /\ captured = {} /\ spoilt = 0
InstRests == InstInit /\ inDisk.agidir = "default" /\ inAsterisk.up = FALSE

\* Channels and ports are interchangeable, so one content stands for all.
AnyContent == [channel |-> CHOOSE c \in Channels : TRUE, ports |-> CHOOSE p \in Ports : TRUE]

Installations == {"tokens", "passwords", "releases", "settings"}

ServicesInit ==
    /\ part \in {"blacklist", "voicemail", "admission", "supervision", "profiles"}
                    \cup Installations
    /\ VmInit
    /\ IF part = "blacklist" THEN BlInit ELSE BlRests
    /\ IF part = "admission" THEN AdmInit ELSE AdmRests
    /\ IF part = "supervision" THEN SupInit ELSE SupRests
    /\ IF part = "profiles" THEN MpInit /\ tried = {AnyContent} ELSE MpRests
    /\ IF part \in Installations THEN InstInit ELSE InstRests
    /\ part \in Installations \ {"releases"} => inDisk.agidir = "default"

\* An operator edits the file that the dialplan reads.  Everything happens to
\* one number; the others are only ever blocked, and not doubted.
OneNumber == CHOOSE n \in Numbers : TRUE
EditsOfAgentFile ==
    doing' = doing /\ command' = command /\ file' # file =>
        /\ file'["agent"] # file["agent"]
        /\ \A n \in Numbers \ {OneNumber} : n \in file'["agent"] <=> n \in file["agent"]
OthersAreBlocked ==
    /\ doubted' \subseteq {OneNumber}
    /\ \A q \in Commands :
        command'[q] # NoCommand /\ command'[q].kind = "unblock"
            => command'[q].number = OneNumber

\* On two nodes the managers share nothing: what one does in between can wait.
OneAtWork == oneNode \/ \E m \in Managers : doing'[m] = Idle

\* Commands are interchangeable.
CommandsInOrder ==
    \A q \in Commands :
        command[q] = NoCommand /\ command'[q] # NoCommand
            => q = CHOOSE c \in Commands : command[c] = NoCommand

\* Reads are the agent's, and of a file that it has not seen.
ReadsThatLoad ==
    \A m \in Managers :
        doing[m] = Idle /\ doing'[m] # Idle /\ doing'[m].of = "read"
            => m = "agent" /\ ~current[m]

\* The userbot has its users in one order.
UsersInOrder ==
    \A p \in Posts : handler'[p] # NoHandler =>
        \/ handler'[p].to \in {{}, Audience}
        \/ (CHOOSE u \in Audience : TRUE) \notin handler'[p].to

\* A recording that is excused for one property and for the other is left.
StillOfInterest == excused' \cap repeated' = {}

\* Posts are interchangeable.
PostsInOrder ==
    \A p \in Posts :
        handler[p] = NoHandler /\ handler'[p] # NoHandler
            => p = CHOOSE q \in Posts : handler[q] = NoHandler

\* Requests are interchangeable.
RequestsInOrder ==
    \A r \in Requests :
        result[r] = "none" /\ result'[r] # "none"
            => r = CHOOSE q \in Requests : result[q] = "none"

\* The watchdog writes nothing that the supervisor reads; MCBackground has it.
WatchdogRests == watchdog' = watchdog

\* A profile differs from what the machine began with in the channel or in the
\* ports; the installed one in the ports.
OneDifference ==
    /\ book'[Installed].channel = AnyContent.channel
    /\ \A p \in Profiles : book'[p] # Absent =>
        book'[p].channel = AnyContent.channel \/ book'[p].ports = AnyContent.ports

\* The installer is followed four times: through any tokens and any action, with
\* all files of the repository in order; through any passwords, likewise; through
\* the releases and modules that may be missing, without a removal; through the
\* answers, with a generator that may fail and a dialplan that may be missing,
\* likewise.
OneRelease == inDisk'.app <= 1
OneSetting == setup' # NoSetup => setup'.settings = 1
OnePassword == setup' # NoSetup => setup'.ami = CHOOSE p \in AmiSecrets : TRUE
OneToken == setup' # NoSetup => setup'.token = CHOOSE t \in Tokens : TRUE
NoRemoval == OnePassword /\ OneToken /\ (setup' # NoSetup => setup'.action # "remove")
WarnsOf(w) ==
    setup' # NoSetup => setup'.warned \subseteq w /\ Cardinality(setup'.warned) <= 1

\* While Asterisk has not been told of a change, a run does not stop half way.
OneStop ==
    unread # {} /\ setup # NoSetup /\ setup' = NoSetup => setup.at = "ended" \/ unread' = {}

\* With any secrets, an Asterisk that is up comes up again.
AsteriskRestartsWell == inAsterisk'.up \/ inAsterisk' = inAsterisk

ServicesNext ==
    /\ UNCHANGED part
    /\ \/ /\ part = "blacklist" /\ BlNext /\ EditsOfAgentFile /\ ReadsThatLoad /\ OthersAreBlocked
          /\ CommandsInOrder /\ OneAtWork
          /\ UNCHANGED <<vmVars, admVars, supVars, mpVars, instVars>>
       \/ /\ part = "voicemail" /\ VmNext /\ UsersInOrder /\ PostsInOrder /\ StillOfInterest
          /\ UNCHANGED <<blVars, admVars, supVars, mpVars, instVars>>
       \/ /\ part = "admission" /\ AdmNext /\ RequestsInOrder
          /\ UNCHANGED <<blVars, vmVars, supVars, mpVars, instVars>>
       \/ /\ part = "supervision" /\ SupNext /\ WatchdogRests
          /\ UNCHANGED <<blVars, vmVars, admVars, mpVars, instVars>>
       \/ /\ part = "profiles" /\ MpNext /\ OneDifference
          /\ UNCHANGED <<blVars, vmVars, admVars, supVars, instVars>>
       \/ /\ part = "tokens" /\ InstNext /\ OneStop /\ AsteriskRestartsWell
          /\ OnePassword /\ OneRelease /\ OneSetting /\ WarnsOf({})
          /\ UNCHANGED <<blVars, vmVars, admVars, supVars, mpVars>>
       \/ /\ part = "passwords" /\ InstNext /\ OneStop /\ AsteriskRestartsWell
          /\ OneToken /\ OneRelease /\ OneSetting /\ WarnsOf({"profile"})
          /\ UNCHANGED <<blVars, vmVars, admVars, supVars, mpVars>>
       \/ /\ part = "releases" /\ InstNext /\ OneStop
          /\ NoRemoval /\ OneSetting /\ WarnsOf({"modules"})
          /\ UNCHANGED <<blVars, vmVars, admVars, supVars, mpVars>>
       \/ /\ part = "settings" /\ InstNext /\ OneStop
          /\ NoRemoval /\ OneRelease /\ WarnsOf({"dialplan", "generate"})
          /\ UNCHANGED <<blVars, vmVars, admVars, supVars, mpVars>>

ServicesSpec == ServicesInit /\ [][ServicesNext]_servicesVars

ServicesTypeOK ==
    /\ BlTypeOK /\ VmTypeOK /\ AdmTypeOK /\ SupTypeOK /\ InstTypeOK
    /\ part = "profiles" => MpTypeOK
=============================================================================
