---------------------------- MODULE ModemProfile ----------------------------
(***************************************************************************)
(* The modem profile tool (scripts/modem_profile.py): it keeps one profile *)
(* per modem and switches the machine from one to another.  A switch       *)
(* writes its files one after the other and restarts what reads them;      *)
(* it may be cut between any two of these steps (the terminal goes away),  *)
(* and the tool keeps nothing in memory from one command to the next.      *)
(*                                                                         *)
(* What a profile says is its channel name and its ports; dongle.conf and  *)
(* the udev rules, which are rendered together from both, are one file     *)
(* here.  The globals, which only name the modem in reports, are left out. *)
(***************************************************************************)
EXTENDS Naturals

CONSTANTS
    Profiles,       \* names of profiles
    Channels,       \* channel names, dongle_name
    Ports,          \* what else a profile says of its modem
    Absent,         \* no such file
    Installed       \* the profile the installation has created

ASSUME ProfileConstants == Installed \in Profiles /\ Absent \notin Profiles

VARIABLES
    book,           \* the profiles directory
    mpDisk,         \* dongle.conf, simbridge.yaml, active_modem
    mpAsterisk,     \* what the running Asterisk has read
    mpAgent,        \* the channel the running agent has read
    tool,           \* the command that runs
    tried,          \* history: what Asterisk has ever run with
    captured,       \* history: what a capture found before Asterisk had run with it
    good,           \* history: what the last switch that reached all was to
    spoilt          \* history: other switches since then, 2 for more than one

mpVars == <<book, mpDisk, mpAsterisk, mpAgent, tool, tried, captured, good, spoilt>>

Contents == [channel : Channels, ports : Ports]
Entries == [channel : Channels, ports : Ports, verified : BOOLEAN]
ContentOf(e) == [channel |-> e.channel, ports |-> e.ports]
NoTool == [at |-> "none"]
Steps == {"artifacts", "yaml", "pointer", "asterisk", "agent", "verify",
          "success", "failed", "in_sync"}

MpTypeOK ==
    /\ book \in [Profiles -> Entries \cup {Absent}]
    /\ mpDisk \in [dongle : Contents, yaml : Channels, active : Profiles]
    /\ mpAsterisk \in Contents
    /\ mpAgent \in Channels
    /\ tool \in {NoTool} \cup [at : Steps, profile : Profiles, renames : BOOLEAN]
    /\ tried \subseteq Contents /\ captured \subseteq Contents
    /\ good \in Contents
    /\ spoilt \in 0 .. 2

\* What cmd_init and the first start leave behind.
MpInit ==
    \E c \in Contents :
        /\ book = [p \in Profiles |-> IF p = Installed
                        THEN [channel |-> c.channel, ports |-> c.ports, verified |-> FALSE]
                        ELSE Absent]
        /\ mpDisk = [dongle |-> c, yaml |-> c.channel, active |-> Installed]
        /\ mpAsterisk = c
        /\ mpAgent = c.channel
        /\ tool = NoTool
        /\ tried = {c} /\ captured = {}
        /\ good = c
        /\ spoilt = 0

-----------------------------------------------------------------------------
(* The commands that change profiles, and apply.                            *)

WriteProfile(p, e) ==
    /\ book' = [book EXCEPT ![p] = e]
    /\ UNCHANGED <<mpDisk, mpAsterisk, mpAgent, tool, tried, good, spoilt>>

\* new: an existing profile is overwritten with --force.
NewProfile(p, c) ==
    /\ tool = NoTool
    /\ WriteProfile(p, [channel |-> c.channel, ports |-> c.ports, verified |-> FALSE])
    /\ UNCHANGED captured

\* capture: the channel comes from the yaml, the ports from dongle.conf.  What
\* Asterisk runs with is not looked at, and the profile is marked all the same.
CaptureLive(p) ==
    LET found == [channel |-> mpDisk.yaml, ports |-> mpDisk.dongle.ports]
    IN  /\ tool = NoTool
        /\ WriteProfile(p, [channel |-> found.channel, ports |-> found.ports,
                            verified |-> TRUE])
        /\ captured' = captured \cup ({found} \ tried)

\* Mutant: new ports leave the mark.
ProbeCommitVerified(p, ports) ==
    /\ tool = NoTool
    /\ book[p] # Absent
    /\ WriteProfile(p, [book[p] EXCEPT !.ports = ports])
    /\ UNCHANGED captured

\* probe --commit: a profile keeps its channel and gets the ports that were
\* found; what it says now has not been tried.
ProbeCommit(p, ports) ==
    /\ tool = NoTool
    /\ book[p] # Absent
    /\ WriteProfile(p, [book[p] EXCEPT !.ports = ports, !.verified = FALSE])
    /\ UNCHANGED captured

\* The operator marks the active profile after a live check.
MarkVerified(p) ==
    /\ tool = NoTool
    /\ p = mpDisk.active /\ book[p] # Absent
    /\ mpAsterisk = ContentOf(book[p])
    /\ WriteProfile(p, [book[p] EXCEPT !.verified = TRUE])
    /\ UNCHANGED captured

\* apply: dongle.conf and the udev rules, and no restart.
ApplyProfile(p) ==
    /\ tool = NoTool
    /\ book[p] # Absent
    /\ mpDisk' = [mpDisk EXCEPT !.dongle = ContentOf(book[p])]
    /\ UNCHANGED <<book, mpAsterisk, mpAgent, tool, tried, captured, good, spoilt>>

-----------------------------------------------------------------------------
(* use: the switch.                                                         *)

InSync(p) ==
    /\ mpDisk.active = p
    /\ mpDisk.dongle = ContentOf(book[p])
    /\ mpDisk.yaml = book[p].channel

\* Mutant: the old channel is taken from the profile that was active.
UseStartsFromBook(p, force) ==
    /\ tool = NoTool
    /\ book[p] # Absent
    /\ book[p].verified \/ force
    /\ tool' = [at |-> IF InSync(p) THEN "in_sync" ELSE "artifacts", profile |-> p,
                renames |-> \/ book[mpDisk.active] = Absent
                            \/ book[mpDisk.active].channel # book[p].channel]
    /\ UNCHANGED <<book, mpDisk, mpAsterisk, mpAgent, tried, captured, good, spoilt>>

\* The checks at the start.  The yaml's old channel is kept: it decides later
\* whether the agent is restarted.
UseStarts(p, force) ==
    /\ tool = NoTool
    /\ book[p] # Absent
    /\ book[p].verified \/ force
    /\ tool' = [at |-> IF InSync(p) THEN "in_sync" ELSE "artifacts", profile |-> p,
                renames |-> mpDisk.yaml # book[p].channel]
    /\ UNCHANGED <<book, mpDisk, mpAsterisk, mpAgent, tried, captured, good, spoilt>>

Goes(from, to) == tool.at = from /\ tool' = [tool EXCEPT !.at = to]

UseArtifacts ==
    /\ Goes("artifacts", "yaml")
    /\ mpDisk' = [mpDisk EXCEPT !.dongle = ContentOf(book[tool.profile])]
    /\ UNCHANGED <<book, mpAsterisk, mpAgent, tried, captured, good, spoilt>>

UseYaml ==
    /\ Goes("yaml", "pointer")
    /\ mpDisk' = [mpDisk EXCEPT !.yaml = book[tool.profile].channel]
    /\ UNCHANGED <<book, mpAsterisk, mpAgent, tried, captured, good, spoilt>>

UsePointer ==
    /\ Goes("pointer", "asterisk")
    /\ mpDisk' = [mpDisk EXCEPT !.active = tool.profile]
    /\ UNCHANGED <<book, mpAsterisk, mpAgent, tried, captured, good, spoilt>>

UseAsterisk ==
    /\ Goes("asterisk", "agent")
    /\ mpAsterisk' = mpDisk.dongle
    /\ tried' = tried \cup {mpDisk.dongle}
    /\ UNCHANGED <<book, mpDisk, mpAgent, captured, good, spoilt>>

\* Only a new channel name restarts the agent.
UseAgent ==
    /\ Goes("agent", "verify")
    /\ mpAgent' = IF tool.renames THEN mpDisk.yaml ELSE mpAgent
    /\ UNCHANGED <<book, mpDisk, mpAsterisk, tried, captured, good, spoilt>>

\* Success needs the channel among the devices Asterisk lists.
UseVerified(works) ==
    /\ tool.at = "verify"
    /\ works => mpAsterisk.channel = book[tool.profile].channel
    /\ tool' = [tool EXCEPT !.at = IF works THEN "success" ELSE "failed"]
    /\ UNCHANGED <<book, mpDisk, mpAsterisk, mpAgent, tried, captured, good, spoilt>>

Spoil == IF spoilt = 2 THEN 2 ELSE spoilt + 1

UseEnds ==
    /\ tool # NoTool /\ tool.at \in {"success", "failed", "in_sync"}
    /\ tool' = NoTool
    /\ IF tool.at = "success"
          /\ mpAgent = book[tool.profile].channel
       THEN good' = ContentOf(book[tool.profile]) /\ spoilt' = 0
       ELSE good' = good /\ spoilt' = IF tool.at = "in_sync" THEN spoilt ELSE Spoil
    /\ UNCHANGED <<book, mpDisk, mpAsterisk, mpAgent, tried, captured>>

\* The switch is cut: what it knew is gone.
UseCut ==
    /\ tool # NoTool /\ tool.at \notin {"success", "failed", "in_sync"}
    /\ tool' = NoTool
    /\ spoilt' = Spoil
    /\ UNCHANGED <<book, mpDisk, mpAsterisk, mpAgent, tried, captured, good>>

\* A restart of the machine, or of Asterisk after a crash.
AsteriskRestarts ==
    /\ mpAsterisk' = mpDisk.dongle
    /\ tried' = tried \cup {mpDisk.dongle}
    /\ UNCHANGED <<book, mpDisk, mpAgent, tool, captured, good, spoilt>>

UseStep ==
    \/ UseArtifacts \/ UseYaml \/ UsePointer \/ UseAsterisk \/ UseAgent
    \/ \E b \in BOOLEAN : UseVerified(b)
    \/ UseEnds

MpNext ==
    \/ \E p \in Profiles, c \in Contents : NewProfile(p, c)
    \/ \E p \in Profiles : CaptureLive(p) \/ MarkVerified(p) \/ ApplyProfile(p)
    \/ \E p \in Profiles, ports \in Ports : ProbeCommit(p, ports)
    \/ \E p \in Profiles, force \in BOOLEAN : UseStarts(p, force)
    \/ tool # NoTool /\ UseStep
    \/ UseCut
    \/ AsteriskRestarts

MpSpec == MpInit /\ [][MpNext]_mpVars

-----------------------------------------------------------------------------
\* A mark says what was tried, and a switch without --force goes by the mark
\* alone.  Through edits, probes, switches that are cut and profiles that are
\* overwritten, a marked profile says something that Asterisk has run with, or
\* something that a capture took from files Asterisk had not read: of these the
\* mark is the capture's word and no more.
MpVerifiedTried ==
    \A p \in Profiles :
        book[p] # Absent =>
            (book[p].verified => ContentOf(book[p]) \in tried \cup captured)

\* "Rollback at any point": after one switch that failed or was cut anywhere,
\* a use of what worked before that ends well has everything back: the files,
\* Asterisk, and the agent, which is restarted only if the yaml's channel
\* changes.  After two, the agent may keep the wrong channel.
MpRollbackWorks ==
    (/\ tool # NoTool /\ tool.at = "success" /\ spoilt <= 1
     /\ ContentOf(book[tool.profile]) = good)
    => /\ InSync(tool.profile)
       /\ mpAsterisk = good
       /\ mpAgent = good.channel

=============================================================================
