----------------------------- MODULE Installer -----------------------------
(***************************************************************************)
(* The installer on a GSM node (deploy/install.py): one run writes the     *)
(* files of the node step by step and at its end applies them, restarting  *)
(* or reloading Asterisk and the agent.  What has to be restarted is only  *)
(* known to the run that changed it.  A run may stop at every step: a      *)
(* command that fails ends it, and so do a missing module and Ctrl-C; the  *)
(* next one starts over from what it finds on the disk.                    *)
(*                                                                         *)
(* A file is what the properties tell apart of it: the release it comes    *)
(* from, the secret in it, or the answers that it was written from.  The   *)
(* token stands for the three secrets that the peer node must share.       *)
(***************************************************************************)
EXTENDS Naturals

CONSTANTS
    AmiSecrets,     \* AMI passwords
    Tokens,         \* secrets shared with the peer node
    NoSecret,
    Releases,       \* releases of the repository are 1 .. Releases
    Settings        \* ways to answer the other questions are 1 .. Settings

ASSUME InstallerConstants ==
    /\ NoSecret \notin AmiSecrets \cup Tokens
    /\ Releases \in Nat /\ Settings \in Nat

VARIABLES
    inDisk,         \* the files
    inAsterisk,     \* what the running Asterisk has read
    inAgent,        \* what the running agent has read
    setup,          \* the run of the installer
    promised,       \* history: the token the peer node was last given
    unread          \* history: what changed and no run has told Asterisk of

instVars == <<inDisk, inAsterisk, inAgent, setup, promised, unread>>

NoSetup == [at |-> "none"]
SetupSteps == {"remove", "deploy", "ami", "conf", "env", "dialplan", "modules", "generate",
               "profile", "agidir", "dropin", "enable", "asterisk", "agent", "ended"}
Flags == {"config", "restart"}
Warnings == {"dialplan", "modules", "generate", "profile"}

\* What a reload reads, and what only a start does.
ReloadFields == {"dialplan", "custom", "pjsip", "globals"}
StartFields == {"modules", "agidir"}

Disks == [app : 0 .. Releases, dialplan : 0 .. Releases, modules : 0 .. Releases,
          conf : 0 .. Settings, globals : 0 .. Settings, dropin : BOOLEAN, dongle : BOOLEAN,
          agidir : {"no_file", "default", "pinned"},
          custom : AmiSecrets \cup {NoSecret}, ami : AmiSecrets \cup {NoSecret},
          token : Tokens \cup {NoSecret}, pjsip : Tokens \cup {NoSecret}]
Asterisks == [up : BOOLEAN, dialplan : 0 .. Releases, modules : 0 .. Releases,
              globals : 0 .. Settings, agidir : {"default", "pinned"}, custom : AmiSecrets \cup {NoSecret},
              pjsip : Tokens \cup {NoSecret}, token : Tokens \cup {NoSecret}]
\* An agent that a removal could not stop has outlived its files.
Agents == [up : BOOLEAN, token : Tokens \cup {NoSecret}, outlived : BOOLEAN]
Setups == [at : SetupSteps, action : {"install", "update", "remove"}, ami : AmiSecrets,
           token : Tokens, settings : 1 .. Settings, flags : SUBSET Flags,
           warned : SUBSET Warnings]

InstTypeOK ==
    /\ inDisk \in Disks /\ inAsterisk \in Asterisks /\ inAgent \in Agents
    /\ setup \in {NoSetup} \cup Setups
    /\ promised \in Tokens \cup {NoSecret}
    /\ unread \subseteq ReloadFields \cup StartFields

\* A machine without SimBridge: the distribution may drop asterisk.conf.
InstInit ==
    /\ \E file \in {"no_file", "default"} :
        inDisk = [app |-> 0, dialplan |-> 0, modules |-> 0, conf |-> 0, globals |-> 0,
                  dropin |-> FALSE, dongle |-> FALSE, agidir |-> file, custom |-> NoSecret, ami |-> NoSecret,
                  token |-> NoSecret, pjsip |-> NoSecret]
    /\ \E up \in BOOLEAN :
        inAsterisk = [up |-> up, dialplan |-> 0, modules |-> 0, globals |-> 0,
                      agidir |-> "default", custom |-> NoSecret, pjsip |-> NoSecret, token |-> NoSecret]
    /\ inAgent = [up |-> FALSE, token |-> NoSecret, outlived |-> FALSE]
    /\ setup = NoSetup /\ promised = NoSecret /\ unread = {}

-----------------------------------------------------------------------------
(* What a start reads, and what a reload does.                              *)

\* The hooks of the dialplan inherit the environment of Asterisk: the drop-in
\* names the env file.
AsteriskFrom(disk) ==
    [up |-> TRUE, dialplan |-> disk.dialplan, modules |-> disk.modules,
     globals |-> disk.globals, agidir |-> IF disk.agidir = "pinned" THEN "pinned" ELSE "default",
     custom |-> disk.custom, pjsip |-> disk.pjsip,
     token |-> IF disk.dropin THEN disk.token ELSE NoSecret]

Reloaded(disk) ==
    [inAsterisk EXCEPT !.dialplan = disk.dialplan, !.custom = disk.custom,
                       !.pjsip = disk.pjsip, !.globals = disk.globals]

\* What an Asterisk that is up would read anew.
Untold ==
    {f \in ReloadFields \cup StartFields :
        inAsterisk.up /\ inAsterisk[f] # AsteriskFrom(inDisk)[f]}

AgentFrom(disk) == [up |-> TRUE, token |-> disk.token, outlived |-> FALSE]
AgentDown == [inAgent EXCEPT !.up = FALSE, !.outlived = FALSE]

-----------------------------------------------------------------------------
(* Before the first write: the action, the answers and the secrets.         *)

Found == inDisk.app # 0 \/ inDisk.conf # 0

\* An update offers what the files hold, if there is a simbridge.yaml; an
\* operator's answer (NoSecret: none) goes before, and without any the AMI
\* password that Asterisk has is taken, or a new one generated.
KnownAmi(action) ==
    IF action = "update" /\ inDisk.conf # 0 /\ inDisk.ami # NoSecret THEN inDisk.ami
    ELSE inDisk.custom

\* Mutant: an update does not look for the token.
KnownTokenNone(action) == NoSecret

KnownToken(action) == IF action = "update" /\ inDisk.conf # 0 THEN inDisk.token ELSE NoSecret

\* Mutant: nothing is generated.
ChosenOrEmpty(answer, known, generated) == IF answer # NoSecret THEN answer ELSE known

Chosen(answer, known, generated) ==
    IF answer # NoSecret THEN answer ELSE IF known # NoSecret THEN known ELSE generated

SetupStarts(action, ami, token) ==
    /\ setup = NoSetup
    /\ IF Found THEN action \in {"update", "remove"} ELSE action = "install"
    /\ \E newAmi \in AmiSecrets, newToken \in Tokens, settings \in 1 .. Settings :
        setup' = [at |-> "remove", action |-> action,
                  ami |-> Chosen(ami, KnownAmi(action), newAmi),
                  token |-> Chosen(token, KnownToken(action), newToken),
                  settings |-> settings, flags |-> {}, warned |-> {}]
    /\ promised' = IF action = "update" /\ token = NoSecret THEN promised ELSE NoSecret
    /\ UNCHANGED <<inDisk, inAsterisk, inAgent, unread>>

-----------------------------------------------------------------------------
(* The steps that write.                                                    *)

\* A step that writes: the files it leaves, and the flags it raises if it
\* changes one of the fields it is about.
Writes(from, to, disk, fields, flag) ==
    /\ setup.at = from
    /\ inDisk' = disk
    /\ setup' = [setup EXCEPT !.at = to,
                              !.flags = IF \E f \in fields : disk[f] # inDisk[f]
                                        THEN @ \cup {flag} ELSE @]
    /\ UNCHANGED <<inAsterisk, inAgent, promised, unread>>

\* Only what SimBridge owns goes; the files in Asterisk's directory stay.  That
\* systemctl cannot stop the agent is not looked at.
RemoveExisting(stopped) ==
    /\ setup.at = "remove"
    /\ setup' = [setup EXCEPT !.at = "deploy"]
    /\ IF setup.action = "remove"
       THEN /\ inDisk' = [inDisk EXCEPT !.app = 0, !.conf = 0, !.dropin = FALSE,
                                        !.ami = NoSecret, !.token = NoSecret]
            /\ inAgent' = IF inAgent.up /\ ~stopped THEN [inAgent EXCEPT !.outlived = TRUE]
                          ELSE AgentDown
       ELSE UNCHANGED <<inDisk, inAgent>>
    /\ UNCHANGED <<inAsterisk, promised, unread>>

\* The release that is there when the repository is cloned: never an older one
\* than is deployed.
CloneRepo ==
    \E release \in 1 .. Releases :
        /\ release >= inDisk.app
        /\ Writes("deploy", "ami", [inDisk EXCEPT !.app = release], {}, "config")

\* Mutant: a password that is there stays.
SetupAmiOnce ==
    Writes("ami", "conf",
           [inDisk EXCEPT !.custom = IF @ = NoSecret THEN setup.ami ELSE @],
           {"custom"}, "config")

SetupAmi == Writes("ami", "conf", [inDisk EXCEPT !.custom = setup.ami], {"custom"}, "config")

WriteConfig == Writes("conf", "env", [inDisk EXCEPT !.conf = setup.settings], {}, "config")

MergeEnv ==
    Writes("env", "dialplan", [inDisk EXCEPT !.ami = setup.ami, !.token = setup.token],
           {}, "restart")

InstallDialplan ==
    Writes("dialplan", "modules", [inDisk EXCEPT !.dialplan = inDisk.app],
           {"dialplan"}, "config")

\* The repository has no dialplan: every step up to the drop-in is left out, and
\* the run goes on.
NoDialplan ==
    /\ setup.at = "dialplan"
    /\ setup' = [setup EXCEPT !.at = "enable", !.warned = @ \cup {"dialplan"}]
    /\ UNCHANGED <<inDisk, inAsterisk, inAgent, promised, unread>>

\* Without every required module the run ends here (SetupStops).
WriteModulesConf ==
    Writes("modules", "generate", [inDisk EXCEPT !.modules = inDisk.app],
           {"modules"}, "restart")

\* No directory of modules is known: the load list stays, the run goes on.
NoModuleDirectory ==
    /\ setup.at = "modules"
    /\ setup' = [setup EXCEPT !.at = "generate", !.warned = @ \cup {"modules"}]
    /\ UNCHANGED <<inDisk, inAsterisk, inAgent, promised, unread>>

\* The generator of the globals and pjsip.conf, from simbridge.yaml.
GenerateConfig ==
    Writes("generate", "profile",
           [inDisk EXCEPT !.globals = inDisk.conf, !.pjsip = setup.token],
           {"globals", "pjsip"}, "config")

\* It fails before it writes anything, or when the globals are written and it
\* refuses pjsip.conf: the run goes on and no flag is raised.
GenerateFails(half) ==
    /\ setup.at = "generate"
    /\ setup' = [setup EXCEPT !.at = "profile", !.warned = @ \cup {"generate"}]
    /\ inDisk' = IF half THEN [inDisk EXCEPT !.globals = inDisk.conf] ELSE inDisk
    /\ unread' = IF inDisk'.globals = inDisk.globals THEN unread ELSE unread \cup {"globals"}
    /\ UNCHANGED <<inAsterisk, inAgent, promised>>

\* "Updates never re-render": an update leaves the modem's files alone.
InitModemProfile ==
    Writes("profile", "agidir",
           IF setup.action = "update" THEN inDisk ELSE [inDisk EXCEPT !.dongle = TRUE],
           {}, "config")

ProfileFails ==
    /\ setup.at = "profile" /\ setup.action # "update"
    /\ setup' = [setup EXCEPT !.at = "agidir", !.warned = @ \cup {"profile"}]
    /\ UNCHANGED <<inDisk, inAsterisk, inAgent, promised, unread>>

\* Mutant: a reload is thought to be enough.
EnsureAgidirReload ==
    Writes("agidir", "dropin",
           IF inDisk.agidir = "no_file" THEN inDisk ELSE [inDisk EXCEPT !.agidir = "pinned"],
           {"agidir"}, "config")

\* Without an asterisk.conf there is nothing to pin.
EnsureAgidir ==
    Writes("agidir", "dropin",
           IF inDisk.agidir = "no_file" THEN inDisk ELSE [inDisk EXCEPT !.agidir = "pinned"],
           {"agidir"}, "restart")

WriteDropin ==
    Writes("dropin", "enable", [inDisk EXCEPT !.dropin = TRUE], {"dropin"}, "restart")

-----------------------------------------------------------------------------
(* The steps that apply.                                                    *)

\* systemctl start does nothing to an agent that runs.
EnableServices ==
    /\ setup.at = "enable"
    /\ setup' = [setup EXCEPT !.at = "asterisk"]
    /\ inAgent' \in IF inAgent.up THEN {inAgent} ELSE {inAgent, AgentFrom(inDisk)}
    /\ UNCHANGED <<inDisk, inAsterisk, promised, unread>>

\* A missing asterisk.conf is created now, with the defaults.
StartAsterisk(works) ==
    LET disk == IF inDisk.agidir = "no_file" THEN [inDisk EXCEPT !.agidir = "default"]
                ELSE inDisk
        full == ~inAsterisk.up \/ "restart" \in setup.flags
        reload == ~full /\ "config" \in setup.flags
    IN
    /\ setup.at = "asterisk"
    /\ setup' = [setup EXCEPT !.at = "agent"]
    /\ inDisk' = disk
    /\ inAsterisk' = IF full THEN IF works THEN AsteriskFrom(disk)
                               ELSE [inAsterisk EXCEPT !.up = FALSE]
                     ELSE IF reload /\ works THEN Reloaded(disk) ELSE inAsterisk
    /\ unread' = IF full THEN IF works THEN {} ELSE unread
                 ELSE IF ~reload THEN unread
                 ELSE IF works THEN unread \ ReloadFields ELSE unread \cup Untold
    /\ UNCHANGED <<inAgent, promised>>

\* Only an update restarts an agent that runs.
StartAgent(works) ==
    /\ setup.at = "agent"
    /\ setup' = [setup EXCEPT !.at = "ended"]
    /\ inAgent' = IF inAgent.up /\ setup.action # "update" THEN inAgent
                  ELSE IF works THEN AgentFrom(inDisk) ELSE AgentDown
    /\ UNCHANGED <<inDisk, inAsterisk, promised, unread>>

\* Verification changes nothing; the summary prints the token for the peer node.
VerifyAndSummary ==
    /\ setup.at = "ended"
    /\ setup' = NoSetup
    /\ promised' = setup.token
    /\ UNCHANGED <<inDisk, inAsterisk, inAgent, unread>>

\* A command fails, a required module is missing, Ctrl-C: what was changed and
\* what should be restarted is forgotten.
SetupStops ==
    /\ setup # NoSetup /\ setup.at # "ended"
    /\ setup' = NoSetup
    /\ unread' = unread \cup Untold
    /\ UNCHANGED <<inDisk, inAsterisk, inAgent, promised>>

-----------------------------------------------------------------------------
(* Around the installer.                                                    *)

\* The machine comes up again with what is on its disk; an agent that outlived
\* its unit does so if a run has installed the unit again.
MachineReboots(agentStarts) ==
    /\ IF agentStarts THEN inAgent.up /\ Found ELSE ~inAgent.up \/ inAgent.outlived
    /\ setup' = NoSetup
    /\ inAsterisk' = IF inAsterisk.up THEN AsteriskFrom(inDisk) ELSE inAsterisk
    /\ inAgent' = IF agentStarts THEN AgentFrom(inDisk) ELSE AgentDown
    /\ unread' = {}
    /\ UNCHANGED <<inDisk, promised>>

SetupStep ==
    \/ CloneRepo \/ SetupAmi \/ WriteConfig \/ MergeEnv
    \/ InstallDialplan \/ NoDialplan \/ WriteModulesConf \/ NoModuleDirectory \/ GenerateConfig
    \/ InitModemProfile \/ ProfileFails \/ EnsureAgidir \/ WriteDropin \/ EnableServices
    \/ \E b \in BOOLEAN :
            RemoveExisting(b) \/ GenerateFails(b) \/ StartAsterisk(b) \/ StartAgent(b)
    \/ VerifyAndSummary

InstNext ==
    \/ \E action \in {"install", "update", "remove"}, ami \in AmiSecrets \cup {NoSecret},
          token \in Tokens \cup {NoSecret} : SetupStarts(action, ami, token)
    \/ setup # NoSetup /\ SetupStep
    \/ SetupStops
    \/ \E b \in BOOLEAN : MachineReboots(b)

InstSpec == InstInit /\ [][InstNext]_instVars

-----------------------------------------------------------------------------
Ended == setup # NoSetup /\ setup.at = "ended"

\* "Secrets - merge, never clobber": from the moment a run has ended with the
\* token for the peer until an operator asks for another or for a removal, no
\* update, and none that stops half way, changes it on the disk or in a running
\* agent; an agent that systemctl could not stop at a removal has the old one.
InstTokenKept ==
    promised # NoSecret =>
        /\ inDisk.token = promised
        /\ inAgent.up => inAgent.token = promised \/ inAgent.outlived

\* A run that gets to its end leaves files that fit together, whatever the runs
\* before it left behind: the password of the agent is Asterisk's, the SIP
\* credential is the peer's, the globals are from simbridge.yaml, dialplan and
\* load list are of the deployed release; of what a step could not do the run
\* has warned.
InstFilesAgree ==
    Ended =>
        /\ inDisk.custom = inDisk.ami
        /\ setup.warned \cap {"dialplan", "generate"} = {} =>
              inDisk.pjsip = inDisk.token /\ inDisk.globals = inDisk.conf
        /\ "dialplan" \notin setup.warned => inDisk.dialplan = inDisk.app
        /\ setup.warned \cap {"dialplan", "modules"} = {} => inDisk.modules = inDisk.app

\* "phase_start can reload or restart Asterisk with the right urgency": after a
\* run Asterisk has what is on the disk, what only a start reads included, but
\* for what a run that stopped half way, a reload that failed, or a generator
\* that wrote the globals and then failed has left unread since.
InstApplied ==
    Ended /\ inAsterisk.up =>
        \A f \in (ReloadFields \cup StartFields) \ unread : inAsterisk[f] = inDisk[f]

\* "unit EnvironmentFile changed -> restart": after a run the hooks have the
\* token that is in the env file.
InstHooksKnowToken ==
    Ended /\ inAsterisk.up /\ unread = {} => inAsterisk.token = inDisk.token
=============================================================================
