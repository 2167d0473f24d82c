-------------------------- MODULE InstallerProofs ---------------------------
(***************************************************************************)
(* The safety properties of Installer for any secrets and any number of    *)
(* releases.                                                               *)
(*                                                                         *)
(* How far a run is says what it has already written (Progress); each      *)
(* field that Asterisk has not read is either flagged in the run or in     *)
(* unread (AppliedInv); and a token that was promised is found on the disk *)
(* by every later update, because simbridge.yaml is there (KeptInv).       *)
(***************************************************************************)
EXTENDS Installer, TLAPS

Running == setup # NoSetup

AfterAmi == SetupSteps \ {"remove", "deploy", "ami"}
AfterConf == AfterAmi \ {"conf"}
AfterEnv == AfterConf \ {"env"}
AfterDialplan == AfterEnv \ {"dialplan"}
AfterModules == AfterDialplan \ {"modules"}
AfterGenerate == AfterModules \ {"generate"}
AfterEnable == {"asterisk", "agent", "ended"}
AfterStart == {"agent", "ended"}

\* What a run has written by the time it is where it is.
Progress ==
    Running =>
        /\ setup.at \in AfterAmi => inDisk.custom = setup.ami
        /\ setup.at \in AfterConf => inDisk.conf = setup.settings
        /\ setup.at \in AfterEnv => inDisk.ami = setup.ami /\ inDisk.token = setup.token
        /\ setup.at \in AfterDialplan =>
              "dialplan" \in setup.warned \/ inDisk.dialplan = inDisk.app
        /\ setup.at \in AfterModules =>
              "dialplan" \in setup.warned \/ "modules" \in setup.warned
                \/ inDisk.modules = inDisk.app
        /\ setup.at \in AfterGenerate =>
              "dialplan" \in setup.warned \/ "generate" \in setup.warned
                \/ (inDisk.pjsip = setup.token /\ inDisk.globals = inDisk.conf)

\* But for one that outlived its removal, an agent runs only on an installed
\* node; a run that is no update starts it anew, and every run ends with one that
\* has read the run's token.
AgentHas(token) == inAgent.up => inAgent.token = token \/ inAgent.outlived

AgentInv ==
    /\ ~Found => (inAgent.up => inAgent.outlived)
    /\ Running =>
        /\ setup.action = "install" \/ (setup.action = "remove" /\ setup.at # "remove") =>
              IF setup.at \in AfterEnable THEN AgentHas(setup.token)
                                          ELSE inAgent.up => inAgent.outlived
        /\ setup.at = "ended" => AgentHas(setup.token)

KeptInv ==
    promised # NoSecret =>
        /\ inDisk.conf # 0 /\ inDisk.token = promised /\ AgentHas(promised)
        /\ Running => setup.token = promised /\ setup.action = "update"

\* What a reload reads, and what only a start does.
ReloadRead ==
    /\ "dialplan" \in unread \/ inAsterisk.dialplan = inDisk.dialplan
    /\ "custom" \in unread \/ inAsterisk.custom = inDisk.custom
    /\ "pjsip" \in unread \/ inAsterisk.pjsip = inDisk.pjsip
    /\ "globals" \in unread \/ inAsterisk.globals = inDisk.globals

StartRead ==
    /\ "modules" \in unread \/ inAsterisk.modules = inDisk.modules
    /\ "agidir" \in unread \/ (inAsterisk.agidir = "pinned" <=> inDisk.agidir = "pinned")

AppliedInv ==
    inAsterisk.up =>
        IF Running /\ setup.at \notin AfterStart
        THEN /\ StartRead \/ "restart" \in setup.flags
             /\ ReloadRead \/ setup.flags # {}
        ELSE /\ StartRead /\ ReloadRead
             /\ Running => inDisk.agidir # "no_file"

InstInv == InstTypeOK /\ Progress /\ AgentInv /\ KeptInv /\ AppliedInv

USE InstallerConstants DEF InstallerConstants

-----------------------------------------------------------------------------
\* A machine without SimBridge satisfies the invariant.
LEMMA InitInstInv == InstInit => InstInv
<1>. SUFFICES ASSUME InstInit PROVE InstInv
  OBVIOUS
<1>1. InstTypeOK
  <2>1. PICK file \in {"no_file", "default"} :
          inDisk = [app |-> 0, dialplan |-> 0, modules |-> 0, conf |-> 0, globals |-> 0,
                    dropin |-> FALSE, dongle |-> FALSE, agidir |-> file, custom |-> NoSecret, ami |-> NoSecret,
                    token |-> NoSecret, pjsip |-> NoSecret]
    BY DEF InstInit
  <2>2. PICK up \in BOOLEAN :
          inAsterisk = [up |-> up, dialplan |-> 0, modules |-> 0, globals |-> 0,
                        agidir |-> "default", custom |-> NoSecret, pjsip |-> NoSecret, token |-> NoSecret]
    BY DEF InstInit
  <2>3. inDisk \in Disks
    BY <2>1 DEF Disks
  <2>4. inAsterisk \in Asterisks
    BY <2>2 DEF Asterisks
  <2>. QED
    BY <2>3, <2>4 DEF InstInit, InstTypeOK, Agents
<1>2. Progress /\ AgentInv /\ KeptInv
  BY DEF InstInit, Progress, AgentInv, KeptInv, Running, AgentHas, Found
<1>3. AppliedInv
  BY DEF InstInit, AppliedInv, Running, ReloadRead, StartRead
<1>. QED
  BY <1>1, <1>2, <1>3 DEF InstInv

\* A run that goes on has its answers.
LEMMA RunningTyped ==
    ASSUME InstTypeOK, Running
    PROVE  /\ setup \in Setups
           /\ setup.at \in SetupSteps /\ setup.flags \subseteq Flags
           /\ setup.ami \in AmiSecrets /\ setup.token \in Tokens
           /\ setup.settings \in 1 .. Settings /\ setup.warned \subseteq Warnings
  BY DEF InstTypeOK, Running, Setups

\* A run that goes on without an answer changed stays typed.
LEMMA StepTyped ==
    ASSUME InstTypeOK, Running, NEW to \in SetupSteps, NEW flags \in SUBSET Flags,
           NEW warned \in SUBSET Warnings,
           setup' = [setup EXCEPT !.at = to, !.flags = flags, !.warned = warned]
    PROVE  setup' \in Setups
  BY RunningTyped DEF Setups

\* What flags a change: nothing that was read is left behind unflagged.
LEMMA FlaggedApplied ==
    ASSUME AppliedInv, Running, Running', UNCHANGED inAsterisk,
           setup.at \notin AfterStart, setup'.at \notin AfterStart,
           setup.flags \subseteq setup'.flags,
           StartRead => StartRead' \/ "restart" \in setup'.flags,
           ReloadRead => ReloadRead' \/ setup'.flags # {}
    PROVE  AppliedInv'
  BY DEF AppliedInv

\* A step that writes.
LEMMA WritesTyped ==
    ASSUME InstTypeOK, Running, NEW from, NEW to \in SetupSteps, NEW disk \in Disks,
           NEW fields, NEW flag \in Flags, Writes(from, to, disk, fields, flag)
    PROVE  /\ InstTypeOK'
           /\ setup' = [setup EXCEPT !.at = to, !.flags = setup'.flags]
           /\ setup.flags \subseteq setup'.flags
<1>. DEFINE flags == IF \E f \in fields : disk[f] # inDisk[f]
                     THEN setup.flags \cup {flag} ELSE setup.flags
<1>1. setup' = [setup EXCEPT !.at = to, !.flags = flags]
  BY DEF Writes
<1>2. flags \in SUBSET Flags
  BY RunningTyped
<1>3. setup' \in Setups /\ setup'.flags = flags
  <2>. HIDE DEF flags
  <2>. QED
    BY <1>1, <1>2, RunningTyped DEF Setups
<1>4. setup.flags \subseteq flags
  OBVIOUS
<1>5. UNCHANGED <<inAsterisk, inAgent, promised, unread>> /\ inDisk' = disk
  BY DEF Writes
<1>. HIDE DEF flags
<1>. QED
  BY <1>1, <1>3, <1>4, <1>5 DEF InstTypeOK

-----------------------------------------------------------------------------
\* A run starts: an update finds the promised token on the disk.
LEMMA StartsKeeps ==
    ASSUME InstInv, NEW action \in {"install", "update", "remove"},
           NEW ami \in AmiSecrets \cup {NoSecret}, NEW token \in Tokens \cup {NoSecret},
           SetupStarts(action, ami, token)
    PROVE  InstInv'
<1>. USE DEF InstInv, Disks, Setups
<1>1. PICK newAmi \in AmiSecrets, newToken \in Tokens, settings \in 1 .. Settings :
        setup' = [at |-> "remove", action |-> action,
                  ami |-> Chosen(ami, KnownAmi(action), newAmi),
                  token |-> Chosen(token, KnownToken(action), newToken),
                  settings |-> settings, flags |-> {}, warned |-> {}]
  BY DEF SetupStarts
<1>2. /\ Chosen(ami, KnownAmi(action), newAmi) \in AmiSecrets
      /\ Chosen(token, KnownToken(action), newToken) \in Tokens
  BY DEF InstTypeOK, Chosen, KnownAmi, KnownToken
<1>3. UNCHANGED <<inDisk, inAsterisk, inAgent, unread>>
  BY DEF SetupStarts
<1>4. InstTypeOK'
  <2>1. promised' \in Tokens \cup {NoSecret}
    BY DEF SetupStarts, InstTypeOK
  <2>. QED
    BY <1>1, <1>2, <1>3, <2>1 DEF InstTypeOK, SetupSteps
<1>5. setup = NoSetup /\ Running' /\ setup'.at = "remove"
  BY <1>1 DEF SetupStarts, Running, NoSetup
<1>6. Progress'
  BY <1>5 DEF Progress, AfterAmi, AfterConf, AfterEnv, AfterDialplan, AfterModules,
              AfterGenerate
<1>7. AgentInv'
  BY <1>1, <1>3, <1>5 DEF AgentInv, SetupStarts, Found, AfterEnable, Running
<1>8. KeptInv'
  <2>. SUFFICES ASSUME promised' # NoSecret PROVE KeptInv'
    BY DEF KeptInv
  <2>1. action = "update" /\ token = NoSecret /\ promised' = promised
    BY DEF SetupStarts
  <2>2. inDisk.conf # 0 /\ inDisk.token = promised
    BY <2>1 DEF KeptInv
  <2>3. Chosen(token, KnownToken(action), newToken) = promised
    BY <2>1, <2>2 DEF Chosen, KnownToken
  <2>. QED
    BY <1>1, <1>3, <2>1, <2>3 DEF KeptInv, AgentHas
<1>9. AppliedInv'
  BY <1>1, <1>3, <1>5 DEF AppliedInv, Running, ReloadRead, StartRead, AfterStart
<1>. QED
  BY <1>4, <1>6, <1>7, <1>8, <1>9

-----------------------------------------------------------------------------
\* The steps that write: each adds its conjunct to Progress, and flags what
\* Asterisk has not read.
LEMMA CloneRepoKeeps == ASSUME InstInv, Running, CloneRepo PROVE InstInv'
<1>. PICK release \in 1 .. Releases :
        Writes("deploy", "ami", [inDisk EXCEPT !.app = release], {}, "config")
  BY DEF CloneRepo
<1>. DEFINE disk == [inDisk EXCEPT !.app = release]
<1>0. Writes("deploy", "ami", disk, {}, "config") /\ disk \in Disks
  BY RunningTyped DEF CloneRepo, InstInv, InstTypeOK, Disks
<1>1. /\ InstTypeOK'
      /\ setup' = [setup EXCEPT !.at = "ami", !.flags = setup'.flags]
      /\ setup.flags \subseteq setup'.flags
  <2>. HIDE DEF disk
  <2>. QED
    BY <1>0, WritesTyped DEF InstInv, SetupSteps, Flags
<1>. USE RunningTyped DEF InstInv, CloneRepo, Writes
<1>2. Progress'
  BY DEF Progress, Running, NoSetup, AfterAmi, AfterConf, AfterEnv, AfterDialplan,
         AfterModules, AfterGenerate, SetupSteps
<1>3. AgentInv'
  BY DEF AgentInv, AgentHas, Found, Running, AfterEnable, InstTypeOK
<1>4. KeptInv'
  BY DEF KeptInv, AgentHas, Running
<1>5. AppliedInv'
  <2>1. UNCHANGED <<inAsterisk, unread>> /\ setup.at = "deploy" /\ setup'.at = "ami"
    BY <1>1 DEF Setups
  <2>2. StartRead => StartRead' \/ "restart" \in setup'.flags
    BY <1>1, <2>1 DEF StartRead, InstTypeOK, Disks
  <2>3. ReloadRead => ReloadRead' \/ setup'.flags # {}
    BY <1>1, <2>1 DEF ReloadRead, InstTypeOK, Disks
  <2>. QED
    BY <1>1, <2>1, <2>2, <2>3, FlaggedApplied DEF Running, NoSetup, AfterStart
<1>. QED
  BY <1>1, <1>2, <1>3, <1>4, <1>5

\* The AMI user has the password of this run.
LEMMA SetupAmiKeeps == ASSUME InstInv, Running, SetupAmi PROVE InstInv'
<1>. DEFINE disk == [inDisk EXCEPT !.custom = setup.ami]
<1>0. Writes("ami", "conf", disk, {"custom"}, "config") /\ disk \in Disks
  BY RunningTyped DEF SetupAmi, InstInv, InstTypeOK, Disks
<1>1. /\ InstTypeOK'
      /\ setup' = [setup EXCEPT !.at = "conf", !.flags = setup'.flags]
      /\ setup.flags \subseteq setup'.flags
  <2>. HIDE DEF disk
  <2>. QED
    BY <1>0, WritesTyped DEF InstInv, SetupSteps, Flags
<1>. USE RunningTyped DEF InstInv, SetupAmi, Writes
<1>2. Progress'
  BY DEF Progress, Running, NoSetup, AfterAmi, AfterConf, AfterEnv, AfterDialplan,
         AfterModules, AfterGenerate, SetupSteps
<1>3. AgentInv'
  BY DEF AgentInv, AgentHas, Found, Running, AfterEnable, InstTypeOK
<1>4. KeptInv'
  BY DEF KeptInv, AgentHas, Running
<1>5. AppliedInv'
  <2>1. UNCHANGED <<inAsterisk, unread>> /\ setup.at = "ami" /\ setup'.at = "conf"
    BY <1>1 DEF Setups
  <2>2. StartRead => StartRead' \/ "restart" \in setup'.flags
    BY <1>1, <2>1 DEF StartRead, InstTypeOK, Disks
  <2>3. ReloadRead => ReloadRead' \/ setup'.flags # {}
    BY <1>1, <2>1 DEF ReloadRead, InstTypeOK, Disks
  <2>. QED
    BY <1>1, <2>1, <2>2, <2>3, FlaggedApplied DEF Running, NoSetup, AfterStart
<1>. QED
  BY <1>1, <1>2, <1>3, <1>4, <1>5

\* From here on the next update finds the secrets.
LEMMA WriteConfigKeeps == ASSUME InstInv, Running, WriteConfig PROVE InstInv'
<1>. DEFINE disk == [inDisk EXCEPT !.conf = setup.settings]
<1>0. Writes("conf", "env", disk, {}, "config") /\ disk \in Disks
  BY RunningTyped DEF WriteConfig, InstInv, InstTypeOK, Disks
<1>1. /\ InstTypeOK'
      /\ setup' = [setup EXCEPT !.at = "env", !.flags = setup'.flags]
      /\ setup.flags \subseteq setup'.flags
  <2>. HIDE DEF disk
  <2>. QED
    BY <1>0, WritesTyped DEF InstInv, SetupSteps, Flags
<1>. USE RunningTyped DEF InstInv, WriteConfig, Writes
<1>2. Progress'
  BY DEF Progress, Running, NoSetup, AfterAmi, AfterConf, AfterEnv, AfterDialplan,
         AfterModules, AfterGenerate, SetupSteps
<1>3. AgentInv'
  BY DEF AgentInv, AgentHas, Found, Running, AfterEnable, InstTypeOK
<1>4. KeptInv'
  BY DEF KeptInv, AgentHas, Running
<1>5. AppliedInv'
  <2>1. UNCHANGED <<inAsterisk, unread>> /\ setup.at = "conf" /\ setup'.at = "env"
    BY <1>1 DEF Setups
  <2>2. StartRead => StartRead' \/ "restart" \in setup'.flags
    BY <1>1, <2>1 DEF StartRead, InstTypeOK, Disks
  <2>3. ReloadRead => ReloadRead' \/ setup'.flags # {}
    BY <1>1, <2>1 DEF ReloadRead, InstTypeOK, Disks
  <2>. QED
    BY <1>1, <2>1, <2>2, <2>3, FlaggedApplied DEF Running, NoSetup, AfterStart
<1>. QED
  BY <1>1, <1>2, <1>3, <1>4, <1>5

\* A promised token is the token of the run: the env file keeps it.
LEMMA MergeEnvKeeps == ASSUME InstInv, Running, MergeEnv PROVE InstInv'
<1>. DEFINE disk == [inDisk EXCEPT !.ami = setup.ami, !.token = setup.token]
<1>0. Writes("env", "dialplan", disk, {}, "restart") /\ disk \in Disks
  BY RunningTyped DEF MergeEnv, InstInv, InstTypeOK, Disks
<1>1. /\ InstTypeOK'
      /\ setup' = [setup EXCEPT !.at = "dialplan", !.flags = setup'.flags]
      /\ setup.flags \subseteq setup'.flags
  <2>. HIDE DEF disk
  <2>. QED
    BY <1>0, WritesTyped DEF InstInv, SetupSteps, Flags
<1>. USE RunningTyped DEF InstInv, MergeEnv, Writes
<1>2. Progress'
  BY DEF Progress, Running, NoSetup, AfterAmi, AfterConf, AfterEnv, AfterDialplan,
         AfterModules, AfterGenerate, SetupSteps
<1>3. AgentInv'
  BY DEF AgentInv, AgentHas, Found, Running, AfterEnable, InstTypeOK
<1>4. KeptInv'
  BY DEF KeptInv, AgentHas, Running
<1>5. AppliedInv'
  <2>1. UNCHANGED <<inAsterisk, unread>> /\ setup.at = "env" /\ setup'.at = "dialplan"
    BY <1>1 DEF Setups
  <2>2. StartRead => StartRead' \/ "restart" \in setup'.flags
    BY <1>1, <2>1 DEF StartRead, InstTypeOK, Disks
  <2>3. ReloadRead => ReloadRead' \/ setup'.flags # {}
    BY <1>1, <2>1 DEF ReloadRead, InstTypeOK, Disks
  <2>. QED
    BY <1>1, <2>1, <2>2, <2>3, FlaggedApplied DEF Running, NoSetup, AfterStart
<1>. QED
  BY <1>1, <1>2, <1>3, <1>4, <1>5

\* The dialplan is of the deployed release.
LEMMA InstallDialplanKeeps == ASSUME InstInv, Running, InstallDialplan PROVE InstInv'
<1>. DEFINE disk == [inDisk EXCEPT !.dialplan = inDisk.app]
<1>0. Writes("dialplan", "modules", disk, {"dialplan"}, "config") /\ disk \in Disks
  BY RunningTyped DEF InstallDialplan, InstInv, InstTypeOK, Disks
<1>1. /\ InstTypeOK'
      /\ setup' = [setup EXCEPT !.at = "modules", !.flags = setup'.flags]
      /\ setup.flags \subseteq setup'.flags
  <2>. HIDE DEF disk
  <2>. QED
    BY <1>0, WritesTyped DEF InstInv, SetupSteps, Flags
<1>. USE RunningTyped DEF InstInv, InstallDialplan, Writes
<1>2. Progress'
  BY DEF Progress, Running, NoSetup, AfterAmi, AfterConf, AfterEnv, AfterDialplan,
         AfterModules, AfterGenerate, SetupSteps
<1>3. AgentInv'
  BY DEF AgentInv, AgentHas, Found, Running, AfterEnable, InstTypeOK
<1>4. KeptInv'
  BY DEF KeptInv, AgentHas, Running
<1>5. AppliedInv'
  <2>1. UNCHANGED <<inAsterisk, unread>> /\ setup.at = "dialplan" /\ setup'.at = "modules"
    BY <1>1 DEF Setups
  <2>2. StartRead => StartRead' \/ "restart" \in setup'.flags
    BY <1>1, <2>1 DEF StartRead, InstTypeOK, Disks
  <2>3. ReloadRead => ReloadRead' \/ setup'.flags # {}
    BY <1>1, <2>1 DEF ReloadRead, InstTypeOK, Disks
  <2>. QED
    BY <1>1, <2>1, <2>2, <2>3, FlaggedApplied DEF Running, NoSetup, AfterStart
<1>. QED
  BY <1>1, <1>2, <1>3, <1>4, <1>5

\* The load list is of the deployed release, and asks for a restart.
LEMMA WriteModulesConfKeeps == ASSUME InstInv, Running, WriteModulesConf PROVE InstInv'
<1>. DEFINE disk == [inDisk EXCEPT !.modules = inDisk.app]
<1>0. Writes("modules", "generate", disk, {"modules"}, "restart") /\ disk \in Disks
  BY RunningTyped DEF WriteModulesConf, InstInv, InstTypeOK, Disks
<1>1. /\ InstTypeOK'
      /\ setup' = [setup EXCEPT !.at = "generate", !.flags = setup'.flags]
      /\ setup.flags \subseteq setup'.flags
  <2>. HIDE DEF disk
  <2>. QED
    BY <1>0, WritesTyped DEF InstInv, SetupSteps, Flags
<1>. USE RunningTyped DEF InstInv, WriteModulesConf, Writes
<1>2. Progress'
  BY DEF Progress, Running, NoSetup, AfterAmi, AfterConf, AfterEnv, AfterDialplan,
         AfterModules, AfterGenerate, SetupSteps
<1>3. AgentInv'
  BY DEF AgentInv, AgentHas, Found, Running, AfterEnable, InstTypeOK
<1>4. KeptInv'
  BY DEF KeptInv, AgentHas, Running
<1>5. AppliedInv'
  <2>1. UNCHANGED <<inAsterisk, unread>> /\ setup.at = "modules" /\ setup'.at = "generate"
    BY <1>1 DEF Setups
  <2>2. StartRead => StartRead' \/ "restart" \in setup'.flags
    BY <1>1, <2>1 DEF StartRead, InstTypeOK, Disks
  <2>3. ReloadRead => ReloadRead' \/ setup'.flags # {}
    BY <1>1, <2>1 DEF ReloadRead, InstTypeOK, Disks
  <2>. QED
    BY <1>1, <2>1, <2>2, <2>3, FlaggedApplied DEF Running, NoSetup, AfterStart
<1>. QED
  BY <1>1, <1>2, <1>3, <1>4, <1>5

\* The globals are from this run's simbridge.yaml, the SIP credential its token.
LEMMA GenerateConfigKeeps == ASSUME InstInv, Running, GenerateConfig PROVE InstInv'
<1>. DEFINE disk == [inDisk EXCEPT !.globals = inDisk.conf, !.pjsip = setup.token]
<1>0. Writes("generate", "profile", disk, {"globals", "pjsip"}, "config") /\ disk \in Disks
  BY RunningTyped DEF GenerateConfig, InstInv, InstTypeOK, Disks
<1>1. /\ InstTypeOK'
      /\ setup' = [setup EXCEPT !.at = "profile", !.flags = setup'.flags]
      /\ setup.flags \subseteq setup'.flags
  <2>. HIDE DEF disk
  <2>. QED
    BY <1>0, WritesTyped DEF InstInv, SetupSteps, Flags
<1>. USE RunningTyped DEF InstInv, GenerateConfig, Writes
<1>2. Progress'
  BY DEF Progress, Running, NoSetup, AfterAmi, AfterConf, AfterEnv, AfterDialplan,
         AfterModules, AfterGenerate, SetupSteps
<1>3. AgentInv'
  BY DEF AgentInv, AgentHas, Found, Running, AfterEnable, InstTypeOK
<1>4. KeptInv'
  BY DEF KeptInv, AgentHas, Running
<1>5. AppliedInv'
  <2>1. UNCHANGED <<inAsterisk, unread>> /\ setup.at = "generate" /\ setup'.at = "profile"
    BY <1>1 DEF Setups
  <2>2. StartRead => StartRead' \/ "restart" \in setup'.flags
    BY <1>1, <2>1 DEF StartRead, InstTypeOK, Disks
  <2>3. ReloadRead => ReloadRead' \/ setup'.flags # {}
    BY <1>1, <2>1 DEF ReloadRead, InstTypeOK, Disks
  <2>. QED
    BY <1>1, <2>1, <2>2, <2>3, FlaggedApplied DEF Running, NoSetup, AfterStart
<1>. QED
  BY <1>1, <1>2, <1>3, <1>4, <1>5

\* The modem's files are in no invariant.
LEMMA InitModemProfileKeeps == ASSUME InstInv, Running, InitModemProfile PROVE InstInv'
<1>. DEFINE disk == IF setup.action = "update" THEN inDisk ELSE [inDisk EXCEPT !.dongle = TRUE]
<1>0. Writes("profile", "agidir", disk, {}, "config") /\ disk \in Disks
  BY RunningTyped DEF InitModemProfile, InstInv, InstTypeOK, Disks
<1>1. /\ InstTypeOK'
      /\ setup' = [setup EXCEPT !.at = "agidir", !.flags = setup'.flags]
      /\ setup.flags \subseteq setup'.flags
  <2>. HIDE DEF disk
  <2>. QED
    BY <1>0, WritesTyped DEF InstInv, SetupSteps, Flags
<1>. USE RunningTyped DEF InstInv, InitModemProfile, Writes
<1>2. Progress'
  BY DEF Progress, Running, NoSetup, AfterAmi, AfterConf, AfterEnv, AfterDialplan,
         AfterModules, AfterGenerate, SetupSteps
<1>3. AgentInv'
  BY DEF AgentInv, AgentHas, Found, Running, AfterEnable, InstTypeOK
<1>4. KeptInv'
  BY DEF KeptInv, AgentHas, Running
<1>5. AppliedInv'
  <2>1. UNCHANGED <<inAsterisk, unread>> /\ setup.at = "profile" /\ setup'.at = "agidir"
    BY <1>1 DEF Setups
  <2>2. StartRead => StartRead' \/ "restart" \in setup'.flags
    BY <1>1, <2>1 DEF StartRead, InstTypeOK, Disks
  <2>3. ReloadRead => ReloadRead' \/ setup'.flags # {}
    BY <1>1, <2>1 DEF ReloadRead, InstTypeOK, Disks
  <2>. QED
    BY <1>1, <2>1, <2>2, <2>3, FlaggedApplied DEF Running, NoSetup, AfterStart
<1>. QED
  BY <1>1, <1>2, <1>3, <1>4, <1>5

\* The directory of the hooks is read by a start only: restart is flagged.
LEMMA EnsureAgidirKeeps == ASSUME InstInv, Running, EnsureAgidir PROVE InstInv'
<1>. DEFINE disk == IF inDisk.agidir = "no_file" THEN inDisk ELSE [inDisk EXCEPT !.agidir = "pinned"]
<1>0. Writes("agidir", "dropin", disk, {"agidir"}, "restart") /\ disk \in Disks
  BY RunningTyped DEF EnsureAgidir, InstInv, InstTypeOK, Disks
<1>1. /\ InstTypeOK'
      /\ setup' = [setup EXCEPT !.at = "dropin", !.flags = setup'.flags]
      /\ setup.flags \subseteq setup'.flags
  <2>. HIDE DEF disk
  <2>. QED
    BY <1>0, WritesTyped DEF InstInv, SetupSteps, Flags
<1>. USE RunningTyped DEF InstInv, EnsureAgidir, Writes
<1>2. Progress'
  BY DEF Progress, Running, NoSetup, AfterAmi, AfterConf, AfterEnv, AfterDialplan,
         AfterModules, AfterGenerate, SetupSteps
<1>3. AgentInv'
  BY DEF AgentInv, AgentHas, Found, Running, AfterEnable, InstTypeOK
<1>4. KeptInv'
  BY DEF KeptInv, AgentHas, Running
<1>5. AppliedInv'
  <2>1. UNCHANGED <<inAsterisk, unread>> /\ setup.at = "agidir" /\ setup'.at = "dropin"
    BY <1>1 DEF Setups
  <2>2. StartRead => StartRead' \/ "restart" \in setup'.flags
    BY <1>1, <2>1 DEF StartRead, InstTypeOK, Disks
  <2>3. ReloadRead => ReloadRead' \/ setup'.flags # {}
    BY <1>1, <2>1 DEF ReloadRead, InstTypeOK, Disks
  <2>. QED
    BY <1>1, <2>1, <2>2, <2>3, FlaggedApplied DEF Running, NoSetup, AfterStart
<1>. QED
  BY <1>1, <1>2, <1>3, <1>4, <1>5

\* The drop-in changes nothing that AppliedInv compares.
LEMMA WriteDropinKeeps == ASSUME InstInv, Running, WriteDropin PROVE InstInv'
<1>. DEFINE disk == [inDisk EXCEPT !.dropin = TRUE]
<1>0. Writes("dropin", "enable", disk, {"dropin"}, "restart") /\ disk \in Disks
  BY RunningTyped DEF WriteDropin, InstInv, InstTypeOK, Disks
<1>1. /\ InstTypeOK'
      /\ setup' = [setup EXCEPT !.at = "enable", !.flags = setup'.flags]
      /\ setup.flags \subseteq setup'.flags
  <2>. HIDE DEF disk
  <2>. QED
    BY <1>0, WritesTyped DEF InstInv, SetupSteps, Flags
<1>. USE RunningTyped DEF InstInv, WriteDropin, Writes
<1>2. Progress'
  BY DEF Progress, Running, NoSetup, AfterAmi, AfterConf, AfterEnv, AfterDialplan,
         AfterModules, AfterGenerate, SetupSteps
<1>3. AgentInv'
  BY DEF AgentInv, AgentHas, Found, Running, AfterEnable, InstTypeOK
<1>4. KeptInv'
  BY DEF KeptInv, AgentHas, Running
<1>5. AppliedInv'
  <2>1. UNCHANGED <<inAsterisk, unread>> /\ setup.at = "dropin" /\ setup'.at = "enable"
    BY <1>1 DEF Setups
  <2>2. StartRead => StartRead' \/ "restart" \in setup'.flags
    BY <1>1, <2>1 DEF StartRead, InstTypeOK, Disks
  <2>3. ReloadRead => ReloadRead' \/ setup'.flags # {}
    BY <1>1, <2>1 DEF ReloadRead, InstTypeOK, Disks
  <2>. QED
    BY <1>1, <2>1, <2>2, <2>3, FlaggedApplied DEF Running, NoSetup, AfterStart
<1>. QED
  BY <1>1, <1>2, <1>3, <1>4, <1>5

-----------------------------------------------------------------------------
\* A removal takes the token with it; the agent that had it is stopped or marked.
LEMMA RemoveExistingKeeps ==
    ASSUME InstInv, Running, NEW stopped \in BOOLEAN, RemoveExisting(stopped) PROVE InstInv'
<1>0. [inDisk EXCEPT !.app = 0, !.conf = 0, !.dropin = FALSE,
                     !.ami = NoSecret, !.token = NoSecret] \in Disks
  <2>1. inDisk \in Disks /\ 0 \in 0 .. Releases /\ 0 \in 0 .. Settings
    BY DEF InstInv, InstTypeOK
  <2>. QED
    BY <2>1 DEF Disks
<1>. USE RunningTyped DEF InstInv, RemoveExisting, AgentDown
<1>1. InstTypeOK' /\ setup' \in Setups /\ setup' = [setup EXCEPT !.at = "deploy"]
  <2>1. setup' \in Setups
    BY DEF Setups, SetupSteps
  <2>2. inDisk' \in Disks
    BY <1>0 DEF InstTypeOK
  <2>3. inAgent' \in Agents
    BY DEF InstTypeOK, Agents
  <2>. QED
    BY <2>1, <2>2, <2>3 DEF InstTypeOK
<1>2. Progress'
  BY DEF Progress, Running, NoSetup, AfterAmi, AfterConf, AfterEnv, AfterDialplan,
         AfterModules, AfterGenerate, SetupSteps
<1>3. AgentInv'
  BY DEF AgentInv, AgentHas, Found, Running, AfterEnable, InstTypeOK, Disks, Agents, Setups
<1>4. KeptInv'
  BY DEF KeptInv, AgentHas, Running
<1>5. AppliedInv'
  <2>1. UNCHANGED <<inAsterisk, unread>> /\ setup.at = "remove" /\ setup'.at = "deploy"
    BY <1>1 DEF Setups
  <2>2. setup'.flags = setup.flags
    BY <1>1 DEF Setups
  <2>3. (StartRead => StartRead') /\ (ReloadRead => ReloadRead')
    BY <2>1 DEF StartRead, ReloadRead, InstTypeOK, Disks
  <2>. QED
    BY <2>1, <2>2, <2>3, FlaggedApplied DEF Running, NoSetup, AfterStart
<1>. QED
  BY <1>1, <1>2, <1>3, <1>4, <1>5

\* The steps that only warn change no file.
LEMMA NoModuleDirectoryKeeps == ASSUME InstInv, Running, NoModuleDirectory PROVE InstInv'
<1>. USE RunningTyped DEF InstInv, NoModuleDirectory
<1>1. /\ InstTypeOK' /\ setup' \in Setups
      /\ setup' = [setup EXCEPT !.at = "generate", !.warned = @ \cup {"modules"}]
  <2>1. setup' \in Setups
    BY DEF Setups, SetupSteps, Warnings
  <2>. QED
    BY <2>1 DEF InstTypeOK
<1>2. Progress'
  BY DEF Progress, Running, NoSetup, AfterAmi, AfterConf, AfterEnv, AfterDialplan,
         AfterModules, AfterGenerate, SetupSteps
<1>3. AgentInv'
  BY DEF AgentInv, AgentHas, Found, Running, AfterEnable, InstTypeOK
<1>4. KeptInv'
  BY DEF KeptInv, AgentHas, Running
<1>5. AppliedInv'
  <2>1. UNCHANGED <<inAsterisk, unread>> /\ setup.at = "modules" /\ setup'.at = "generate"
    BY <1>1 DEF Setups
  <2>2. setup'.flags = setup.flags
    BY <1>1 DEF Setups
  <2>3. (StartRead => StartRead') /\ (ReloadRead => ReloadRead')
    BY <2>1 DEF StartRead, ReloadRead, InstTypeOK, Disks
  <2>. QED
    BY <2>1, <2>2, <2>3, FlaggedApplied DEF Running, NoSetup, AfterStart
<1>. QED
  BY <1>1, <1>2, <1>3, <1>4, <1>5

\* What is left out is excepted by Progress.
LEMMA NoDialplanKeeps == ASSUME InstInv, Running, NoDialplan PROVE InstInv'
<1>. USE RunningTyped DEF InstInv, NoDialplan
<1>1. /\ InstTypeOK' /\ setup' \in Setups
      /\ setup' = [setup EXCEPT !.at = "enable", !.warned = @ \cup {"dialplan"}]
  <2>1. setup' \in Setups
    BY DEF Setups, SetupSteps, Warnings
  <2>. QED
    BY <2>1 DEF InstTypeOK
<1>s. /\ setup.at = "dialplan" /\ setup'.at = "enable" /\ "dialplan" \in setup'.warned
      /\ setup'.token = setup.token /\ setup'.ami = setup.ami
      /\ setup'.settings = setup.settings
  BY <1>1 DEF Setups
<1>2. Progress'
  BY <1>s DEF Progress, Running, NoSetup, AfterAmi, AfterConf, AfterEnv, AfterDialplan,
         AfterModules, AfterGenerate, SetupSteps
<1>3. AgentInv'
  BY DEF AgentInv, AgentHas, Found, Running, AfterEnable, InstTypeOK
<1>4. KeptInv'
  BY DEF KeptInv, AgentHas, Running
<1>5. AppliedInv'
  <2>1. UNCHANGED <<inAsterisk, unread>> /\ setup.at = "dialplan" /\ setup'.at = "enable"
    BY <1>1 DEF Setups
  <2>2. setup'.flags = setup.flags
    BY <1>1 DEF Setups
  <2>3. (StartRead => StartRead') /\ (ReloadRead => ReloadRead')
    BY <2>1 DEF StartRead, ReloadRead, InstTypeOK, Disks
  <2>. QED
    BY <2>1, <2>2, <2>3, FlaggedApplied DEF Running, NoSetup, AfterStart
<1>. QED
  BY <1>1, <1>2, <1>3, <1>4, <1>5

\* The old SIP credential stays: Progress excepts a run that warned.  Globals that
\* were written and not flagged are in unread.
LEMMA GenerateFailsKeeps ==
    ASSUME InstInv, Running, NEW half \in BOOLEAN, GenerateFails(half) PROVE InstInv'
<1>. USE RunningTyped DEF InstInv
<1>0. /\ setup.at = "generate"
      /\ setup' = [setup EXCEPT !.at = "profile", !.warned = @ \cup {"generate"}]
      /\ inDisk' = inDisk \/ inDisk' = [inDisk EXCEPT !.globals = inDisk.conf]
      /\ unread \subseteq unread' /\ unread' \subseteq unread \cup {"globals"}
      /\ "globals" \in unread' \/ inDisk'.globals = inDisk.globals
      /\ UNCHANGED <<inAsterisk, inAgent, promised>>
  BY DEF GenerateFails
<1>d. inDisk' \in Disks
  BY <1>0 DEF InstTypeOK, Disks
<1>f. \A f \in {"app", "dialplan", "modules", "conf", "custom", "ami", "token", "pjsip",
                 "agidir"} : inDisk'[f] = inDisk[f]
  BY <1>0 DEF InstTypeOK, Disks
<1>1. InstTypeOK' /\ setup' \in Setups
  <2>1. setup' \in Setups
    BY <1>0 DEF Setups, SetupSteps, Warnings
  <2>. QED
    BY <1>0, <1>d, <2>1 DEF InstTypeOK, ReloadFields
<1>s. /\ setup'.at = "profile" /\ setup'.token = setup.token /\ setup'.ami = setup.ami
      /\ setup'.action = setup.action /\ setup'.flags = setup.flags
      /\ setup'.warned = setup.warned \cup {"generate"} /\ setup'.settings = setup.settings
  BY <1>0 DEF Setups
<1>2. Progress'
  BY <1>0, <1>s, <1>f DEF Progress, Running, AfterAmi, AfterConf, AfterEnv, AfterDialplan,
         AfterModules, AfterGenerate, SetupSteps
<1>3. AgentInv'
  BY <1>0, <1>s, <1>f DEF AgentInv, AgentHas, Found, Running, AfterEnable
<1>4. KeptInv'
  BY <1>0, <1>s, <1>f DEF KeptInv, AgentHas, Running
<1>5. AppliedInv'
  <2>1. (StartRead => StartRead') /\ (ReloadRead => ReloadRead')
    BY <1>0, <1>f DEF StartRead, ReloadRead
  <2>. QED
    BY <1>0, <1>s, <2>1, FlaggedApplied DEF Running, NoSetup, AfterStart
<1>. QED
  BY <1>1, <1>2, <1>3, <1>4, <1>5

\* The profile is in no invariant.
LEMMA ProfileFailsKeeps == ASSUME InstInv, Running, ProfileFails PROVE InstInv'
<1>. USE RunningTyped DEF InstInv, ProfileFails
<1>1. /\ InstTypeOK' /\ setup' \in Setups
      /\ setup' = [setup EXCEPT !.at = "agidir", !.warned = @ \cup {"profile"}]
  <2>1. setup' \in Setups
    BY DEF Setups, SetupSteps, Warnings
  <2>. QED
    BY <2>1 DEF InstTypeOK
<1>2. Progress'
  BY DEF Progress, Running, NoSetup, AfterAmi, AfterConf, AfterEnv, AfterDialplan,
         AfterModules, AfterGenerate, SetupSteps
<1>3. AgentInv'
  BY DEF AgentInv, AgentHas, Found, Running, AfterEnable, InstTypeOK
<1>4. KeptInv'
  BY DEF KeptInv, AgentHas, Running
<1>5. AppliedInv'
  <2>1. UNCHANGED <<inAsterisk, unread>> /\ setup.at = "profile" /\ setup'.at = "agidir"
    BY <1>1 DEF Setups
  <2>2. setup'.flags = setup.flags
    BY <1>1 DEF Setups
  <2>3. (StartRead => StartRead') /\ (ReloadRead => ReloadRead')
    BY <2>1 DEF StartRead, ReloadRead, InstTypeOK, Disks
  <2>. QED
    BY <2>1, <2>2, <2>3, FlaggedApplied DEF Running, NoSetup, AfterStart
<1>. QED
  BY <1>1, <1>2, <1>3, <1>4, <1>5

\* An agent that was down is started from the files of this run.
LEMMA EnableServicesKeeps == ASSUME InstInv, Running, EnableServices PROVE InstInv'
<1>. USE RunningTyped DEF InstInv, EnableServices, AgentFrom
<1>1. InstTypeOK' /\ setup' \in Setups /\ setup' = [setup EXCEPT !.at = "asterisk"]
  <2>1. setup' \in Setups
    BY DEF Setups, SetupSteps, Warnings
  <2>2. inAgent' \in Agents
    <3>1. AgentFrom(inDisk) \in Agents
      BY DEF InstTypeOK, Agents, Disks
    <3>. QED
      BY <3>1 DEF InstTypeOK
  <2>. QED
    BY <2>1, <2>2 DEF InstTypeOK
<1>2. Progress'
  BY DEF Progress, Running, NoSetup, AfterAmi, AfterConf, AfterEnv, AfterDialplan,
         AfterModules, AfterGenerate, SetupSteps
<1>3. AgentInv'
  <2>1. setup.at = "enable" /\ setup'.at = "asterisk" /\ setup'.token = setup.token
        /\ setup'.action = setup.action
    BY <1>1 DEF Setups
  <2>2. inDisk.conf # 0 /\ inDisk.token = setup.token
    BY <2>1 DEF Progress, AfterConf, AfterEnv, AfterAmi, SetupSteps
  <2>3. inAgent' = inAgent \/ inAgent' = AgentFrom(inDisk)
    OBVIOUS
  <2>4. setup'.action # "update" => AgentHas(setup.token)'
    BY <2>1, <2>2, <2>3 DEF AgentInv, AgentHas, AfterEnable, Setups
  <2>. QED
    BY <2>1, <2>2, <2>4 DEF AgentInv, AgentHas, Found, Running, AfterEnable
<1>4. KeptInv'
  BY DEF KeptInv, AgentHas, Running
<1>5. AppliedInv'
  <2>1. UNCHANGED <<inAsterisk, unread>> /\ setup.at = "enable" /\ setup'.at = "asterisk"
    BY <1>1 DEF Setups
  <2>2. setup'.flags = setup.flags
    BY <1>1 DEF Setups
  <2>3. (StartRead => StartRead') /\ (ReloadRead => ReloadRead')
    BY <2>1 DEF StartRead, ReloadRead, InstTypeOK, Disks
  <2>. QED
    BY <2>1, <2>2, <2>3, FlaggedApplied DEF Running, NoSetup, AfterStart
<1>. QED
  BY <1>1, <1>2, <1>3, <1>4, <1>5

\* Asterisk reads what was flagged, or the failure is recorded in unread.
LEMMA StartAsteriskKeeps ==
    ASSUME InstInv, Running, NEW works \in BOOLEAN, StartAsterisk(works) PROVE InstInv'
<1>. DEFINE disk == IF inDisk.agidir = "no_file" THEN [inDisk EXCEPT !.agidir = "default"]
                    ELSE inDisk
            full == ~inAsterisk.up \/ "restart" \in setup.flags
            reload == ~full /\ "config" \in setup.flags
<1>. USE RunningTyped DEF InstInv
<1>0. /\ setup.at = "asterisk"
      /\ setup' = [setup EXCEPT !.at = "agent"]
      /\ inDisk' = disk
      /\ inAsterisk' = IF full THEN IF works THEN AsteriskFrom(disk) 
                                    ELSE [inAsterisk EXCEPT !.up = FALSE]
                       ELSE IF reload /\ works THEN Reloaded(disk) ELSE inAsterisk
      /\ unread' = IF full THEN IF works THEN {} ELSE unread
                   ELSE IF ~reload THEN unread
                   ELSE IF works THEN unread \ ReloadFields ELSE unread \cup Untold
      /\ UNCHANGED <<inAgent, promised>>
  BY DEF StartAsterisk
<1>d. /\ disk \in Disks /\ disk.agidir # "no_file"
      /\ disk = [inDisk EXCEPT !.agidir = disk.agidir]
      /\ disk.agidir = "pinned" <=> inDisk.agidir = "pinned"
  BY DEF InstTypeOK, Disks
<1>. HIDE DEF disk
<1>1. InstTypeOK' /\ setup' \in Setups
  <2>1. setup' \in Setups
    BY <1>0 DEF Setups, SetupSteps
  <2>2. inAsterisk' \in Asterisks
    <3>1. AsteriskFrom(disk) \in Asterisks
      BY <1>d DEF AsteriskFrom, Asterisks, Disks
    <3>2. [inAsterisk EXCEPT !.up = FALSE] \in Asterisks
      BY DEF Asterisks, InstTypeOK
    <3>3. Reloaded(disk) \in Asterisks
      BY <1>d DEF Reloaded, Asterisks, Disks, InstTypeOK
    <3>. QED
      BY <1>0, <3>1, <3>2, <3>3 DEF InstTypeOK
  <2>. QED
    BY <1>0, <1>d, <2>1, <2>2 DEF InstTypeOK, Untold
<1>s. /\ setup'.at = "agent" /\ setup'.token = setup.token /\ setup'.ami = setup.ami
      /\ setup'.action = setup.action /\ setup'.flags = setup.flags
      /\ setup'.warned = setup.warned /\ setup'.settings = setup.settings
  BY <1>0 DEF Setups
<1>f. \A f \in {"app", "dialplan", "modules", "conf", "globals", "custom", "ami", "token",
                 "pjsip"} :
        inDisk'[f] = inDisk[f]
  BY <1>0, <1>d DEF InstTypeOK, Disks
<1>2. Progress'
  BY <1>0, <1>s, <1>f DEF Progress, Running, AfterAmi, AfterConf, AfterEnv, AfterDialplan,
         AfterModules, AfterGenerate, SetupSteps
<1>3. AgentInv'
  BY <1>0, <1>s, <1>f DEF AgentInv, AgentHas, Found, Running, AfterEnable
<1>4. KeptInv'
  BY <1>0, <1>s, <1>f DEF KeptInv, AgentHas, Running
<1>5. AppliedInv'
  <2>. SUFFICES ASSUME inAsterisk'.up PROVE StartRead' /\ ReloadRead'
    BY <1>0, <1>d, <1>s DEF AppliedInv, AfterStart
  <2>1. CASE full
    <3>1. works
      BY <1>0, <2>1 DEF InstTypeOK, Asterisks
    <3>. QED
      BY <1>0, <2>1, <3>1 DEF AsteriskFrom, StartRead, ReloadRead
  <2>2. CASE ~full
    <3>1. StartRead /\ inAsterisk.up
      BY <1>0, <2>2 DEF AppliedInv, AfterStart
    <3>2. CASE reload /\ works
      <4>1. /\ inAsterisk' = Reloaded(disk)
            /\ \A f \in StartFields : f \in unread => f \in unread'
        BY <1>0, <2>2, <3>2 DEF ReloadFields, StartFields
      <4>2. ReloadRead'
        BY <1>0, <1>d, <1>f, <4>1 DEF Reloaded, ReloadRead, InstTypeOK, Asterisks
      <4>3. StartRead'
        BY <1>0, <1>d, <1>f, <3>1, <4>1
        DEF Reloaded, StartRead, StartFields, InstTypeOK, Asterisks
      <4>. QED
        BY <4>2, <4>3
    <3>3. CASE reload /\ ~works
      <4>1. inAsterisk' = inAsterisk /\ unread' = unread \cup Untold
        BY <1>0, <2>2, <3>3
      <4>2. ReloadRead'
        BY <1>f, <3>1, <4>1 DEF Untold, ReloadFields, StartFields, AsteriskFrom, ReloadRead
      <4>3. StartRead'
        BY <1>0, <1>d, <1>f, <3>1, <4>1 DEF StartRead
      <4>. QED
        BY <4>2, <4>3
    <3>4. CASE ~reload
      <4>1. inAsterisk' = inAsterisk /\ unread' = unread /\ setup.flags = {}
        BY <1>0, <2>2, <3>4 DEF Flags
      <4>2. ReloadRead
        BY <1>0, <3>1, <4>1 DEF AppliedInv, AfterStart
      <4>. QED
        BY <1>0, <1>d, <1>f, <3>1, <4>1, <4>2 DEF StartRead, ReloadRead
    <3>. QED
      BY <3>2, <3>3, <3>4
  <2>. QED
    BY <2>1, <2>2
<1>. QED
  BY <1>1, <1>2, <1>3, <1>4, <1>5

\* The agent of an update is restarted; of the others it has started in this run.
LEMMA StartAgentKeeps ==
    ASSUME InstInv, Running, NEW works \in BOOLEAN, StartAgent(works) PROVE InstInv'
<1>. USE RunningTyped DEF InstInv
<1>0. /\ setup.at = "agent"
      /\ setup' = [setup EXCEPT !.at = "ended"]
      /\ inAgent' = IF inAgent.up /\ setup.action # "update" THEN inAgent
                    ELSE IF works THEN AgentFrom(inDisk) ELSE AgentDown
      /\ UNCHANGED <<inDisk, inAsterisk, promised, unread>>
  BY DEF StartAgent
<1>1. InstTypeOK' /\ setup' \in Setups
  <2>1. setup' \in Setups
    BY <1>0 DEF Setups, SetupSteps
  <2>2. inAgent' \in Agents
    BY <1>0 DEF InstTypeOK, Agents, Disks, AgentFrom, AgentDown
  <2>. QED
    BY <1>0, <2>1, <2>2 DEF InstTypeOK
<1>s. /\ setup'.at = "ended" /\ setup'.token = setup.token /\ setup'.ami = setup.ami
      /\ setup'.action = setup.action /\ setup'.flags = setup.flags
      /\ setup'.warned = setup.warned /\ setup'.settings = setup.settings
  BY <1>0 DEF Setups
<1>2. Progress'
  BY <1>0, <1>s DEF Progress, Running, AfterAmi, AfterConf, AfterEnv, AfterDialplan,
         AfterModules, AfterGenerate, SetupSteps
<1>t. inDisk.conf # 0 /\ inDisk.token = setup.token
  BY <1>0 DEF Progress, AfterConf, AfterEnv, AfterAmi, SetupSteps
<1>a. \/ inAgent' = inAgent /\ setup.action # "update"
      \/ inAgent' = AgentFrom(inDisk) \/ inAgent' = AgentDown
  BY <1>0
<1>3. AgentInv'
  <2>1. AgentHas(setup.token)'
    BY <1>0, <1>a, <1>t DEF AgentInv, AgentHas, AfterEnable, AgentFrom, AgentDown, Setups,
                            InstTypeOK, Agents
  <2>. QED
    BY <1>0, <1>s, <1>t, <2>1 DEF AgentInv, AgentHas, Found, Running, AfterEnable
<1>4. KeptInv'
  BY <1>0, <1>s, <1>a DEF KeptInv, AgentHas, Running, AgentFrom, AgentDown, InstTypeOK, Agents
<1>5. AppliedInv'
  BY <1>0, <1>s DEF AppliedInv, Running, AfterStart, StartRead, ReloadRead
<1>. QED
  BY <1>1, <1>2, <1>3, <1>4, <1>5

\* The token is promised when the disk and the agent have it.
LEMMA VerifyAndSummaryKeeps == ASSUME InstInv, Running, VerifyAndSummary PROVE InstInv'
<1>. USE RunningTyped DEF InstInv, VerifyAndSummary
<1>1. InstTypeOK'
  BY DEF InstTypeOK
<1>2. inDisk.conf # 0 /\ inDisk.token = setup.token /\ AgentHas(setup.token)
  BY DEF Progress, AfterConf, AfterEnv, AfterAmi, SetupSteps, AgentInv
<1>3. Progress' /\ AgentInv'
  BY DEF Progress, AgentInv, Running, Found
<1>4. KeptInv'
  BY <1>2 DEF KeptInv, AgentHas, Running
<1>5. AppliedInv'
  BY DEF AppliedInv, Running, AfterStart, StartRead, ReloadRead
<1>. QED
  BY <1>1, <1>3, <1>4, <1>5

\* A run that stops forgets its flags: unread records them.
LEMMA SetupStopsKeeps == ASSUME InstInv, SetupStops PROVE InstInv'
<1>. USE RunningTyped DEF InstInv, SetupStops
<1>1. Running
  BY DEF Running
<1>2. InstTypeOK'
  BY <1>1 DEF InstTypeOK, Untold
<1>3. Progress' /\ AgentInv' /\ KeptInv'
  BY DEF Progress, AgentInv, KeptInv, AgentHas, Running, Found
<1>4. AppliedInv'
  BY DEF AppliedInv, Running, StartRead, ReloadRead, Untold, AsteriskFrom, ReloadFields,
         StartFields
<1>. QED
  BY <1>2, <1>3, <1>4

\* Everything that runs reads the disk again.
LEMMA MachineRebootsKeeps ==
    ASSUME InstInv, NEW agentStarts \in BOOLEAN, MachineReboots(agentStarts) PROVE InstInv'
<1>. USE DEF InstInv, MachineReboots
<1>1. InstTypeOK'
  <2>1. inAsterisk' \in Asterisks
    BY DEF InstTypeOK, AsteriskFrom, Asterisks, Disks
  <2>2. inAgent' \in Agents
    BY DEF InstTypeOK, AgentFrom, AgentDown, Agents, Disks
  <2>. QED
    BY <2>1, <2>2 DEF InstTypeOK
<1>2. inAgent'.up => Found /\ inAgent' = AgentFrom(inDisk)
  BY DEF AgentDown, InstTypeOK, Agents
<1>3. Progress' /\ AgentInv'
  BY <1>2 DEF Progress, AgentInv, Running, Found
<1>4. KeptInv'
  BY <1>2 DEF KeptInv, AgentHas, Running, AgentFrom
<1>5. AppliedInv'
  BY DEF AppliedInv, Running, StartRead, ReloadRead, AsteriskFrom
<1>. QED
  BY <1>1, <1>3, <1>4, <1>5

\* Nothing changes.
LEMMA StutterKeeps == ASSUME InstInv, UNCHANGED instVars PROVE InstInv'
  BY DEF InstInv, instVars, InstTypeOK, Progress, AgentInv, KeptInv, AppliedInv, Running,
         AgentHas, Found, StartRead, ReloadRead

-----------------------------------------------------------------------------
\* Every step of the installer and around it.
LEMMA NextKeeps == InstInv /\ [InstNext]_instVars => InstInv'
<1>. SUFFICES ASSUME InstInv, [InstNext]_instVars PROVE InstInv'
  OBVIOUS
<1>1. CASE \E action \in {"install", "update", "remove"}, ami \in AmiSecrets \cup {NoSecret},
              token \in Tokens \cup {NoSecret} : SetupStarts(action, ami, token)
  BY <1>1, StartsKeeps
<1>2. CASE setup # NoSetup /\ SetupStep
  <2>. Running
    BY <1>2 DEF Running
  <2>1. CASE CloneRepo \/ SetupAmi \/ WriteConfig \/ MergeEnv
    BY <2>1, CloneRepoKeeps, SetupAmiKeeps, WriteConfigKeeps, MergeEnvKeeps
  <2>2. CASE InstallDialplan \/ NoDialplan \/ WriteModulesConf \/ NoModuleDirectory
             \/ GenerateConfig
    BY <2>2, InstallDialplanKeeps, NoDialplanKeeps, WriteModulesConfKeeps,
       NoModuleDirectoryKeeps, GenerateConfigKeeps
  <2>3. CASE InitModemProfile \/ ProfileFails \/ EnsureAgidir \/ WriteDropin
             \/ EnableServices
    BY <2>3, InitModemProfileKeeps, ProfileFailsKeeps, EnsureAgidirKeeps,
       WriteDropinKeeps, EnableServicesKeeps
  <2>4. CASE \E b \in BOOLEAN :
                RemoveExisting(b) \/ GenerateFails(b) \/ StartAsterisk(b) \/ StartAgent(b)
    BY <2>4, RemoveExistingKeeps, GenerateFailsKeeps, StartAsteriskKeeps, StartAgentKeeps
  <2>5. CASE VerifyAndSummary
    BY <2>5, VerifyAndSummaryKeeps
  <2>. QED
    BY <1>2, <2>1, <2>2, <2>3, <2>4, <2>5 DEF SetupStep
<1>3. CASE SetupStops
  BY <1>3, SetupStopsKeeps
<1>4. CASE \E b \in BOOLEAN : MachineReboots(b)
  BY <1>4, MachineRebootsKeeps
<1>5. CASE UNCHANGED instVars
  BY <1>5, StutterKeeps
<1>. QED
  BY <1>1, <1>2, <1>3, <1>4, <1>5 DEF InstNext

\* Whatever runs are started, stopped half way or cut off by a reboot, the disk,
\* Asterisk and the agent stay as InstInv says (deploy/install.py).
THEOREM InstInductive == InstSpec => []InstInv
<1>1. InstInit => InstInv
  BY InitInstInv
<1>2. InstInv /\ [InstNext]_instVars => InstInv'
  BY NextKeeps
<1>. QED
  BY <1>1, <1>2, PTL DEF InstSpec

\* The token that the peer node was given stays on the disk and in a running
\* agent through every update (merge_env, _load_known_secrets).
THEOREM TokenKept == InstSpec => []InstTokenKept
<1>1. InstInv => InstTokenKept
  BY DEF InstInv, KeptInv, AgentHas, InstTokenKept
<1>. QED
  BY <1>1, InstInductive, PTL

\* A run that gets to its end leaves files that fit together, whatever the runs
\* before it left behind (main).
THEOREM FilesAgree == InstSpec => []InstFilesAgree
<1>1. InstInv => InstFilesAgree
  BY DEF InstInv, Progress, Running, InstFilesAgree, Ended, AfterAmi, AfterConf, AfterEnv,
         AfterDialplan, AfterModules, AfterGenerate, SetupSteps
<1>. QED
  BY <1>1, InstInductive, PTL

\* After a run Asterisk has what is on the disk, field by field, but for what a run
\* that stopped half way, a reload that failed, or a generator that failed after
\* the globals has left unread since (phase_start).
THEOREM Applied == InstSpec => []InstApplied
<1>1. InstInv => InstApplied
  <2>. SUFFICES ASSUME InstInv, Ended, inAsterisk.up,
                       NEW f \in ReloadFields \cup StartFields, f \notin unread
                PROVE  inAsterisk[f] = inDisk[f]
    BY DEF InstApplied
  <2>1. StartRead /\ ReloadRead /\ inDisk.agidir # "no_file"
    BY DEF InstInv, AppliedInv, Ended, Running, AfterStart
  <2>2. "agidir" \in unread \/ inAsterisk.agidir = inDisk.agidir
    BY <2>1 DEF StartRead, InstInv, InstTypeOK, Disks, Asterisks
  <2>. QED
    BY <2>1, <2>2 DEF StartRead, ReloadRead, ReloadFields, StartFields
<1>. QED
  BY <1>1, InstInductive, PTL
=============================================================================
