----------------------------- MODULE Blacklist -----------------------------
(***************************************************************************)
(* The blacklist: a text file that the dialplan's AGI script reads on      *)
(* every incoming call, and a BlacklistManager in the agent and another in *)
(* the userbot, each of which caches a file, reloads it when its mtime has *)
(* changed and rewrites it whole (core/blacklist.py).  On one node both    *)
(* manage the same file, on two nodes each has its own.  /block and        *)
(* /unblock go to the agent first and to the userbot's manager afterwards. *)
(*                                                                         *)
(* An operation of a manager is synchronous, so a process runs one at a    *)
(* time; the other process and an operator's editor run between its system *)
(* calls.  The userbot's handlers await the agent and hold no lock: any    *)
(* number of commands, for one number too, is in progress at once, and the *)
(* agent may carry out a request that the userbot has given up.            *)
(*                                                                         *)
(* An mtime is abstracted to whether it is the one the manager knows:      *)
(* every rewrite of a file is taken to change it.                          *)
(***************************************************************************)
CONSTANTS
    Numbers,    \* normalised numbers that commands and edits name
    Commands    \* bounds the commands in progress at once

ASSUME CommandAssumption == "read" \notin Commands

VARIABLES
    oneNode,    \* whether both managers keep the same file
    file,       \* the numbers in each manager's file
    memory,     \* _numbers of each manager
    current,    \* whether a manager's _mtime is its file's mtime
    doing,      \* the operation a manager is in the middle of
    command,    \* the /block and /unblock in progress
    confirmed,  \* what the last confirmed command for a number asked for
    doubted     \* history: numbers that a race or a failed write has touched

blVars == <<oneNode, file, memory, current, doing, command, confirmed, doubted>>

Managers == {"agent", "userbot"}
Kinds == {"block", "unblock"}
Idle == [phase |-> "none"]
NoCommand == [agent |-> "none"]

Operation == [of : Commands \cup {"read"}, phase : {"load", "stat", "apply", "stamp"}]
Command == [kind : Kinds, number : Numbers,
            agent : {"asked", "runs", "done"}, userbot : {"waits", "runs", "gone"}]

BlTypeOK ==
    /\ oneNode \in BOOLEAN
    /\ file \in [Managers -> SUBSET Numbers]
    /\ memory \in [Managers -> SUBSET Numbers]
    /\ current \in [Managers -> BOOLEAN]
    /\ doing \in [Managers -> {Idle} \cup Operation]
    /\ command \in [Commands -> {NoCommand} \cup Command]
    /\ confirmed \in [Numbers -> {"blocked", "free", "unknown"}]
    /\ doubted \subseteq Numbers

BlInit ==
    /\ oneNode \in BOOLEAN
    /\ file = [m \in Managers |-> {}]
    /\ memory = [m \in Managers |-> {}]
    /\ current = [m \in Managers |-> TRUE]
    /\ doing = [m \in Managers |-> Idle]
    /\ command = [q \in Commands |-> NoCommand]
    /\ confirmed = [n \in Numbers |-> "unknown"]
    /\ doubted = {}

SameFile(m, k) == m = k \/ oneNode

Replace(m, numbers) ==
    /\ file' = [k \in Managers |-> IF SameFile(m, k) THEN numbers ELSE file[k]]
    /\ current' = [k \in Managers |-> current[k] /\ ~SameFile(m, k)]

\* A change of m's file by `who` falls inside another manager's operation.
Overlaps(who, m) == \E k \in Managers \ {who} : SameFile(m, k) /\ doing[k] # Idle

\* Mutant: the file is read once, at the start.
FirstPhaseNoStat(m) == "apply"

\* Every operation stats the file first and reloads it if the mtime is new.
FirstPhase(m) == IF current[m] THEN "apply" ELSE "load"

Begin(m, of) ==
    /\ doing[m] = Idle
    /\ doing' = [doing EXCEPT ![m] = [of |-> of, phase |-> FirstPhase(m)]]

At(m, phase) == doing[m] # Idle /\ doing[m].phase = phase

Goto(m, phase) == doing' = [doing EXCEPT ![m].phase = phase]

\* What the set in memory is after the operation.
Desired(m) ==
    IF doing[m].of = "read" THEN memory[m]
    ELSE LET c == command[doing[m].of] IN
         IF c.kind = "block" THEN memory[m] \cup {c.number} ELSE memory[m] \ {c.number}

\* The commands for a number that are not over.
OpenFor(n) == {q \in Commands : command[q] # NoCommand /\ command[q].number = n}

\* The opposite command for the number is not over.
Crosses(n, kind) == \E q \in OpenFor(n) : command[q].kind # kind

\* What manager m remembers of n is what its file says, or it will look.
Knows(m, n) ==
    \/ n \in memory[m] <=> n \in file[m]
    \/ ~current[m] /\ (doing[m] = Idle \/ At(m, "load"))

\* An operation of m for command q is over.  The agent's answer lets a userbot
\* that still waits go on with its own manager; the userbot confirms the command.
Answer(m, q) ==
    LET c == command[q] IN
    \/ /\ m = "agent"
       /\ command' = [command EXCEPT ![q] =
              IF c.userbot = "gone" THEN NoCommand ELSE [c EXCEPT !.agent = "done"]]
       /\ UNCHANGED confirmed
    \/ /\ m = "userbot"
       /\ command' = [command EXCEPT ![q] = NoCommand]
       /\ confirmed' = [confirmed EXCEPT ![c.number] =
              IF c.kind = "block" THEN "blocked" ELSE "free"]

-----------------------------------------------------------------------------
Load(m) ==
    /\ At(m, "load")
    /\ memory' = [memory EXCEPT ![m] = file[m]]
    /\ Goto(m, "stat")
    /\ UNCHANGED <<oneNode, file, current, command, confirmed, doubted>>

\* The mtime is taken again after the file was read.
Stat(m) ==
    /\ At(m, "stat")
    /\ current' = [current EXCEPT ![m] = TRUE]
    /\ Goto(m, "apply")
    /\ UNCHANGED <<oneNode, file, memory, command, confirmed, doubted>>

\* A read, a number that is already blocked or one that is not: no write.
NothingToDo(m) ==
    /\ At(m, "apply")
    /\ Desired(m) = memory[m]
    /\ doing' = [doing EXCEPT ![m] = Idle]
    /\ IF doing[m].of = "read" THEN UNCHANGED <<command, confirmed>>
                               ELSE Answer(m, doing[m].of)
    /\ UNCHANGED <<oneNode, file, memory, current, doubted>>

\* The whole file is written beside the old one and renamed over it.  Inside
\* an operation of the other manager, that one may write it back.
Write(m) ==
    /\ At(m, "apply")
    /\ Desired(m) # memory[m]
    /\ memory' = [memory EXCEPT ![m] = Desired(m)]
    /\ Replace(m, Desired(m))
    /\ Goto(m, "stamp")
    /\ doubted' = IF Overlaps(m, m)
                  THEN doubted \cup {command[doing[m].of].number} ELSE doubted
    /\ UNCHANGED <<oneNode, command, confirmed>>

Stamp(m) ==
    /\ At(m, "stamp")
    /\ current' = [current EXCEPT ![m] = TRUE]
    /\ doing' = [doing EXCEPT ![m] = Idle]
    /\ Answer(m, doing[m].of)
    /\ UNCHANGED <<oneNode, file, memory, doubted>>

\* The write raises, after the set in memory was changed: the user is told of
\* an error, or, if it was the userbot's own write, of nothing.
WriteFails(m) ==
    LET q == doing[m].of IN
    /\ At(m, "apply")
    /\ Desired(m) # memory[m]
    /\ memory' = [memory EXCEPT ![m] = Desired(m)]
    /\ doing' = [doing EXCEPT ![m] = Idle]
    /\ command' = [command EXCEPT ![q] = NoCommand]
    /\ doubted' = doubted \cup {command[q].number}
    /\ UNCHANGED <<oneNode, file, current, confirmed>>

\* /block or /unblock.  It settles a number for which nothing is in progress and
\* that no manager has a wrong idea of.  The same command once more, while the
\* first is in progress or was given up, changes nothing; the opposite one may
\* be carried out, or answered, before the other.
Order(q, n, kind) ==
    /\ command[q] = NoCommand
    /\ command' = [command EXCEPT ![q] =
            [kind |-> kind, number |-> n, agent |-> "asked", userbot |-> "waits"]]
    /\ confirmed' = [confirmed EXCEPT ![n] = "unknown"]
    /\ doubted' = IF OpenFor(n) = {} /\ \A m \in Managers : Knows(m, n) THEN doubted \ {n}
                  ELSE IF Crosses(n, kind) THEN doubted \cup {n} ELSE doubted
    /\ UNCHANGED <<oneNode, file, memory, current, doing>>

\* POST /blacklist or /unblock is handled, however late.
AgentRuns(q) ==
    /\ command[q] # NoCommand
    /\ command[q].agent = "asked"
    /\ Begin("agent", q)
    /\ command' = [command EXCEPT ![q].agent = "runs"]
    /\ UNCHANGED <<oneNode, file, memory, current, confirmed, doubted>>

\* The userbot has the agent's answer and calls its own manager.
UserbotRuns(q) ==
    /\ command[q] # NoCommand
    /\ command[q].agent = "done" /\ command[q].userbot = "waits"
    /\ Begin("userbot", q)
    /\ command' = [command EXCEPT ![q].userbot = "runs"]
    /\ UNCHANGED <<oneNode, file, memory, current, confirmed, doubted>>

\* No answer in ten seconds: an error to the user, no local copy.
GiveUp(q) ==
    /\ command[q] # NoCommand
    /\ command[q].userbot = "waits"
    /\ command' = [command EXCEPT ![q] =
            IF @.agent = "done" THEN NoCommand ELSE [@ EXCEPT !.userbot = "gone"]]
    /\ UNCHANGED <<oneNode, file, memory, current, doing, confirmed, doubted>>

\* The agent never gets a request that the userbot gave up.
RequestLost(q) ==
    /\ command[q] # NoCommand
    /\ command[q].agent = "asked" /\ command[q].userbot = "gone"
    /\ command' = [command EXCEPT ![q] = NoCommand]
    /\ UNCHANGED <<oneNode, file, memory, current, doing, confirmed, doubted>>

\* /listblock, contains and count.
ReadAt(m) ==
    /\ Begin(m, "read")
    /\ UNCHANGED <<oneNode, file, memory, current, command, confirmed, doubted>>

\* An operator changes a file by hand.
Edit(m, n) ==
    /\ Replace(m, IF n \in file[m] THEN file[m] \ {n} ELSE file[m] \cup {n})
    /\ confirmed' = [confirmed EXCEPT ![n] = "unknown"]
    /\ doubted' = IF Overlaps("operator", m) \/ OpenFor(n) # {}
                  THEN doubted \cup {n} ELSE doubted
    /\ UNCHANGED <<oneNode, memory, doing, command>>

BlNext ==
    \/ \E m \in Managers : \/ Load(m) \/ Stat(m) \/ NothingToDo(m) \/ Write(m)
                           \/ Stamp(m) \/ WriteFails(m) \/ ReadAt(m)
    \/ \E q \in Commands : \/ \E n \in Numbers, kind \in Kinds : Order(q, n, kind)
                           \/ AgentRuns(q) \/ UserbotRuns(q) \/ GiveUp(q) \/ RequestLost(q)
    \/ \E m \in Managers, n \in Numbers : Edit(m, n)

BlSpec == BlInit /\ [][BlNext]_blVars

-----------------------------------------------------------------------------
(* is_blacklisted of the AGI script: it reads the agent's file anew.        *)
Rejected(n) == n \in file["agent"]

\* What the user was last told of a number is what the dialplan does with its
\* calls: over stale caches, hand edits of the files, whole-file rewrites for
\* other numbers, answers that were lost, requests carried out after they were
\* given up and the same command once more on top of them.  It is not claimed of
\* a doubted number: since it was last ordered with nothing else going on for it,
\* the opposite command or an edit crossed a command for it, a write of it
\* failed, or fell inside an operation of the other manager on the file.
BlConfirmedStands ==
    \A n \in Numbers \ doubted :
        /\ confirmed[n] = "blocked" => Rejected(n)
        /\ confirmed[n] = "free" => ~Rejected(n)
=============================================================================
