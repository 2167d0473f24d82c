---------------------------- MODULE ServicesProofs ---------------------------
(***************************************************************************)
(* Proofs about the parts around the calls that are small enough to share  *)
(* a module: the blacklist, the supervisor's alerts and the modem          *)
(* profiles.  Each has an invariant of its own that says what a manager,   *)
(* a cycle or a switch has done at each of its phases.                     *)
(***************************************************************************)
EXTENDS MCServices, AdmissionProofs, InstallerProofs, VoicemailProofs, TLAPS

-----------------------------------------------------------------------------
(* The blacklist: the inductive invariant                                   *)

\* One node has one file.
OneFile == oneNode => file["agent"] = file["userbot"]

\* A manager works for a command that is in progress with it.
Runners ==
    \A m \in Managers, q \in Commands :
        doing[m] # Idle /\ doing[m].of = q =>
            /\ command[q] # NoCommand
            /\ command[q].agent = IF m = "agent" THEN "runs" ELSE "done"
            /\ m = "userbot" => command[q].userbot = "runs"

\* The change is made at "stamp".
Stamped ==
    \A m \in Managers : At(m, "stamp") =>
        /\ doing[m].of \in Commands
        /\ command[doing[m].of].number \in memory[m]
               <=> command[doing[m].of].kind = "block"

\* A number that is not doubted: both managers know it or will look, no two
\* commands in progress for it differ, the file says what the agent has answered,
\* and what was confirmed was not ordered otherwise since.
NumberWell(n) ==
    /\ \A m \in Managers : Knows(m, n)
    /\ \A q, r \in OpenFor(n) : command[q].kind = command[r].kind
    /\ \A q \in OpenFor(n) :
           command[q].agent = "done" => (command[q].kind = "block" <=> n \in file["agent"])
    /\ \A q \in OpenFor(n) :
           confirmed[n] # "unknown" => (confirmed[n] = "blocked" <=> command[q].kind = "block")
    /\ confirmed[n] = "blocked" => n \in file["agent"]
    /\ confirmed[n] = "free" => n \notin file["agent"]

BlInv ==
    /\ BlTypeOK /\ OneFile /\ Runners /\ Stamped
    /\ \A n \in Numbers \ doubted : NumberWell(n)

-----------------------------------------------------------------------------
(* The blacklist: its steps                                                 *)

LEMMA DoingType ==
    ASSUME BlTypeOK, NEW m \in Managers, doing[m] # Idle
    PROVE  doing[m] \in Operation
  BY DEF BlTypeOK

LEMMA CommandType ==
    ASSUME BlTypeOK, NEW q \in Commands, command[q] # NoCommand
    PROVE  command[q] \in Command
  BY DEF BlTypeOK

\* An operation begins or goes on to its next phase.
LEMMA Doing ==
    ASSUME BlTypeOK, NEW m \in Managers, NEW d \in Operation, doing' = [doing EXCEPT ![m] = d]
    PROVE  /\ doing' \in [Managers -> {Idle} \cup Operation]
           /\ doing'[m] = d /\ d # Idle
           /\ \A k \in Managers : k # m => doing'[k] = doing[k]
  BY DEF BlTypeOK, Operation, Idle

LEMMA GoingOn ==
    ASSUME BlTypeOK, NEW m \in Managers, doing[m] # Idle,
           NEW phase \in {"load", "stat", "apply", "stamp"}, Goto(m, phase)
    PROVE  /\ doing' \in [Managers -> {Idle} \cup Operation]
           /\ doing'[m] # Idle /\ doing'[m].phase = phase /\ doing'[m].of = doing[m].of
           /\ \A k \in Managers : k # m => doing'[k] = doing[k]
  <1> DEFINE d == [of |-> doing[m].of, phase |-> phase]
  <1>1. doing[m] \in Operation
    BY DoingType
  <1>2. d \in Operation /\ d.of = doing[m].of /\ d.phase = phase
    BY <1>1 DEF Operation
  <1>3. [doing[m] EXCEPT !.phase = phase] = d
    BY <1>1 DEF Operation
  <1>4. doing' = [doing EXCEPT ![m] = d]
    BY <1>3 DEF Goto
  <1> HIDE DEF d
  <1> QED BY <1>2, <1>4, Doing

LEMMA Begun ==
    ASSUME BlTypeOK, NEW m \in Managers, NEW of \in Commands \cup {"read"}, Begin(m, of)
    PROVE  /\ doing' \in [Managers -> {Idle} \cup Operation]
           /\ doing[m] = Idle /\ doing'[m] # Idle /\ doing'[m].of = of
           /\ doing'[m].phase = IF current[m] THEN "apply" ELSE "load"
           /\ \A k \in Managers : k # m => doing'[k] = doing[k]
  <1> DEFINE d == [of |-> of, phase |-> FirstPhase(m)]
  <1>1. d \in Operation /\ d.of = of /\ d.phase = IF current[m] THEN "apply" ELSE "load"
    BY DEF Operation, FirstPhase
  <1>2. doing[m] = Idle /\ doing' = [doing EXCEPT ![m] = d]
    BY DEF Begin
  <1> HIDE DEF d
  <1> QED BY <1>1, <1>2, Doing

\* An operation ends.
LEMMA Done ==
    ASSUME BlTypeOK, NEW m \in Managers, doing' = [doing EXCEPT ![m] = Idle]
    PROVE  /\ doing' \in [Managers -> {Idle} \cup Operation]
           /\ doing'[m] = Idle
           /\ \A k \in Managers : k # m => doing'[k] = doing[k]
  BY DEF BlTypeOK

\* One command changes.
LEMMA CommandSet ==
    ASSUME BlTypeOK, NEW q \in Commands, NEW c \in {NoCommand} \cup Command,
           command' = [command EXCEPT ![q] = c]
    PROVE  /\ command' \in [Commands -> {NoCommand} \cup Command]
           /\ command'[q] = c
           /\ \A r \in Commands : r # q => command'[r] = command[r]
  BY DEF BlTypeOK

\* A rewrite of a manager's file.
LEMMA ReplaceEffect ==
    ASSUME BlTypeOK, NEW m \in Managers, NEW numbers \in SUBSET Numbers, Replace(m, numbers)
    PROVE  /\ file' \in [Managers -> SUBSET Numbers] /\ current' \in [Managers -> BOOLEAN]
           /\ file'[m] = numbers /\ ~current'[m]
           /\ \A k \in Managers : /\ SameFile(m, k) => file'[k] = numbers /\ ~current'[k]
                                  /\ ~SameFile(m, k) => file'[k] = file[k] /\ current'[k] = current[k]
  BY DEF BlTypeOK, Replace, SameFile

\* What the set in memory becomes.
LEMMA DesiredIs ==
    ASSUME BlTypeOK, Runners, NEW m \in Managers, doing[m] # Idle, doing[m].of # "read"
    PROVE  /\ doing[m].of \in Commands
           /\ command[doing[m].of] \in Command
           /\ Desired(m) \in SUBSET Numbers
           /\ command[doing[m].of].number \in Desired(m) <=> command[doing[m].of].kind = "block"
           /\ \A x \in Numbers : x # command[doing[m].of].number =>
                  (x \in Desired(m) <=> x \in memory[m])
  <1>1. doing[m].of \in Commands /\ memory[m] \in SUBSET Numbers
    BY DoingType DEF BlTypeOK, Operation
  <1>2. command[doing[m].of] \in Command
    BY <1>1, CommandType DEF Runners
  <1>3. command[doing[m].of].number \in Numbers /\ command[doing[m].of].kind \in Kinds
    BY <1>2 DEF Command
  <1> QED BY <1>1, <1>2, <1>3 DEF Desired, Kinds

\* Past its load a manager that knows a number has it as its file.
LEMMA KnowsIs ==
    ASSUME NEW m \in Managers, NEW n, Knows(m, n), doing[m] # Idle, doing[m].phase # "load"
    PROVE  n \in memory[m] <=> n \in file[m]
  BY DEF Knows, At

\* A manager that does not move, and whose file says the same of n.
LEMMA KnowsStill ==
    ASSUME NEW m \in Managers, NEW n, Knows(m, n), doing'[m] = doing[m],
           memory'[m] = memory[m], n \in file'[m] <=> n \in file[m],
           current'[m] => current[m]
    PROVE  Knows(m, n)'
  BY DEF Knows, At

\* A number stays well if nobody but the commands in progress for it moves, and
\* none of them gets an answer.
LEMMA WellStays ==
    ASSUME NEW n, NumberWell(n), \A m \in Managers : Knows(m, n)',
           n \in file'["agent"] <=> n \in file["agent"], confirmed'[n] = confirmed[n],
           \A q \in Commands :
               command'[q] # NoCommand /\ command'[q].number = n =>
                   /\ command[q] # NoCommand /\ command[q].number = n
                   /\ command'[q].kind = command[q].kind
                   /\ command'[q].agent = "done" => command[q].agent = "done"
    PROVE  NumberWell(n)'
  <1>1. \A q \in OpenFor(n)' : /\ q \in OpenFor(n)
                               /\ command'[q].kind = command[q].kind
                               /\ command'[q].agent = "done" => command[q].agent = "done"
    BY DEF OpenFor
  <1> QED BY <1>1 DEF NumberWell

-----------------------------------------------------------------------------
LEMMA BlLoadKeeps ==
    ASSUME BlInv, NEW m \in Managers, Load(m)
    PROVE  BlInv'
  <1>1. doing[m] # Idle /\ UNCHANGED <<oneNode, file, current, command, confirmed, doubted>>
    BY DEF Load, At
  <1>2. memory'[m] = file[m] /\ \A k \in Managers : k # m => memory'[k] = memory[k]
    BY DEF Load, BlInv, BlTypeOK
  <1>3. /\ doing' \in [Managers -> {Idle} \cup Operation]
        /\ doing'[m] # Idle /\ doing'[m].phase = "stat" /\ doing'[m].of = doing[m].of
        /\ \A k \in Managers : k # m => doing'[k] = doing[k]
    BY <1>1, GoingOn DEF Load, BlInv
  <1>4. BlTypeOK'
    BY <1>1, <1>3 DEF Load, BlInv, BlTypeOK
  <1>5. OneFile' /\ Runners'
    BY <1>1, <1>3 DEF BlInv, OneFile, Runners
  <1>6. Stamped'
    BY <1>1, <1>2, <1>3 DEF BlInv, Stamped, At
  <1>7. ASSUME NEW n \in Numbers \ doubted PROVE NumberWell(n)'
    <2>1. Knows(m, n)'
      BY <1>1, <1>2 DEF Knows
    <2>2. \A k \in Managers : Knows(k, n)'
      BY <1>1, <1>2, <1>3, <2>1, KnowsStill DEF BlInv, NumberWell
    <2> QED BY <1>1, <2>2, WellStays DEF BlInv
  <1> QED BY <1>1, <1>4, <1>5, <1>6, <1>7 DEF BlInv

LEMMA BlStatKeeps ==
    ASSUME BlInv, NEW m \in Managers, Stat(m)
    PROVE  BlInv'
  <1>1. /\ doing[m] # Idle /\ doing[m].phase = "stat"
        /\ UNCHANGED <<oneNode, file, memory, command, confirmed, doubted>>
    BY DEF Stat, At
  <1>2. \A k \in Managers : k # m => current'[k] = current[k]
    BY DEF Stat, BlInv, BlTypeOK
  <1>3. /\ doing' \in [Managers -> {Idle} \cup Operation]
        /\ doing'[m] # Idle /\ doing'[m].phase = "apply" /\ doing'[m].of = doing[m].of
        /\ \A k \in Managers : k # m => doing'[k] = doing[k]
    BY <1>1, GoingOn DEF Stat, BlInv
  <1>4. BlTypeOK'
    BY <1>1, <1>3 DEF Stat, BlInv, BlTypeOK
  <1>5. OneFile' /\ Runners'
    BY <1>1, <1>3 DEF BlInv, OneFile, Runners
  <1>6. Stamped'
    BY <1>1, <1>3 DEF BlInv, Stamped, At
  <1>7. ASSUME NEW n \in Numbers \ doubted PROVE NumberWell(n)'
    <2>1. Knows(m, n)'
      BY <1>1, KnowsIs DEF BlInv, NumberWell, Knows
    <2>2. \A k \in Managers : Knows(k, n)'
      BY <1>1, <1>2, <1>3, <2>1, KnowsStill DEF BlInv, NumberWell
    <2> QED BY <1>1, <2>2, WellStays DEF BlInv
  <1> QED BY <1>1, <1>4, <1>5, <1>6, <1>7 DEF BlInv

\* An operation is over, and its number is in memory as the command asked.
LEMMA EndKeeps ==
    ASSUME BlInv, NEW m \in Managers, doing[m] # Idle, doing[m].phase # "load",
           NEW q \in Commands, doing[m].of = q,
           command[q].number \in memory[m] <=> command[q].kind = "block",
           doing' = [doing EXCEPT ![m] = Idle], Answer(m, q),
           current' \in [Managers -> BOOLEAN],
           \A k \in Managers : k # m => current'[k] = current[k],
           UNCHANGED <<oneNode, file, memory, doubted>>
    PROVE  BlInv'
  <1>1. /\ doing' \in [Managers -> {Idle} \cup Operation]
        /\ doing'[m] = Idle
        /\ \A k \in Managers : k # m => doing'[k] = doing[k]
    BY Done DEF BlInv
  <1>2. /\ command[q] # NoCommand /\ command[q] \in Command
        /\ command[q].agent = IF m = "agent" THEN "runs" ELSE "done"
    BY CommandType DEF BlInv, Runners
  <1>3. /\ command' \in [Commands -> {NoCommand} \cup Command]
        /\ \A r \in Commands : r # q => command'[r] = command[r]
        /\ command'[q] # NoCommand =>
               /\ m = "agent"
               /\ command'[q].kind = command[q].kind /\ command'[q].number = command[q].number
    <2> DEFINE c == [kind |-> command[q].kind, number |-> command[q].number,
                     agent |-> "done", userbot |-> command[q].userbot]
    <2>1. /\ c \in Command /\ [command[q] EXCEPT !.agent = "done"] = c
          /\ c.kind = command[q].kind /\ c.number = command[q].number
      BY <1>2 DEF Command
    <2> HIDE DEF c
    <2>2. PICK d \in {NoCommand, c} : /\ command' = [command EXCEPT ![q] = d]
                                      /\ m = "userbot" => d = NoCommand
      BY <2>1 DEF Answer
    <2> QED BY <2>1, <2>2, CommandSet DEF BlInv, Answer, Managers
  <1>4. /\ confirmed' \in [Numbers -> {"blocked", "free", "unknown"}]
        /\ \A n \in Numbers : n # command[q].number => confirmed'[n] = confirmed[n]
        /\ m = "agent" => confirmed' = confirmed
        /\ m = "userbot" => confirmed'[command[q].number] =
                                IF command[q].kind = "block" THEN "blocked" ELSE "free"
    BY <1>2 DEF Answer, BlInv, BlTypeOK, Command
  <1>5. BlTypeOK'
    BY <1>1, <1>3, <1>4 DEF BlInv, BlTypeOK
  <1>6. ASSUME NEW k \in Managers, k # m PROVE doing'[k] # Idle => doing'[k].of # q
    BY <1>1, <1>2, <1>6 DEF BlInv, Runners, Managers
  <1>7. OneFile' /\ Runners' /\ Stamped'
    BY <1>1, <1>3, <1>6 DEF BlInv, OneFile, Runners, Stamped, At
  <1>8. ASSUME NEW n \in Numbers \ doubted PROVE NumberWell(n)'
    <2>0. NumberWell(n)
      BY DEF BlInv
    <2>1. n \in memory[m] <=> n \in file[m]
      BY <2>0, KnowsIs DEF NumberWell
    <2>2. \A k \in Managers : Knows(k, n)'
      <3>1. Knows(m, n)'
        BY <2>1 DEF Knows
      <3> QED BY <1>1, <2>0, <3>1, KnowsStill DEF NumberWell
    <2>3. CASE n # command[q].number
      BY <1>3, <1>4, <2>0, <2>2, <2>3, WellStays
    <2>4. CASE n = command[q].number
      <3>1. q \in OpenFor(n)
        BY <1>2, <2>4 DEF OpenFor
      <3>2. \A r \in OpenFor(n)' : /\ r \in OpenFor(n) /\ command'[r].kind = command[r].kind
                                   /\ command[r].kind = command[q].kind
                                   /\ r # q => command'[r] = command[r]
        BY <1>3, <2>0, <3>1 DEF NumberWell, OpenFor
      <3>3. CASE m = "agent"
        <4>1. command[q].kind = "block" <=> n \in file["agent"]
          BY <2>1, <2>4, <3>3
        <4> QED BY <1>4, <2>0, <2>2, <3>2, <3>3, <4>1 DEF NumberWell
      <3>4. CASE m = "userbot"
        <4>1. command[q].kind = "block" <=> n \in file["agent"]
          BY <1>2, <2>0, <3>1, <3>4 DEF NumberWell
        <4>2. command[q].kind \in Kinds
          BY <1>2 DEF Command
        <4> QED BY <1>4, <2>2, <2>4, <3>2, <3>4, <4>1, <4>2 DEF NumberWell, Kinds
      <3> QED BY <3>3, <3>4 DEF Managers
    <2> QED BY <2>3, <2>4
  <1> QED BY <1>5, <1>7, <1>8 DEF BlInv

LEMMA NothingToDoKeeps ==
    ASSUME BlInv, NEW m \in Managers, NothingToDo(m)
    PROVE  BlInv'
  <1>1. /\ doing[m] # Idle /\ doing[m].phase = "apply"
        /\ UNCHANGED <<oneNode, file, memory, current, doubted>>
        /\ doing' = [doing EXCEPT ![m] = Idle]
    BY DEF NothingToDo, At
  <1>2. CASE doing[m].of # "read"
    <2>1. /\ doing[m].of \in Commands
          /\ command[doing[m].of].number \in memory[m]
                 <=> command[doing[m].of].kind = "block"
      BY <1>1, <1>2, DesiredIs DEF NothingToDo, BlInv
    <2>2. Answer(m, doing[m].of)
      BY <1>2 DEF NothingToDo
    <2>3. current' \in [Managers -> BOOLEAN]
      BY <1>1 DEF BlInv, BlTypeOK
    <2> QED BY <1>1, <2>1, <2>2, <2>3, EndKeeps
  <1>3. CASE doing[m].of = "read"
    <2>1. UNCHANGED <<command, confirmed>>
      BY <1>3 DEF NothingToDo
    <2>2. /\ doing' \in [Managers -> {Idle} \cup Operation]
          /\ doing'[m] = Idle
          /\ \A k \in Managers : k # m => doing'[k] = doing[k]
      BY <1>1, Done DEF BlInv
    <2>3. BlTypeOK' /\ OneFile' /\ Runners' /\ Stamped'
      BY <1>1, <2>1, <2>2 DEF BlInv, BlTypeOK, OneFile, Runners, Stamped, At
    <2>4. ASSUME NEW n \in Numbers \ doubted PROVE NumberWell(n)'
      <3>1. Knows(m, n)'
        BY <1>1, KnowsIs DEF BlInv, NumberWell, Knows
      <3>2. \A k \in Managers : Knows(k, n)'
        BY <1>1, <2>2, <3>1, KnowsStill DEF BlInv, NumberWell
      <3> QED BY <1>1, <2>1, <3>2, WellStays DEF BlInv
    <2> QED BY <1>1, <2>3, <2>4 DEF BlInv
  <1> QED BY <1>2, <1>3

LEMMA StampKeeps ==
    ASSUME BlInv, NEW m \in Managers, Stamp(m)
    PROVE  BlInv'
  <1>1. doing[m] # Idle /\ doing[m].phase = "stamp"
    BY DEF Stamp, At
  <1>2. /\ doing[m].of \in Commands
        /\ command[doing[m].of].number \in memory[m] <=> command[doing[m].of].kind = "block"
    BY DEF Stamp, BlInv, Stamped
  <1>3. current' \in [Managers -> BOOLEAN] /\ \A k \in Managers : k # m => current'[k] = current[k]
    BY DEF Stamp, BlInv, BlTypeOK
  <1> QED BY <1>1, <1>2, <1>3, EndKeeps DEF Stamp

LEMMA WriteKeeps ==
    ASSUME BlInv, NEW m \in Managers, Write(m), NEW q, q = doing[m].of,
           NEW new, new = Desired(m)
    PROVE  BlInv'
  <1>1. /\ doing[m] # Idle /\ doing[m].phase = "apply" /\ q # "read"
        /\ UNCHANGED <<oneNode, command, confirmed>>
        /\ doubted \subseteq doubted'
        /\ Overlaps(m, m) => command[q].number \in doubted'
        /\ doubted' \subseteq doubted \cup {command[q].number}
    BY DEF Write, At, Desired
  <1>2. /\ q \in Commands /\ command[q] \in Command /\ new \in SUBSET Numbers
        /\ command[q].number \in new <=> command[q].kind = "block"
        /\ \A x \in Numbers : x # command[q].number => (x \in new <=> x \in memory[m])
    BY <1>1, DesiredIs DEF BlInv
  <1>3. /\ memory'[m] = new /\ \A k \in Managers : k # m => memory'[k] = memory[k]
        /\ memory' \in [Managers -> SUBSET Numbers]
    BY <1>2 DEF Write, BlInv, BlTypeOK
  <1>4. /\ file' \in [Managers -> SUBSET Numbers] /\ current' \in [Managers -> BOOLEAN]
        /\ file'[m] = new /\ ~current'[m]
        /\ \A k \in Managers : /\ SameFile(m, k) => file'[k] = new /\ ~current'[k]
                               /\ ~SameFile(m, k) => file'[k] = file[k] /\ current'[k] = current[k]
    BY <1>2, ReplaceEffect DEF Write, BlInv
  <1>5. /\ doing' \in [Managers -> {Idle} \cup Operation]
        /\ doing'[m] # Idle /\ doing'[m].phase = "stamp" /\ doing'[m].of = q
        /\ \A k \in Managers : k # m => doing'[k] = doing[k]
    BY <1>1, GoingOn DEF Write, BlInv
  <1>6. BlTypeOK'
    BY <1>1, <1>2, <1>3, <1>4, <1>5 DEF BlInv, BlTypeOK, Command
  <1>7. OneFile'
    BY <1>1, <1>4 DEF BlInv, OneFile, SameFile, Managers
  <1>8. Runners'
    BY <1>1, <1>5 DEF BlInv, Runners
  <1>9. Stamped'
    BY <1>1, <1>2, <1>3, <1>5 DEF BlInv, Stamped, At
  <1>10. ASSUME NEW n \in Numbers \ doubted' PROVE NumberWell(n)'
    <2>0. NumberWell(n)
      BY <1>1 DEF BlInv
    <2>1. Knows(m, n)' /\ (n \in memory[m] <=> n \in file[m])
      BY <1>1, <1>3, <1>4, <2>0, KnowsIs DEF NumberWell, Knows
    <2>2. CASE n # command[q].number
      <3>1. ASSUME NEW k \in Managers PROVE n \in file'[k] <=> n \in file[k]
        <4>1. SameFile(m, k) => file[k] = file[m]
          BY DEF SameFile, BlInv, OneFile, Managers
        <4> QED BY <1>2, <1>4, <2>1, <2>2, <4>1
      <3>2. \A k \in Managers : Knows(k, n)'
        BY <1>3, <1>4, <1>5, <2>0, <2>1, <3>1, KnowsStill DEF NumberWell
      <3> QED BY <1>1, <2>0, <3>1, <3>2, WellStays DEF Managers
    <2>3. CASE n = command[q].number
      <3>1. \A k \in Managers : k # m /\ SameFile(m, k) => doing[k] = Idle
        BY <1>1, <2>3 DEF Overlaps
      <3>2. \A k \in Managers : Knows(k, n)'
        <4>1. ASSUME NEW k \in Managers, k # m, SameFile(m, k) PROVE Knows(k, n)'
          BY <1>4, <1>5, <3>1, <4>1 DEF Knows
        <4>2. ASSUME NEW k \in Managers, ~SameFile(m, k) PROVE Knows(k, n)'
          BY <1>3, <1>4, <1>5, <2>0, <4>2, KnowsStill DEF NumberWell, SameFile
        <4> QED BY <2>1, <4>1, <4>2
      <3>3. command[q] # NoCommand /\ command[q].agent = IF m = "agent" THEN "runs" ELSE "done"
        BY <1>1, <1>2 DEF BlInv, Runners
      <3>4. /\ OpenFor(n)' = OpenFor(n) /\ q \in OpenFor(n)
            /\ \A r \in OpenFor(n) : command[r].kind = command[q].kind
        BY <1>1, <1>2, <2>0, <2>3, <3>3 DEF NumberWell, OpenFor
      <3>5. command[q].kind = "block" <=> n \in file'["agent"]
        <4>1. CASE SameFile(m, "agent")
          BY <1>2, <1>4, <2>3, <4>1 DEF Managers
        <4>2. CASE ~SameFile(m, "agent")
          BY <1>4, <2>0, <3>3, <3>4, <4>2 DEF NumberWell, Managers, SameFile
        <4> QED BY <4>1, <4>2
      <3> QED BY <1>1, <2>0, <3>2, <3>4, <3>5 DEF NumberWell
    <2> QED BY <2>2, <2>3
  <1> QED BY <1>6, <1>7, <1>8, <1>9, <1>10 DEF BlInv

LEMMA WriteFailsKeeps ==
    ASSUME BlInv, NEW m \in Managers, WriteFails(m), NEW q, q = doing[m].of
    PROVE  BlInv'
  <1>1. /\ doing[m] # Idle /\ doing[m].phase = "apply" /\ q # "read"
        /\ command' = [command EXCEPT ![q] = NoCommand]
        /\ UNCHANGED <<oneNode, file, current, confirmed>>
        /\ doubted' = doubted \cup {command[q].number}
    BY DEF WriteFails, At, Desired
  <1>2. /\ q \in Commands /\ command[q] \in Command /\ Desired(m) \in SUBSET Numbers
        /\ \A x \in Numbers : x # command[q].number => (x \in Desired(m) <=> x \in memory[m])
    BY <1>1, DesiredIs DEF BlInv
  <1>3. /\ memory'[m] = Desired(m) /\ \A k \in Managers : k # m => memory'[k] = memory[k]
        /\ memory' \in [Managers -> SUBSET Numbers]
    BY <1>2 DEF WriteFails, BlInv, BlTypeOK
  <1>4. /\ doing' \in [Managers -> {Idle} \cup Operation]
        /\ doing'[m] = Idle
        /\ \A k \in Managers : k # m => doing'[k] = doing[k]
    BY Done DEF WriteFails, BlInv
  <1>5. /\ command' \in [Commands -> {NoCommand} \cup Command]
        /\ command'[q] = NoCommand
        /\ \A r \in Commands : r # q => command'[r] = command[r]
    BY <1>1, <1>2, CommandSet DEF BlInv
  <1>6. BlTypeOK'
    BY <1>1, <1>2, <1>3, <1>4, <1>5 DEF BlInv, BlTypeOK, Command
  <1>7. ASSUME NEW k \in Managers, k # m PROVE doing'[k] # Idle => doing'[k].of # q
    BY <1>1, <1>2, <1>4, <1>7 DEF BlInv, Runners, Managers
  <1>8. OneFile' /\ Runners'
    BY <1>1, <1>4, <1>5, <1>7 DEF BlInv, OneFile, Runners
  <1>9. Stamped'
    BY <1>3, <1>4, <1>5, <1>7 DEF BlInv, Stamped, At
  <1>10. ASSUME NEW n \in Numbers \ doubted' PROVE NumberWell(n)'
    <2>0. NumberWell(n) /\ n # command[q].number
      BY <1>1 DEF BlInv
    <2>1. Knows(m, n)'
      BY <1>1, <1>2, <1>3, <2>0, KnowsIs DEF NumberWell, Knows
    <2>2. \A k \in Managers : Knows(k, n)'
      BY <1>1, <1>3, <1>4, <2>0, <2>1, KnowsStill DEF NumberWell
    <2> QED BY <1>1, <1>5, <2>0, <2>2, WellStays
  <1> QED BY <1>6, <1>8, <1>9, <1>10 DEF BlInv

LEMMA OrderKeeps ==
    ASSUME BlInv, NEW q \in Commands, NEW o \in Numbers, NEW kind \in Kinds, Order(q, o, kind)
    PROVE  BlInv'
  <1> DEFINE c == [kind |-> kind, number |-> o, agent |-> "asked", userbot |-> "waits"]
  <1>1. /\ command[q] = NoCommand /\ command' = [command EXCEPT ![q] = c]
        /\ confirmed' = [confirmed EXCEPT ![o] = "unknown"]
        /\ UNCHANGED <<oneNode, file, memory, current, doing>>
        /\ doubted' \in SUBSET Numbers
        /\ doubted \subseteq doubted' \cup {o}
        /\ o \notin doubted' =>
               \/ OpenFor(o) = {} /\ \A m \in Managers : Knows(m, o)
               \/ NumberWell(o) /\ ~Crosses(o, kind)
    BY DEF Order, BlInv, BlTypeOK
  <1>2. c \in Command /\ c.number = o /\ c.agent = "asked" /\ c.kind = kind
    BY DEF Command
  <1> HIDE DEF c
  <1>3. /\ command' \in [Commands -> {NoCommand} \cup Command]
        /\ command'[q] = c
        /\ \A r \in Commands : r # q => command'[r] = command[r]
    BY <1>1, <1>2, CommandSet DEF BlInv
  <1>4. /\ confirmed' \in [Numbers -> {"blocked", "free", "unknown"}]
        /\ confirmed'[o] = "unknown"
        /\ \A n \in Numbers : n # o => confirmed'[n] = confirmed[n]
    BY <1>1 DEF BlInv, BlTypeOK
  <1>5. BlTypeOK'
    BY <1>1, <1>3, <1>4 DEF BlInv, BlTypeOK
  <1>6. \A m \in Managers : doing[m] # Idle => doing[m].of # q
    BY <1>1 DEF BlInv, Runners
  <1>7. OneFile' /\ Runners' /\ Stamped'
    BY <1>1, <1>3, <1>6 DEF BlInv, OneFile, Runners, Stamped, At
  <1>8. ASSUME NEW n \in Numbers \ doubted' PROVE NumberWell(n)'
    <2>1. \A m \in Managers : Knows(m, n)' <=> Knows(m, n)
      BY <1>1 DEF Knows, At
    <2>2. CASE n # o
      <3>1. NumberWell(n)
        BY <1>1, <2>2 DEF BlInv
      <3> QED BY <1>1, <1>2, <1>3, <1>4, <2>1, <2>2, <3>1, WellStays DEF NumberWell
    <2>3. CASE n = o
      <3>1. /\ \A m \in Managers : Knows(m, n)'
            /\ \A r \in OpenFor(n) :
                   /\ command[r].kind = kind
                   /\ command[r].agent = "done" => (kind = "block" <=> n \in file["agent"])
        BY <1>1, <2>1, <2>3 DEF NumberWell, Crosses
      <3>2. \A r \in OpenFor(n)' : r = q \/ (r \in OpenFor(n) /\ command'[r] = command[r])
        BY <1>3 DEF OpenFor
      <3> QED BY <1>1, <1>2, <1>3, <1>4, <2>3, <3>1, <3>2 DEF NumberWell
    <2> QED BY <2>2, <2>3
  <1> QED BY <1>5, <1>7, <1>8 DEF BlInv

\* Work for a command begins at one of the managers.
LEMMA RunsKeeps ==
    ASSUME BlInv, NEW m \in Managers, NEW of \in Commands \cup {"read"}, Begin(m, of),
           command' \in [Commands -> {NoCommand} \cup Command],
           \A r \in Commands : r # of => command'[r] = command[r],
           of \in Commands =>
               /\ command[of] # NoCommand /\ command'[of] # NoCommand
               /\ command[of].agent = IF m = "agent" THEN "asked" ELSE "done"
               /\ command'[of].agent = IF m = "agent" THEN "runs" ELSE "done"
               /\ m = "userbot" => command[of].userbot = "waits" /\ command'[of].userbot = "runs"
               /\ command'[of].kind = command[of].kind
               /\ command'[of].number = command[of].number,
           UNCHANGED <<oneNode, file, memory, current, confirmed, doubted>>
    PROVE  BlInv'
  <1>1. /\ doing' \in [Managers -> {Idle} \cup Operation]
        /\ doing[m] = Idle /\ doing'[m] # Idle /\ doing'[m].of = of
        /\ doing'[m].phase = IF current[m] THEN "apply" ELSE "load"
        /\ \A k \in Managers : k # m => doing'[k] = doing[k]
    BY Begun DEF BlInv
  <1>2. BlTypeOK' /\ OneFile'
    BY <1>1 DEF BlInv, BlTypeOK, OneFile
  <1>3. ASSUME NEW k \in Managers, k # m, of \in Commands, doing[k] # Idle
        PROVE  doing[k].of # of
    BY <1>3 DEF BlInv, Runners, Managers
  <1>4. Runners'
    BY <1>1, <1>3 DEF BlInv, Runners, Managers
  <1>5. Stamped'
    BY <1>1, <1>3 DEF BlInv, Stamped, At
  <1>6. ASSUME NEW n \in Numbers \ doubted PROVE NumberWell(n)'
    <2>1. Knows(m, n)'
      BY <1>1 DEF BlInv, NumberWell, Knows, At
    <2>2. \A k \in Managers : Knows(k, n)'
      BY <1>1, <2>1, KnowsStill DEF BlInv, NumberWell
    <2>3. \A q \in Commands :
              command'[q] # NoCommand /\ command'[q].number = n =>
                  /\ command[q] # NoCommand /\ command[q].number = n
                  /\ command'[q].kind = command[q].kind
                  /\ command'[q].agent = "done" => command[q].agent = "done"
      BY DEF Managers
    <2> QED BY <2>2, <2>3, WellStays DEF BlInv
  <1> QED BY <1>2, <1>4, <1>5, <1>6 DEF BlInv

LEMMA AgentRunsKeeps ==
    ASSUME BlInv, NEW q \in Commands, AgentRuns(q)
    PROVE  BlInv'
  <1> DEFINE c == [kind |-> command[q].kind, number |-> command[q].number,
                   agent |-> "runs", userbot |-> command[q].userbot]
  <1>1. command[q] # NoCommand /\ command[q] \in Command /\ q # "read"
    BY CommandType, CommandAssumption DEF AgentRuns, BlInv
  <1>2. /\ c \in Command /\ c # NoCommand /\ c.agent = "runs"
        /\ c.kind = command[q].kind /\ c.number = command[q].number
        /\ [command[q] EXCEPT !.agent = "runs"] = c
    BY <1>1 DEF Command, NoCommand
  <1> HIDE DEF c
  <1>3. command' = [command EXCEPT ![q] = c]
    BY <1>2 DEF AgentRuns
  <1>4. /\ command' \in [Commands -> {NoCommand} \cup Command]
        /\ command'[q] = c
        /\ \A r \in Commands : r # q => command'[r] = command[r]
    BY <1>2, <1>3, CommandSet DEF BlInv
  <1> QED BY <1>1, <1>2, <1>4, RunsKeeps DEF AgentRuns, Managers

LEMMA UserbotRunsKeeps ==
    ASSUME BlInv, NEW q \in Commands, UserbotRuns(q)
    PROVE  BlInv'
  <1> DEFINE c == [kind |-> command[q].kind, number |-> command[q].number,
                   agent |-> "done", userbot |-> "runs"]
  <1>1. command[q] # NoCommand /\ command[q] \in Command /\ q # "read"
        /\ command[q].agent = "done"
    BY CommandType, CommandAssumption DEF UserbotRuns, BlInv
  <1>2. /\ c \in Command /\ c # NoCommand /\ c.agent = "done" /\ c.userbot = "runs"
        /\ c.kind = command[q].kind /\ c.number = command[q].number
        /\ [command[q] EXCEPT !.userbot = "runs"] = c
    BY <1>1 DEF Command, NoCommand
  <1> HIDE DEF c
  <1>3. command' = [command EXCEPT ![q] = c]
    BY <1>2 DEF UserbotRuns
  <1>4. /\ command' \in [Commands -> {NoCommand} \cup Command]
        /\ command'[q] = c
        /\ \A r \in Commands : r # q => command'[r] = command[r]
    BY <1>2, <1>3, CommandSet DEF BlInv
  <1> QED BY <1>1, <1>2, <1>4, RunsKeeps DEF UserbotRuns, Managers

LEMMA ReadAtKeeps ==
    ASSUME BlInv, NEW m \in Managers, ReadAt(m)
    PROVE  BlInv'
  <1>1. command' \in [Commands -> {NoCommand} \cup Command]
    BY DEF ReadAt, BlInv, BlTypeOK
  <1> QED BY <1>1, RunsKeeps, CommandAssumption DEF ReadAt

\* The userbot gives up a command, or one that it gave up goes: no manager runs
\* for it, or the agent still does.
LEMMA LeavingKeeps ==
    ASSUME BlInv, NEW q \in Commands,
           command' \in [Commands -> {NoCommand} \cup Command],
           \A r \in Commands : r # q => command'[r] = command[r],
           command'[q] # NoCommand =>
               /\ command[q] # NoCommand
               /\ command'[q].kind = command[q].kind
               /\ command'[q].number = command[q].number
               /\ command'[q].agent = command[q].agent,
           command[q].userbot # "runs",
           command'[q] = NoCommand => command[q].agent # "runs",
           UNCHANGED <<oneNode, file, memory, current, doing, confirmed, doubted>>
    PROVE  BlInv'
  <1>1. BlTypeOK' /\ OneFile'
    BY DEF BlInv, BlTypeOK, OneFile
  <1>2. ASSUME NEW m \in Managers, doing[m] # Idle, doing[m].of = q
        PROVE  m = "agent" /\ command'[q] # NoCommand
    BY <1>2 DEF BlInv, Runners, Managers
  <1>3. Runners'
    BY <1>2 DEF BlInv, Runners
  <1>4. Stamped'
    BY <1>2 DEF BlInv, Stamped, At
  <1>5. ASSUME NEW n \in Numbers \ doubted PROVE NumberWell(n)'
    <2>1. \A k \in Managers : Knows(k, n)'
      BY KnowsStill DEF BlInv, NumberWell
    <2> QED BY <2>1, WellStays DEF BlInv
  <1> QED BY <1>1, <1>3, <1>4, <1>5 DEF BlInv

LEMMA GiveUpKeeps ==
    ASSUME BlInv, NEW q \in Commands, GiveUp(q)
    PROVE  BlInv'
  <1> DEFINE c == [kind |-> command[q].kind, number |-> command[q].number,
                   agent |-> command[q].agent, userbot |-> "gone"]
  <1>1. command[q] # NoCommand /\ command[q] \in Command /\ command[q].userbot = "waits"
    BY CommandType DEF GiveUp, BlInv
  <1>2. /\ c \in Command /\ c.agent = command[q].agent
        /\ c.kind = command[q].kind /\ c.number = command[q].number
        /\ [command[q] EXCEPT !.userbot = "gone"] = c
    BY <1>1 DEF Command
  <1> HIDE DEF c
  <1>3. command' = [command EXCEPT ![q] = IF command[q].agent = "done" THEN NoCommand ELSE c]
    BY <1>2 DEF GiveUp
  <1>4. /\ command' \in [Commands -> {NoCommand} \cup Command]
        /\ command'[q] = IF command[q].agent = "done" THEN NoCommand ELSE c
        /\ \A r \in Commands : r # q => command'[r] = command[r]
    BY <1>2, <1>3, CommandSet DEF BlInv
  <1>5. c # NoCommand
    BY <1>2 DEF Command, NoCommand
  <1> QED BY <1>1, <1>2, <1>4, <1>5, LeavingKeeps DEF GiveUp

LEMMA RequestLostKeeps ==
    ASSUME BlInv, NEW q \in Commands, RequestLost(q)
    PROVE  BlInv'
  <1>1. /\ command' \in [Commands -> {NoCommand} \cup Command]
        /\ command'[q] = NoCommand
        /\ \A r \in Commands : r # q => command'[r] = command[r]
    BY CommandSet DEF RequestLost, BlInv
  <1> QED BY <1>1, LeavingKeeps DEF RequestLost

LEMMA EditKeeps ==
    ASSUME BlInv, NEW m \in Managers, NEW o \in Numbers, Edit(m, o)
    PROVE  BlInv'
  <1> DEFINE new == IF o \in file[m] THEN file[m] \ {o} ELSE file[m] \cup {o}
  <1>1. new \in SUBSET Numbers /\ \A x \in Numbers : x # o => (x \in new <=> x \in file[m])
    BY DEF BlInv, BlTypeOK
  <1>2. Replace(m, new)
    BY DEF Edit
  <1> HIDE DEF new
  <1>3. /\ file' \in [Managers -> SUBSET Numbers] /\ current' \in [Managers -> BOOLEAN]
        /\ \A k \in Managers : /\ SameFile(m, k) => file'[k] = new /\ ~current'[k]
                               /\ ~SameFile(m, k) => file'[k] = file[k] /\ current'[k] = current[k]
    BY <1>1, <1>2, ReplaceEffect DEF BlInv
  <1>4. /\ confirmed' = [confirmed EXCEPT ![o] = "unknown"]
        /\ UNCHANGED <<oneNode, memory, doing, command>>
        /\ doubted' \in SUBSET Numbers /\ doubted \subseteq doubted'
        /\ o \notin doubted' => ~Overlaps("operator", m) /\ OpenFor(o) = {}
    BY DEF Edit, BlInv, BlTypeOK
  <1>5. confirmed'[o] = "unknown" /\ \A x \in Numbers : x # o => confirmed'[x] = confirmed[x]
    BY <1>4 DEF BlInv, BlTypeOK
  <1>6. BlTypeOK'
    BY <1>3, <1>4 DEF BlInv, BlTypeOK
  <1>7. OneFile' /\ Runners' /\ Stamped'
    BY <1>3, <1>4 DEF BlInv, OneFile, Runners, Stamped, At, SameFile, Managers
  <1>8. ASSUME NEW n \in Numbers \ doubted' PROVE NumberWell(n)'
    <2>0. NumberWell(n)
      BY <1>4 DEF BlInv
    <2>1. CASE n # o
      <3>1. ASSUME NEW k \in Managers PROVE n \in file'[k] <=> n \in file[k]
        <4>1. SameFile(m, k) => file[k] = file[m]
          BY DEF SameFile, BlInv, OneFile, Managers
        <4> QED BY <1>1, <1>3, <2>1, <4>1
      <3>2. \A k \in Managers : Knows(k, n)'
        BY <1>3, <1>4, <2>0, <3>1, KnowsStill DEF NumberWell
      <3> QED BY <1>4, <1>5, <2>0, <2>1, <3>1, <3>2, WellStays DEF Managers
    <2>2. CASE n = o
      <3>1. OpenFor(n) = {} /\ \A k \in Managers : SameFile(m, k) => doing[k] = Idle
        BY <1>4, <2>2 DEF Overlaps, Managers
      <3>2. OpenFor(n)' = {}
        BY <1>4, <3>1 DEF OpenFor
      <3>3. \A k \in Managers : Knows(k, n)'
        <4>1. ASSUME NEW k \in Managers, SameFile(m, k) PROVE Knows(k, n)'
          BY <1>3, <1>4, <3>1, <4>1 DEF Knows
        <4>2. ASSUME NEW k \in Managers, ~SameFile(m, k) PROVE Knows(k, n)'
          BY <1>3, <1>4, <2>0, <4>2, KnowsStill DEF NumberWell
        <4> QED BY <4>1, <4>2
      <3> QED BY <1>5, <2>2, <3>2, <3>3 DEF NumberWell
    <2> QED BY <2>1, <2>2
  <1> QED BY <1>6, <1>7, <1>8 DEF BlInv

-----------------------------------------------------------------------------
LEMMA BlInitHolds == BlInit => BlInv
  <1> SUFFICES ASSUME BlInit PROVE BlInv
    OBVIOUS
  <1>1. BlTypeOK /\ OneFile /\ Runners /\ Stamped
    BY DEF BlInit, BlTypeOK, OneFile, Runners, Stamped, At, Managers
  <1>2. \A n \in Numbers : OpenFor(n) = {} /\ \A m \in Managers : Knows(m, n)
    BY DEF BlInit, OpenFor, Knows
  <1>3. \A n \in Numbers : NumberWell(n)
    BY <1>2 DEF BlInit, NumberWell
  <1> QED BY <1>1, <1>3 DEF BlInv

LEMMA BlStepKeeps == BlInv /\ [BlNext]_blVars => BlInv'
  <1> SUFFICES ASSUME BlInv, [BlNext]_blVars PROVE BlInv'
    OBVIOUS
  <1>1. CASE UNCHANGED blVars
    BY <1>1 DEF blVars, BlInv, BlTypeOK, OneFile, Runners, Stamped, NumberWell, OpenFor,
       Knows, At
  <1>2. CASE BlNext
    <2>1. ASSUME NEW m \in Managers,
                 \/ Load(m) \/ Stat(m) \/ NothingToDo(m) \/ Write(m)
                 \/ Stamp(m) \/ WriteFails(m) \/ ReadAt(m)
          PROVE  BlInv'
      BY <2>1, BlLoadKeeps, BlStatKeeps, NothingToDoKeeps, WriteKeeps, StampKeeps,
         WriteFailsKeeps, ReadAtKeeps
    <2>2. ASSUME NEW q \in Commands, NEW n \in Numbers, NEW kind \in Kinds, Order(q, n, kind)
          PROVE  BlInv'
      BY <2>2, OrderKeeps
    <2>3. ASSUME NEW q \in Commands,
                 AgentRuns(q) \/ UserbotRuns(q) \/ GiveUp(q) \/ RequestLost(q)
          PROVE  BlInv'
      BY <2>3, AgentRunsKeeps, UserbotRunsKeeps, GiveUpKeeps, RequestLostKeeps
    <2>4. ASSUME NEW m \in Managers, NEW n \in Numbers, Edit(m, n) PROVE BlInv'
      BY <2>4, EditKeeps
    <2> QED BY <1>2, <2>1, <2>2, <2>3, <2>4 DEF BlNext
  <1> QED BY <1>1, <1>2

\* The invariant of the blacklist: what a manager remembers of a number, and how far
\* the command for it is, through every phase of every operation.
THEOREM BlInductive == BlSpec => []BlInv
  BY BlInitHolds, BlStepKeeps, PTL DEF BlSpec

\* Every variable of the blacklist keeps its type.
THEOREM BlTypeCorrect == BlSpec => []BlTypeOK
  <1>1. BlInv => BlTypeOK
    BY DEF BlInv
  <1> QED BY <1>1, BlInductive, PTL

\* What /block or /unblock told the user is what the dialplan's script reads, for
\* any numbers and any commands at once, unless another command or an edit of the
\* number crossed it, or a write of the number failed or fell inside an operation
\* of the other process.
THEOREM ConfirmedStands == BlSpec => []BlConfirmedStands
  <1>1. BlInv => BlConfirmedStands
    BY DEF BlInv, BlConfirmedStands, NumberWell, Rejected
  <1> QED BY <1>1, BlInductive, PTL

-----------------------------------------------------------------------------
(* The supervisor: the inductive invariant                                  *)

\* What was told fits a modem last seen as `reg`.
Fits(reg) ==
    ~silenced =>
        /\ reg = "unseen" => told = "nothing"
        /\ reg = "no" => told # "recovered"
        /\ reg = "yes" => told \in {"recovered", "nothing"}

\* A registered modem is present.
RegisteredIsPresent ==
    /\ supState.registered = "yes" => supState.present = "yes"
    /\ supCycle # AtRest /\ supCycle.registered = "yes" => supCycle.present = "yes"

\* The alert on its way is the one its stage asked for.
SendsItsEdge ==
    supCycle # AtRest /\ "sends" \in DOMAIN supCycle =>
        /\ EdgeAlert(supCycle) # "none"
        /\ supCycle.sends = EdgeAlert(supCycle)

\* What was told fits what the supervisor remembers, from the stage that tells
\* of a loss on what the cycle has read, and at the end both are the same.
ToldByStage ==
    /\ supCycle = AtRest => Fits(supState.registered)
    /\ supCycle # AtRest =>
           CASE supCycle.at = "presence" -> Fits(supState.registered)
             [] supCycle.at = "registration" ->
                    Fits(IF supCycle.present = "no" THEN "no" ELSE supState.registered)
             [] supCycle.at = "recovery" ->
                    Fits(IF supCycle.registered = "no" THEN "no" ELSE supState.registered)
             [] OTHER -> Fits(supState.registered)

SupInv ==
    /\ SupTypeOK /\ RegisteredIsPresent /\ SendsItsEdge /\ ToldByStage
    /\ SupToldWhatItSaw

-----------------------------------------------------------------------------
(* The supervisor: its steps                                                *)

ReadCycle == [at : Stages, present : Replies, registered : Replies, peer : Replies]
SendCycle == [at : Stages, present : Replies, registered : Replies, peer : Replies,
            sends : Rules]

\* A cycle in progress has a stage and its three readings.
LEMMA CycleType ==
    ASSUME SupTypeOK, supCycle # AtRest
    PROVE  /\ supCycle \in ReadCycle \cup SendCycle
           /\ supCycle.at \in Stages
           /\ supCycle.present \in Replies /\ supCycle.registered \in Replies
           /\ supCycle.peer \in Replies
  <1>1. supCycle \in ReadCycle \cup SendCycle
    BY DEF SupTypeOK, ReadCycle, SendCycle
  <1>2. CASE supCycle \in ReadCycle
    BY <1>1, <1>2 DEF ReadCycle
  <1>3. CASE supCycle \in SendCycle
    BY <1>1, <1>3 DEF SendCycle
  <1> QED BY <1>1, <1>2, <1>3

\* A cycle that reads sends nothing, and none is at rest.
LEMMA ReadCycleIs ==
    ASSUME NEW c \in ReadCycle
    PROVE  c # AtRest /\ "sends" \notin DOMAIN c
  BY DEF ReadCycle, AtRest

LEMMA SaysIs ==
    /\ DOMAIN Says = {"dongle_offline", "gsm_registration_lost", "modem_recovery"}
    /\ Says["dongle_offline"] = "offline"
    /\ Says["gsm_registration_lost"] = "unregistered"
    /\ Says["modem_recovery"] = "recovered"
    /\ "none" \notin DOMAIN Says
  BY DEF Says

\* What each stage asks for.
LEMMA EdgeIs ==
    ASSUME NEW c, c.at \in Stages
    PROVE  /\ c.at = "presence" => EdgeAlert(c) =
                  IF supState.present = "yes" /\ c.present = "no" THEN "dongle_offline" ELSE "none"
           /\ c.at = "registration" => EdgeAlert(c) =
                  IF supState.registered = "yes" /\ c.registered = "no" /\ c.present = "yes"
                  THEN "gsm_registration_lost" ELSE "none"
           /\ c.at = "recovery" => EdgeAlert(c) =
                  IF supState.registered = "no" /\ c.registered = "yes"
                  THEN "modem_recovery" ELSE "none"
           /\ c.at = "peer" => EdgeAlert(c) \in {"peer_recovery", "peer_unreachable", "none"}
           /\ EdgeAlert(c) \in Rules \cup {"none"}
  BY DEF EdgeAlert, Stages, Rules

\* What a stage that is over leaves behind.
LEMMA AdvanceEffect ==
    ASSUME SupTypeOK, supCycle # AtRest, Advance(supCycle)
    PROVE  /\ supState' \in [{"present", "registered", "peer"} -> Replies \cup {"unseen"}]
           /\ supCycle' \in {AtRest} \cup ReadCycle
           /\ supCycle.at = "peer" =>
                  /\ supCycle' = AtRest
                  /\ supState'.present = supState.present
                  /\ supState'.registered = supState.registered
           /\ supCycle.at # "peer" =>
                  /\ supCycle' \in ReadCycle
                  /\ supCycle'.at = NextStage[supCycle.at]
                  /\ supCycle'.present = supCycle.present
                  /\ supCycle'.registered = supCycle.registered
           /\ supCycle.at = "recovery" =>
                  /\ supState'.present = supCycle.present
                  /\ supState'.registered = supCycle.registered
           /\ supCycle.at \in {"presence", "registration"} => supState' = supState
  <1>1. /\ supCycle.at \in Stages
        /\ supCycle.present \in Replies /\ supCycle.registered \in Replies
        /\ supCycle.peer \in Replies
    BY CycleType
  <1>2. supState \in [{"present", "registered", "peer"} -> Replies \cup {"unseen"}]
    BY DEF SupTypeOK
  <1>3. CASE supCycle.at = "peer"
    <2>1. supState' = [supState EXCEPT !.peer = supCycle.peer] /\ supCycle' = AtRest
      BY <1>3 DEF Advance, Remember
    <2> QED BY <1>1, <1>2, <1>3, <2>1
  <1>4. CASE supCycle.at # "peer"
    <2> DEFINE next == [at |-> NextStage[supCycle.at], present |-> supCycle.present,
                        registered |-> supCycle.registered, peer |-> supCycle.peer]
    <2>1. supCycle' = next
      BY <1>4 DEF Advance
    <2>2. NextStage[supCycle.at] \in Stages
      BY <1>1, <1>4 DEF NextStage, Stages
    <2>3. /\ next \in ReadCycle /\ next.at = NextStage[supCycle.at]
          /\ next.present = supCycle.present /\ next.registered = supCycle.registered
      BY <1>1, <2>2 DEF ReadCycle
    <2> HIDE DEF next
    <2>4. CASE supCycle.at = "recovery"
      <3>1. supState' = [supState EXCEPT !.present = supCycle.present,
                                         !.registered = supCycle.registered]
        BY <2>4 DEF Advance, Remember
      <3> QED BY <1>1, <1>2, <2>1, <2>3, <2>4, <3>1
    <2>5. CASE supCycle.at # "recovery"
      <3>1. supState' = supState
        BY <1>4, <2>5 DEF Advance, Remember
      <3> QED BY <1>2, <1>4, <2>1, <2>3, <2>5, <3>1
    <2> QED BY <2>4, <2>5
  <1> QED BY <1>3, <1>4

\* A stage is over, and its alert, if it had one on the modem, has arrived or
\* has not.
LEMMA AdvanceKeeps ==
    ASSUME SupInv, supCycle # AtRest, Advance(supCycle), NEW rule,
           rule = EdgeAlert(supCycle),
           rule \in DOMAIN Says => silenced' \/ told' = Says[rule],
           rule \notin DOMAIN Says => UNCHANGED <<told, silenced>>,
           told' \in {"nothing", "offline", "unregistered", "recovered"},
           silenced' \in BOOLEAN,
           UNCHANGED <<dongle, amiUp, provider, peerUp, watchdog>>
    PROVE  SupInv'
  <1>1. /\ supCycle.at \in Stages
        /\ supCycle.present \in Replies /\ supCycle.registered \in Replies
    BY CycleType DEF SupInv
  <1>2. /\ supState' \in [{"present", "registered", "peer"} -> Replies \cup {"unseen"}]
        /\ supCycle' \in {AtRest} \cup ReadCycle
        /\ supCycle.at = "peer" => /\ supCycle' = AtRest
                                   /\ supState'.present = supState.present
                                   /\ supState'.registered = supState.registered
        /\ supCycle.at # "peer" => /\ supCycle' \in ReadCycle
                                   /\ supCycle'.at = NextStage[supCycle.at]
                                   /\ supCycle'.present = supCycle.present
                                   /\ supCycle'.registered = supCycle.registered
        /\ supCycle.at = "recovery" => /\ supState'.present = supCycle.present
                                       /\ supState'.registered = supCycle.registered
        /\ supCycle.at \in {"presence", "registration"} => supState' = supState
    BY AdvanceEffect DEF SupInv
  <1>3. /\ supState.present \in Replies \cup {"unseen"}
        /\ supState.registered \in Replies \cup {"unseen"}
    BY DEF SupInv, SupTypeOK
  <1>4. SupTypeOK'
    BY <1>2 DEF SupInv, SupTypeOK, ReadCycle
  <1>5. supCycle' # AtRest => "sends" \notin DOMAIN supCycle'
    BY <1>2, ReadCycleIs
  <1>6. SendsItsEdge'
    BY <1>5 DEF SendsItsEdge
  <1>7. RegisteredIsPresent'
    BY <1>1, <1>2 DEF SupInv, RegisteredIsPresent, Stages
  <1>8. CASE supCycle.at = "presence"
    <2>1. /\ supCycle' # AtRest /\ supCycle'.at = "registration" /\ supState' = supState
          /\ supCycle'.present = supCycle.present
      BY <1>2, <1>8, ReadCycleIs DEF NextStage
    <2>2. Fits(supState.registered)
      BY <1>8 DEF SupInv, ToldByStage
    <2>3. rule = IF supState.present = "yes" /\ supCycle.present = "no"
                 THEN "dongle_offline" ELSE "none"
      BY <1>1, <1>8, EdgeIs
    <2>4. Fits(IF supCycle.present = "no" THEN "no" ELSE supState.registered)'
      BY <1>1, <1>3, <2>1, <2>2, <2>3, SaysIs
         DEF Fits, SupInv, RegisteredIsPresent, Replies
    <2>5. ToldByStage' /\ SupToldWhatItSaw'
      BY <2>1, <2>4 DEF ToldByStage, SupToldWhatItSaw, Fits
    <2> QED BY <1>4, <1>6, <1>7, <2>5 DEF SupInv
  <1>9. CASE supCycle.at = "registration"
    <2>1. /\ supCycle' # AtRest /\ supCycle'.at = "recovery" /\ supState' = supState
          /\ supCycle'.registered = supCycle.registered
      BY <1>2, <1>9, ReadCycleIs DEF NextStage
    <2>2. Fits(IF supCycle.present = "no" THEN "no" ELSE supState.registered)
      BY <1>9 DEF SupInv, ToldByStage
    <2>3. rule = IF supState.registered = "yes" /\ supCycle.registered = "no"
                    /\ supCycle.present = "yes"
                 THEN "gsm_registration_lost" ELSE "none"
      BY <1>1, <1>9, EdgeIs
    <2>4. Fits(IF supCycle.registered = "no" THEN "no" ELSE supState.registered)'
      BY <1>1, <1>3, <2>1, <2>2, <2>3, SaysIs
         DEF Fits, SupInv, RegisteredIsPresent, Replies
    <2>5. ToldByStage' /\ SupToldWhatItSaw'
      BY <2>1, <2>4 DEF ToldByStage, SupToldWhatItSaw, Fits
    <2> QED BY <1>4, <1>6, <1>7, <2>5 DEF SupInv
  <1>10. CASE supCycle.at = "recovery"
    <2>1. /\ supCycle' # AtRest /\ supCycle'.at = "peer"
          /\ supState'.registered = supCycle.registered
      BY <1>2, <1>10, ReadCycleIs DEF NextStage
    <2>2. Fits(IF supCycle.registered = "no" THEN "no" ELSE supState.registered)
      BY <1>10 DEF SupInv, ToldByStage
    <2>3. rule = IF supState.registered = "no" /\ supCycle.registered = "yes"
                 THEN "modem_recovery" ELSE "none"
      BY <1>1, <1>10, EdgeIs
    <2>4. Fits(supState.registered)'
      BY <1>1, <1>3, <2>1, <2>2, <2>3, SaysIs DEF Fits, Replies
    <2>5. ToldByStage' /\ SupToldWhatItSaw'
      BY <2>1, <2>4 DEF ToldByStage, SupToldWhatItSaw, Fits
    <2> QED BY <1>4, <1>6, <1>7, <2>5 DEF SupInv
  <1>11. CASE supCycle.at = "peer"
    <2>1. supCycle' = AtRest /\ supState'.registered = supState.registered
      BY <1>2, <1>11
    <2>2. Fits(supState.registered)
      BY <1>11 DEF SupInv, ToldByStage
    <2>3. rule \in {"peer_recovery", "peer_unreachable", "none"}
      BY <1>1, <1>11, EdgeIs
    <2>4. UNCHANGED <<told, silenced>>
      BY <2>3, SaysIs
    <2>5. Fits(supState.registered)'
      BY <2>1, <2>2, <2>4 DEF Fits
    <2>6. ToldByStage' /\ SupToldWhatItSaw'
      BY <2>1, <2>5 DEF ToldByStage, SupToldWhatItSaw, Fits
    <2> QED BY <1>4, <1>6, <1>7, <2>6 DEF SupInv
  <1> QED BY <1>1, <1>8, <1>9, <1>10, <1>11 DEF Stages

LEMMA CycleStartsKeeps ==
    ASSUME SupInv, CycleStarts
    PROVE  SupInv'
  <1> DEFINE c == [at |-> "presence", present |-> YesNo(Online),
                   registered |-> YesNo(provider.registered), peer |-> YesNo(peerUp)]
  <1>1. /\ supCycle = AtRest /\ supCycle' = c
        /\ UNCHANGED <<dongle, amiUp, provider, peerUp, supState, watchdog, told, silenced>>
    BY DEF CycleStarts
  <1>2. /\ c \in ReadCycle /\ c.at = "presence"
        /\ c.registered = "yes" => c.present = "yes"
    BY DEF ReadCycle, YesNo, Replies, Stages, Online, ProviderState
  <1> HIDE DEF c
  <1>3. c # AtRest /\ "sends" \notin DOMAIN c
    BY <1>2, ReadCycleIs
  <1>4. SupTypeOK'
    BY <1>1, <1>2 DEF SupInv, SupTypeOK, ReadCycle
  <1>5. SendsItsEdge' /\ RegisteredIsPresent' /\ SupToldWhatItSaw'
    BY <1>1, <1>2, <1>3 DEF SupInv, SendsItsEdge, RegisteredIsPresent, SupToldWhatItSaw
  <1>6. ToldByStage'
    BY <1>1, <1>2, <1>3 DEF SupInv, ToldByStage, Fits
  <1> QED BY <1>4, <1>5, <1>6 DEF SupInv

LEMMA NoAlertKeeps ==
    ASSUME SupInv, NoAlertHere
    PROVE  SupInv'
  <1>1. /\ supCycle # AtRest /\ EdgeAlert(supCycle) = "none" /\ Advance(supCycle)
        /\ UNCHANGED <<dongle, amiUp, provider, peerUp, watchdog, told, silenced>>
    BY DEF NoAlertHere, AtStage
  <1>2. /\ told' \in {"nothing", "offline", "unregistered", "recovered"}
        /\ silenced' \in BOOLEAN
    BY <1>1 DEF SupInv, SupTypeOK
  <1> QED BY <1>1, <1>2, SaysIs, AdvanceKeeps

LEMMA SuppressedKeeps ==
    ASSUME SupInv, AlertSuppressed
    PROVE  SupInv'
  <1> DEFINE rule == EdgeAlert(supCycle)
  <1>1. /\ supCycle # AtRest /\ Advance(supCycle)
        /\ silenced' = (silenced \/ rule \in DOMAIN Says)
        /\ UNCHANGED <<dongle, amiUp, provider, peerUp, watchdog, told>>
    BY DEF AlertSuppressed, AtStage
  <1>2. /\ told' \in {"nothing", "offline", "unregistered", "recovered"}
        /\ silenced' \in BOOLEAN /\ silenced \in BOOLEAN
    BY <1>1 DEF SupInv, SupTypeOK
  <1> HIDE DEF rule
  <1>3. rule \in DOMAIN Says => silenced'
    BY <1>1
  <1>4. rule \notin DOMAIN Says => silenced' = silenced
    BY <1>1, <1>2
  <1> QED BY <1>1, <1>2, <1>3, <1>4, AdvanceKeeps DEF rule

LEMMA AlertStartsKeeps ==
    ASSUME SupInv, AlertStarts
    PROVE  SupInv'
  <1> DEFINE c == [at |-> supCycle.at, present |-> supCycle.present,
                   registered |-> supCycle.registered, peer |-> supCycle.peer,
                   sends |-> EdgeAlert(supCycle)]
  <1>1. /\ supCycle # AtRest /\ supCycle' = c /\ EdgeAlert(supCycle) # "none"
        /\ UNCHANGED <<dongle, amiUp, provider, peerUp, supState, watchdog, told, silenced>>
    BY DEF AlertStarts, AtStage
  <1>2. /\ supCycle.at \in Stages
        /\ supCycle.present \in Replies /\ supCycle.registered \in Replies
        /\ supCycle.peer \in Replies
    BY <1>1, CycleType DEF SupInv
  <1>3. EdgeAlert(supCycle) \in Rules
    BY <1>1, <1>2, EdgeIs
  <1>4. /\ c \in SendCycle /\ c # AtRest /\ c.at = supCycle.at /\ c.present = supCycle.present
        /\ c.registered = supCycle.registered /\ c.sends = EdgeAlert(supCycle)
        /\ c.peer = supCycle.peer
    BY <1>2, <1>3 DEF SendCycle, AtRest
  <1> HIDE DEF c
  <1>5. EdgeAlert(c) = EdgeAlert(supCycle)
    BY <1>4 DEF EdgeAlert
  <1>6. EdgeAlert(supCycle)' = EdgeAlert(c)
    BY <1>1 DEF EdgeAlert
  <1>7. SupTypeOK'
    BY <1>1, <1>4 DEF SupInv, SupTypeOK, SendCycle
  <1>8. SendsItsEdge'
    BY <1>1, <1>4, <1>5, <1>6 DEF SendsItsEdge
  <1>9. RegisteredIsPresent' /\ SupToldWhatItSaw'
    BY <1>1, <1>4 DEF SupInv, RegisteredIsPresent, SupToldWhatItSaw
  <1>10. ToldByStage'
    BY <1>1, <1>4 DEF SupInv, ToldByStage, Fits
  <1> QED BY <1>7, <1>8, <1>9, <1>10 DEF SupInv

LEMMA AlertDoneKeeps ==
    ASSUME SupInv, NEW arrives \in BOOLEAN, AlertDone(arrives)
    PROVE  SupInv'
  <1>1. /\ supCycle # AtRest /\ supCycle.sends = EdgeAlert(supCycle) /\ Advance(supCycle)
        /\ UNCHANGED <<dongle, amiUp, provider, peerUp, watchdog>>
    BY DEF AlertDone, SupInv, SendsItsEdge
  <1> DEFINE rule == EdgeAlert(supCycle)
  <1>2. /\ rule \in DOMAIN Says =>
               /\ told' = IF arrives THEN Says[rule] ELSE told
               /\ silenced' = ~arrives
        /\ rule \notin DOMAIN Says => UNCHANGED <<told, silenced>>
    BY <1>1 DEF AlertDone
  <1> HIDE DEF rule
  <1>3. /\ told' \in {"nothing", "offline", "unregistered", "recovered"}
        /\ silenced' \in BOOLEAN
    BY <1>2, SaysIs DEF SupInv, SupTypeOK
  <1> QED BY <1>1, <1>2, <1>3, AdvanceKeeps DEF rule

\* The modem, the poll and the watchdog leave the supervisor alone.
LEMMA AroundKeeps ==
    ASSUME SupInv, SupTypeOK', UNCHANGED <<supState, supCycle, told, silenced>>
    PROVE  SupInv'
  <1>1. EdgeAlert(supCycle)' = EdgeAlert(supCycle)
    BY DEF EdgeAlert
  <1>2. SendsItsEdge'
    BY <1>1 DEF SupInv, SendsItsEdge
  <1>3. RegisteredIsPresent' /\ ToldByStage' /\ SupToldWhatItSaw'
    BY DEF SupInv, RegisteredIsPresent, ToldByStage, SupToldWhatItSaw, Fits
  <1> QED BY <1>2, <1>3 DEF SupInv

LEMMA DeviceSteps ==
    ASSUME SupInv, \/ \E d \in Dongles : DongleChanges(d)
                   \/ AmiChanges \/ PeerChanges \/ Poll \/ PollCutOff
    PROVE  SupInv'
  <1>1. UNCHANGED <<supState, supCycle, watchdog, told, silenced>>
    BY DEF DongleChanges, AmiChanges, PeerChanges, Poll, PollCutOff
  <1>2. dongle' \in Dongles /\ amiUp' \in BOOLEAN /\ peerUp' \in BOOLEAN
    BY DEF SupInv, SupTypeOK, DongleChanges, AmiChanges, PeerChanges, Poll, PollCutOff
  <1>3. provider' \in [observed : BOOLEAN, registered : BOOLEAN, signal : BOOLEAN]
    <2> DEFINE reg == dongle = "registered"
               sig == provider.signal \/ dongle # "mute"
    <2>1. reg \in BOOLEAN /\ sig \in BOOLEAN
      BY DEF SupInv, SupTypeOK
    <2>2. CASE Poll
      <3>1. provider' = IF dongle = "absent"
                        THEN [observed |-> TRUE, registered |-> FALSE, signal |-> FALSE]
                        ELSE [observed |-> TRUE, registered |-> reg, signal |-> sig]
        BY <2>2 DEF Poll
      <3> HIDE DEF reg, sig
      <3> QED BY <2>1, <3>1
    <2>3. CASE PollCutOff
      BY <2>3 DEF PollCutOff
    <2>4. CASE provider' = provider
      BY <2>4 DEF SupInv, SupTypeOK
    <2> QED BY <2>2, <2>3, <2>4 DEF DongleChanges, AmiChanges, PeerChanges
  <1>4. SupTypeOK'
    BY <1>1, <1>2, <1>3 DEF SupInv, SupTypeOK
  <1> QED BY <1>1, <1>4, AroundKeeps

LEMMA CountType ==
    ASSUME NEW n \in 0 .. MaxResets + 1
    PROVE  Count(n) \in 0 .. MaxResets + 1
  BY ResetsAssumption DEF Count

LEMMA WatchdogSteps ==
    ASSUME SupInv, WatchdogStep
    PROVE  SupInv'
  <1>1. UNCHANGED <<dongle, amiUp, provider, peerUp, supState, supCycle, told, silenced>>
    BY DEF WatchdogStep, WatchdogCheck, WatchdogTold, ResetDone
  <1>2. /\ watchdog \in [at : {"rest", "resetting", "says_recovered", "says_stuck"},
                         fails : 0 .. MaxResets + 1]
        /\ watchdog.fails \in 0 .. MaxResets + 1 /\ 0 \in 0 .. MaxResets + 1
    BY ResetsAssumption DEF SupInv, SupTypeOK
  <1>3. watchdog' \in [at : {"rest", "resetting", "says_recovered", "says_stuck"},
                       fails : 0 .. MaxResets + 1]
    <2>1. CASE WatchdogCheck
      <3>1. PICK next \in {"rest", "resetting", "says_recovered", "says_stuck"},
                 fails \in 0 .. MaxResets + 1 : watchdog' = [at |-> next, fails |-> fails]
        BY <1>2, <2>1, CountType DEF WatchdogCheck
      <3> QED BY <3>1
    <2>2. CASE WatchdogTold
      BY <1>2, <2>2 DEF WatchdogTold
    <2>3. ASSUME NEW b \in BOOLEAN, ResetDone(b)
          PROVE  watchdog' \in [at : {"rest", "resetting", "says_recovered", "says_stuck"},
                                fails : 0 .. MaxResets + 1]
      BY <1>2, <2>3 DEF ResetDone
    <2> QED BY <2>1, <2>2, <2>3 DEF WatchdogStep
  <1>4. SupTypeOK'
    BY <1>1, <1>3 DEF SupInv, SupTypeOK
  <1> QED BY <1>1, <1>4, AroundKeeps

LEMMA SupInitHolds == SupInit => SupInv
  <1> SUFFICES ASSUME SupInit PROVE SupInv
    OBVIOUS
  <1>1. SupTypeOK
    <2>1. supState \in [{"present", "registered", "peer"} -> Replies \cup {"unseen"}]
      BY DEF SupInit, Unseen
    <2>2. watchdog \in [at : {"rest", "resetting", "says_recovered", "says_stuck"},
                        fails : 0 .. MaxResets + 1]
      BY ResetsAssumption DEF SupInit
    <2> QED BY <2>1, <2>2 DEF SupInit, SupTypeOK
  <1>2. supCycle = AtRest /\ supState.registered = "unseen" /\ told = "nothing"
    BY DEF SupInit, Unseen
  <1> QED BY <1>1, <1>2
       DEF SupInv, RegisteredIsPresent, SendsItsEdge, ToldByStage, Fits, SupToldWhatItSaw

LEMMA SupStepKeeps == SupInv /\ [SupNext]_supVars => SupInv'
  <1> SUFFICES ASSUME SupInv, [SupNext]_supVars PROVE SupInv'
    OBVIOUS
  <1>1. CASE UNCHANGED supVars
    <2>1. SupTypeOK' /\ UNCHANGED <<supState, supCycle, told, silenced>>
      BY <1>1 DEF supVars, SupInv, SupTypeOK
    <2> QED BY <2>1, AroundKeeps
  <1>2. CASE SupCycleStep
    BY <1>2, CycleStartsKeeps, NoAlertKeeps, SuppressedKeeps, AlertStartsKeeps, AlertDoneKeeps
       DEF SupCycleStep
  <1> QED BY <1>1, <1>2, DeviceSteps, WatchdogSteps DEF SupNext

\* The invariant of the supervisor: what the master was told fits, stage by
\* stage, what the cycle has read and what it still remembers.
THEOREM SupInductive == SupSpec => []SupInv
  BY SupInitHolds, SupStepKeeps, PTL DEF SupSpec

\* Every variable of the supervisor and the watchdog keeps its type.
THEOREM SupTypeCorrect == SupSpec => []SupTypeOK
  <1>1. SupInv => SupTypeOK
    BY DEF SupInv
  <1> QED BY <1>1, SupInductive, PTL

\* Between two cycles the master knows of the modem what the supervisor last
\* saw, if the last alert on it arrived, however often the modem changed while
\* alerts were on their way.
THEOREM ToldWhatItSaw == SupSpec => []SupToldWhatItSaw
  <1>1. SupInv => SupToldWhatItSaw
    BY DEF SupInv
  <1> QED BY <1>1, SupInductive, PTL

-----------------------------------------------------------------------------
(* The modem profiles: the inductive invariant                              *)

Switching == tool # NoTool
Reached(steps) == Switching /\ tool.at \in steps
Aim == ContentOf(book[tool.profile])

\* What Asterisk runs with it has run with.
AsteriskTried == mpAsterisk \in tried

\* A switch has put in place what its steps so far were to.
SwitchDone ==
    /\ Switching => book[tool.profile] \in Entries
    /\ Reached(Steps \ {"artifacts", "in_sync"}) => mpDisk.dongle = Aim
    /\ Reached(Steps \ {"artifacts", "yaml", "in_sync"}) => mpDisk.yaml = Aim.channel
    /\ Reached({"asterisk", "agent", "verify", "success", "failed"}) => mpDisk.active = tool.profile
    /\ Reached({"agent", "verify", "success", "failed"}) => mpAsterisk = Aim

\* The channel that the agent has: that of the last switch that was good, or,
\* after one that was not, of what that has left in the yaml.  A switch under
\* way moves the yaml before the agent.
AgentChannel ==
    /\ ~Reached(Steps \ {"artifacts", "yaml", "in_sync"}) =>
           /\ spoilt = 0 => mpAgent = good.channel /\ mpDisk.yaml = good.channel
           /\ spoilt = 1 => mpAgent \in {good.channel, mpDisk.yaml}
    /\ Reached({"artifacts", "yaml"}) => (tool.renames <=> mpDisk.yaml # Aim.channel)
    /\ Reached({"pointer", "asterisk", "agent"}) =>
           /\ spoilt = 0 => mpAgent = good.channel
           /\ ~tool.renames /\ spoilt <= 1 => mpAgent \in {good.channel, Aim.channel}
    /\ Reached({"verify", "success", "failed"}) =>
           (spoilt <= 1 => mpAgent \in {good.channel, Aim.channel})

MpInv ==
    /\ MpTypeOK /\ AsteriskTried /\ MpVerifiedTried
    /\ SwitchDone /\ AgentChannel /\ MpRollbackWorks

-----------------------------------------------------------------------------
(* The modem profiles: their steps                                          *)

\* A switch has a step, a profile and a mark of renaming.
LEMMA ToolType ==
    ASSUME MpTypeOK
    PROVE  /\ Switching => /\ tool \in [at : Steps, profile : Profiles, renames : BOOLEAN]
                           /\ tool.at \in Steps /\ tool.profile \in Profiles
                           /\ tool.renames \in BOOLEAN
           /\ ~Switching => tool.at = "none"
  BY DEF MpTypeOK, Switching, NoTool

\* What an entry says of its modem.
LEMMA ContentType ==
    ASSUME NEW e \in Entries
    PROVE  /\ ContentOf(e) \in Contents /\ ContentOf(e).channel = e.channel
           /\ e.channel \in Channels /\ e.ports \in Ports /\ e.verified \in BOOLEAN
  BY DEF Entries, Contents, ContentOf

\* A switch goes on to its next step.
LEMMA Going ==
    ASSUME MpTypeOK, NEW from \in Steps, NEW to \in Steps, Goes(from, to)
    PROVE  /\ Switching /\ tool.at = from
           /\ tool' \in [at : Steps, profile : Profiles, renames : BOOLEAN]
           /\ Switching' /\ tool'.at = to
           /\ tool'.profile = tool.profile /\ tool'.renames = tool.renames
  <1>1. tool.at = from /\ tool' = [tool EXCEPT !.at = to]
    BY DEF Goes
  <1>2. "none" \notin Steps
    BY DEF Steps
  <1>3. Switching
    BY <1>1, <1>2, ToolType
  <1>4. tool \in [at : Steps, profile : Profiles, renames : BOOLEAN]
    BY <1>3, ToolType
  <1> DEFINE t == [at |-> to, profile |-> tool.profile, renames |-> tool.renames]
  <1>5. tool' = t
    BY <1>1, <1>4
  <1>6. /\ t \in [at : Steps, profile : Profiles, renames : BOOLEAN] /\ t # NoTool
        /\ t.at = to /\ t.profile = tool.profile /\ t.renames = tool.renames
    BY <1>4 DEF NoTool
  <1> HIDE DEF t
  <1> QED BY <1>1, <1>3, <1>5, <1>6 DEF Switching

\* What was tried stays tried, and so does what says so.
LEMMA TriedGrows ==
    ASSUME MpInv, book' = book, tried \subseteq tried', captured \subseteq captured'
    PROVE  MpVerifiedTried'
  BY DEF MpInv, MpVerifiedTried

\* The profiles change only while no switch is under way.
LEMMA WritesKeep ==
    ASSUME MpInv, ~Switching, NEW p \in Profiles, NEW e \in Entries, WriteProfile(p, e),
           captured \subseteq captured', captured' \subseteq Contents,
           e.verified => ContentOf(e) \in tried \cup captured'
    PROVE  MpInv'
  <1>1. /\ book' = [book EXCEPT ![p] = e]
        /\ UNCHANGED <<mpDisk, mpAsterisk, mpAgent, tool, tried, good, spoilt>>
    BY DEF WriteProfile
  <1>2. MpTypeOK'
    BY <1>1 DEF MpInv, MpTypeOK
  <1>3. ~Switching'
    BY <1>1 DEF Switching
  <1>4. AsteriskTried'
    BY <1>1 DEF MpInv, AsteriskTried
  <1>5. MpVerifiedTried'
    BY <1>1 DEF MpInv, MpTypeOK, MpVerifiedTried
  <1>6. SwitchDone' /\ MpRollbackWorks'
    BY <1>3 DEF SwitchDone, Reached, MpRollbackWorks, Switching
  <1>7. AgentChannel'
    BY <1>1, <1>3 DEF MpInv, AgentChannel, Reached
  <1> QED BY <1>2, <1>4, <1>5, <1>6, <1>7 DEF MpInv

LEMMA NewKeeps ==
    ASSUME MpInv, NEW p \in Profiles, NEW c \in Contents, NewProfile(p, c)
    PROVE  MpInv'
  <1>1. [channel |-> c.channel, ports |-> c.ports, verified |-> FALSE] \in Entries
    BY DEF Contents, Entries
  <1>2. captured' = captured /\ captured \subseteq Contents
    BY DEF NewProfile, MpInv, MpTypeOK
  <1> QED BY <1>1, <1>2, WritesKeep DEF NewProfile, Switching

LEMMA CaptureKeeps ==
    ASSUME MpInv, NEW p \in Profiles, CaptureLive(p)
    PROVE  MpInv'
  <1> DEFINE e == [channel |-> mpDisk.yaml, ports |-> mpDisk.dongle.ports, verified |-> TRUE]
  <1> DEFINE found == [channel |-> mpDisk.yaml, ports |-> mpDisk.dongle.ports]
  <1>1. found \in Contents /\ e \in Entries /\ ContentOf(e) = found
    BY DEF MpInv, MpTypeOK, Contents, Entries, ContentOf
  <1>2. captured' = captured \cup ({found} \ tried)
    BY DEF CaptureLive
  <1>3. captured \subseteq captured' /\ captured' \subseteq Contents
    BY <1>1, <1>2 DEF MpInv, MpTypeOK
  <1>4. ContentOf(e) \in tried \cup captured'
    BY <1>1, <1>2
  <1>5. WriteProfile(p, e) /\ ~Switching
    BY DEF CaptureLive, Switching
  <1> HIDE DEF e, found
  <1> QED BY <1>1, <1>3, <1>4, <1>5, WritesKeep

LEMMA ProbeCommitKeeps ==
    ASSUME MpInv, NEW p \in Profiles, NEW ports \in Ports, ProbeCommit(p, ports)
    PROVE  MpInv'
  <1> DEFINE e == [book[p] EXCEPT !.ports = ports, !.verified = FALSE]
  <1>1. book[p] \in Entries
    BY DEF ProbeCommit, MpInv, MpTypeOK
  <1>2. e \in Entries /\ e.verified = FALSE
    BY <1>1 DEF Entries
  <1>3. WriteProfile(p, e) /\ ~Switching
    BY DEF ProbeCommit, Switching
  <1>4. captured' = captured /\ captured \subseteq Contents
    BY DEF ProbeCommit, MpInv, MpTypeOK
  <1> HIDE DEF e
  <1> QED BY <1>2, <1>3, <1>4, WritesKeep

LEMMA MarkKeeps ==
    ASSUME MpInv, NEW p \in Profiles, MarkVerified(p)
    PROVE  MpInv'
  <1> DEFINE e == [book[p] EXCEPT !.verified = TRUE]
  <1>1. book[p] \in Entries /\ mpAsterisk = ContentOf(book[p])
    BY DEF MarkVerified, MpInv, MpTypeOK
  <1>2. e \in Entries /\ ContentOf(e) = ContentOf(book[p])
    BY <1>1 DEF Entries, ContentOf
  <1>3. WriteProfile(p, e) /\ ~Switching
    BY DEF MarkVerified, Switching
  <1>4. ContentOf(e) \in tried
    BY <1>1, <1>2 DEF MpInv, AsteriskTried
  <1>5. captured' = captured /\ captured \subseteq Contents
    BY DEF MarkVerified, MpInv, MpTypeOK
  <1> HIDE DEF e
  <1> QED BY <1>2, <1>3, <1>4, <1>5, WritesKeep

LEMMA ApplyKeeps ==
    ASSUME MpInv, NEW p \in Profiles, ApplyProfile(p)
    PROVE  MpInv'
  <1>1. book[p] \in Entries /\ ~Switching
    BY DEF ApplyProfile, MpInv, MpTypeOK, Switching
  <1>2. /\ mpDisk' = [mpDisk EXCEPT !.dongle = ContentOf(book[p])]
        /\ UNCHANGED <<book, mpAsterisk, mpAgent, tool, tried, captured, good, spoilt>>
    BY DEF ApplyProfile
  <1>3. mpDisk'.yaml = mpDisk.yaml
    BY <1>2 DEF MpInv, MpTypeOK
  <1>4. MpTypeOK'
    BY <1>1, <1>2, ContentType DEF MpInv, MpTypeOK
  <1>5. ~Switching'
    BY <1>1, <1>2 DEF Switching
  <1>6. AsteriskTried' /\ MpVerifiedTried'
    BY <1>2, TriedGrows DEF MpInv, AsteriskTried
  <1>7. SwitchDone' /\ MpRollbackWorks'
    BY <1>5 DEF SwitchDone, Reached, MpRollbackWorks, Switching
  <1>8. AgentChannel'
    BY <1>1, <1>2, <1>3, <1>5 DEF MpInv, AgentChannel, Reached
  <1> QED BY <1>4, <1>6, <1>7, <1>8 DEF MpInv

LEMMA UseStartsKeeps ==
    ASSUME MpInv, NEW p \in Profiles, NEW force \in BOOLEAN, UseStarts(p, force)
    PROVE  MpInv'
  <1> DEFINE t == [at |-> IF InSync(p) THEN "in_sync" ELSE "artifacts", profile |-> p,
                   renames |-> mpDisk.yaml # book[p].channel]
  <1>1. /\ ~Switching /\ book[p] \in Entries /\ tool' = t
        /\ UNCHANGED <<book, mpDisk, mpAsterisk, mpAgent, tried, captured, good, spoilt>>
    BY DEF UseStarts, MpInv, MpTypeOK, Switching
  <1>2. /\ t \in [at : Steps, profile : Profiles, renames : BOOLEAN] /\ t # NoTool
        /\ t.profile = p /\ t.at \in {"in_sync", "artifacts"}
        /\ t.renames <=> mpDisk.yaml # book[p].channel
    BY DEF Steps, NoTool
  <1> HIDE DEF t
  <1>3. /\ Switching' /\ tool'.at \in {"in_sync", "artifacts"} /\ tool'.profile = p
        /\ tool'.renames <=> mpDisk.yaml # book[p].channel
    BY <1>1, <1>2 DEF Switching
  <1>4. Aim' = ContentOf(book[p])
    BY <1>1, <1>3 DEF Aim
  <1>5. MpTypeOK'
    BY <1>1, <1>2 DEF MpInv, MpTypeOK
  <1>6. AsteriskTried' /\ MpVerifiedTried'
    BY <1>1, TriedGrows DEF MpInv, AsteriskTried
  <1>7. SwitchDone' /\ MpRollbackWorks'
    BY <1>1, <1>3 DEF SwitchDone, Reached, Steps, MpRollbackWorks
  <1>8. AgentChannel'
    <2>1. ~Reached(Steps \ {"artifacts", "yaml", "in_sync"})
      BY <1>1 DEF Reached
    <2> QED BY <1>1, <1>3, <1>4, <2>1, ContentType DEF MpInv, AgentChannel, Reached
  <1> QED BY <1>5, <1>6, <1>7, <1>8 DEF MpInv

\* A switch has its profile, and aims at what that says.
LEMMA AimType ==
    ASSUME MpInv, Switching
    PROVE  /\ Aim \in Contents /\ Aim.channel = book[tool.profile].channel
           /\ Aim.channel \in Channels /\ tool.profile \in Profiles
           /\ Aim = ContentOf(book[tool.profile])
  BY ToolType, ContentType DEF MpInv, SwitchDone, Aim

LEMMA ArtifactsKeeps ==
    ASSUME MpInv, UseArtifacts
    PROVE  MpInv'
  <1>1. /\ Switching /\ tool.at = "artifacts"
        /\ tool' \in [at : Steps, profile : Profiles, renames : BOOLEAN]
        /\ Switching' /\ tool'.at = "yaml"
        /\ tool'.profile = tool.profile /\ tool'.renames = tool.renames
    BY Going DEF UseArtifacts, MpInv, Steps
  <1>2. /\ mpDisk' = [mpDisk EXCEPT !.dongle = Aim]
        /\ UNCHANGED <<book, mpAsterisk, mpAgent, tried, captured, good, spoilt>>
    BY DEF UseArtifacts, Aim
  <1>3. mpDisk'.dongle = Aim /\ mpDisk'.yaml = mpDisk.yaml
    BY <1>2 DEF MpInv, MpTypeOK
  <1>4. Aim' = Aim
    BY <1>1, <1>2 DEF Aim
  <1>5. MpTypeOK'
    BY <1>1, <1>2, AimType DEF MpInv, MpTypeOK
  <1>6. AsteriskTried' /\ MpVerifiedTried'
    BY <1>2, TriedGrows DEF MpInv, AsteriskTried
  <1>7. SwitchDone' /\ MpRollbackWorks'
    BY <1>1, <1>2, <1>3, <1>4 DEF MpInv, SwitchDone, Reached, Steps, MpRollbackWorks
  <1>8. AgentChannel'
    BY <1>1, <1>2, <1>3, <1>4 DEF MpInv, AgentChannel, Reached, Steps
  <1> QED BY <1>5, <1>6, <1>7, <1>8 DEF MpInv

LEMMA YamlKeeps ==
    ASSUME MpInv, UseYaml
    PROVE  MpInv'
  <1>1. /\ Switching /\ tool.at = "yaml"
        /\ tool' \in [at : Steps, profile : Profiles, renames : BOOLEAN]
        /\ Switching' /\ tool'.at = "pointer"
        /\ tool'.profile = tool.profile /\ tool'.renames = tool.renames
    BY Going DEF UseYaml, MpInv, Steps
  <1>2. /\ mpDisk' = [mpDisk EXCEPT !.yaml = Aim.channel]
        /\ UNCHANGED <<book, mpAsterisk, mpAgent, tried, captured, good, spoilt>>
    BY <1>1, AimType DEF UseYaml
  <1>3. mpDisk'.dongle = mpDisk.dongle /\ mpDisk'.yaml = Aim.channel
    BY <1>2 DEF MpInv, MpTypeOK
  <1>4. Aim' = Aim
    BY <1>1, <1>2 DEF Aim
  <1>5. MpTypeOK'
    BY <1>1, <1>2, AimType DEF MpInv, MpTypeOK
  <1>6. AsteriskTried' /\ MpVerifiedTried'
    BY <1>2, TriedGrows DEF MpInv, AsteriskTried
  <1>7. SwitchDone' /\ MpRollbackWorks'
    BY <1>1, <1>2, <1>3, <1>4 DEF MpInv, SwitchDone, Reached, Steps, MpRollbackWorks
  <1>8. AgentChannel'
    <2>1. spoilt = 0 => mpAgent = good.channel
      BY <1>1 DEF MpInv, AgentChannel, Reached, Steps
    <2>2. ~tool.renames /\ spoilt <= 1 => mpAgent \in {good.channel, Aim.channel}
      <3>1. ~tool.renames => mpDisk.yaml = Aim.channel
        BY <1>1 DEF MpInv, AgentChannel, Reached
      <3>2. spoilt = 1 => mpAgent \in {good.channel, mpDisk.yaml}
        BY <1>1 DEF MpInv, AgentChannel, Reached, Steps
      <3>3. spoilt <= 1 => spoilt = 0 \/ spoilt = 1
        BY DEF MpInv, MpTypeOK
      <3> QED BY <2>1, <3>1, <3>2, <3>3
    <2> QED BY <1>1, <1>2, <1>4, <2>1, <2>2 DEF AgentChannel, Reached, Steps
  <1> QED BY <1>5, <1>6, <1>7, <1>8 DEF MpInv

LEMMA PointerKeeps ==
    ASSUME MpInv, UsePointer
    PROVE  MpInv'
  <1>1. /\ Switching /\ tool.at = "pointer"
        /\ tool' \in [at : Steps, profile : Profiles, renames : BOOLEAN]
        /\ Switching' /\ tool'.at = "asterisk"
        /\ tool'.profile = tool.profile /\ tool'.renames = tool.renames
    BY Going DEF UsePointer, MpInv, Steps
  <1>2. /\ mpDisk' = [mpDisk EXCEPT !.active = tool.profile]
        /\ UNCHANGED <<book, mpAsterisk, mpAgent, tried, captured, good, spoilt>>
    BY DEF UsePointer
  <1>3. /\ mpDisk'.dongle = mpDisk.dongle /\ mpDisk'.yaml = mpDisk.yaml
        /\ mpDisk'.active = tool.profile
    BY <1>2 DEF MpInv, MpTypeOK
  <1>4. Aim' = Aim
    BY <1>1, <1>2 DEF Aim
  <1>5. MpTypeOK'
    BY <1>1, <1>2, AimType DEF MpInv, MpTypeOK
  <1>6. AsteriskTried' /\ MpVerifiedTried'
    BY <1>2, TriedGrows DEF MpInv, AsteriskTried
  <1>7. SwitchDone' /\ MpRollbackWorks'
    BY <1>1, <1>2, <1>3, <1>4 DEF MpInv, SwitchDone, Reached, Steps, MpRollbackWorks
  <1>8. AgentChannel'
    BY <1>1, <1>2, <1>4 DEF MpInv, AgentChannel, Reached, Steps
  <1> QED BY <1>5, <1>6, <1>7, <1>8 DEF MpInv

\* Asterisk reads dongle.conf, in a switch or outside of one.
LEMMA AsteriskReads ==
    ASSUME MpInv, mpAsterisk' = mpDisk.dongle, tried' = tried \cup {mpDisk.dongle},
           UNCHANGED <<book, mpDisk, mpAgent, captured, good, spoilt>>
    PROVE  AsteriskTried' /\ MpVerifiedTried'
  BY TriedGrows DEF AsteriskTried

LEMMA AsteriskKeeps ==
    ASSUME MpInv, UseAsterisk
    PROVE  MpInv'
  <1>1. /\ Switching /\ tool.at = "asterisk"
        /\ tool' \in [at : Steps, profile : Profiles, renames : BOOLEAN]
        /\ Switching' /\ tool'.at = "agent"
        /\ tool'.profile = tool.profile /\ tool'.renames = tool.renames
    BY Going DEF UseAsterisk, MpInv, Steps
  <1>2. /\ mpAsterisk' = mpDisk.dongle /\ tried' = tried \cup {mpDisk.dongle}
        /\ UNCHANGED <<book, mpDisk, mpAgent, captured, good, spoilt>>
    BY DEF UseAsterisk
  <1>3. Aim' = Aim
    BY <1>1, <1>2 DEF Aim
  <1>4. MpTypeOK'
    BY <1>1, <1>2 DEF MpInv, MpTypeOK
  <1>5. AsteriskTried' /\ MpVerifiedTried'
    BY <1>2, AsteriskReads
  <1>6. SwitchDone' /\ MpRollbackWorks'
    BY <1>1, <1>2, <1>3 DEF MpInv, SwitchDone, Reached, Steps, MpRollbackWorks
  <1>7. AgentChannel'
    BY <1>1, <1>2, <1>3 DEF MpInv, AgentChannel, Reached, Steps
  <1> QED BY <1>4, <1>5, <1>6, <1>7 DEF MpInv

LEMMA AgentKeeps ==
    ASSUME MpInv, UseAgent
    PROVE  MpInv'
  <1>1. /\ Switching /\ tool.at = "agent"
        /\ tool' \in [at : Steps, profile : Profiles, renames : BOOLEAN]
        /\ Switching' /\ tool'.at = "verify"
        /\ tool'.profile = tool.profile /\ tool'.renames = tool.renames
    BY Going DEF UseAgent, MpInv, Steps
  <1>2. /\ mpAgent' = IF tool.renames THEN mpDisk.yaml ELSE mpAgent
        /\ UNCHANGED <<book, mpDisk, mpAsterisk, tried, captured, good, spoilt>>
    BY DEF UseAgent
  <1>3. Aim' = Aim
    BY <1>1, <1>2 DEF Aim
  <1>4. MpTypeOK'
    BY <1>1, <1>2 DEF MpInv, MpTypeOK
  <1>5. AsteriskTried' /\ MpVerifiedTried'
    BY <1>2, TriedGrows DEF MpInv, AsteriskTried
  <1>6. SwitchDone' /\ MpRollbackWorks'
    BY <1>1, <1>2, <1>3 DEF MpInv, SwitchDone, Reached, Steps, MpRollbackWorks
  <1>7. AgentChannel'
    <2>1. mpDisk.yaml = Aim.channel
      BY <1>1 DEF MpInv, SwitchDone, Reached, Steps
    <2>2. spoilt <= 1 => mpAgent' \in {good.channel, Aim.channel}
      BY <1>1, <1>2, <2>1 DEF MpInv, AgentChannel, Reached
    <2> QED BY <1>1, <1>2, <1>3, <2>2 DEF AgentChannel, Reached, Steps
  <1> QED BY <1>4, <1>5, <1>6, <1>7 DEF MpInv

LEMMA VerifiedKeeps ==
    ASSUME MpInv, NEW works \in BOOLEAN, UseVerified(works)
    PROVE  MpInv'
  <1>1. Goes("verify", IF works THEN "success" ELSE "failed")
    BY DEF UseVerified, Goes
  <1>2. /\ Switching /\ tool.at = "verify"
        /\ tool' \in [at : Steps, profile : Profiles, renames : BOOLEAN]
        /\ Switching' /\ tool'.at \in {"success", "failed"}
        /\ tool'.profile = tool.profile /\ tool'.renames = tool.renames
    BY <1>1, Going DEF MpInv, Steps
  <1>3. UNCHANGED <<book, mpDisk, mpAsterisk, mpAgent, tried, captured, good, spoilt>>
    BY DEF UseVerified
  <1>4. Aim' = Aim
    BY <1>2, <1>3 DEF Aim
  <1>5. MpTypeOK'
    BY <1>2, <1>3 DEF MpInv, MpTypeOK
  <1>6. AsteriskTried' /\ MpVerifiedTried'
    BY <1>3, TriedGrows DEF MpInv, AsteriskTried
  <1>7. SwitchDone'
    BY <1>2, <1>3, <1>4 DEF MpInv, SwitchDone, Reached, Steps
  <1>8. spoilt <= 1 => mpAgent \in {good.channel, Aim.channel}
    BY <1>2 DEF MpInv, AgentChannel, Reached
  <1>9. AgentChannel'
    BY <1>2, <1>3, <1>4, <1>8 DEF AgentChannel, Reached, Steps
  <1>10. MpRollbackWorks'
    <2>1. /\ mpDisk.dongle = Aim /\ mpDisk.yaml = Aim.channel
          /\ mpDisk.active = tool.profile /\ mpAsterisk = Aim
      BY <1>2 DEF MpInv, SwitchDone, Reached, Steps
    <2>2. Aim = ContentOf(book[tool.profile]) /\ Aim.channel = book[tool.profile].channel
      BY <1>2, AimType
    <2>3. InSync(tool.profile)
      BY <2>1, <2>2 DEF InSync
    <2>4. InSync(tool.profile)'
      BY <1>2, <1>3, <2>3 DEF InSync
    <2> QED BY <1>2, <1>3, <1>8, <2>1, <2>2, <2>4 DEF MpRollbackWorks
  <1> QED BY <1>5, <1>6, <1>7, <1>9, <1>10 DEF MpInv

\* No switch is left.
LEMMA OverKeeps ==
    ASSUME MpInv, tool' = NoTool, MpTypeOK',
           UNCHANGED <<book, mpDisk, mpAsterisk, mpAgent, tried, captured>>,
           spoilt' = 0 => mpAgent = good'.channel /\ mpDisk.yaml = good'.channel,
           spoilt' = 1 => mpAgent \in {good'.channel, mpDisk.yaml}
    PROVE  MpInv'
  <1>1. ~Switching'
    BY DEF Switching
  <1>2. AsteriskTried' /\ MpVerifiedTried'
    BY TriedGrows DEF MpInv, AsteriskTried
  <1>3. SwitchDone' /\ MpRollbackWorks'
    BY <1>1 DEF SwitchDone, Reached, MpRollbackWorks, Switching
  <1>4. AgentChannel'
    BY <1>1 DEF AgentChannel, Reached
  <1> QED BY <1>2, <1>3, <1>4 DEF MpInv

LEMMA EndsKeeps ==
    ASSUME MpInv, UseEnds
    PROVE  MpInv'
  <1>1. /\ Switching /\ tool.at \in {"success", "failed", "in_sync"} /\ tool' = NoTool
        /\ UNCHANGED <<book, mpDisk, mpAsterisk, mpAgent, tried, captured>>
    BY DEF UseEnds, Switching
  <1>2. Aim \in Contents /\ Aim.channel = book[tool.profile].channel
        /\ Aim = ContentOf(book[tool.profile])
    BY <1>1, AimType
  <1>3. spoilt \in 0 .. 2 /\ Spoil \in 0 .. 2 /\ good \in Contents
        /\ Spoil # 0 /\ (Spoil = 1 => spoilt = 0)
    BY DEF MpInv, MpTypeOK, Spoil
  <1>4. CASE tool.at = "success" /\ mpAgent = book[tool.profile].channel
    <2>1. good' = Aim /\ spoilt' = 0
      BY <1>2, <1>4 DEF UseEnds
    <2>2. mpDisk.yaml = Aim.channel
      BY <1>1, <1>4 DEF MpInv, SwitchDone, Reached, Steps
    <2>3. MpTypeOK'
      BY <1>1, <1>2, <2>1 DEF MpInv, MpTypeOK
    <2> QED BY <1>1, <1>2, <1>4, <2>1, <2>2, <2>3, OverKeeps
  <1>5. CASE tool.at # "in_sync" /\ ~(tool.at = "success" /\ mpAgent = book[tool.profile].channel)
    <2>1. good' = good /\ spoilt' = Spoil
      BY <1>5 DEF UseEnds
    <2>2. /\ mpDisk.yaml = Aim.channel
          /\ spoilt <= 1 => mpAgent \in {good.channel, Aim.channel}
      BY <1>1, <1>5 DEF MpInv, SwitchDone, AgentChannel, Reached, Steps
    <2>3. MpTypeOK'
      BY <1>1, <1>3, <2>1 DEF MpInv, MpTypeOK
    <2> QED BY <1>1, <1>3, <2>1, <2>2, <2>3, OverKeeps
  <1>6. CASE tool.at = "in_sync"
    <2>1. good' = good /\ spoilt' = spoilt
      BY <1>6 DEF UseEnds
    <2>2. /\ spoilt = 0 => mpAgent = good.channel /\ mpDisk.yaml = good.channel
          /\ spoilt = 1 => mpAgent \in {good.channel, mpDisk.yaml}
      BY <1>6 DEF MpInv, AgentChannel, Reached, Steps
    <2>3. MpTypeOK'
      BY <1>1, <2>1 DEF MpInv, MpTypeOK
    <2> QED BY <1>1, <2>1, <2>2, <2>3, OverKeeps
  <1> QED BY <1>4, <1>5, <1>6

LEMMA CutKeeps ==
    ASSUME MpInv, UseCut
    PROVE  MpInv'
  <1>1. /\ Switching /\ tool.at \notin {"success", "failed", "in_sync"} /\ tool' = NoTool
        /\ spoilt' = Spoil
        /\ UNCHANGED <<book, mpDisk, mpAsterisk, mpAgent, tried, captured, good>>
    BY DEF UseCut, Switching
  <1>2. spoilt \in 0 .. 2 /\ Spoil \in 0 .. 2 /\ Spoil # 0 /\ (Spoil = 1 => spoilt = 0)
    BY DEF MpInv, MpTypeOK, Spoil
  <1>3. MpTypeOK'
    BY <1>1, <1>2 DEF MpInv, MpTypeOK
  <1>4. tool.at \in {"artifacts", "yaml"} \/ tool.at \in {"pointer", "asterisk", "agent"}
            \/ tool.at = "verify"
    BY <1>1, ToolType DEF MpInv, Steps
  <1>5. spoilt = 0 => mpAgent \in {good.channel, mpDisk.yaml}
    <2>1. CASE tool.at \in {"artifacts", "yaml"}
      BY <1>1, <2>1 DEF MpInv, AgentChannel, Reached, Steps
    <2>2. CASE tool.at \in {"pointer", "asterisk", "agent"}
      BY <1>1, <2>2 DEF MpInv, AgentChannel, Reached
    <2>3. CASE tool.at = "verify"
      BY <1>1, <2>3 DEF MpInv, SwitchDone, AgentChannel, Reached, Steps
    <2> QED BY <1>4, <2>1, <2>2, <2>3
  <1> QED BY <1>1, <1>2, <1>3, <1>5, OverKeeps

LEMMA AsteriskRestartKeeps ==
    ASSUME MpInv, AsteriskRestarts
    PROVE  MpInv'
  <1>1. /\ mpAsterisk' = mpDisk.dongle /\ tried' = tried \cup {mpDisk.dongle}
        /\ UNCHANGED <<book, mpDisk, mpAgent, tool, captured, good, spoilt>>
    BY DEF AsteriskRestarts
  <1>2. MpTypeOK'
    BY <1>1 DEF MpInv, MpTypeOK
  <1>3. AsteriskTried' /\ MpVerifiedTried'
    BY <1>1, AsteriskReads
  <1>4. Aim' = Aim /\ (Switching' <=> Switching) /\ tool' = tool
    BY <1>1 DEF Aim, Switching
  <1>5. SwitchDone'
    BY <1>1, <1>4 DEF MpInv, SwitchDone, Reached, Steps
  <1>6. AgentChannel'
    BY <1>1, <1>4 DEF MpInv, AgentChannel, Reached
  <1>7. MpRollbackWorks'
    <2>1. Reached({"success"}) => mpAsterisk = mpDisk.dongle
      BY DEF MpInv, SwitchDone, Reached, Steps
    <2> QED BY <1>1, <2>1 DEF MpInv, MpRollbackWorks, InSync, Reached, Switching
  <1> QED BY <1>2, <1>3, <1>5, <1>6, <1>7 DEF MpInv

-----------------------------------------------------------------------------
LEMMA MpInitHolds == MpInit => MpInv
  <1> SUFFICES ASSUME MpInit PROVE MpInv
    OBVIOUS
  <1>1. PICK c \in Contents :
            /\ book = [p \in Profiles |-> IF p = Installed
                            THEN [channel |-> c.channel, ports |-> c.ports, verified |-> FALSE]
                            ELSE Absent]
            /\ mpDisk = [dongle |-> c, yaml |-> c.channel, active |-> Installed]
            /\ mpAsterisk = c /\ mpAgent = c.channel /\ tool = NoTool
            /\ tried = {c} /\ captured = {} /\ good = c /\ spoilt = 0
    BY DEF MpInit
  <1>2. c.channel \in Channels /\ c.ports \in Ports
    BY DEF Contents
  <1>3. [channel |-> c.channel, ports |-> c.ports, verified |-> FALSE] \in Entries
    BY <1>2 DEF Entries
  <1>4. MpTypeOK
    BY <1>1, <1>2, <1>3, ProfileConstants DEF MpTypeOK
  <1>5. AsteriskTried /\ AgentChannel /\ ~Switching
    BY <1>1 DEF AsteriskTried, AgentChannel, Reached, Switching
  <1>6. SwitchDone /\ MpRollbackWorks
    BY <1>5 DEF SwitchDone, Reached, MpRollbackWorks, Switching
  <1>7. MpVerifiedTried
    BY <1>1 DEF MpVerifiedTried
  <1> QED BY <1>4, <1>5, <1>6, <1>7 DEF MpInv

LEMMA MpStepKeeps == MpInv /\ [MpNext]_mpVars => MpInv'
  <1> SUFFICES ASSUME MpInv, [MpNext]_mpVars PROVE MpInv'
    OBVIOUS
  <1>1. CASE UNCHANGED mpVars
    BY <1>1 DEF mpVars, MpInv, MpTypeOK, AsteriskTried, MpVerifiedTried, SwitchDone,
       AgentChannel, MpRollbackWorks, InSync, Reached, Switching, Aim
  <1>2. CASE MpNext
    <2>1. ASSUME NEW p \in Profiles, NEW c \in Contents, NewProfile(p, c) PROVE MpInv'
      BY <2>1, NewKeeps
    <2>2. ASSUME NEW p \in Profiles, CaptureLive(p) \/ MarkVerified(p) \/ ApplyProfile(p)
          PROVE  MpInv'
      BY <2>2, CaptureKeeps, MarkKeeps, ApplyKeeps
    <2>3. ASSUME NEW p \in Profiles, NEW ports \in Ports, ProbeCommit(p, ports) PROVE MpInv'
      BY <2>3, ProbeCommitKeeps
    <2>4. ASSUME NEW p \in Profiles, NEW force \in BOOLEAN, UseStarts(p, force) PROVE MpInv'
      BY <2>4, UseStartsKeeps
    <2>5. CASE UseStep
      BY <2>5, ArtifactsKeeps, YamlKeeps, PointerKeeps, AsteriskKeeps, AgentKeeps,
         VerifiedKeeps, EndsKeeps DEF UseStep
    <2> QED BY <1>2, <2>1, <2>2, <2>3, <2>4, <2>5, CutKeeps, AsteriskRestartKeeps DEF MpNext
  <1> QED BY <1>1, <1>2

\* The invariant of the modem profiles: what each step of a switch has put in
\* place, and the channel that the agent has been left with.
THEOREM MpInductive == MpSpec => []MpInv
  BY MpInitHolds, MpStepKeeps, PTL DEF MpSpec

\* Every variable of the profile tool keeps its type.
THEOREM MpTypeCorrect == MpSpec => []MpTypeOK
  <1>1. MpInv => MpTypeOK
    BY DEF MpInv
  <1> QED BY <1>1, MpInductive, PTL

\* A marked profile says what Asterisk has run with or what a capture took
\* from files it had not read, whatever was edited, probed, overwritten or cut.
THEOREM VerifiedTried == MpSpec => []MpVerifiedTried
  <1>1. MpInv => MpVerifiedTried
    BY DEF MpInv
  <1> QED BY <1>1, MpInductive, PTL

\* After one switch that failed or was cut anywhere, a use of the last good
\* profile that ends in success has files, Asterisk and agent back.
THEOREM RollbackWorks == MpSpec => []MpRollbackWorks
  <1>1. MpInv => MpRollbackWorks
    BY DEF MpInv
  <1> QED BY <1>1, MpInductive, PTL

-----------------------------------------------------------------------------
(* The parts together                                                       *)

\* Whatever part a behaviour is of, every other one starts as its own
\* specification says; the profiles only start when it is theirs.
LEMMA PartsStart ==
    ServicesInit => /\ BlInit /\ VmInit /\ AdmInit /\ SupInit /\ InstInit
                    /\ part = "profiles" => MpInit
  BY DEF ServicesInit, BlRests, AdmRests, SupRests, InstRests

LEMMA PartsStep ==
    ASSUME [ServicesNext]_servicesVars
    PROVE  /\ [BlNext]_blVars /\ [VmNext]_vmVars /\ [AdmNext]_admVars
           /\ [SupNext]_supVars /\ [InstNext]_instVars
           /\ part' = part
           /\ part = "profiles" => [MpNext]_mpVars
  <1>1. CASE ServicesNext
    BY <1>1 DEF ServicesNext
  <1>2. CASE UNCHANGED servicesVars
    BY <1>2 DEF servicesVars
  <1> QED BY <1>1, <1>2

\* A behaviour of the parts together is one of each part: what is proved of a
\* part holds where the parts are checked side by side.
THEOREM ServicesImplementParts ==
    ServicesSpec => BlSpec /\ VmSpec /\ AdmSpec /\ SupSpec /\ InstSpec
  BY PartsStart, PartsStep, PTL
     DEF ServicesSpec, BlSpec, VmSpec, AdmSpec, SupSpec, InstSpec

\* The profiles keep their invariant in the behaviours that are theirs.
LEMMA ProfilesKept == ServicesSpec => [](part = "profiles" => MpInv)
  <1>1. ServicesInit => (part = "profiles" => MpInv)
    BY PartsStart, MpInitHolds
  <1>2. (part = "profiles" => MpInv) /\ [ServicesNext]_servicesVars
            => (part = "profiles" => MpInv)'
    BY PartsStep, MpStepKeeps
  <1> QED BY <1>1, <1>2, PTL DEF ServicesSpec

\* Every variable of every part keeps its type.
THEOREM ServicesTypeCorrect == ServicesSpec => []ServicesTypeOK
  <1>1. BlInv /\ VmInv /\ AdmInv /\ SupInv /\ InstInv /\ (part = "profiles" => MpInv)
            => ServicesTypeOK
    BY DEF ServicesTypeOK, BlInv, VmInv, AdmInv, SupInv, InstInv, MpInv
  <1> QED BY <1>1, ServicesImplementParts, BlInductive, VmInductive, AdmInductive,
             SupInductive, InstInductive, ProfilesKept, PTL
=============================================================================
