--------------------------- MODULE AmiClientProofs ----------------------------
(***************************************************************************)
(* The safety properties of the AMI connection, for every set of callers,  *)
(* every cap of the drain and any number of unread messages.               *)
(*                                                                         *)
(* Whether the poller tells the truth depends on which messages of the     *)
(* stream are answers to him.  AmiInv says that leftovers of transactions  *)
(* before his precede his own, that his terminator is the last of them,    *)
(* and that his list-ack parts the two.                                    *)
(***************************************************************************)
EXTENDS AmiClient, TLAPS, SequenceTheorems

USE DeviceAssumption, BoundAssumption, SenderAssumption

\* Nobody has sent an action: nothing in the streams belongs to the holder.
\* Somebody has: he holds the lock and knows what the device was since.
TurnWell ==
    /\ turn.sent => queue # <<>> /\ Head(queue) \in Callers /\ device \in since
    /\ ~turn.sent => /\ turn = Idle
                     /\ \A i \in DOMAIN stream : ~stream[i].own
                     /\ \A i \in DOMAIN inbox : ~inbox[i].own
    /\ turn.entry # "none" => turn.entry \in since

\* Leftovers come first: after a message of the holder's own there are only
\* events and more of his own, in what Asterisk has written and in what it has
\* still to write; and his list-ack has passed all leftovers.
OwnComeLast ==
    /\ \A i, j \in DOMAIN stream :
           i < j /\ stream[i].own => stream[j].own \/ stream[j].kind = "event"
    /\ \A i, j \in DOMAIN inbox : i < j /\ inbox[i].own => inbox[j].own
    /\ \A i \in DOMAIN stream, j \in DOMAIN inbox : stream[i].own => inbox[j].own
    /\ turn.acked => /\ \A i \in DOMAIN stream : stream[i].own \/ stream[i].kind = "event"
                     /\ \A i \in DOMAIN inbox : inbox[i].own

\* The terminator of the holder's list is the last message of his own.
CompleteIsLast ==
    /\ \A i, j \in DOMAIN stream :
           i < j /\ stream[i].own /\ stream[i].kind = "complete" => ~stream[j].own
    /\ \A i, j \in DOMAIN inbox :
           i < j /\ inbox[i].own /\ inbox[i].kind = "complete" => ~inbox[j].own
    /\ \A i \in DOMAIN stream, j \in DOMAIN inbox :
           stream[i].own /\ stream[i].kind = "complete" => ~inbox[j].own

\* An entry of the holder's own says what the device was since he asked; and
\* once Asterisk has written it, or found no device to write of, it is in the
\* stream, or read, or the device was absent.
EntriesTrue ==
    /\ \A i \in DOMAIN stream :
           stream[i].own /\ stream[i].kind \in EntryKinds => stream[i].kind \in since
    /\ \/ ~turn.sent \/ Head(queue) # "poller" \/ link # "open"
       \/ \E i \in DOMAIN inbox : inbox[i].own /\ inbox[i].kind = "entry"
       \/ "absent" \in since
       \/ turn.entry # "none"
       \/ \E i \in DOMAIN stream : stream[i].own /\ stream[i].kind \in EntryKinds

AmiLife == TurnWell /\ OwnComeLast /\ CompleteIsLast /\ EntriesTrue

AmiInv == TypeOK /\ AmiLife

-----------------------------------------------------------------------------
(* Sequences of messages                                                   *)

AskedKinds == {"ack", "entry", "complete", "reply"}

\* The first message is read, the rest move up.
LEMMA TailOf ==
    ASSUME NEW S, NEW s \in Seq(S), s # <<>>
    PROVE  /\ Head(s) = s[1] /\ Head(s) \in S
           /\ Tail(s) \in Seq(S)
           /\ 1 \in DOMAIN s
           /\ \A i \in DOMAIN Tail(s) : /\ i \in Nat /\ i + 1 \in DOMAIN s /\ 1 < i + 1
                                        /\ Tail(s)[i] = s[i + 1]
           /\ \A i \in DOMAIN s : i = 1 \/ (i - 1 \in DOMAIN Tail(s) /\ s[i] = Tail(s)[i - 1])
  OBVIOUS

\* A message is written behind those that wait.
LEMMA AppendOf ==
    ASSUME NEW S, NEW s \in Seq(S), NEW m \in S
    PROVE  /\ Append(s, m) \in Seq(S)
           /\ \A i \in DOMAIN s : i \in DOMAIN Append(s, m) /\ Append(s, m)[i] = s[i]
           /\ Len(s) + 1 \in DOMAIN Append(s, m) /\ Append(s, m)[Len(s) + 1] = m
           /\ \A i \in DOMAIN Append(s, m) :
                  i \in Nat /\ ((i \in DOMAIN s /\ i < Len(s) + 1) \/ i = Len(s) + 1)
  OBVIOUS

\* What somebody else's transaction leaves is a sequence of the same messages.
LEMMA DisownOf ==
    ASSUME NEW K, NEW s \in Seq([kind : K, own : BOOLEAN])
    PROVE  /\ Disown(s) \in Seq([kind : K, own : BOOLEAN])
           /\ DOMAIN Disown(s) = DOMAIN s
           /\ \A i \in DOMAIN s : Disown(s)[i].kind = s[i].kind /\ ~Disown(s)[i].own
  <1>1. DOMAIN s = 1 .. Len(s) /\ Len(s) \in Nat
    OBVIOUS
  <1>2. \A i \in 1 .. Len(s) : s[i] \in [kind : K, own : BOOLEAN]
    BY ElementOfSeq
  <1>3. \A i \in 1 .. Len(s) : [s[i] EXCEPT !.own = FALSE] \in [kind : K, own : BOOLEAN]
    BY <1>2
  <1>4. Disown(s) \in [1 .. Len(s) -> [kind : K, own : BOOLEAN]]
    BY <1>1, <1>3 DEF Disown
  <1>5. Disown(s) \in Seq([kind : K, own : BOOLEAN])
    BY <1>1, <1>4 DEF Disown
  <1>6. ASSUME NEW i \in 1 .. Len(s)
        PROVE  Disown(s)[i].kind = s[i].kind /\ ~Disown(s)[i].own
    <2>1. Disown(s)[i] = [s[i] EXCEPT !.own = FALSE]
      BY <1>1, <1>6 DEF Disown
    <2>2. s[i] \in [kind : K, own : BOOLEAN]
      BY <1>2, <1>6
    <2> QED BY <2>1, <2>2
  <1> QED BY <1>1, <1>5, <1>6 DEF Disown

\* What Asterisk will answer the action with.
Asked(who) == [i \in DOMAIN Answers(who) |-> [kind |-> Answers(who)[i], own |-> TRUE]]

LEMMA AskedOf ==
    ASSUME NEW who \in Callers
    PROVE  /\ Asked(who) \in Seq([kind : AskedKinds, own : BOOLEAN])
           /\ Len(Asked(who)) \in {1, 3}
           /\ \A i \in DOMAIN Asked(who) :
                  /\ Asked(who)[i].own
                  /\ Asked(who)[i].kind = "complete" => i = Len(Asked(who))
           /\ who = "poller" => 2 \in DOMAIN Asked(who) /\ Asked(who)[2].kind = "entry"
  <1>1. CASE who = "poller"
    <2>1. Answers(who) = <<"ack", "entry", "complete">>
      BY <1>1 DEF Answers
    <2>2. DOMAIN Answers(who) = 1 .. 3
      BY <2>1
    <2>3. /\ Answers(who)[1] = "ack" /\ Answers(who)[2] = "entry"
          /\ Answers(who)[3] = "complete"
      BY <2>1
    <2>4. Asked(who) \in [1 .. 3 -> [kind : AskedKinds, own : BOOLEAN]]
      BY <2>2, <2>3 DEF Asked, AskedKinds
    <2>5. Asked(who) \in Seq([kind : AskedKinds, own : BOOLEAN]) /\ Len(Asked(who)) = 3
      BY <2>2, <2>4 DEF Asked
    <2> QED BY <2>2, <2>3, <2>5 DEF Asked
  <1>2. CASE who # "poller"
    <2>1. Answers(who) = <<"reply">>
      BY <1>2 DEF Answers
    <2>2. DOMAIN Answers(who) = 1 .. 1 /\ Answers(who)[1] = "reply"
      BY <2>1
    <2>3. Asked(who) \in [1 .. 1 -> [kind : AskedKinds, own : BOOLEAN]]
      BY <2>2 DEF Asked, AskedKinds
    <2>4. Asked(who) \in Seq([kind : AskedKinds, own : BOOLEAN]) /\ Len(Asked(who)) = 1
      BY <2>2, <2>3 DEF Asked
    <2> QED BY <1>2, <2>2, <2>4 DEF Asked
  <1> QED BY <1>1, <1>2

-----------------------------------------------------------------------------
(* Type correctness                                                        *)

LEMMA TypeInit == Init => TypeOK
  BY DEF Init, TypeOK, Idle

LEMMA IdleType ==
    Idle \in [sent : BOOLEAN, acked : BOOLEAN, entry : EntryKinds \cup {"none"},
              reads : 0 .. DrainCap - 1]
  BY DEF Idle

LEMMA DequeueType ==
    ASSUME TypeOK, NEW who, Holds(who), queue' = Tail(queue)
    PROVE  queue' \in Seq(Callers \cup Connectors)
  BY DEF TypeOK, Holds

LEMMA RaiseType ==
    ASSUME TypeOK, NEW who, Holds(who), NEW l \in {"none", "open", "eof", "dead"},
           Raise(l), UNCHANGED <<up, device>>
    PROVE  TypeOK'
  <1>1. queue' \in Seq(Callers \cup Connectors)
    BY DequeueType DEF Raise
  <1>2. retries' \in 0 .. MaxRetries
    BY DEF Raise, Kick, TypeOK
  <1> QED BY <1>1, <1>2, IdleType DEF Raise, TypeOK

LEMMA ReleaseType ==
    ASSUME TypeOK, NEW who, Holds(who), NEW unread \in Seq(Message), Release(unread),
           recorded' \in EntryKinds \cup {"absent", "unknown"},
           UNCHANGED <<up, device, link, retries>>
    PROVE  TypeOK'
  <1>1. queue' \in Seq(Callers \cup Connectors)
    BY DequeueType DEF Release
  <1>2. stream' \in Seq(Message)
    BY DisownOf DEF Release, Message
  <1>3. inbox' \in Seq([kind : {"ack", "entry", "complete", "reply"}, own : BOOLEAN])
    BY DisownOf DEF Release, TypeOK
  <1> QED BY <1>1, <1>2, <1>3, IdleType DEF Release, TypeOK

LEMMA EventType == Event \in Message
  BY DEF Event, Message

LEMMA DrainType ==
    ASSUME TypeOK, Holds("poller"), NEW m \in Message, NEW unread \in Seq(Message),
           Drain(m, unread), UNCHANGED <<up, device, link, retries>>
    PROVE  TypeOK'
  <1> DEFINE entry == IF m.kind \in EntryKinds /\ Attributed(m) /\ turn.entry = "none"
                      THEN m.kind ELSE turn.entry
             ends  == m.kind = "complete" /\ Attributed(m)
  <1>1. entry \in EntryKinds \cup {"none"}
    BY DEF TypeOK
  <1>2. CASE Record(entry) /\ Release(unread)
    <2>1. recorded' \in EntryKinds \cup {"absent", "unknown"}
      BY <1>1, <1>2 DEF Record
    <2> QED BY <1>2, <2>1, ReleaseType
  <1>3. CASE /\ turn.reads + 1 < DrainCap
             /\ turn' = [turn EXCEPT !.reads = @ + 1,
                                     !.entry = entry,
                                     !.acked = @ \/ (m.kind = "ack" /\ m.own)]
             /\ stream' = unread
             /\ UNCHANGED <<queue, inbox, recorded, since>>
    <2>1. turn.reads + 1 \in 0 .. DrainCap - 1
      BY <1>3 DEF TypeOK
    <2>2. (turn.acked \/ (m.kind = "ack" /\ m.own)) \in BOOLEAN
      OBVIOUS
    <2> HIDE DEF entry
    <2>3. turn' \in [sent : BOOLEAN, acked : BOOLEAN, entry : EntryKinds \cup {"none"},
                     reads : 0 .. DrainCap - 1]
      BY <1>1, <1>3, <2>1, <2>2 DEF TypeOK
    <2> QED BY <1>3, <2>3 DEF TypeOK
  <1> QED BY <1>2, <1>3 DEF Drain

LEMMA TransactType ==
    ASSUME TypeOK, NEW who \in Callers, Transact(who)
    PROVE  TypeOK'
  <1>1. CASE Send(who)
    <2>1. inbox' \in Seq([kind : {"ack", "entry", "complete", "reply"}, own : BOOLEAN])
      BY <1>1, AskedOf, ConcatProperties DEF Send, TypeOK, Asked, AskedKinds
    <2>2. turn' \in [sent : BOOLEAN, acked : BOOLEAN, entry : EntryKinds \cup {"none"},
                     reads : 0 .. DrainCap - 1]
      BY <1>1 DEF Send, TypeOK
    <2> QED BY <1>1, <2>1, <2>2 DEF Send, TypeOK
  <1>2. CASE SendFails(who)
    BY <1>2, RaiseType DEF SendFails
  <1>3. CASE ReadReply(who)
    <2>1. Tail(stream) \in Seq(Message)
      BY <1>3, TailOf DEF ReadReply, TypeOK
    <2> QED BY <1>3, <2>1, ReleaseType DEF ReadReply, TypeOK
  <1>4. CASE ReadStatus(who)
    <2>1. Head(stream) \in Message /\ Tail(stream) \in Seq(Message)
      BY <1>4, TailOf DEF ReadStatus, TypeOK
    <2> QED BY <1>4, <2>1, DrainType DEF ReadStatus
  <1>5. CASE ReadEof(who)
    <2>1. <<>> \in Seq(Message)
      OBVIOUS
    <2> QED BY <1>5, <2>1, ReleaseType, DrainType, EventType DEF ReadEof, TypeOK
  <1>6. CASE ReadReset(who)
    BY <1>6, RaiseType DEF ReadReset
  <1>7. CASE ReadTimeout(who)
    BY <1>7, RaiseType DEF ReadTimeout
  <1> QED BY <1>1, <1>2, <1>3, <1>4, <1>5, <1>6, <1>7 DEF Transact

LEMMA ConnectType ==
    ASSUME TypeOK, NEW k \in Connectors,
           StartConnect(k) \/ ConnectSucceeds(k) \/ ConnectFails(k)
    PROVE  TypeOK'
  <1>1. CASE StartConnect(k)
    BY <1>1 DEF StartConnect, Enqueue, TypeOK
  <1>2. CASE ConnectSucceeds(k)
    <2>1. queue' \in Seq(Callers \cup Connectors)
      BY <1>2, DequeueType DEF ConnectSucceeds
    <2> QED BY <1>2, <2>1 DEF ConnectSucceeds, TypeOK
  <1>3. CASE ConnectFails(k)
    <2>1. queue' \in Seq(Callers \cup Connectors)
      BY <1>3, DequeueType DEF ConnectFails
    <2>2. retries' \in 0 .. MaxRetries
      <3>1. retries \in 0 .. MaxRetries
        BY DEF TypeOK
      <3>2. (retries + 1) % (MaxRetries + 1) \in 0 .. MaxRetries
        BY <3>1
      <3> QED BY <1>3, <3>1, <3>2 DEF ConnectFails, NextRetry
    <2>3. /\ link' \in {"none", "open", "eof", "dead"}
          /\ stream' \in Seq(Message)
          /\ inbox' \in Seq([kind : {"ack", "entry", "complete", "reply"}, own : BOOLEAN])
      <3>1. CASE UNCHANGED <<link, stream, inbox>>
        BY <3>1 DEF TypeOK
      <3>2. CASE link' = "none" /\ stream' = <<>> /\ inbox' = <<>>
        BY <3>2, EmptySeq
      <3> QED BY <1>3, <3>1, <3>2 DEF ConnectFails
    <2> QED BY <1>3, <2>1, <2>2, <2>3 DEF ConnectFails, TypeOK
  <1> QED BY <1>1, <1>2, <1>3

\* What Asterisk writes for the action it answers next.
LEMMA AnswerType ==
    ASSUME TypeOK, Answer
    PROVE  /\ inbox # <<>>
           /\ \/ \E kind \in {"reply", "error"} \cup EntryKinds :
                    /\ kind \in EntryKinds => kind = device /\ Head(inbox).kind = "entry"
                    /\ Head(inbox).kind = "entry" => kind \in EntryKinds
                    /\ [Head(inbox) EXCEPT !.kind = kind] \in Message
                    /\ stream' = Append(stream, [Head(inbox) EXCEPT !.kind = kind])
              \/ /\ Head(inbox).kind \in {"ack", "complete"}
                 /\ Head(inbox) \in Message
                 /\ stream' = Append(stream, Head(inbox))
              \/ /\ Head(inbox).kind = "entry" /\ device = "absent"
                 /\ stream' = stream
  <1>1. inbox # <<>> /\ Head(inbox) \in [kind : AskedKinds, own : BOOLEAN]
    BY TailOf DEF Answer, TypeOK, AskedKinds
  <1>2. \A kind \in {"reply", "error"} \cup EntryKinds :
            [Head(inbox) EXCEPT !.kind = kind] \in Message
    BY <1>1 DEF Message
  <1>3. Head(inbox).kind \in {"ack", "complete"} => Head(inbox) \in Message
    BY <1>1 DEF Message
  <1>4. device # "absent" => device \in EntryKinds
    BY DEF TypeOK, EntryKinds
  <1> DEFINE m == Head(inbox)
  <1>5. CASE m.kind \in {"ack", "complete"} /\ stream' = Append(stream, m)
    BY <1>1, <1>3, <1>5
  <1>6. CASE m.kind = "reply" /\ \E kind \in {"reply", "error"} :
                                    stream' = Append(stream, [m EXCEPT !.kind = kind])
    BY <1>1, <1>2, <1>6 DEF EntryKinds
  <1>7. CASE m.kind = "entry" /\ device = "absent" /\ stream' = stream
    BY <1>1, <1>7
  <1>8. CASE /\ m.kind = "entry" /\ device # "absent"
             /\ stream' = Append(stream, [m EXCEPT !.kind = device])
    BY <1>1, <1>2, <1>4, <1>8
  <1> QED BY <1>5, <1>6, <1>7, <1>8 DEF Answer

LEMMA EnvironmentType ==
    ASSUME TypeOK, Environment
    PROVE  TypeOK'
  <1>1. CASE EmitEvent
    BY <1>1, EventType, AppendOf DEF EmitEvent, TypeOK
  <1>2. CASE Answer
    <2>1. stream' \in Seq(Message)
      <3>1. ASSUME NEW m \in Message, stream' = Append(stream, m)
            PROVE  stream' \in Seq(Message)
        BY <3>1, AppendOf DEF TypeOK
      <3>2. stream' = stream \/ \E m \in Message : stream' = Append(stream, m)
        BY <1>2, AnswerType
      <3> QED BY <3>1, <3>2 DEF TypeOK
    <2>2. inbox' \in Seq([kind : {"ack", "entry", "complete", "reply"}, own : BOOLEAN])
      BY <1>2, TailOf DEF Answer, TypeOK
    <2> QED BY <1>2, <2>1, <2>2 DEF Answer, TypeOK
  <1>3. CASE CloseLink
    BY <1>3 DEF CloseLink, TypeOK
  <1>4. CASE ResetArrives
    BY <1>4 DEF ResetArrives, TypeOK
  <1>5. CASE AsteriskStarts
    BY <1>5 DEF AsteriskStarts, TypeOK
  <1>6. ASSUME NEW d \in Devices, DeviceChanges(d) PROVE TypeOK'
    BY <1>6 DEF DeviceChanges, TypeOK
  <1> QED BY <1>1, <1>2, <1>3, <1>4, <1>5, <1>6 DEF Environment

LEMMA TypeStep == TypeOK /\ [Next]_vars => TypeOK'
  <1> SUFFICES ASSUME TypeOK, [Next]_vars PROVE TypeOK'
    OBVIOUS
  <1>1. ASSUME NEW who \in Callers, Call(who) PROVE TypeOK'
    BY <1>1 DEF Call, Enqueue, TypeOK
  <1>2. CASE UNCHANGED vars
    BY <1>2 DEF vars, TypeOK
  <1> QED BY <1>1, <1>2, TransactType, ConnectType, EnvironmentType DEF Next

\* Every variable of the connection keeps its type: among others, the drain
\* never reads past its cap and the reconnector never past its retries.
THEOREM AmiTypeCorrect == Spec => []TypeOK
  BY TypeInit, TypeStep, PTL DEF Spec

-----------------------------------------------------------------------------
(* Whose messages are in the streams                                       *)

\* The parts of AmiLife about the streams.
StreamsWell == OwnComeLast /\ CompleteIsLast /\ EntriesTrue

\* A transaction has ended: nothing in the streams belongs to anybody.
LEMMA NobodysStreams ==
    ASSUME turn' = Idle,
           \A i \in DOMAIN stream' : ~stream'[i].own,
           \A i \in DOMAIN inbox' : ~inbox'[i].own
    PROVE  AmiLife'
  BY DEF AmiLife, TurnWell, OwnComeLast, CompleteIsLast, EntriesTrue, Idle

LEMMA RaiseLife ==
    ASSUME NEW l, Raise(l)
    PROVE  AmiLife'
  BY NobodysStreams DEF Raise

LEMMA ReleaseLife ==
    ASSUME TypeOK, NEW unread \in Seq(Message), Release(unread)
    PROVE  AmiLife'
  <1>1. \A i \in DOMAIN stream' : ~stream'[i].own
    BY DisownOf DEF Release, Message
  <1>2. \A i \in DOMAIN inbox' : ~inbox'[i].own
    BY DisownOf DEF Release, TypeOK
  <1> QED BY <1>1, <1>2, NobodysStreams DEF Release

\* Whoever connects has the lock and no transaction.
LEMMA ConnectorHasNoTurn ==
    ASSUME TurnWell, NEW k \in Connectors, Holds(k)
    PROVE  /\ turn = Idle
           /\ \A i \in DOMAIN stream : ~stream[i].own
           /\ \A i \in DOMAIN inbox : ~inbox[i].own
  BY DEF TurnWell, Holds, Callers, Connectors

\* Another caller joins the queue, or something happens outside the streams.
LEMMA StreamsStay ==
    ASSUME TypeOK, AmiLife, UNCHANGED <<stream, inbox, turn>>,
           turn.sent => /\ queue' # <<>> /\ Head(queue') = Head(queue)
                        /\ since \subseteq since' /\ device' \in since'
                        /\ link' = "open" => link = "open",
           ~turn.sent => since' = since
    PROVE  AmiLife'
  <1>1. TurnWell'
    BY DEF AmiLife, TurnWell, Idle
  <1>2. OwnComeLast' /\ CompleteIsLast'
    BY DEF AmiLife, OwnComeLast, CompleteIsLast
  <1>3. EntriesTrue'
    <2>1. CASE ~turn.sent
      BY <2>1 DEF AmiLife, EntriesTrue, TurnWell
    <2>2. CASE turn.sent
      BY <2>2 DEF AmiLife, EntriesTrue
    <2> QED BY <2>1, <2>2
  <1> QED BY <1>1, <1>2, <1>3 DEF AmiLife

LEMMA EnqueueKeepsHolder ==
    ASSUME TypeOK, NEW who \in Callers \cup Connectors, Enqueue(who), queue # <<>>
    PROVE  queue' # <<>> /\ Head(queue') = Head(queue)
  BY DEF Enqueue, TypeOK

-----------------------------------------------------------------------------
(* The steps of a transaction                                              *)

\* The action's answers are the last Asterisk has to write.
LEMMA SendLife ==
    ASSUME TypeOK, AmiLife, NEW who \in Callers, Send(who)
    PROVE  AmiLife'
  <1>1. /\ turn = Idle
        /\ \A i \in DOMAIN stream : ~stream[i].own
        /\ \A i \in DOMAIN inbox : ~inbox[i].own
    BY DEF AmiLife, TurnWell, Send
  <1>2. turn' = [turn EXCEPT !.sent = TRUE] /\ turn'.sent /\ turn'.entry = "none" /\ ~turn'.acked
    BY <1>1 DEF Send, Idle
  <1>3. TurnWell'
    BY <1>2 DEF Send, TurnWell, Holds
  <1>4. CASE link # "open"
    <2>1. inbox' = inbox /\ stream' = stream /\ link' # "open"
      BY <1>4 DEF Send
    <2> QED BY <1>1, <1>2, <1>3, <2>1
            DEF AmiLife, OwnComeLast, CompleteIsLast, EntriesTrue
  <1>5. CASE link = "open"
    <2> DEFINE a == Asked(who)
               n == Len(inbox)
    <2>1. inbox' = inbox \o a /\ stream' = stream /\ queue' = queue
      BY <1>5 DEF Send, Asked
    <2>2. /\ inbox \in Seq([kind : AskedKinds, own : BOOLEAN])
          /\ a \in Seq([kind : AskedKinds, own : BOOLEAN])
      BY AskedOf DEF TypeOK, AskedKinds
    <2> HIDE DEF a
    <2>3. /\ n \in Nat /\ Len(a) \in Nat /\ DOMAIN a = 1 .. Len(a)
          /\ DOMAIN inbox = 1 .. n /\ DOMAIN inbox' = 1 .. n + Len(a)
          /\ \A i \in 1 .. n + Len(a) : inbox'[i] = IF i <= n THEN inbox[i] ELSE a[i - n]
      BY <2>1, <2>2, ConcatProperties
    <2>4. \A i \in DOMAIN a : a[i].own /\ (a[i].kind = "complete" => i = Len(a))
      BY AskedOf DEF a
    <2>5. OwnComeLast'
      <3>1. \A i, j \in DOMAIN inbox' : i < j /\ inbox'[i].own => inbox'[j].own
        <4> SUFFICES ASSUME NEW i \in 1 .. n + Len(a), NEW j \in 1 .. n + Len(a),
                            i < j, inbox'[i].own
                     PROVE  inbox'[j].own
          BY <2>3
        <4>1. ~(i <= n)
          BY <1>1, <2>3
        <4>2. j - n \in DOMAIN a /\ inbox'[j] = a[j - n]
          BY <2>3, <4>1
        <4> QED BY <2>4, <4>2
      <3> QED BY <1>1, <1>2, <2>1, <3>1 DEF OwnComeLast
    <2>6. CompleteIsLast'
      <3>1. \A i, j \in DOMAIN inbox' :
                i < j /\ inbox'[i].own /\ inbox'[i].kind = "complete" => ~inbox'[j].own
        <4> SUFFICES ASSUME NEW i \in 1 .. n + Len(a), NEW j \in 1 .. n + Len(a),
                            i < j, inbox'[i].own, inbox'[i].kind = "complete"
                     PROVE  FALSE
          BY <2>3
        <4>1. ~(i <= n)
          BY <1>1, <2>3
        <4>2. i - n \in DOMAIN a /\ inbox'[i] = a[i - n]
          BY <2>3, <4>1
        <4>3. i - n = Len(a)
          BY <2>4, <4>2
        <4> QED BY <2>3, <4>3
      <3> QED BY <1>1, <2>1, <3>1 DEF CompleteIsLast
    <2>7. EntriesTrue'
      <3>1. ASSUME who = "poller"
            PROVE  \E i \in DOMAIN inbox' : inbox'[i].own /\ inbox'[i].kind = "entry"
        <4>1. 2 \in DOMAIN a /\ a[2].kind = "entry" /\ a[2].own
          BY <2>4, <3>1, AskedOf DEF a
        <4>2. n + 2 \in DOMAIN inbox' /\ inbox'[n + 2] = a[2]
          BY <2>3, <4>1
        <4> QED BY <4>1, <4>2
      <3>2. Head(queue') = who
        BY <2>1 DEF Send, Holds
      <3> QED BY <1>1, <2>1, <3>1, <3>2 DEF EntriesTrue
    <2> QED BY <1>3, <2>5, <2>6, <2>7 DEF AmiLife
  <1> QED BY <1>4, <1>5

\* What the drain makes of a message m and of the holder's entry so far.
LEMMA EntryIsTrue ==
    ASSUME TypeOK, AmiLife, turn.sent,
           NEW m \in Message, m = Event \/ \E i \in DOMAIN stream : m = stream[i],
           m.kind \in EntryKinds \cup {"complete"}, Attributed(m)
    PROVE  m.own /\ (m.kind \in EntryKinds => m.kind \in since)
  <1>1. PICK i \in DOMAIN stream : m = stream[i]
    BY DEF Event, EntryKinds
  <1>2. m.own
    BY <1>1 DEF Attributed, AmiLife, OwnComeLast, EntryKinds
  <1> QED BY <1>1, <1>2 DEF AmiLife, EntriesTrue

\* One message less to read.
LEMMA DrainLife ==
    ASSUME TypeOK, AmiLife, Holds("poller"), turn.sent, stream # <<>>,
           Drain(Head(stream), Tail(stream)), link' = link, UNCHANGED device
    PROVE  AmiLife'
  <1> DEFINE m == Head(stream)
             t == Tail(stream)
             entry == IF m.kind \in EntryKinds /\ Attributed(m) /\ turn.entry = "none"
                      THEN m.kind ELSE turn.entry
  <1>1. /\ m \in Message /\ t \in Seq(Message) /\ 1 \in DOMAIN stream /\ m = stream[1]
        /\ \A i \in DOMAIN t : i \in Nat /\ i + 1 \in DOMAIN stream /\ 1 < i + 1
                                /\ t[i] = stream[i + 1]
        /\ \A i \in DOMAIN stream : i = 1 \/ (i - 1 \in DOMAIN t /\ stream[i] = t[i - 1])
    BY TailOf DEF TypeOK
  <1>2. CASE Release(t)
    BY <1>1, <1>2, ReleaseLife
  <1>3. CASE /\ turn' = [turn EXCEPT !.reads = @ + 1,
                                     !.entry = entry,
                                     !.acked = @ \/ (m.kind = "ack" /\ m.own)]
             /\ stream' = t
             /\ UNCHANGED <<queue, inbox, recorded, since>>
    <2>1. m.kind \in EntryKinds /\ Attributed(m) => m.kind \in since
      BY <1>1, EntryIsTrue
    <2> HIDE DEF m, t, entry
    <2>2. /\ turn'.sent /\ turn'.entry = entry
          /\ turn'.acked <=> turn.acked \/ (m.kind = "ack" /\ m.own)
      BY <1>3 DEF TypeOK
    <2>3. TurnWell'
      BY <1>3, <2>1, <2>2 DEF AmiLife, TurnWell, entry
    <2>4. \A i, j \in DOMAIN t : i < j => i + 1 < j + 1
      BY <1>1
    <2>5. OwnComeLast'
      <3>1. \A i, j \in DOMAIN t : i < j /\ t[i].own => t[j].own \/ t[j].kind = "event"
        BY <1>1, <2>4 DEF AmiLife, OwnComeLast
      <3>2. \A i \in DOMAIN t, j \in DOMAIN inbox : t[i].own => inbox[j].own
        BY <1>1 DEF AmiLife, OwnComeLast
      <3>3. ASSUME turn'.acked
            PROVE  /\ \A i \in DOMAIN t : t[i].own \/ t[i].kind = "event"
                   /\ \A i \in DOMAIN inbox : inbox[i].own
        BY <1>1, <2>2, <3>3 DEF AmiLife, OwnComeLast
      <3> QED BY <1>3, <3>1, <3>2, <3>3 DEF AmiLife, OwnComeLast
    <2>6. CompleteIsLast'
      <3>1. \A i, j \in DOMAIN t :
                i < j /\ t[i].own /\ t[i].kind = "complete" => ~t[j].own
        BY <1>1, <2>4 DEF AmiLife, CompleteIsLast
      <3>2. \A i \in DOMAIN t, j \in DOMAIN inbox :
                t[i].own /\ t[i].kind = "complete" => ~inbox[j].own
        BY <1>1 DEF AmiLife, CompleteIsLast
      <3> QED BY <1>3, <3>1, <3>2 DEF AmiLife, CompleteIsLast
    <2>7. EntriesTrue'
      <3>1. \A i \in DOMAIN t :
                t[i].own /\ t[i].kind \in EntryKinds => t[i].kind \in since
        BY <1>1 DEF AmiLife, EntriesTrue
      <3>2. ASSUME NEW i \in DOMAIN stream,
                   stream[i].own /\ stream[i].kind \in EntryKinds
            PROVE  \/ turn'.entry # "none"
                   \/ \E j \in DOMAIN t : t[j].own /\ t[j].kind \in EntryKinds
        <4>1. CASE i = 1
          <5>1. entry # "none"
            BY <1>1, <3>2, <4>1 DEF entry, Attributed, EntryKinds
          <5> QED BY <2>2, <5>1
        <4>2. CASE i # 1
          BY <1>1, <3>2, <4>2
        <4> QED BY <4>1, <4>2
      <3>3. turn.entry # "none" => turn'.entry # "none"
        BY <2>2 DEF entry
      <3> QED BY <1>3, <2>2, <3>1, <3>2, <3>3 DEF AmiLife, EntriesTrue, Holds
    <2> QED BY <2>3, <2>5, <2>6, <2>7 DEF AmiLife
  <1> QED BY <1>2, <1>3 DEF Drain

\* At the end of file the drain counts, and changes nothing else.
LEMMA DrainEofLife ==
    ASSUME TypeOK, AmiLife, Holds("poller"), turn.sent, stream = <<>>, link' = "eof",
           Drain(Event, <<>>), UNCHANGED device
    PROVE  AmiLife'
  <1>1. CASE Release(<<>>)
    BY <1>1, ReleaseLife, EmptySeq
  <1>2. CASE /\ turn' = [turn EXCEPT !.reads = @ + 1, !.entry = turn.entry,
                                     !.acked = @ \/ FALSE]
             /\ stream' = <<>>
             /\ UNCHANGED <<queue, inbox, recorded, since>>
    <2>1. turn'.sent /\ turn'.entry = turn.entry /\ (turn'.acked <=> turn.acked)
      BY <1>2 DEF TypeOK
    <2> QED BY <1>2, <2>1 DEF AmiLife, TurnWell, OwnComeLast, CompleteIsLast, EntriesTrue
  <1>3. Event.kind \notin EntryKinds /\ Event.kind # "ack"
    BY DEF Event, EntryKinds
  <1> QED BY <1>1, <1>2, <1>3 DEF Drain

LEMMA TransactLife ==
    ASSUME TypeOK, AmiLife, NEW who \in Callers, Transact(who)
    PROVE  AmiLife'
  <1>1. CASE Send(who)
    BY <1>1, SendLife
  <1>2. CASE SendFails(who)
    BY <1>2, RaiseLife DEF SendFails
  <1>3. CASE ReadReply(who)
    <2>1. Tail(stream) \in Seq(Message)
      BY <1>3, TailOf DEF ReadReply, TypeOK
    <2> QED BY <1>3, <2>1, ReleaseLife DEF ReadReply
  <1>4. CASE ReadStatus(who)
    BY <1>4, DrainLife DEF ReadStatus
  <1>5. CASE ReadEof(who)
    BY <1>5, ReleaseLife, DrainEofLife, EmptySeq DEF ReadEof
  <1>6. CASE ReadReset(who)
    BY <1>6, RaiseLife DEF ReadReset
  <1>7. CASE ReadTimeout(who)
    BY <1>7, RaiseLife DEF ReadTimeout
  <1> QED BY <1>1, <1>2, <1>3, <1>4, <1>5, <1>6, <1>7 DEF Transact

LEMMA ConnectLife ==
    ASSUME TypeOK, AmiLife, NEW k \in Connectors,
           StartConnect(k) \/ ConnectSucceeds(k) \/ ConnectFails(k)
    PROVE  AmiLife'
  <1>1. CASE StartConnect(k)
    BY <1>1, EnqueueKeepsHolder, StreamsStay DEF StartConnect, AmiLife, TurnWell
  <1>2. CASE ConnectSucceeds(k)
    BY <1>2, ConnectorHasNoTurn, NobodysStreams DEF ConnectSucceeds, AmiLife
  <1>3. CASE ConnectFails(k)
    BY <1>3, ConnectorHasNoTurn, NobodysStreams DEF ConnectFails, AmiLife
  <1> QED BY <1>1, <1>2, <1>3

-----------------------------------------------------------------------------
(* Asterisk writes                                                         *)

\* A message is written to the stream: an event, or the first of the inbox.
\* `rest` is what is still to be answered.
LEMMA WriteLife ==
    ASSUME TypeOK, AmiLife, NEW m \in Message, stream' = Append(stream, m),
           UNCHANGED <<queue, turn, since, device, link>>,
           \A j \in DOMAIN inbox' : \E i \in DOMAIN inbox : inbox'[j] = inbox[i],
           \A i, j \in DOMAIN inbox' :
               /\ i < j /\ inbox'[i].own => inbox'[j].own
               /\ i < j /\ inbox'[i].own /\ inbox'[i].kind = "complete" => ~inbox'[j].own,
           m.own \/ m.kind = "event" \/ ~turn.acked,
           \A i \in DOMAIN stream : stream[i].own => m.own \/ m.kind = "event",
           \A i \in DOMAIN stream :
               stream[i].own /\ stream[i].kind = "complete" => ~m.own,
           m.own => /\ turn.sent
                    /\ \A j \in DOMAIN inbox' : inbox'[j].own
                    /\ m.kind = "complete" => \A j \in DOMAIN inbox' : ~inbox'[j].own
                    /\ m.kind \in EntryKinds => m.kind \in since,
           \/ m.own /\ m.kind \in EntryKinds
           \/ \A i \in DOMAIN inbox :
                  inbox[i].own /\ inbox[i].kind = "entry"
                      => \E j \in DOMAIN inbox' : inbox'[j] = inbox[i]
    PROVE  AmiLife'
  <1> DEFINE n == Len(stream) + 1
  <1>1. /\ \A i \in DOMAIN stream : i \in DOMAIN stream' /\ stream'[i] = stream[i]
        /\ n \in DOMAIN stream' /\ stream'[n] = m
        /\ \A i \in DOMAIN stream' :
               i \in Nat /\ ((i \in DOMAIN stream /\ i < n) \/ i = n)
    BY AppendOf DEF TypeOK
  <1> HIDE DEF n
  <1>2. \A i, j \in DOMAIN stream' : i < j => i \in DOMAIN stream
    BY <1>1
  <1>3. TurnWell'
    BY <1>1 DEF AmiLife, TurnWell
  <1>4. OwnComeLast'
    <2>1. \A i, j \in DOMAIN stream' :
              i < j /\ stream'[i].own => stream'[j].own \/ stream'[j].kind = "event"
      BY <1>1, <1>2 DEF AmiLife, OwnComeLast
    <2>2. \A i \in DOMAIN stream', j \in DOMAIN inbox' : stream'[i].own => inbox'[j].own
      BY <1>1 DEF AmiLife, OwnComeLast
    <2>3. ASSUME turn'.acked
          PROVE  /\ \A i \in DOMAIN stream' : stream'[i].own \/ stream'[i].kind = "event"
                 /\ \A i \in DOMAIN inbox' : inbox'[i].own
      BY <1>1, <2>3 DEF AmiLife, OwnComeLast
    <2> QED BY <2>1, <2>2, <2>3 DEF OwnComeLast
  <1>5. CompleteIsLast'
    <2>1. \A i, j \in DOMAIN stream' :
              i < j /\ stream'[i].own /\ stream'[i].kind = "complete" => ~stream'[j].own
      BY <1>1, <1>2 DEF AmiLife, CompleteIsLast
    <2>2. \A i \in DOMAIN stream', j \in DOMAIN inbox' :
              stream'[i].own /\ stream'[i].kind = "complete" => ~inbox'[j].own
      BY <1>1 DEF AmiLife, CompleteIsLast
    <2> QED BY <2>1, <2>2 DEF CompleteIsLast
  <1>6. EntriesTrue'
    BY <1>1 DEF AmiLife, EntriesTrue
  <1> QED BY <1>3, <1>4, <1>5, <1>6 DEF AmiLife

LEMMA EmitLife ==
    ASSUME TypeOK, AmiLife, EmitEvent
    PROVE  AmiLife'
  <1>1. ~Event.own /\ Event.kind = "event"
    BY DEF Event
  <1> QED BY <1>1, EventType, WriteLife DEF EmitEvent, AmiLife, OwnComeLast, CompleteIsLast

LEMMA AnswerLife ==
    ASSUME TypeOK, AmiLife, Answer
    PROVE  AmiLife'
  <1> DEFINE h == Head(inbox)
             t == Tail(inbox)
  <1>1. /\ h \in [kind : AskedKinds, own : BOOLEAN] /\ 1 \in DOMAIN inbox /\ h = inbox[1]
        /\ \A i \in DOMAIN t : i \in Nat /\ i + 1 \in DOMAIN inbox /\ 1 < i + 1
                                /\ t[i] = inbox[i + 1]
        /\ \A i \in DOMAIN inbox : i = 1 \/ (i - 1 \in DOMAIN t /\ inbox[i] = t[i - 1])
    BY TailOf DEF TypeOK, AskedKinds, Answer
  <1>2. inbox' = t /\ UNCHANGED <<queue, turn, since, device, link>>
    BY DEF Answer
  <1>3. h.own => turn.sent
    BY <1>1 DEF AmiLife, TurnWell
  <1> HIDE DEF h, t
  <1>4. \A i, j \in DOMAIN t : i < j => i + 1 < j + 1
    BY <1>1
  <1>5. \A i, j \in DOMAIN t :
            /\ i < j /\ t[i].own => t[j].own
            /\ i < j /\ t[i].own /\ t[i].kind = "complete" => ~t[j].own
    BY <1>1, <1>4 DEF AmiLife, OwnComeLast, CompleteIsLast
  <1>6. /\ h.own => \A j \in DOMAIN t : t[j].own
        /\ h.own /\ h.kind = "complete" => \A j \in DOMAIN t : ~t[j].own
        /\ \A i \in DOMAIN stream : stream[i].own => h.own
        /\ \A i \in DOMAIN stream : stream[i].own /\ stream[i].kind = "complete" => ~h.own
        /\ h.own \/ ~turn.acked
    BY <1>1 DEF AmiLife, OwnComeLast, CompleteIsLast
  <1>7. \A j \in DOMAIN t : \E i \in DOMAIN inbox : t[j] = inbox[i]
    BY <1>1
  <1>8. h.kind # "entry" \/ ~h.own => \A i \in DOMAIN inbox :
            inbox[i].own /\ inbox[i].kind = "entry" => \E j \in DOMAIN t : t[j] = inbox[i]
    BY <1>1
  <1>9. ASSUME NEW m \in Message, stream' = Append(stream, m), m.own = h.own,
               m.kind = h.kind \/ m.kind \in {"reply", "error"} \cup EntryKinds,
               m.kind \in EntryKinds => m.kind = device,
               m.kind \in EntryKinds \/ h.kind # "entry"
        PROVE  AmiLife'
    <2>1. m.own /\ m.kind \in EntryKinds => m.kind \in since
      BY <1>3, <1>9 DEF AmiLife, TurnWell
    <2>2. m.kind = "complete" => h.kind = "complete"
      BY <1>9 DEF EntryKinds
    <2>3. /\ m.own \/ m.kind = "event" \/ ~turn.acked
          /\ \A i \in DOMAIN stream : stream[i].own => m.own \/ m.kind = "event"
          /\ \A i \in DOMAIN stream : stream[i].own /\ stream[i].kind = "complete" => ~m.own
      <3>1. m.own <=> h.own
        BY <1>9
      <3> QED BY <1>6, <3>1
    <2>4. m.own => /\ turn.sent
                   /\ \A j \in DOMAIN inbox' : inbox'[j].own
                   /\ m.kind = "complete" => \A j \in DOMAIN inbox' : ~inbox'[j].own
                   /\ m.kind \in EntryKinds => m.kind \in since
      BY <1>2, <1>3, <1>6, <1>9, <2>1, <2>2
    <2>5. \/ m.own /\ m.kind \in EntryKinds
          \/ \A i \in DOMAIN inbox :
                 inbox[i].own /\ inbox[i].kind = "entry"
                     => \E j \in DOMAIN inbox' : inbox'[j] = inbox[i]
      BY <1>2, <1>8, <1>9
    <2>6. /\ \A j \in DOMAIN inbox' : \E i \in DOMAIN inbox : inbox'[j] = inbox[i]
          /\ \A i, j \in DOMAIN inbox' :
                /\ i < j /\ inbox'[i].own => inbox'[j].own
                /\ i < j /\ inbox'[i].own /\ inbox'[i].kind = "complete" => ~inbox'[j].own
      BY <1>2, <1>5, <1>7
    <2> QED BY <1>2, <1>9, <2>3, <2>4, <2>5, <2>6, WriteLife
  <1>10. CASE stream' = stream /\ h.kind = "entry" /\ device = "absent"
    <2>1. TurnWell'
      BY <1>2, <1>7, <1>10 DEF AmiLife, TurnWell
    <2>2. OwnComeLast' /\ CompleteIsLast'
      BY <1>2, <1>5, <1>7, <1>10 DEF AmiLife, OwnComeLast, CompleteIsLast
    <2>3. EntriesTrue'
      BY <1>2, <1>10 DEF AmiLife, TurnWell, EntriesTrue
    <2> QED BY <2>1, <2>2, <2>3 DEF AmiLife
  <1>11. ASSUME NEW kind \in {"reply", "error"} \cup EntryKinds,
                kind \in EntryKinds => kind = device /\ h.kind = "entry",
                h.kind = "entry" => kind \in EntryKinds,
                [h EXCEPT !.kind = kind] \in Message,
                stream' = Append(stream, [h EXCEPT !.kind = kind])
         PROVE  AmiLife'
    <2> DEFINE m == [h EXCEPT !.kind = kind]
    <2>1. m.kind = kind /\ m.own = h.own
      BY <1>1
    <2> HIDE DEF m
    <2>2. m \in Message /\ stream' = Append(stream, m)
      BY <1>11 DEF m
    <2> QED BY <1>9, <1>11, <2>1, <2>2
  <1>12. CASE h.kind \in {"ack", "complete"} /\ h \in Message /\ stream' = Append(stream, h)
    BY <1>9, <1>12 DEF EntryKinds
  <1> QED BY <1>10, <1>11, <1>12, AnswerType DEF h

-----------------------------------------------------------------------------
(* The invariant                                                           *)

LEMMA EnvironmentLife ==
    ASSUME TypeOK, AmiLife, Environment
    PROVE  AmiLife'
  <1>1. CASE CloseLink
    <2>1. TurnWell' /\ OwnComeLast' /\ CompleteIsLast'
      BY <1>1 DEF CloseLink, AmiLife, TurnWell, OwnComeLast, CompleteIsLast, Idle
    <2>2. EntriesTrue'
      BY <1>1 DEF CloseLink, AmiLife, EntriesTrue
    <2> QED BY <2>1, <2>2 DEF AmiLife
  <1>2. CASE ResetArrives
    BY <1>2, StreamsStay DEF ResetArrives, AmiLife, TurnWell
  <1>3. CASE AsteriskStarts
    BY <1>3, StreamsStay DEF AsteriskStarts, AmiLife, TurnWell
  <1>4. ASSUME NEW d \in Devices, DeviceChanges(d) PROVE AmiLife'
    BY <1>4, StreamsStay DEF DeviceChanges, AmiLife, TurnWell
  <1> QED BY <1>1, <1>2, <1>3, <1>4, EmitLife, AnswerLife DEF Environment

LEMMA AmiLifeInit == Init => AmiLife
  BY DEF Init, AmiLife, TurnWell, OwnComeLast, CompleteIsLast, EntriesTrue, Idle

LEMMA AmiLifeStep == TypeOK /\ AmiLife /\ [Next]_vars => AmiLife'
  <1> SUFFICES ASSUME TypeOK, AmiLife, [Next]_vars PROVE AmiLife'
    OBVIOUS
  <1>1. ASSUME NEW who \in Callers, Call(who) PROVE AmiLife'
    BY <1>1, EnqueueKeepsHolder, StreamsStay DEF Call, AmiLife, TurnWell
  <1>2. CASE UNCHANGED vars
    BY <1>2, StreamsStay DEF vars, AmiLife, TurnWell
  <1> QED BY <1>1, <1>2, TransactLife, ConnectLife, EnvironmentLife DEF Next

\* In every reachable state the streams are in order: leftovers first, then
\* what belongs to the holder of the lock, the terminator last, and every entry
\* of his true since he asked.
THEOREM AmiInductive == Spec => []AmiInv
  <1>1. Init => AmiInv
    BY TypeInit, AmiLifeInit DEF AmiInv
  <1>2. AmiInv /\ [Next]_vars => AmiInv'
    BY TypeStep, AmiLifeStep DEF AmiInv
  <1> QED BY <1>1, <1>2, PTL DEF Spec

-----------------------------------------------------------------------------
(* What the poller records                                                 *)

\* The end of the drain: the entry it records, if any, is the holder's own or
\* was written since he asked; and if it found none before its terminator, the
\* device was absent.
LEMMA DrainTellsTruth ==
    ASSUME AmiInv, Holds("poller"), turn.sent,
           NEW m \in Message, NEW unread, Drain(m, unread), recorded' # recorded,
           \/ stream # <<>> /\ m = Head(stream)
           \/ m = Event /\ link # "open"
    PROVE  \/ recorded' \in since
           \/ recorded' = "absent" /\ (link # "open" \/ RunsOut)
  <1> DEFINE entry == IF m.kind \in EntryKinds /\ Attributed(m) /\ turn.entry = "none"
                      THEN m.kind ELSE turn.entry
  <1>0. TypeOK /\ AmiLife
    BY DEF AmiInv
  <1>1. Record(entry) /\ ((m.kind = "complete" /\ Attributed(m)) \/ RunsOut)
    BY DEF Drain, RunsOut
  <1>2. m = Event \/ (1 \in DOMAIN stream /\ m = stream[1])
    BY <1>0, TailOf DEF TypeOK
  <1>3. m.kind \in EntryKinds \cup {"complete"} /\ Attributed(m)
            => m.own /\ (m.kind \in EntryKinds => m.kind \in since)
    BY <1>0, <1>2, EntryIsTrue
  <1>4. CASE entry # "none"
    <2>1. entry \in since
      BY <1>0, <1>3, <1>4 DEF AmiLife, TurnWell
    <2> QED BY <1>1, <1>4, <2>1 DEF Record
  <1>5. CASE entry = "none" /\ link = "open" /\ ~RunsOut
    <2>1. /\ m.kind = "complete" /\ m.own /\ turn.entry = "none"
          /\ 1 \in DOMAIN stream /\ m = stream[1]
      BY <1>1, <1>2, <1>3, <1>5 DEF EntryKinds, Event
    <2>2. \A i \in DOMAIN inbox : ~inbox[i].own
      BY <1>0, <2>1 DEF AmiLife, CompleteIsLast
    <2>3. \A i \in DOMAIN stream : i = 1 \/ 1 < i
      BY <1>0 DEF TypeOK
    <2>4. \A i \in DOMAIN stream : i # 1 => ~stream[i].own
      BY <1>0, <2>1, <2>3 DEF AmiLife, CompleteIsLast
    <2>5. "absent" \in since
      BY <1>0, <1>5, <2>1, <2>2, <2>4 DEF AmiLife, EntriesTrue, Holds, EntryKinds
    <2> QED BY <1>1, <1>5, <2>5 DEF Record
  <1>6. CASE entry = "none" /\ (link # "open" \/ RunsOut)
    BY <1>1, <1>6 DEF Record
  <1> QED BY <1>4, <1>5, <1>6

\* Only the poller's drain records a state.
LEMMA WhoRecords ==
    ASSUME TypeOK, [Next]_vars, recorded' # recorded
    PROVE  /\ Holds("poller") /\ turn.sent
           /\ \/ stream # <<>> /\ Drain(Head(stream), Tail(stream))
              \/ link = "eof" /\ Drain(Event, <<>>)
  <1>1. ASSUME NEW who \in Callers, Transact(who)
        PROVE  ReadStatus(who) \/ ReadEof(who)
    BY <1>1 DEF Transact, Send, SendFails, Raise, ReadReply, ReadReset, ReadTimeout
  <1>2. \E who \in Callers : Transact(who)
    BY DEF Next, Call, StartConnect, ConnectSucceeds, ConnectFails, Environment,
       EmitEvent, Answer, CloseLink, ResetArrives, AsteriskStarts, DeviceChanges, vars
  <1> QED BY <1>1, <1>2 DEF ReadStatus, ReadEof

LEMMA PollStep ==
    ASSUME AmiInv, [Next]_vars, recorded' # recorded
    PROVE  \/ recorded' \in since
           \/ recorded' = "absent" /\ (link # "open" \/ RunsOut)
  <1>0. TypeOK
    BY DEF AmiInv
  <1>1. CASE stream # <<>> /\ Drain(Head(stream), Tail(stream))
    <2>1. Head(stream) \in Message
      BY <1>0, <1>1, TailOf DEF TypeOK
    <2> QED BY <1>0, <1>1, <2>1, WhoRecords, DrainTellsTruth
  <1>2. CASE link = "eof" /\ Drain(Event, <<>>)
    BY <1>0, <1>2, WhoRecords, EventType, DrainTellsTruth
  <1> QED BY <1>0, <1>1, <1>2, WhoRecords

\* However many leftovers and events it reads, the poller records only what
\* the device was since it asked; it errs, and then towards "absent", only when
\* the connection ends under it or the drain runs into its cap.
THEOREM PollIsTrue == Spec => PollTellsTruth
  <1>1. AmiInv /\ [Next]_vars
            => [recorded' # recorded =>
                    \/ recorded' \in since
                    \/ recorded' = "absent" /\ (link # "open" \/ RunsOut)]_vars
    BY PollStep
  <1> QED BY <1>1, AmiInductive, PTL DEF Spec, PollTellsTruth

-----------------------------------------------------------------------------
(* What the poller leaves behind                                           *)

\* Who gives the poller's lock back on a live connection is its drain.
LEMMA WhoReleases ==
    ASSUME TypeOK, [Next]_vars, Holds("poller"), turn.sent, ~RunsOut, link' = "open",
           queue' = Tail(queue)
    PROVE  /\ stream # <<>>
           /\ Head(stream).kind = "complete" /\ Attributed(Head(stream))
           /\ Release(Tail(stream))
  <1>0. queue # <<>> /\ Len(queue) \in Nat /\ Len(queue) > 0 /\ Len(Tail(queue)) = Len(queue) - 1
    BY DEF TypeOK, Holds
  <1>1. queue' # queue
    <2>1. SUFFICES ASSUME Tail(queue) = queue PROVE FALSE
      OBVIOUS
    <2>2. Len(queue) = Len(queue) - 1
      BY <1>0, <2>1
    <2> QED BY <1>0, <2>2
  <1>2. ASSUME NEW who, Enqueue(who) PROVE FALSE
    BY <1>0, <1>2 DEF Enqueue, TypeOK
  <1>3. ASSUME NEW k \in Connectors, ConnectSucceeds(k) \/ ConnectFails(k) PROVE FALSE
    BY <1>3 DEF ConnectSucceeds, ConnectFails, Holds, Connectors
  <1>4. PICK who \in Callers : Transact(who)
    BY <1>1, <1>2, <1>3 DEF Next, Call, StartConnect, Environment,
       EmitEvent, Answer, CloseLink, ResetArrives, AsteriskStarts, DeviceChanges, vars
  <1>5. who = "poller" /\ who \notin Senders
    BY <1>4 DEF Transact, Send, SendFails, ReadReply, ReadStatus, ReadEof, ReadReset,
       ReadTimeout, Holds
  <1>6. ReadStatus(who)
    BY <1>1, <1>4, <1>5 DEF Transact, Send, SendFails, ReadReply, ReadEof, ReadReset,
       ReadTimeout, Raise
  <1> QED BY <1>1, <1>6 DEF ReadStatus, Drain, RunsOut

LEMMA ResynchronizeStep ==
    ASSUME AmiInv, [Next]_vars, Holds("poller"), turn.sent, ~RunsOut, link' = "open",
           queue' = Tail(queue)
    PROVE  \A i \in DOMAIN stream' : stream'[i].kind = "event"
  <1> DEFINE m == Head(stream)
             t == Tail(stream)
  <1>0. TypeOK /\ AmiLife
    BY DEF AmiInv
  <1>1. /\ stream # <<>> /\ m.kind = "complete" /\ Attributed(m) /\ Release(t)
    BY <1>0, WhoReleases
  <1>2. /\ m \in Message /\ t \in Seq(Message) /\ 1 \in DOMAIN stream /\ m = stream[1]
        /\ \A i \in DOMAIN t : i + 1 \in DOMAIN stream /\ 1 < i + 1 /\ t[i] = stream[i + 1]
    BY <1>0, <1>1, TailOf DEF TypeOK
  <1>3. m.own
    BY <1>0, <1>1, <1>2, EntryIsTrue
  <1>4. \A i \in DOMAIN t : t[i].kind = "event"
    BY <1>0, <1>1, <1>2, <1>3 DEF AmiLife, OwnComeLast, CompleteIsLast
  <1>5. \A i \in DOMAIN stream' : i \in DOMAIN t /\ stream'[i].kind = t[i].kind
    BY <1>1, <1>2, DisownOf DEF Release, Message
  <1> QED BY <1>4, <1>5

\* A status request that was answered leaves a stream of events only: it has
\* swept up the replies that simple actions before it left behind.
THEOREM PollSweepsUp == Spec => PollResynchronizes
  <1>1. AmiInv /\ [Next]_vars
            => [Holds("poller") /\ turn.sent /\ ~RunsOut /\ link' = "open"
                   /\ queue' = Tail(queue)
                   => \A i \in DOMAIN stream' : stream'[i].kind = "event"]_vars
    BY ResynchronizeStep
  <1> QED BY <1>1, AmiInductive, PTL DEF Spec, PollResynchronizes
=============================================================================
