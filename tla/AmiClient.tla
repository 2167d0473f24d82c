------------------------------ MODULE AmiClient ------------------------------
(***************************************************************************)
(* The agent's one connection to the Asterisk Manager: AMIClient of        *)
(* agent/ami_client.py, the modem poller that records what it reads there, *)
(* and the reconnector and the watchdog that open the connection again.    *)
(*                                                                         *)
(* Requests, replies and call events share one stream.  A transaction      *)
(* takes the client's lock, sends its action and reads: one message for a  *)
(* simple action, whatever that message is, and up to the end of the list  *)
(* for a status request.  The poller stands for all who ask for a status.  *)
(*                                                                         *)
(* An ActionID is unique, so only the transaction that holds the lock can  *)
(* see its own: a message says whether it answers that one or an older.    *)
(***************************************************************************)
EXTENDS Naturals, Sequences

CONSTANTS
    Senders,      \* callers of a simple action: DongleSendSMS, Hangup
    Devices,      \* what the dongle can be: "absent", "searching", "registered"
    StreamBound,  \* bound on the messages sent and not yet read
    DrainCap,     \* AMI_DRAIN_CAP
    MaxRetries    \* AMI_RECONNECT_MAX_RETRIES

ASSUME SenderAssumption == Senders \cap {"poller", "reconnector", "watchdog"} = {}
ASSUME DeviceAssumption == Devices \subseteq {"absent", "searching", "registered"}
ASSUME BoundAssumption == DrainCap \in Nat \ {0} /\ MaxRetries \in Nat \ {0}

VARIABLES
    up,        \* Asterisk accepts connections
    device,    \* what the dongle is
    link,      \* the client's streams: "none", "open", "eof" or "dead"
    inbox,     \* messages Asterisk has still to answer with
    stream,    \* messages the client has still to read
    queue,     \* the lock of the client: its holder, then those who wait
    turn,      \* the progress of the holder's transaction
    recorded,  \* the modem's state in the provider
    retries,   \* attempt the reconnector is at; 0 when it is not running
    since      \* what the device was since the holder sent its action

vars == <<up, device, link, inbox, stream, queue, turn, recorded, retries, since>>

-----------------------------------------------------------------------------
(* Messages                                                                *)

Callers    == Senders \cup {"poller"}
Connectors == {"reconnector", "watchdog"}

EntryKinds  == {"searching", "registered"}

Message == [kind : {"event", "reply", "error", "ack", "complete"} \cup EntryKinds,
            own  : BOOLEAN]

Event == [kind |-> "event", own |-> FALSE]

\* What Asterisk answers an action with; "entry" stands for the device's
\* state when the entry is written.
Answers(who) == IF who = "poller" THEN <<"ack", "entry", "complete">> ELSE <<"reply">>

Disown(s) == [i \in DOMAIN s |-> [s[i] EXCEPT !.own = FALSE]]

-----------------------------------------------------------------------------
(* The lock                                                                *)

Idle == [sent |-> FALSE, acked |-> FALSE, entry |-> "none", reads |-> 0]

Holds(who) == queue # <<>> /\ Head(queue) = who

InQueue(who) == \E i \in DOMAIN queue : queue[i] = who

\* _get_lock: asyncio.Lock serves its waiters in the order they came.
Enqueue(who) ==
    /\ ~InQueue(who)
    /\ queue' = Append(queue, who)

\* The end of a transaction that leaves the streams alone: whatever it did
\* not read of its reply is a leftover to all who follow.
Release(unread) ==
    /\ queue' = Tail(queue)
    /\ turn' = Idle
    /\ since' = {}
    /\ stream' = Disown(unread)
    /\ inbox' = Disown(inbox)

\* Mutant: the reconnector is never started.
KickNobody == UNCHANGED retries

\* AMIReconnect._kick: a reconnector that is already running is left alone.
Kick == retries' = IF retries = 0 THEN 1 ELSE retries

\* The end of a transaction with a ConnectionError: it passes through
\* AMIReconnect, which starts the reconnector.
Raise(newLink) ==
    /\ queue' = Tail(queue)
    /\ turn' = Idle
    /\ since' = {}
    /\ link' = newLink
    /\ stream' = <<>>
    /\ inbox' = <<>>
    /\ Kick
    /\ UNCHANGED recorded

-----------------------------------------------------------------------------
(* Transactions                                                            *)

\* A request, a health check or the poller's timer asks for the lock.
Call(who) ==
    /\ Enqueue(who)
    /\ UNCHANGED <<up, device, link, inbox, stream, turn, recorded, retries, since>>

\* _send_action.  Into a connection that Asterisk has closed the first write
\* succeeds, until the reset comes back.
Send(who) ==
    /\ Holds(who) /\ ~turn.sent
    /\ link \in {"open", "eof"}
    /\ turn' = [turn EXCEPT !.sent = TRUE]
    /\ since' = {device}
    /\ inbox' = IF link = "open"
                THEN inbox \o [i \in DOMAIN Answers(who) |->
                                  [kind |-> Answers(who)[i], own |-> TRUE]]
                ELSE inbox
    /\ UNCHANGED <<up, device, link, stream, queue, recorded, retries>>

\* ... without a connection, or with one known to be reset.
SendFails(who) ==
    /\ Holds(who) /\ ~turn.sent
    /\ link \in {"none", "dead"}
    /\ Raise(link)
    /\ UNCHANGED <<up, device>>

\* A simple action reads one message and takes it for its reply.
ReadReply(who) ==
    /\ who \in Senders
    /\ Holds(who) /\ turn.sent
    /\ link \in {"open", "eof"} /\ stream # <<>>
    /\ Release(Tail(stream))
    /\ UNCHANGED <<up, device, link, recorded, retries>>

\* poll_modem_state: no entry at all means that the device is gone.
Record(entry) == recorded' = IF entry = "none" THEN "absent" ELSE entry

\* Mutant: an entry or a terminator is taken whoever asked for it.
AnyAttributed(m) == m.kind \in EntryKinds \cup {"complete"}

\* An entry or a terminator belongs to the holder if it carries his ActionID
\* or comes after his list-ack: leftovers precede it.
Attributed(m) == m.own \/ turn.acked

\* One round of the drain of get_modem_status over the next message m.
Drain(m, unread) ==
    LET entry == IF m.kind \in EntryKinds /\ Attributed(m) /\ turn.entry = "none"
                 THEN m.kind ELSE turn.entry
        ends  == m.kind = "complete" /\ Attributed(m)
    IN
    \/ /\ ends \/ turn.reads + 1 = DrainCap
       /\ Record(entry)
       /\ Release(unread)
    \/ /\ ~ends /\ turn.reads + 1 < DrainCap
       /\ turn' = [turn EXCEPT !.reads = @ + 1,
                               !.entry = entry,
                               !.acked = @ \/ (m.kind = "ack" /\ m.own)]
       /\ stream' = unread
       /\ UNCHANGED <<queue, inbox, recorded, since>>

ReadStatus(who) ==
    /\ who = "poller"
    /\ Holds(who) /\ turn.sent
    /\ link \in {"open", "eof"} /\ stream # <<>>
    /\ Drain(Head(stream), Tail(stream))
    /\ UNCHANGED <<up, device, link, retries>>

\* At the end of file _read_response returns an empty message: a success to a
\* simple action, and one more message of no interest to the drain.
ReadEof(who) ==
    /\ Holds(who) /\ turn.sent
    /\ link = "eof" /\ stream = <<>>
    /\ \/ who \in Senders /\ Release(<<>>) /\ UNCHANGED recorded
       \/ who = "poller" /\ Drain(Event, <<>>)
    /\ UNCHANGED <<up, device, link, retries>>

\* The connection was reset under the reader.
ReadReset(who) ==
    /\ who \in Callers
    /\ Holds(who) /\ turn.sent
    /\ link = "dead"
    /\ Raise("dead")
    /\ UNCHANGED <<up, device>>

\* Mutant: reads are not bounded in time.
WaitForever(who) == FALSE

\* AMI_READ_TIMEOUT passes: the streams are dropped.
ReadTimeout(who) ==
    /\ who \in Callers
    /\ Holds(who) /\ turn.sent
    /\ link = "open" /\ stream = <<>>
    /\ Raise("none")
    /\ UNCHANGED <<up, device>>

-----------------------------------------------------------------------------
(* Reconnection                                                            *)

\* An attempt of the reconnector, after its delay; the watchdog's reset.
StartConnect(k) ==
    /\ \/ k = "reconnector" /\ retries > 0
       \/ k = "watchdog" /\ recorded = "absent"
    /\ Enqueue(k)
    /\ UNCHANGED <<up, device, link, inbox, stream, turn, recorded, retries, since>>

\* connect: new streams take the place of whatever was there.
ConnectSucceeds(k) ==
    /\ Holds(k)
    /\ up
    /\ link' = "open"
    /\ stream' = <<>>
    /\ inbox' = <<>>
    /\ queue' = Tail(queue)
    /\ retries' = IF k = "reconnector" THEN 0 ELSE retries
    /\ UNCHANGED <<up, device, turn, recorded, since>>

\* Mutant: the attempts are not compared with the maximum.
RetryForEver(k) == IF k = "reconnector" THEN retries + 1 ELSE retries

\* _retry_loop gives up after the last attempt; the next kick starts it anew.
NextRetry(k) == IF k = "reconnector" THEN (retries + 1) % (MaxRetries + 1) ELSE retries

\* The connection is refused and the old streams stay, or the greeting or the
\* login fails and the new ones are dropped.
ConnectFails(k) ==
    /\ Holds(k)
    /\ \/ ~up /\ UNCHANGED <<link, stream, inbox>>
       \/ link' = "none" /\ stream' = <<>> /\ inbox' = <<>>
    /\ queue' = Tail(queue)
    /\ retries' = NextRetry(k)
    /\ UNCHANGED <<up, device, turn, recorded, since>>

-----------------------------------------------------------------------------
(* Asterisk and the dongle                                                 *)

Room == Len(inbox) + Len(stream) < StreamBound

\* A call floods the stream with events, between any two messages of a list.
EmitEvent ==
    /\ link = "open" /\ Room
    /\ stream' = Append(stream, Event)
    /\ UNCHANGED <<up, device, link, inbox, queue, turn, recorded, retries, since>>

\* Asterisk answers in the order of the actions; no entry for no device.
Answer ==
    /\ link = "open" /\ inbox # <<>>
    /\ inbox' = Tail(inbox)
    /\ LET m == Head(inbox) IN
       \/ /\ m.kind \in {"ack", "complete"}
          /\ stream' = Append(stream, m)
       \/ /\ m.kind = "reply"
          /\ \E kind \in {"reply", "error"} :
                 stream' = Append(stream, [m EXCEPT !.kind = kind])
       \/ /\ m.kind = "entry"
          /\ stream' = IF device = "absent" THEN stream
                       ELSE Append(stream, [m EXCEPT !.kind = device])
    /\ UNCHANGED <<up, device, link, queue, turn, recorded, retries, since>>

\* Asterisk stops, or closes this connection; what it wrote can still be read.
CloseLink ==
    /\ up
    /\ up' \in BOOLEAN
    /\ link' = IF link = "open" THEN "eof" ELSE link
    /\ inbox' = <<>>
    /\ UNCHANGED <<device, stream, queue, turn, recorded, retries, since>>

\* A write into the closed connection is answered with a reset.
ResetArrives ==
    /\ link = "eof"
    /\ link' = "dead"
    /\ UNCHANGED <<up, device, inbox, stream, queue, turn, recorded, retries, since>>

AsteriskStarts ==
    /\ ~up
    /\ up' = TRUE
    /\ UNCHANGED <<device, link, inbox, stream, queue, turn, recorded, retries, since>>

DeviceChanges(d) ==
    /\ device # d
    /\ device' = d
    /\ since' = IF turn.sent THEN since \cup {d} ELSE since
    /\ UNCHANGED <<up, link, inbox, stream, queue, turn, recorded, retries>>

-----------------------------------------------------------------------------
(* The specification                                                       *)

\* At startup the agent connects through the wrapper, once.
Init ==
    /\ up \in BOOLEAN
    /\ device \in Devices
    /\ \/ link = "open" /\ retries = 0 /\ up
       \/ link = "none" /\ retries = 1
    /\ inbox = <<>>
    /\ stream = <<>>
    /\ queue = <<>>
    /\ turn = Idle
    /\ recorded = "unknown"
    /\ since = {}

\* The steps of a transaction that has the lock.
Transact(who) ==
    \/ Send(who)
    \/ SendFails(who)
    \/ ReadReply(who)
    \/ ReadStatus(who)
    \/ ReadEof(who)
    \/ ReadReset(who)
    \/ ReadTimeout(who)

Environment ==
    \/ EmitEvent
    \/ Answer
    \/ CloseLink
    \/ ResetArrives
    \/ AsteriskStarts
    \/ \E d \in Devices : DeviceChanges(d)

Next ==
    \/ \E who \in Callers : Call(who) \/ Transact(who)
    \/ \E k \in Connectors : StartConnect(k) \/ ConnectSucceeds(k) \/ ConnectFails(k)
    \/ Environment

Spec == Init /\ [][Next]_vars

\* The event loop goes on with the transaction that has the lock: a read ends
\* with a message or after AMI_READ_TIMEOUT, a connect with the TCP timeout.
\* The poller's timer and the reconnector's delay expire, and what the poller
\* writes into a closed connection is answered with a reset.  Of an Asterisk
\* that keeps accepting connections one login in a while succeeds.
Fairness ==
    /\ \A who \in Callers : WF_vars(Transact(who))
    /\ \A k \in Connectors : /\ WF_vars(ConnectSucceeds(k) \/ ConnectFails(k))
                             /\ SF_vars(ConnectSucceeds(k))
    /\ WF_vars(Call("poller"))
    /\ WF_vars(StartConnect("reconnector"))
    /\ WF_vars(ResetArrives)

FairSpec == Spec /\ Fairness

-----------------------------------------------------------------------------
(* Properties                                                              *)

TypeOK ==
    /\ up \in BOOLEAN
    /\ device \in Devices
    /\ link \in {"none", "open", "eof", "dead"}
    /\ inbox \in Seq([kind : {"ack", "entry", "complete", "reply"}, own : BOOLEAN])
    /\ stream \in Seq(Message)
    /\ queue \in Seq(Callers \cup Connectors)
    /\ turn \in [sent : BOOLEAN, acked : BOOLEAN, entry : EntryKinds \cup {"none"},
                 reads : 0..DrainCap - 1]
    /\ recorded \in EntryKinds \cup {"absent", "unknown"}
    /\ retries \in 0..MaxRetries
    /\ since \subseteq Devices

RunsOut == turn.reads + 1 = DrainCap

\* The poller records only what the device was at some moment since it asked,
\* however many leftovers of earlier transactions it reads: except that it
\* records an absent device when the connection ends under it or the drain
\* runs into its cap.
PollTellsTruth ==
    [][recorded' # recorded =>
          \/ recorded' \in since
          \/ recorded' = "absent" /\ (link # "open" \/ RunsOut)]_vars

\* A status request that was answered on a live connection leaves no reply
\* behind, not even of those before it that read an event for their reply: the
\* next simple action starts from a stream of events only.
PollResynchronizes ==
    [][Holds("poller") /\ turn.sent /\ ~RunsOut /\ link' = "open" /\ queue' = Tail(queue)
          => \A i \in DOMAIN stream' : stream'[i].kind = "event"]_vars

\* Whoever waits for the lock gets it and gives it back: no dead connection,
\* no silent Asterisk and no flood of events holds the transactions up.
TransactionsEnd ==
    \A who \in Callers \cup Connectors : InQueue(who) ~> ~InQueue(who)

\* While Asterisk stays up the connection comes back, although the reconnector
\* gives up and only a ConnectionError starts it again.
Reconnects == <>[]up => []<>(link = "open")

\* "An AMI outage is not evidence of deregistration": the poller marks the
\* modem offline only if the device was absent.
OutageKeepsState ==
    [][recorded' = "absent" /\ recorded # "absent" => "absent" \in since]_vars

=============================================================================
