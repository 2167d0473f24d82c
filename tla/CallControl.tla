----------------------------- MODULE CallControl -----------------------------
(***************************************************************************)
(* The agent's call registry: CallMachine and CallRegistry of              *)
(* core/call_control.py, driven by the call handlers of agent/routes.py.   *)
(*                                                                         *)
(* The handlers are coroutines of one event loop, so a handler runs        *)
(* atomically up to its next await: the AMI hangup of the call's legs, or  *)
(* the post of the outcome to the userbot.  Every such await ends an       *)
(* action here; what the handler does afterwards is an action of its own,  *)
(* taken in whatever state the other handlers have left by then.           *)
(*                                                                         *)
(* Any client may call any endpoint at any time with any call id: the      *)
(* properties below do not rely on the dialplan or the userbot behaving.   *)
(* A request the code refuses (404, 409, 503) changes nothing and is no    *)
(* step.  Not modelled: call numbers and names, audit and log records.     *)
(***************************************************************************)
EXTENDS Naturals, Sequences

CONSTANTS
    Calls,      \* the call ids the agent may ever issue (uuid4, never reused)
    Modems,     \* the modems of the pool
    NoModem,    \* modem_id "" of an internal call
    Sweeps,     \* requests to /call/check-timeouts that may overlap
    NoCall,     \* a sweep that is not suspended on any call
    LateLegs    \* the legs clients record after the call was set up

ASSUME ModemAssumption == NoModem \notin Modems
ASSUME CallAssumption  == NoCall \notin Calls
ASSUME LegAssumption   == LateLegs \subseteq {"gsm", "bridge"}

VARIABLES
    state,      \* CallMachine.state; "idle" before the call exists
    dir,        \* CallMachine.direction
    modem,      \* CallMachine.modem_id
    legs,       \* the recorded channel ids: gsm_channel_id, bridge_channel_id
    overdue,    \* the time since updated_at exceeds the state's limit
    told,       \* outcomes posted to the userbot, oldest first
    registered, \* the keys of CallRegistry._calls
    ready,      \* modems the device reports registered and without error
    reserved,   \* ModemPool._reserved
    waiting,    \* handlers suspended on an await
    sweep       \* the check-timeouts requests in flight

callVars == <<state, dir, modem, legs, overdue, told>>
vars == <<callVars, registered, ready, reserved, waiting, sweep>>

-----------------------------------------------------------------------------
(* The state machine of one call                                           *)

CallState ==
    {"idle", "cleanup", "rejected", "hangup",
     "ringing", "telegram_ringing", "telegram_accepted", "gsm_answered",
     "voicemail",
     "requested", "acl_checked", "acl_denied", "modem_reserved",
     "telegram_calling", "user_accepted", "gsm_dialing", "gsm_ringing",
     "gsm_busy", "gsm_no_answer", "gsm_error", "connected",
     "telegram_timeout", "bridged"}

IncomingTransitions ==
    {<<"idle", "ringing">>}
    \cup {"ringing"} \X {"telegram_ringing", "rejected", "hangup", "voicemail"}
    \cup {"telegram_ringing"}
            \X {"telegram_accepted", "rejected", "hangup", "voicemail"}
    \cup {"telegram_accepted"} \X {"gsm_answered", "hangup"}
    \cup {"gsm_answered"} \X {"bridged", "hangup"}
    \cup {<<"bridged", "hangup">>, <<"hangup", "cleanup">>,
          <<"voicemail", "hangup">>}

OutgoingTransitions ==
    {<<"idle", "requested">>}
    \cup {"requested"} \X {"acl_checked", "rejected"}
    \cup {"acl_checked"} \X {"acl_denied", "modem_reserved"}
    \cup {"modem_reserved"}
            \X {"telegram_calling", "rejected", "telegram_timeout"}
    \cup {"telegram_calling"}
            \X {"user_accepted", "rejected", "telegram_timeout"}
    \cup {"user_accepted"} \X {"gsm_dialing", "hangup"}
    \cup {"gsm_dialing"} \X {"gsm_ringing", "gsm_busy", "gsm_no_answer",
                             "gsm_error", "hangup"}
    \cup {"gsm_ringing"} \X {"connected", "gsm_no_answer", "gsm_error", "hangup"}
    \cup {"connected"} \X {"bridged", "hangup"}
    \cup {<<"bridged", "hangup">>, <<"hangup", "cleanup">>}

Terminal ==
    {"cleanup", "rejected", "hangup", "voicemail", "acl_denied",
     "telegram_timeout", "gsm_busy", "gsm_no_answer", "gsm_error"}

\* "lost" is no state of the code: the call object died with its process.
Ended == Terminal \cup {"lost"}

Transitions(d) ==
    IF d = "outgoing" THEN OutgoingTransitions ELSE IncomingTransitions

\* CallRegistry.transition succeeds: the call is registered and may move.
CanMove(c, to) ==
    /\ c \in registered
    /\ <<state[c], to>> \in Transitions(dir[c])

\* CallMachine.transition: the new state and a fresh updated_at.
Enter(c, to) ==
    /\ state' = [state EXCEPT ![c] = to]
    /\ overdue' = [overdue EXCEPT ![c] = FALSE]

-----------------------------------------------------------------------------
(* Reservation and removal                                                 *)

\* The modem a call keeps reserved for as long as it is registered.
HoldsModem(c) == dir[c] = "outgoing" /\ modem[c] # NoModem

\* Mutant: the modem of an incoming call is released too.
ForgetReleasingAny(c) ==
    /\ registered' = registered \ {c}
    /\ reserved' = reserved \ {modem[c]}

\* CallRegistry.cleanup: a second call finds nothing to remove or release.
Forget(c) ==
    /\ registered' = registered \ {c}
    /\ reserved' = IF c \in registered /\ HoldsModem(c)
                   THEN reserved \ {modem[c]}
                   ELSE reserved

\* hangup, then cleanup, with no await between them.
Close(c) ==
    /\ CanMove(c, "hangup")
    /\ Enter(c, "hangup")
    /\ Forget(c)

\* The same where the handler ignores what hangup returned.
ForceClose(c) ==
    \/ Close(c)
    \/ /\ ~CanMove(c, "hangup")
       /\ Forget(c)
       /\ UNCHANGED <<state, overdue>>

\* A handler that suspends itself; `then` names what it does when it resumes.
Suspend(c, then) == waiting' = waiting \cup {[then |-> then, call |-> c]}

\* Legs are hung up through AMI one await at a time; without legs there is
\* nothing to wait for and the handler goes on at once.
HangUpLegs(c, then) ==
    /\ legs[c] # {}
    /\ Suspend(c, then)
    /\ UNCHANGED <<state, overdue, registered, reserved>>

-----------------------------------------------------------------------------
(* The handlers                                                            *)

\* POST /call/incoming: create_incoming and start_telegram_ring.
CallIncoming(c, m, channels) ==
    /\ state[c] = "idle"
    /\ Enter(c, "telegram_ringing")
    /\ dir' = [dir EXCEPT ![c] = "incoming"]
    /\ modem' = [modem EXCEPT ![c] = m]
    /\ legs' = [legs EXCEPT ![c] = channels]
    /\ registered' = registered \cup {c}
    /\ UNCHANGED <<told, ready, reserved, waiting, sweep>>

\* Mutant: the pool forgets to look at its reservations.
ReadyModems == ready

\* ModemPool._get_available; which member is taken is the strategy's choice.
Available == ready \ reserved

\* POST /call/outgoing, past the limiter, the ACL and the blacklist:
\* select_for_call, create_outgoing, start_telegram_calling.  An internal
\* call takes no modem.
CallOutgoing(c, m) ==
    /\ state[c] = "idle"
    /\ m \in Available \cup {NoModem}
    /\ Enter(c, "telegram_calling")
    /\ dir' = [dir EXCEPT ![c] = "outgoing"]
    /\ modem' = [modem EXCEPT ![c] = m]
    /\ reserved' = reserved \cup ({m} \ {NoModem})
    /\ registered' = registered \cup {c}
    /\ UNCHANGED <<legs, told, ready, waiting, sweep>>

\* The outgoing calls an accept from the bridge could be meant for.
Pending == {c \in registered : /\ dir[c] = "outgoing"
                               /\ state[c] \in {"modem_reserved", "telegram_calling"}}

\* POST /call/outgoing/accepted carries no call id: it takes the only pending
\* call, and is refused with 404 or 409 when there is none or more than one.
CallOutgoingAccepted(c, channels) ==
    /\ Pending = {c}
    /\ CanMove(c, "user_accepted")
    /\ <<"user_accepted", "gsm_dialing">> \in Transitions(dir[c])
    /\ Enter(c, "gsm_dialing")
    /\ legs' = [legs EXCEPT ![c] = @ \cup channels]
    /\ UNCHANGED <<dir, modem, told, registered, ready, reserved, waiting, sweep>>

\* POST /call/{id}/complete of a live call.
CompletableCall(c) == c \in registered /\ state[c] \notin Terminal

\* ... answered, incoming: fast_forward_bridged.
CompleteIncomingAnswered(c) ==
    /\ CompletableCall(c)
    /\ dir[c] = "incoming"
    /\ state[c] \in {"ringing", "telegram_ringing", "telegram_accepted", "gsm_answered"}
    /\ Enter(c, "bridged")
    /\ UNCHANGED <<dir, modem, legs, told, registered, ready, reserved, waiting, sweep>>

\* ... no_answer, busy, cancelled or failed, incoming: a final state, then cleanup.
CompleteIncomingUnanswered(c, to) ==
    /\ CompletableCall(c)
    /\ dir[c] = "incoming"
    /\ state[c] # "bridged"
    /\ to \in {"voicemail", "rejected", "hangup"}
    /\ CanMove(c, to)
    /\ Enter(c, to)
    /\ Forget(c)
    /\ UNCHANGED <<dir, modem, legs, told, ready, waiting, sweep>>

\* ... answered, outgoing: gsm_ringing, gsm_connected and bridge_call in one
\* go, then the userbot is told.  Nothing happens after that await.
CompleteOutgoingAnswered(c) ==
    /\ CompletableCall(c)
    /\ dir[c] = "outgoing"
    /\ CanMove(c, "gsm_ringing")
    /\ Enter(c, "bridged")
    /\ told' = [told EXCEPT ![c] = Append(@, "answered")]
    /\ UNCHANGED <<dir, modem, legs, registered, ready, reserved, waiting, sweep>>

\* Mutant: the state's own name is posted.
NoticeRaw(to) == to

\* What the userbot is told of a GSM leg that failed.
NoticeOf(to) == CASE to = "gsm_no_answer" -> "no_answer"
                  [] to = "gsm_busy"      -> "busy"
                  [] to = "gsm_error"     -> "failed"

\* Mutant: the userbot is told before the transition is tried.
FailToldFirst(c, to) ==
    /\ c \in registered /\ dir[c] = "outgoing" /\ Len(told[c]) < 2
    /\ to \in {"gsm_no_answer", "gsm_busy", "gsm_error"}
    /\ told' = [told EXCEPT ![c] = Append(@, NoticeOf(to))]
    /\ \/ CanMove(c, to) /\ Enter(c, to) /\ Suspend(c, "cleanup")
       \/ ~CanMove(c, to) /\ UNCHANGED <<state, overdue, waiting>>
    /\ UNCHANGED <<dir, modem, legs, registered, ready, reserved, sweep>>

\* ... no_answer, busy or failed, outgoing: the final state at once, the
\* cleanup only after the userbot has been told.
CompleteOutgoingFailed(c, to) ==
    /\ CompletableCall(c)
    /\ dir[c] = "outgoing"
    /\ to \in {"gsm_no_answer", "gsm_busy", "gsm_error"}
    /\ CanMove(c, to)
    /\ Enter(c, to)
    /\ told' = [told EXCEPT ![c] = Append(@, NoticeOf(to))]
    /\ Suspend(c, "cleanup")
    /\ UNCHANGED <<dir, modem, legs, registered, ready, reserved, sweep>>

\* ... ended, cancelled or failed while BRIDGED: the legs are hung up, then
\* the call is closed whatever became of it meanwhile.
CompleteBridged(c) ==
    /\ CompletableCall(c)
    /\ state[c] = "bridged"
    /\ \/ HangUpLegs(c, "force_close")
       \/ legs[c] = {} /\ ForceClose(c) /\ UNCHANGED waiting
    /\ UNCHANGED <<dir, modem, legs, told, ready, sweep>>

\* ... ended or cancelled, outgoing, and POST /call/{id}/hangup, either
\* direction and any state: the legs, then hangup; 409 without a cleanup when
\* the call cannot move to HANGUP (any more).
HangupCall(c) ==
    /\ c \in registered
    /\ \/ HangUpLegs(c, "close")
       \/ legs[c] = {} /\ Close(c) /\ UNCHANGED waiting
    /\ UNCHANGED <<dir, modem, legs, told, ready, sweep>>

\* Mutant: the handler trusts the state it saw before the await.
ContinueStale(then, c) ==
    \/ /\ then # "cleanup"
       /\ Enter(c, "hangup")
       /\ Forget(c)
    \/ /\ then = "cleanup"
       /\ Forget(c)
       /\ UNCHANGED <<state, overdue>>

\* Mutant: the cleanup is skipped when the notification was slow.
ContinueWithoutCleanup(then, c) ==
    \/ then # "cleanup" /\ Close(c)
    \/ /\ then = "cleanup" \/ ~CanMove(c, "hangup")
       /\ UNCHANGED <<state, overdue, registered, reserved>>

\* Mutant: the cleanup follows even when the hangup was refused.
ContinueCleanupAnyway(then, c) ==
    \/ then # "cleanup" /\ ForceClose(c)
    \/ /\ then = "cleanup"
       /\ Forget(c)
       /\ UNCHANGED <<state, overdue>>

\* What a handler does to its call when it goes on after the await.
Continue(then, c) ==
    \/ then = "force_close" /\ ForceClose(c)
    \/ then = "close" /\ Close(c)
    \/ /\ then = "close" /\ ~CanMove(c, "hangup")
       /\ UNCHANGED <<state, overdue, registered, reserved>>
    \/ /\ then = "cleanup"
       /\ Forget(c)
       /\ UNCHANGED <<state, overdue>>

Resume(w) ==
    /\ Continue(w.then, w.call)
    /\ waiting' = waiting \ {w}
    /\ UNCHANGED <<dir, modem, legs, told, ready, sweep>>

\* Mutant: the transition is taken without asking whether it is legal.
RejectAnyState(c) ==
    /\ c \in registered
    /\ Enter(c, "rejected")
    /\ Forget(c)
    /\ UNCHANGED <<dir, modem, legs, told, ready, waiting, sweep>>

\* POST /call/{id}/reject
RejectCall(c) ==
    /\ CanMove(c, "rejected")
    /\ Enter(c, "rejected")
    /\ Forget(c)
    /\ UNCHANGED <<dir, modem, legs, told, ready, waiting, sweep>>

\* POST /call/{id}/accept, /answer-gsm and /bridge: one transition each.
\* AMIClient.answer_channel always raises, so /answer-gsm gets past it only
\* for a call without a GSM channel.
StepCall(c, to) ==
    /\ to \in {"telegram_accepted", "gsm_answered", "bridged"}
    /\ to = "gsm_answered" => "gsm" \notin legs[c]
    /\ CanMove(c, to)
    /\ Enter(c, to)
    /\ UNCHANGED <<dir, modem, legs, told, registered, ready, reserved, waiting, sweep>>

\* POST /call/{id}/set-gsm-channel and /set-bridge-leg, in any state.
SetLeg(c, leg) ==
    /\ c \in registered
    /\ legs' = [legs EXCEPT ![c] = @ \cup {leg}]
    /\ UNCHANGED <<state, dir, modem, overdue, told, registered, ready, reserved,
                   waiting, sweep>>

-----------------------------------------------------------------------------
(* POST /call/check-timeouts                                               *)

RingStates   == {"ringing", "telegram_ringing"}
InviteStates == {"modem_reserved", "telegram_calling"}
TimedStates  == RingStates \cup InviteStates \cup {"bridged"}

IdleSweep == [todo |-> {}, on |-> NoCall, then |-> "none"]

\* The limit of the call's state passes.
Age(c) ==
    /\ c \in registered
    /\ state[c] \in TimedStates
    /\ ~overdue[c]
    /\ overdue' = [overdue EXCEPT ![c] = TRUE]
    /\ UNCHANGED <<state, dir, modem, legs, told, registered, ready, reserved,
                   waiting, sweep>>

\* Mutant: the list leaves out the calls that ring in Telegram.
TimedOutUninvited ==
    {c \in registered : state[c] \in TimedStates \ InviteStates /\ overdue[c]}

\* get_timed_out_calls
TimedOut == {c \in registered : state[c] \in TimedStates /\ overdue[c]}

\* The list is computed once; the loop reads each call's state when it comes
\* to it, and the loop body awaits.
SweepStart(s) ==
    /\ sweep[s] = IdleSweep
    /\ TimedOut # {}
    /\ sweep' = [sweep EXCEPT ![s].todo = TimedOut]
    /\ UNCHANGED <<callVars, registered, ready, reserved, waiting>>

Busy(s) == sweep[s].on # NoCall

Done(s, c) == sweep' = [sweep EXCEPT ![s] = [IdleSweep EXCEPT !.todo = sweep[s].todo \ {c}]]

SuspendOn(s, c, then) ==
    sweep' = [sweep EXCEPT ![s] = [todo |-> @.todo, on |-> c, then |-> then]]

\* The transitions of the next two cannot fail: a call in one of these states
\* is registered (OnlyEndedCallsForgotten), and nothing is awaited between
\* reading its state and moving it.
SweepRing(s, c) ==
    /\ c \in sweep[s].todo /\ ~Busy(s)
    /\ state[c] \in RingStates
    /\ CanMove(c, "voicemail")
    /\ Enter(c, "voicemail")
    /\ Forget(c)
    /\ Done(s, c)
    /\ UNCHANGED <<dir, modem, legs, told, ready, waiting>>

SweepInvite(s, c) ==
    /\ c \in sweep[s].todo /\ ~Busy(s)
    /\ state[c] \in InviteStates
    /\ CanMove(c, "telegram_timeout")
    /\ Enter(c, "telegram_timeout")
    /\ told' = [told EXCEPT ![c] = Append(@, "no_answer")]
    /\ SuspendOn(s, c, "cleanup")
    /\ UNCHANGED <<dir, modem, legs, registered, ready, reserved, waiting>>

SweepBridged(s, c) ==
    /\ c \in sweep[s].todo /\ ~Busy(s)
    /\ state[c] = "bridged"
    /\ \/ /\ legs[c] # {}
          /\ SuspendOn(s, c, "force_close")
          /\ UNCHANGED <<state, overdue, registered, reserved>>
       \/ /\ legs[c] = {}
          /\ ForceClose(c)
          /\ Done(s, c)
    /\ UNCHANGED <<dir, modem, legs, told, ready, waiting>>

\* Closed, accepted or finished since the list was made.
SweepSkip(s, c) ==
    /\ c \in sweep[s].todo /\ ~Busy(s)
    /\ state[c] \notin TimedStates
    /\ Done(s, c)
    /\ UNCHANGED <<callVars, registered, ready, reserved, waiting>>

\* After the await: a call whose ring expired is cleaned up, one that ran out
\* of its duration is hung up first.
SweepResume(s) ==
    /\ Busy(s)
    /\ Continue(sweep[s].then, sweep[s].on)
    /\ Done(s, sweep[s].on)
    /\ UNCHANGED <<dir, modem, legs, told, ready, waiting>>

-----------------------------------------------------------------------------
(* The environment and the specification                                   *)

\* The modem poller writes what the device reports.
ModemReport(m) ==
    /\ ready' = IF m \in ready THEN ready \ {m} ELSE ready \cup {m}
    /\ UNCHANGED <<callVars, registered, reserved, waiting, sweep>>

\* The agent process dies and starts again: registry, pool and coroutines
\* live in memory only.
Restart ==
    /\ registered # {}
    /\ state' = [c \in Calls |-> IF c \in registered THEN "lost" ELSE state[c]]
    /\ registered' = {}
    /\ reserved' = {}
    /\ ready' = {}
    /\ waiting' = {}
    /\ sweep' = [s \in Sweeps |-> IdleSweep]
    /\ UNCHANGED <<dir, modem, legs, overdue, told>>

Init ==
    /\ state = [c \in Calls |-> "idle"]
    /\ dir = [c \in Calls |-> "incoming"]
    /\ modem = [c \in Calls |-> NoModem]
    /\ legs = [c \in Calls |-> {}]
    /\ overdue = [c \in Calls |-> FALSE]
    /\ told = [c \in Calls |-> <<>>]
    /\ registered = {}
    /\ ready = {}
    /\ reserved = {}
    /\ waiting = {}
    /\ sweep = [s \in Sweeps |-> IdleSweep]

Request(c) ==
    \/ \E m \in Modems, channels \in {{}, {"gsm"}} : CallIncoming(c, m, channels)
    \/ \E m \in Modems \cup {NoModem} : CallOutgoing(c, m)
    \/ \E channels \in {{}, {"bridge"}} : CallOutgoingAccepted(c, channels)
    \/ CompleteIncomingAnswered(c)
    \/ \E to \in {"voicemail", "rejected", "hangup"} : CompleteIncomingUnanswered(c, to)
    \/ CompleteOutgoingAnswered(c)
    \/ \E to \in {"gsm_no_answer", "gsm_busy", "gsm_error"} : CompleteOutgoingFailed(c, to)
    \/ CompleteBridged(c)
    \/ HangupCall(c)
    \/ RejectCall(c)
    \/ \E to \in {"telegram_accepted", "gsm_answered", "bridged"} : StepCall(c, to)
    \/ \E leg \in LateLegs : SetLeg(c, leg)

SweepStep(s) ==
    \/ SweepStart(s)
    \/ SweepResume(s)
    \/ \E c \in Calls : \/ SweepRing(s, c)
                        \/ SweepInvite(s, c)
                        \/ SweepBridged(s, c)
                        \/ SweepSkip(s, c)

Next ==
    \/ \E c \in Calls : Request(c) \/ Age(c)
    \/ \E w \in waiting : Resume(w)
    \/ \E s \in Sweeps : SweepStep(s)
    \/ \E m \in Modems : ModemReport(m)
    \/ Restart

Spec == Init /\ [][Next]_vars

\* The event loop resumes every suspended coroutine: the AMI and the userbot
\* answer or time out within seconds.  The systemd timer posts a sweep every
\* five seconds, and time passes.  No client has to send anything.
Fairness ==
    /\ \A c \in Calls : WF_vars(Age(c))
    /\ \A c \in Calls, then \in {"close", "force_close", "cleanup"} :
           WF_vars(/\ [then |-> then, call |-> c] \in waiting
                   /\ Resume([then |-> then, call |-> c]))
    /\ \A s \in Sweeps : WF_vars(SweepStep(s))

FairSpec == Spec /\ Fairness

-----------------------------------------------------------------------------
(* Properties                                                              *)

\* What a suspended handler may be about to do.
Then == {"close", "force_close", "cleanup"}

TypeOK ==
    /\ state \in [Calls -> CallState \cup {"lost"}]
    /\ dir \in [Calls -> {"incoming", "outgoing"}]
    /\ modem \in [Calls -> Modems \cup {NoModem}]
    /\ legs \in [Calls -> SUBSET {"gsm", "bridge"}]
    /\ overdue \in [Calls -> BOOLEAN]
    /\ told \in [Calls -> Seq({"answered", "no_answer", "busy", "failed"})]
    /\ registered \subseteq Calls
    /\ ready \subseteq Modems
    /\ reserved \subseteq Modems
    /\ waiting \subseteq [then : Then, call : Calls]
    /\ sweep \in [Sweeps -> [todo : SUBSET Calls, on : Calls \cup {NoCall},
                             then : Then \cup {"none"}]]

\* Every reserved modem is held by a registered outgoing call, every such
\* call has its modem reserved, and no two share one: whichever handler or
\* sweep closes a call first, the modem is released exactly once, never while
\* another call holds it, and never lost.
ModemHeldByOneCall ==
    /\ \A m \in reserved : \E c \in registered : HoldsModem(c) /\ modem[c] = m
    /\ \A c \in registered : HoldsModem(c) => modem[c] \in reserved
    /\ \A c, d \in registered :
           HoldsModem(c) /\ HoldsModem(d) /\ modem[c] = modem[d] => c = d

\* A call leaves the registry only after it ended: no handler removes a call
\* that another one still believes to be alive.
OnlyEndedCallsForgotten ==
    \A c \in Calls : state[c] # "idle" /\ c \notin registered => state[c] \in Ended

\* A registered call that has ended has a suspended handler that will remove
\* it: no interleaving leaves an ended call, and with it a modem, behind.
EndedCallIsBeingRemoved ==
    \A c \in registered :
        state[c] \in Terminal =>
            \/ [then |-> "cleanup", call |-> c] \in waiting
            \/ \E s \in Sweeps : sweep[s].on = c /\ sweep[s].then = "cleanup"

\* The user is told of an outgoing call at most once, and what he is told is
\* how it went: no double or contradictory message when a completion report,
\* its duplicate and the timeout sweep race.
ToldOnceAndTruly ==
    \A c \in Calls :
        \/ told[c] = <<>>
        \/ told[c] = <<"answered">> /\ state[c] \in {"bridged", "hangup", "lost"}
        \/ told[c] = <<"busy">>     /\ state[c] \in {"gsm_busy", "lost"}
        \/ told[c] = <<"failed">>   /\ state[c] \in {"gsm_error", "lost"}
        \/ told[c] = <<"no_answer">>
           /\ state[c] \in {"gsm_no_answer", "telegram_timeout", "lost"}

\* A call that has ended never changes state again, whatever handler wakes up
\* late; only a restart, which destroys the call object, makes it "lost".
EndedCallStaysEnded ==
    [][\A c \in Calls : state[c] \in Ended => state'[c] \in {state[c], "lost"}]_vars

\* A call in a state the sweep watches leaves it, even if no client ever
\* sends another request for it.
WatchedStatesEnd ==
    \A c \in Calls :
        (c \in registered /\ state[c] \in TimedStates)
            ~> (c \notin registered \/ state[c] \notin TimedStates)

\* An ended call leaves the registry.
EndedCallsRemoved ==
    \A c \in Calls :
        (c \in registered /\ state[c] \in Terminal) ~> c \notin registered

-----------------------------------------------------------------------------
(* What the registry promises of its modems                                *)

\* The calls a modem is leased to, read off the reservation and the registry.
Holders == [m \in Modems |->
               IF m \in reserved
               THEN {c \in registered : HoldsModem(c) /\ modem[c] = m}
               ELSE {}]

Lease == INSTANCE ModemLease
             WITH lease <- Holders, used <- {c \in Calls : state[c] # "idle"}

\* The registry, its handlers and the sweep implement the lease of a modem:
\* one call at a time, once per call, given back when the call is removed.
ImplementsLease == Lease!LeaseSpec
=============================================================================
