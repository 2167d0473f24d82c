-------------------------- MODULE CallControlProofs --------------------------
(***************************************************************************)
(* The safety properties of CallControl, for every set of calls, modems    *)
(* and overlapping sweeps.                                                 *)
(*                                                                         *)
(* OnlyEndedCallsForgotten and EndedCallIsBeingRemoved are not inductive:  *)
(* they need to know what the suspended handlers are about to do.  CallWell *)
(* says it call by call, so a step is checked for the one call it is about. *)
(***************************************************************************)
EXTENDS CallControl, TLAPS

\* The final states a call waits in for its cleanup.
Lingering == {"telegram_timeout", "gsm_busy", "gsm_no_answer", "gsm_error"}

\* Some handler or sweep is suspended on c and will go on with `then`.
Suspended(then, c) ==
    \/ [then |-> then, call |-> c] \in waiting
    \/ \E s \in Sweeps : sweep[s].on = c /\ sweep[s].then = then

\* A registered call lives, or waits for a cleanup that is pending; a call
\* that is not registered has not begun or has ended; a cleanup is pending
\* only on an ended call and a forced close only on one that was bridged, so
\* neither removes a live call.
CallWell(c) ==
    /\ c \in registered => /\ state[c] \notin {"idle", "lost"}
                           /\ state[c] \in Terminal => /\ state[c] \in Lingering
                                                       /\ Suspended("cleanup", c)
    /\ c \notin registered => state[c] \in {"idle"} \cup Ended
    /\ Suspended("cleanup", c) => state[c] \in Ended
    /\ Suspended("force_close", c) => state[c] \in Ended \cup {"bridged"}

LifeInv == \A c \in Calls : CallWell(c)

IInv == TypeOK /\ ModemHeldByOneCall /\ LifeInv

-----------------------------------------------------------------------------
(* Facts about the transition tables                                       *)

\* A call that has ended makes no transition, but from hangup to cleanup and
\* from voicemail to hangup.
LEMMA LingeringIsFinal ==
    ASSUME NEW d, NEW s \in Lingering, NEW t, <<s, t>> \in Transitions(d)
    PROVE  FALSE
  BY DEF Lingering, Transitions, IncomingTransitions, OutgoingTransitions

\* Every transition leads to a state of the code, never back to "idle".
LEMMA TransitionTarget ==
    ASSUME NEW d, NEW s, NEW t, <<s, t>> \in Transitions(d)
    PROVE  t \in CallState \ {"idle"}
  BY DEF CallState, Transitions, IncomingTransitions, OutgoingTransitions

\* A bridged call can always be hung up, and can do nothing else.
LEMMA BridgedHangsUp ==
    ASSUME NEW d
    PROVE  /\ <<"bridged", "hangup">> \in Transitions(d)
           /\ \A t : <<"bridged", t>> \in Transitions(d) => t = "hangup"
  BY DEF Transitions, IncomingTransitions, OutgoingTransitions

-----------------------------------------------------------------------------
(* How a step changes what is suspended                                    *)

\* A handler suspends itself.
LEMMA SuspendAdds ==
    ASSUME NEW c, NEW t, Suspend(c, t), sweep' = sweep
    PROVE  \A d, u : Suspended(u, d)' <=> Suspended(u, d) \/ (u = t /\ d = c)
  BY DEF Suspend, Suspended

\* A handler goes on.
LEMMA ResumeRemoves ==
    ASSUME NEW c, NEW t, sweep' = sweep,
           waiting' = waiting \ {[then |-> t, call |-> c]}
    PROVE  \A d, u : /\ Suspended(u, d)' => Suspended(u, d)
                     /\ (d # c \/ u # t) => (Suspended(u, d) => Suspended(u, d)')
  BY DEF Suspended

\* A sweep suspends itself on a call.
LEMMA SweepSuspends ==
    ASSUME TypeOK, NEW s \in Sweeps, ~Busy(s), NEW c \in Calls, NEW t,
           SuspendOn(s, c, t), waiting' = waiting
    PROVE  \A u : \A d \in Calls : Suspended(u, d)' <=> Suspended(u, d) \/ (u = t /\ d = c)
  BY CallAssumption DEF TypeOK, Busy, SuspendOn, Suspended

\* A sweep is done with a call, which it may have been suspended on.
LEMMA SweepGoesOn ==
    ASSUME TypeOK, NEW s \in Sweeps, NEW c, Done(s, c), waiting' = waiting,
           sweep[s].on \in {NoCall, c}
    PROVE  \A u : \A d \in Calls :
               /\ Suspended(u, d)' => Suspended(u, d)
               /\ (d # c \/ ~Busy(s) \/ u # sweep[s].then)
                      => (Suspended(u, d) => Suspended(u, d)')
  BY CallAssumption DEF TypeOK, Busy, Done, IdleSweep, Suspended

\* A step in which nothing is suspended or resumed.
LEMMA SameSuspended ==
    ASSUME waiting' = waiting, sweep' = sweep
    PROVE  \A d, u : Suspended(u, d)' <=> Suspended(u, d)
  BY DEF Suspended

-----------------------------------------------------------------------------
(* Type correctness                                                        *)

LEMMA TypeInit == Init => TypeOK
  BY DEF Init, TypeOK, CallState, IdleSweep

\* The effects the handlers share keep the types of what they change.
LEMMA EnterType ==
    ASSUME TypeOK, NEW c \in Calls, NEW to \in CallState, Enter(c, to)
    PROVE  /\ state' \in [Calls -> CallState \cup {"lost"}]
           /\ overdue' \in [Calls -> BOOLEAN]
  BY DEF TypeOK, Enter

LEMMA MoveType ==
    ASSUME TypeOK, NEW c \in Calls, NEW to, CanMove(c, to), Enter(c, to)
    PROVE  /\ state' \in [Calls -> CallState \cup {"lost"}]
           /\ overdue' \in [Calls -> BOOLEAN]
  BY TransitionTarget, EnterType DEF CanMove

LEMMA ForgetType ==
    ASSUME TypeOK, NEW c, Forget(c)
    PROVE  registered' \subseteq Calls /\ reserved' \subseteq Modems
  BY DEF TypeOK, Forget

LEMMA ForceCloseType ==
    ASSUME TypeOK, NEW c \in Calls, ForceClose(c)
    PROVE  /\ state' \in [Calls -> CallState \cup {"lost"}]
           /\ overdue' \in [Calls -> BOOLEAN]
           /\ registered' \subseteq Calls
           /\ reserved' \subseteq Modems
  <1>1. CASE Close(c)
    BY <1>1, MoveType, ForgetType DEF Close
  <1>2. CASE Forget(c) /\ UNCHANGED <<state, overdue>>
    BY <1>2, ForgetType DEF TypeOK
  <1> QED BY <1>1, <1>2 DEF ForceClose

LEMMA ContinueType ==
    ASSUME TypeOK, NEW then, NEW c \in Calls, Continue(then, c)
    PROVE  /\ state' \in [Calls -> CallState \cup {"lost"}]
           /\ overdue' \in [Calls -> BOOLEAN]
           /\ registered' \subseteq Calls
           /\ reserved' \subseteq Modems
  <1>1. CASE ForceClose(c)
    BY <1>1, ForceCloseType
  <1>2. CASE Close(c)
    BY <1>2, ForceCloseType DEF ForceClose
  <1>3. CASE UNCHANGED <<state, overdue, registered, reserved>>
    BY <1>3 DEF TypeOK
  <1>4. CASE Forget(c) /\ UNCHANGED <<state, overdue>>
    BY <1>4, ForgetType DEF TypeOK
  <1> QED BY <1>1, <1>2, <1>3, <1>4 DEF Continue

LEMMA SuspendType ==
    ASSUME TypeOK, NEW c \in Calls, NEW t \in Then, Suspend(c, t)
    PROVE  waiting' \subseteq [then : Then, call : Calls]
  BY DEF TypeOK, Suspend

LEMMA SweepType ==
    ASSUME TypeOK, NEW s \in Sweeps, NEW c \in Calls, NEW t \in Then,
           Done(s, c) \/ SuspendOn(s, c, t)
    PROVE  sweep' \in [Sweeps -> [todo : SUBSET Calls, on : Calls \cup {NoCall},
                                  then : Then \cup {"none"}]]
  <1>1. sweep[s].todo \subseteq Calls
    BY DEF TypeOK
  <1>2. CASE Done(s, c)
    <2>1. [IdleSweep EXCEPT !.todo = sweep[s].todo \ {c}]
             = [todo |-> sweep[s].todo \ {c}, on |-> NoCall, then |-> "none"]
      BY DEF IdleSweep
    <2> QED BY <1>1, <1>2, <2>1 DEF TypeOK, Done
  <1>3. CASE SuspendOn(s, c, t)
    BY <1>1, <1>3 DEF TypeOK, SuspendOn
  <1> QED BY <1>2, <1>3

\* What a client's request does to the types.
LEMMA RequestType ==
    ASSUME TypeOK, NEW c \in Calls, Request(c)
    PROVE  TypeOK'
  <1>1. ASSUME NEW m \in Modems, NEW channels \in {{}, {"gsm"}},
               CallIncoming(c, m, channels)
        PROVE  TypeOK'
    BY <1>1, EnterType DEF CallIncoming, TypeOK, CallState
  <1>2. ASSUME NEW m \in Modems \cup {NoModem}, CallOutgoing(c, m)
        PROVE  TypeOK'
    BY <1>2, EnterType DEF CallOutgoing, TypeOK, CallState
  <1>3. ASSUME NEW channels \in {{}, {"bridge"}}, CallOutgoingAccepted(c, channels)
        PROVE  TypeOK'
    BY <1>3, EnterType DEF CallOutgoingAccepted, TypeOK, CallState
  <1>4. CASE CompleteIncomingAnswered(c)
    BY <1>4, EnterType DEF CompleteIncomingAnswered, TypeOK, CallState
  <1>5. ASSUME NEW to, CompleteIncomingUnanswered(c, to)
        PROVE  TypeOK'
    BY <1>5, MoveType, ForgetType DEF CompleteIncomingUnanswered, TypeOK
  <1>6. CASE CompleteOutgoingAnswered(c)
    BY <1>6, EnterType DEF CompleteOutgoingAnswered, TypeOK, CallState
  <1>7. ASSUME NEW to \in {"gsm_no_answer", "gsm_busy", "gsm_error"},
               CompleteOutgoingFailed(c, to)
        PROVE  TypeOK'
    <2>1. NoticeOf(to) \in {"no_answer", "busy", "failed"}
      BY DEF NoticeOf
    <2> QED BY <1>7, <2>1, MoveType, SuspendType
            DEF CompleteOutgoingFailed, TypeOK, Then
  <1>8. CASE CompleteBridged(c)
    BY <1>8, ForceCloseType, SuspendType
    DEF CompleteBridged, HangUpLegs, TypeOK, Then
  <1>9. CASE HangupCall(c)
    BY <1>9, ForceCloseType, SuspendType
    DEF HangupCall, HangUpLegs, ForceClose, TypeOK, Then
  <1>10. CASE RejectCall(c)
    BY <1>10, MoveType, ForgetType DEF RejectCall, TypeOK
  <1>11. ASSUME NEW to, StepCall(c, to)
         PROVE  TypeOK'
    BY <1>11, MoveType DEF StepCall, TypeOK
  <1>12. ASSUME NEW leg \in LateLegs, SetLeg(c, leg)
         PROVE  TypeOK'
    BY <1>12, LegAssumption DEF SetLeg, TypeOK
  <1> QED BY <1>1, <1>2, <1>3, <1>4, <1>5, <1>6, <1>7, <1>8, <1>9, <1>10,
             <1>11, <1>12 DEF Request

LEMMA SweepStepType ==
    ASSUME TypeOK, NEW s \in Sweeps, SweepStep(s)
    PROVE  TypeOK'
  <1>1. CASE SweepStart(s)
    BY <1>1 DEF SweepStart, TimedOut, IdleSweep, TypeOK, callVars
  <1>2. CASE SweepResume(s)
    <2>1. sweep[s].on \in Calls
      BY <1>2 DEF SweepResume, Busy, TypeOK
    <2> QED BY <1>2, <2>1, ContinueType, SweepType DEF SweepResume, TypeOK, Then
  <1>3. ASSUME NEW c \in Calls, SweepRing(s, c)
        PROVE  TypeOK'
    BY <1>3, MoveType, ForgetType, SweepType DEF SweepRing, TypeOK, Then
  <1>4. ASSUME NEW c \in Calls, SweepInvite(s, c)
        PROVE  TypeOK'
    BY <1>4, MoveType, SweepType DEF SweepInvite, TypeOK, Then
  <1>5. ASSUME NEW c \in Calls, SweepBridged(s, c)
        PROVE  TypeOK'
    BY <1>5, ForceCloseType, SweepType DEF SweepBridged, TypeOK, Then
  <1>6. ASSUME NEW c \in Calls, SweepSkip(s, c)
        PROVE  TypeOK'
    BY <1>6, SweepType DEF SweepSkip, TypeOK, Then, callVars
  <1> QED BY <1>1, <1>2, <1>3, <1>4, <1>5, <1>6 DEF SweepStep

LEMMA TypeStep == TypeOK /\ [Next]_vars => TypeOK'
  <1> SUFFICES ASSUME TypeOK, [Next]_vars PROVE TypeOK'
    OBVIOUS
  <1>1. ASSUME NEW c \in Calls, Request(c) PROVE TypeOK'
    BY <1>1, RequestType
  <1>2. ASSUME NEW c \in Calls, Age(c) PROVE TypeOK'
    BY <1>2 DEF Age, TypeOK
  <1>3. ASSUME NEW w \in waiting, Resume(w) PROVE TypeOK'
    <2>1. w.call \in Calls
      BY DEF TypeOK
    <2> QED BY <1>3, <2>1, ContinueType DEF Resume, TypeOK
  <1>4. ASSUME NEW s \in Sweeps, SweepStep(s) PROVE TypeOK'
    BY <1>4, SweepStepType
  <1>5. ASSUME NEW m \in Modems, ModemReport(m) PROVE TypeOK'
    BY <1>5 DEF ModemReport, TypeOK, callVars
  <1>6. CASE Restart
    BY <1>6 DEF Restart, TypeOK, IdleSweep
  <1>7. CASE UNCHANGED vars
    BY <1>7 DEF vars, callVars, TypeOK
  <1> QED BY <1>1, <1>2, <1>3, <1>4, <1>5, <1>6, <1>7 DEF Next

\* Every variable of the registry, the pool and the handlers keeps its type.
THEOREM TypeCorrect == Spec => []TypeOK
  BY TypeInit, TypeStep, PTL DEF Spec

-----------------------------------------------------------------------------
(* The life of a call                                                      *)

\* The frame of every step that is about one call: the others stay well if
\* they keep their state and what is suspended on them.
LEMMA OthersStayWell ==
    ASSUME LifeInv, NEW c,
           \A d \in Calls \ {c} : /\ state'[d] = state[d]
                                  /\ d \in registered' <=> d \in registered
                                  /\ \A u : Suspended(u, d)' <=> Suspended(u, d),
           c \in Calls => CallWell(c)'
    PROVE  LifeInv'
  <1>1. ASSUME NEW d \in Calls, d # c PROVE CallWell(d)'
    BY <1>1 DEF LifeInv, CallWell
  <1> QED BY <1>1 DEF LifeInv

\* A live call enters a state from which it goes on living.
LEMMA LivesOn ==
    ASSUME TypeOK, LifeInv, NEW c \in Calls, NEW to,
           c \in registered' /\ (c \notin registered => state[c] = "idle"),
           registered' \ {c} = registered \ {c},
           state[c] \notin Terminal \cup {"bridged"},
           to \notin Terminal \cup {"idle", "lost"},
           Enter(c, to), UNCHANGED <<waiting, sweep>>
    PROVE  LifeInv'
  <1>1. CallWell(c)
    BY DEF LifeInv
  <1>2. state' = [state EXCEPT ![c] = to] /\ state'[c] = to
    BY DEF Enter, TypeOK
  <1>3. \A d, u : Suspended(u, d)' <=> Suspended(u, d)
    BY SameSuspended
  <1>4. state[c] \notin Ended
    BY <1>1 DEF CallWell, Ended
  <1>5. CallWell(c)'
    BY <1>1, <1>2, <1>3, <1>4 DEF CallWell
  <1> QED BY <1>2, <1>3, <1>5, OthersStayWell DEF TypeOK

\* A call that is forgotten has ended; whatever was suspended on it and went
\* on is no longer needed.
LEMMA EndsForgotten ==
    ASSUME TypeOK, LifeInv, NEW c \in Calls,
           state'[c] \in {"idle"} \cup Ended,
           Suspended("cleanup", c)' \/ Suspended("force_close", c)' => state'[c] \in Ended,
           \A d \in Calls \ {c} : /\ state'[d] = state[d]
                                  /\ \A u : Suspended(u, d)' <=> Suspended(u, d),
           registered' = registered \ {c}
    PROVE  LifeInv'
  <1>1. CallWell(c)'
    BY DEF CallWell
  <1> QED BY <1>1, OthersStayWell

\* Where a call that is not registered, or cannot be hung up, may stand.
LEMMA ForceCloseEnds ==
    ASSUME TypeOK, LifeInv, NEW c \in Calls, ForceClose(c),
           state[c] \in Ended \cup {"bridged"}
    PROVE  /\ state'[c] \in Ended
           /\ \A d \in Calls \ {c} : state'[d] = state[d]
           /\ registered' = registered \ {c}
  <1>1. CASE Close(c)
    BY <1>1 DEF Close, Enter, Forget, Ended, Terminal, TypeOK
  <1>2. CASE ~CanMove(c, "hangup") /\ Forget(c) /\ UNCHANGED <<state, overdue>>
    <2>1. CallWell(c)
      BY DEF LifeInv
    <2>2. state[c] # "bridged"
      BY <1>2, <2>1, BridgedHangsUp DEF CanMove, CallWell, Ended, Terminal
    <2> QED BY <1>2, <2>2 DEF Forget
  <1> QED BY <1>1, <1>2 DEF ForceClose

\* The states that have a transition, bar those into which a call is put and
\* removed in one go, are not final.
LEMMA MovesFromLife ==
    ASSUME LifeInv, NEW c \in Calls, NEW to, CanMove(c, to)
    PROVE  state[c] \notin Ended \cup {"idle"}
  <1>1. CallWell(c)
    BY DEF LifeInv
  <1> QED BY <1>1, LingeringIsFinal DEF CanMove, CallWell, Ended

\* A call that moves into a final state and is forgotten.
LEMMA MoveAndForget ==
    ASSUME TypeOK, LifeInv, NEW c \in Calls, NEW to \in Terminal,
           CanMove(c, to), Enter(c, to), Forget(c),
           \A u : \A d \in Calls : Suspended(u, d)' => Suspended(u, d),
           \A u : \A d \in Calls \ {c} : Suspended(u, d) => Suspended(u, d)'
    PROVE  LifeInv'
  <1>1. /\ state'[c] = to
        /\ \A d \in Calls \ {c} : state'[d] = state[d]
    BY DEF Enter, TypeOK
  <1>2. registered' = registered \ {c}
    BY DEF Forget
  <1> QED BY <1>1, <1>2, EndsForgotten DEF Ended

\* A call that moves into a final state and waits there for its cleanup.
LEMMA MoveAndLinger ==
    ASSUME TypeOK, LifeInv, NEW c \in Calls, NEW to \in Lingering,
           CanMove(c, to), Enter(c, to), registered' = registered,
           \A u : \A d \in Calls : Suspended(u, d)'
                                  <=> Suspended(u, d) \/ (u = "cleanup" /\ d = c)
    PROVE  LifeInv'
  <1>1. CallWell(c) /\ state[c] \notin Ended \cup {"idle"}
    BY MovesFromLife DEF LifeInv
  <1>2. /\ state'[c] = to
        /\ \A d \in Calls \ {c} : state'[d] = state[d]
    BY DEF Enter, TypeOK
  <1>3. CallWell(c)'
    BY <1>1, <1>2 DEF CallWell, CanMove, Lingering, Ended, Terminal
  <1> QED BY <1>2, <1>3, OthersStayWell

\* A handler suspends itself on a call it will try to hang up.
LEMMA WaitsToClose ==
    ASSUME TypeOK, LifeInv, NEW c \in Calls, NEW t \in {"close", "force_close"},
           t = "force_close" => state[c] = "bridged",
           UNCHANGED <<state, registered>>,
           \A u : \A d \in Calls : Suspended(u, d)' <=> Suspended(u, d) \/ (u = t /\ d = c)
    PROVE  LifeInv'
  <1>1. CallWell(c)'
    BY DEF LifeInv, CallWell
  <1> QED BY <1>1, OthersStayWell

\* A step that changes neither states nor what is suspended.
LEMMA NothingHappens ==
    ASSUME LifeInv, UNCHANGED <<state, registered>>,
           \A u : \A d \in Calls : Suspended(u, d)' <=> Suspended(u, d)
    PROVE  LifeInv'
  BY DEF LifeInv, CallWell

\* A handler goes on after its await: the call it was suspended on is live,
\* or has ended in the meantime.
LEMMA ContinueLife ==
    ASSUME TypeOK, LifeInv, NEW c \in Calls, NEW then,
           Suspended(then, c), Continue(then, c),
           \A u : \A d \in Calls :
               /\ Suspended(u, d)' => Suspended(u, d)
               /\ (d # c \/ u # then) => (Suspended(u, d) => Suspended(u, d)')
    PROVE  LifeInv'
  <1>0. CallWell(c)
    BY DEF LifeInv
  <1>1. CASE then = "force_close" /\ ForceClose(c)
    <2>1. state[c] \in Ended \cup {"bridged"}
      BY <1>0, <1>1 DEF CallWell
    <2> QED BY <1>1, <2>1, ForceCloseEnds, EndsForgotten
  <1>2. CASE Close(c)
    BY <1>2, MoveAndForget DEF Close, Terminal
  <1>3. CASE then = "close" /\ UNCHANGED <<state, registered>>
    <2>1. CallWell(c)'
      BY <1>0, <1>3 DEF CallWell
    <2> QED BY <1>3, <2>1, OthersStayWell
  <1>4. CASE then = "cleanup" /\ Forget(c) /\ UNCHANGED state
    BY <1>0, <1>4, EndsForgotten DEF CallWell, Forget
  <1> QED BY <1>1, <1>2, <1>3, <1>4 DEF Continue

LEMMA RequestLife ==
    ASSUME TypeOK, LifeInv, NEW c \in Calls, Request(c)
    PROVE  LifeInv'
  <1>0. CallWell(c)
    BY DEF LifeInv
  <1>1. ASSUME NEW m, NEW channels, CallIncoming(c, m, channels)
        PROVE  LifeInv'
    BY <1>0, <1>1, LivesOn DEF CallIncoming, Terminal, CallWell
  <1>2. ASSUME NEW m, CallOutgoing(c, m)
        PROVE  LifeInv'
    BY <1>0, <1>2, LivesOn DEF CallOutgoing, Terminal, CallWell
  <1>3. ASSUME NEW channels, CallOutgoingAccepted(c, channels)
        PROVE  LifeInv'
    BY <1>3, LivesOn DEF CallOutgoingAccepted, CanMove, Pending, Terminal
  <1>4. CASE CompleteIncomingAnswered(c)
    <2>1. CallWell(c)'
      BY <1>0, <1>4, SameSuspended
      DEF CompleteIncomingAnswered, CompletableCall, CallWell, Enter, Terminal, Ended, TypeOK
    <2> QED BY <1>4, <2>1, SameSuspended, OthersStayWell
            DEF CompleteIncomingAnswered, Enter, TypeOK
  <1>5. ASSUME NEW to, CompleteIncomingUnanswered(c, to)
        PROVE  LifeInv'
    BY <1>5, MoveAndForget, SameSuspended DEF CompleteIncomingUnanswered, Terminal
  <1>6. CASE CompleteOutgoingAnswered(c)
    <2>1. CallWell(c)'
      BY <1>0, <1>6, SameSuspended
      DEF CompleteOutgoingAnswered, CompletableCall, CallWell, Enter, Terminal, Ended, TypeOK
    <2> QED BY <1>6, <2>1, SameSuspended, OthersStayWell
            DEF CompleteOutgoingAnswered, Enter, TypeOK
  <1>7. ASSUME NEW to, CompleteOutgoingFailed(c, to)
        PROVE  LifeInv'
    BY <1>7, SuspendAdds, MoveAndLinger DEF CompleteOutgoingFailed, Lingering
  <1>8. CASE CompleteBridged(c)
    <2>1. CASE HangUpLegs(c, "force_close")
      BY <1>8, <2>1, SuspendAdds, WaitsToClose DEF CompleteBridged, HangUpLegs
    <2>2. CASE ForceClose(c) /\ UNCHANGED waiting
      <3>1. /\ state'[c] \in Ended
            /\ \A d \in Calls \ {c} : state'[d] = state[d]
            /\ registered' = registered \ {c}
        BY <1>8, <2>2, ForceCloseEnds DEF CompleteBridged
      <3>2. \A d, u : Suspended(u, d)' <=> Suspended(u, d)
        BY <1>8, <2>2, SameSuspended DEF CompleteBridged
      <3> QED BY <3>1, <3>2, EndsForgotten
    <2> QED BY <1>8, <2>1, <2>2 DEF CompleteBridged
  <1>9. CASE HangupCall(c)
    <2>1. CASE HangUpLegs(c, "close")
      BY <1>9, <2>1, SuspendAdds, WaitsToClose DEF HangupCall, HangUpLegs
    <2>2. CASE Close(c) /\ UNCHANGED waiting
      BY <1>9, <2>2, MoveAndForget, SameSuspended DEF HangupCall, Close, Terminal
    <2> QED BY <1>9, <2>1, <2>2 DEF HangupCall
  <1>10. CASE RejectCall(c)
    BY <1>10, MoveAndForget, SameSuspended DEF RejectCall, Terminal
  <1>11. ASSUME NEW to, StepCall(c, to)
         PROVE  LifeInv'
    <2>1. state[c] \notin Ended \cup {"idle"}
      BY <1>11, MovesFromLife DEF StepCall
    <2>2. state[c] # "bridged"
      BY <1>11, BridgedHangsUp DEF StepCall, CanMove
    <2> QED BY <1>11, <2>1, <2>2, LivesOn DEF StepCall, CanMove, Ended, Terminal
  <1>12. ASSUME NEW leg, SetLeg(c, leg)
         PROVE  LifeInv'
    BY <1>12, NothingHappens, SameSuspended DEF SetLeg
  <1> QED BY <1>1, <1>2, <1>3, <1>4, <1>5, <1>6, <1>7, <1>8, <1>9, <1>10,
             <1>11, <1>12 DEF Request

LEMMA SweepLife ==
    ASSUME TypeOK, LifeInv, NEW s \in Sweeps, SweepStep(s)
    PROVE  LifeInv'
  <1>1. CASE SweepStart(s)
    <2>1. \A u : \A d \in Calls : Suspended(u, d)' <=> Suspended(u, d)
      BY <1>1, CallAssumption DEF SweepStart, Suspended, IdleSweep, TypeOK
    <2> QED BY <1>1, <2>1, NothingHappens DEF SweepStart, callVars
  <1>2. CASE SweepResume(s)
    <2> DEFINE c == sweep[s].on
    <2>1. c \in Calls
      BY <1>2 DEF SweepResume, Busy, TypeOK
    <2>2. Suspended(sweep[s].then, c)
      BY DEF Suspended
    <2>3. \A u : \A d \in Calls :
               /\ Suspended(u, d)' => Suspended(u, d)
               /\ (d # c \/ u # sweep[s].then)
                      => (Suspended(u, d) => Suspended(u, d)')
      BY <1>2, SweepGoesOn DEF SweepResume
    <2> QED BY <1>2, <2>1, <2>2, <2>3, ContinueLife DEF SweepResume
  <1>3. ASSUME NEW c \in Calls, SweepRing(s, c)
        PROVE  LifeInv'
    <2>1. \A u : \A d \in Calls : Suspended(u, d)' <=> Suspended(u, d)
      BY <1>3, SweepGoesOn DEF SweepRing, Busy
    <2> QED BY <1>3, <2>1, MoveAndForget DEF SweepRing, Terminal
  <1>4. ASSUME NEW c \in Calls, SweepInvite(s, c)
        PROVE  LifeInv'
    <2>1. \A u : \A d \in Calls : Suspended(u, d)'
                                  <=> Suspended(u, d) \/ (u = "cleanup" /\ d = c)
      BY <1>4, SweepSuspends DEF SweepInvite
    <2> QED BY <1>4, <2>1, MoveAndLinger DEF SweepInvite, Lingering
  <1>5. ASSUME NEW c \in Calls, SweepBridged(s, c)
        PROVE  LifeInv'
    <2>1. CASE SuspendOn(s, c, "force_close") /\ UNCHANGED <<state, registered>>
      <3>1. \A u : \A d \in Calls : Suspended(u, d)'
                                    <=> Suspended(u, d) \/ (u = "force_close" /\ d = c)
        BY <1>5, <2>1, SweepSuspends DEF SweepBridged
      <3> QED BY <1>5, <2>1, <3>1, WaitsToClose DEF SweepBridged
    <2>2. CASE ForceClose(c) /\ Done(s, c)
      <3>1. /\ state'[c] \in Ended
            /\ \A d \in Calls \ {c} : state'[d] = state[d]
            /\ registered' = registered \ {c}
        BY <1>5, <2>2, ForceCloseEnds DEF SweepBridged
      <3>2. \A u : \A d \in Calls : Suspended(u, d)' <=> Suspended(u, d)
        BY <1>5, <2>2, SweepGoesOn DEF SweepBridged, Busy
      <3> QED BY <3>1, <3>2, EndsForgotten
    <2> QED BY <1>5, <2>1, <2>2 DEF SweepBridged
  <1>6. ASSUME NEW c \in Calls, SweepSkip(s, c)
        PROVE  LifeInv'
    <2>1. \A u : \A d \in Calls : Suspended(u, d)' <=> Suspended(u, d)
      BY <1>6, SweepGoesOn DEF SweepSkip, Busy
    <2> QED BY <1>6, <2>1, NothingHappens DEF SweepSkip, callVars
  <1> QED BY <1>1, <1>2, <1>3, <1>4, <1>5, <1>6 DEF SweepStep

LEMMA LifeInit == Init => LifeInv
  <1> SUFFICES ASSUME Init PROVE LifeInv
    OBVIOUS
  <1>1. \A u : \A c \in Calls : ~Suspended(u, c)
    BY CallAssumption DEF Init, Suspended, IdleSweep
  <1>2. \A c \in Calls : state[c] = "idle" /\ c \notin registered
    BY DEF Init
  <1> QED BY <1>1, <1>2 DEF LifeInv, CallWell

LEMMA LifeStep ==
    ASSUME TypeOK, LifeInv, [Next]_vars
    PROVE  LifeInv'
  <1>1. ASSUME NEW c \in Calls, Request(c) PROVE LifeInv'
    BY <1>1, RequestLife
  <1>2. ASSUME NEW c \in Calls, Age(c) PROVE LifeInv'
    BY <1>2, NothingHappens, SameSuspended DEF Age
  <1>3. ASSUME NEW w \in waiting, Resume(w) PROVE LifeInv'
    <2>1. w.call \in Calls /\ w = [then |-> w.then, call |-> w.call]
      BY DEF TypeOK
    <2>2. Suspended(w.then, w.call)
      BY <2>1 DEF Suspended
    <2> QED BY <1>3, <2>1, <2>2, ResumeRemoves, ContinueLife DEF Resume
  <1>4. ASSUME NEW s \in Sweeps, SweepStep(s) PROVE LifeInv'
    BY <1>4, SweepLife
  <1>5. ASSUME NEW m \in Modems, ModemReport(m) PROVE LifeInv'
    BY <1>5, NothingHappens, SameSuspended DEF ModemReport, callVars
  <1>6. CASE Restart
    <2>1. \A u : \A c \in Calls : ~Suspended(u, c)'
      BY <1>6, CallAssumption DEF Restart, Suspended, IdleSweep
    <2> QED BY <1>6, <2>1 DEF Restart, LifeInv, CallWell, Ended
  <1>7. CASE UNCHANGED vars
    BY <1>7, NothingHappens, SameSuspended DEF vars, callVars
  <1> QED BY <1>1, <1>2, <1>3, <1>4, <1>5, <1>6, <1>7 DEF Next

-----------------------------------------------------------------------------
(* The modems                                                              *)

\* No call begins.
NoneBegins == \A c \in Calls : state'[c] = "idle" <=> state[c] = "idle"

\* The step leaves the registry and the pool alone, or removes a call.
Keeps == UNCHANGED <<registered, reserved, dir, modem>>
Frees(c) == Forget(c) /\ UNCHANGED <<dir, modem>>

LEMMA MovingBeginsNone ==
    ASSUME TypeOK, LifeInv, NEW c \in Calls, NEW to, to # "idle",
           c \in registered, Enter(c, to)
    PROVE  NoneBegins
  BY DEF NoneBegins, Enter, TypeOK, LifeInv, CallWell

LEMMA ForceCloseFrees ==
    ASSUME TypeOK, LifeInv, NEW c \in Calls, ForceClose(c), UNCHANGED <<dir, modem>>
    PROVE  NoneBegins /\ Frees(c)
  <1>1. CASE Close(c)
    BY <1>1, MovingBeginsNone DEF Close, CanMove, Frees
  <1>2. CASE Forget(c) /\ UNCHANGED state
    BY <1>2 DEF NoneBegins, Frees
  <1> QED BY <1>1, <1>2 DEF ForceClose

LEMMA ContinueFrees ==
    ASSUME TypeOK, LifeInv, NEW c \in Calls, NEW then, Continue(then, c),
           UNCHANGED <<dir, modem>>
    PROVE  NoneBegins /\ (Keeps \/ Frees(c))
  <1>1. CASE ForceClose(c)
    BY <1>1, ForceCloseFrees
  <1>2. CASE Close(c)
    BY <1>2, ForceCloseFrees DEF ForceClose
  <1>3. CASE UNCHANGED <<state, registered, reserved>>
    BY <1>3 DEF NoneBegins, Keeps
  <1>4. CASE Forget(c) /\ UNCHANGED state
    BY <1>4 DEF NoneBegins, Frees
  <1> QED BY <1>1, <1>2, <1>3, <1>4 DEF Continue

\* What a request does to the registry and the pool, if it begins no call.
LEMMA RequestKinds ==
    ASSUME TypeOK, LifeInv, NEW c \in Calls, Request(c)
    PROVE  \/ \E channels : \E m \in Modems : CallIncoming(c, m, channels)
           \/ \E m \in Modems \cup {NoModem} : CallOutgoing(c, m)
           \/ NoneBegins /\ (Keeps \/ Frees(c))
  <1>1. ASSUME NEW channels, CallOutgoingAccepted(c, channels)
        PROVE  NoneBegins /\ Keeps
    BY <1>1, MovingBeginsNone DEF CallOutgoingAccepted, CanMove, Keeps
  <1>2. CASE CompleteIncomingAnswered(c)
    BY <1>2, MovingBeginsNone DEF CompleteIncomingAnswered, CompletableCall, Keeps
  <1>3. ASSUME NEW to, CompleteIncomingUnanswered(c, to)
        PROVE  NoneBegins /\ Frees(c)
    BY <1>3, MovingBeginsNone DEF CompleteIncomingUnanswered, CanMove, Frees
  <1>4. CASE CompleteOutgoingAnswered(c)
    BY <1>4, MovingBeginsNone DEF CompleteOutgoingAnswered, CompletableCall, Keeps
  <1>5. ASSUME NEW to, CompleteOutgoingFailed(c, to)
        PROVE  NoneBegins /\ Keeps
    BY <1>5, MovingBeginsNone DEF CompleteOutgoingFailed, CanMove, Keeps
  <1>6. CASE CompleteBridged(c)
    <2>1. CASE HangUpLegs(c, "force_close")
      BY <1>6, <2>1 DEF CompleteBridged, HangUpLegs, NoneBegins, Keeps
    <2>2. CASE ForceClose(c)
      BY <1>6, <2>2, ForceCloseFrees DEF CompleteBridged
    <2> QED BY <1>6, <2>1, <2>2 DEF CompleteBridged
  <1>7. CASE HangupCall(c)
    <2>1. CASE HangUpLegs(c, "close")
      BY <1>7, <2>1 DEF HangupCall, HangUpLegs, NoneBegins, Keeps
    <2>2. CASE Close(c)
      BY <1>7, <2>2, ForceCloseFrees DEF HangupCall, ForceClose
    <2> QED BY <1>7, <2>1, <2>2 DEF HangupCall
  <1>8. CASE RejectCall(c)
    BY <1>8, MovingBeginsNone DEF RejectCall, CanMove, Frees
  <1>9. ASSUME NEW to, StepCall(c, to)
        PROVE  NoneBegins /\ Keeps
    BY <1>9, MovingBeginsNone DEF StepCall, CanMove, Keeps
  <1>10. ASSUME NEW leg, SetLeg(c, leg)
         PROVE  NoneBegins /\ Keeps
    BY <1>10 DEF SetLeg, NoneBegins, Keeps
  <1> QED BY <1>1, <1>2, <1>3, <1>4, <1>5, <1>6, <1>7, <1>8, <1>9, <1>10 DEF Request

LEMMA SweepKinds ==
    ASSUME TypeOK, LifeInv, NEW s \in Sweeps, SweepStep(s)
    PROVE  NoneBegins /\ (Keeps \/ \E c \in Calls : Frees(c))
  <1>1. CASE SweepStart(s)
    BY <1>1 DEF SweepStart, callVars, NoneBegins, Keeps
  <1>2. CASE SweepResume(s)
    <2>1. sweep[s].on \in Calls
      BY <1>2 DEF SweepResume, Busy, TypeOK
    <2> QED BY <1>2, <2>1, ContinueFrees DEF SweepResume
  <1>3. ASSUME NEW c \in Calls, SweepRing(s, c)
        PROVE  NoneBegins /\ Frees(c)
    BY <1>3, MovingBeginsNone DEF SweepRing, CanMove, Frees
  <1>4. ASSUME NEW c \in Calls, SweepInvite(s, c)
        PROVE  NoneBegins /\ Keeps
    BY <1>4, MovingBeginsNone DEF SweepInvite, CanMove, Keeps
  <1>5. ASSUME NEW c \in Calls, SweepBridged(s, c)
        PROVE  NoneBegins /\ (Keeps \/ Frees(c))
    <2>1. CASE UNCHANGED <<state, registered, reserved>>
      BY <1>5, <2>1 DEF SweepBridged, NoneBegins, Keeps
    <2>2. CASE ForceClose(c)
      BY <1>5, <2>2, ForceCloseFrees DEF SweepBridged
    <2> QED BY <1>5, <2>1, <2>2 DEF SweepBridged
  <1>6. ASSUME NEW c \in Calls, SweepSkip(s, c)
        PROVE  NoneBegins /\ Keeps
    BY <1>6 DEF SweepSkip, callVars, NoneBegins, Keeps
  <1> QED BY <1>1, <1>2, <1>3, <1>4, <1>5, <1>6 DEF SweepStep

\* Every step begins a call, restarts the agent, removes at most one call, or
\* has nothing to do with the modems.
LEMMA StepKinds ==
    ASSUME TypeOK, LifeInv, [Next]_vars
    PROVE  \/ \E channels : \E c \in Calls, m \in Modems : CallIncoming(c, m, channels)
           \/ \E c \in Calls, m \in Modems \cup {NoModem} : CallOutgoing(c, m)
           \/ Restart
           \/ NoneBegins /\ (Keeps \/ \E c \in Calls : Frees(c))
  <1>1. ASSUME NEW c \in Calls, Age(c) PROVE NoneBegins /\ Keeps
    BY <1>1 DEF Age, NoneBegins, Keeps
  <1>2. ASSUME NEW w \in waiting, Resume(w)
        PROVE  NoneBegins /\ (Keeps \/ \E c \in Calls : Frees(c))
    <2>1. w.call \in Calls
      BY DEF TypeOK
    <2> QED BY <1>2, <2>1, ContinueFrees DEF Resume
  <1>3. ASSUME NEW m, ModemReport(m) PROVE NoneBegins /\ Keeps
    BY <1>3 DEF ModemReport, callVars, NoneBegins, Keeps
  <1>4. CASE UNCHANGED vars
    BY <1>4 DEF vars, callVars, NoneBegins, Keeps
  <1> QED BY <1>1, <1>2, <1>3, <1>4, RequestKinds, SweepKinds DEF Next

LEMMA ModemInit == Init => ModemHeldByOneCall
  BY DEF Init, ModemHeldByOneCall

\* An idle call is not in the registry.
LEMMA IdleNotRegistered ==
    ASSUME LifeInv, NEW c \in Calls, state[c] = "idle"
    PROVE  c \notin registered
  BY DEF LifeInv, CallWell

LEMMA ModemStep ==
    ASSUME TypeOK, LifeInv, ModemHeldByOneCall, [Next]_vars
    PROVE  ModemHeldByOneCall'
  <1>1. ASSUME NEW c \in Calls, NEW m \in Modems, NEW channels,
               CallIncoming(c, m, channels)
        PROVE  ModemHeldByOneCall'
    <2>1. c \notin registered
      BY <1>1, IdleNotRegistered DEF CallIncoming
    <2>2. \A d \in registered : HoldsModem(d)' = HoldsModem(d) /\ modem'[d] = modem[d]
      BY <1>1, <2>1 DEF CallIncoming, HoldsModem, TypeOK
    <2>3. ~HoldsModem(c)'
      BY <1>1 DEF CallIncoming, HoldsModem, TypeOK
    <2> QED BY <1>1, <2>1, <2>2, <2>3 DEF CallIncoming, ModemHeldByOneCall
  <1>2. ASSUME NEW c \in Calls, NEW m \in Modems \cup {NoModem}, CallOutgoing(c, m)
        PROVE  ModemHeldByOneCall'
    <2>1. c \notin registered
      BY <1>2, IdleNotRegistered DEF CallOutgoing
    <2>2. \A d \in registered : HoldsModem(d)' = HoldsModem(d) /\ modem'[d] = modem[d]
      BY <1>2, <2>1 DEF CallOutgoing, HoldsModem, TypeOK
    <2>3. modem'[c] = m /\ (HoldsModem(c)' <=> m # NoModem)
      BY <1>2 DEF CallOutgoing, HoldsModem, TypeOK
    <2>4. m # NoModem => m \notin reserved
      BY <1>2 DEF CallOutgoing, Available
    <2>5. /\ registered' = registered \cup {c}
          /\ reserved' = reserved \cup ({m} \ {NoModem})
      BY <1>2 DEF CallOutgoing
    <2> QED BY <2>1, <2>2, <2>3, <2>4, <2>5 DEF ModemHeldByOneCall
  <1>3. CASE Restart
    BY <1>3 DEF Restart, ModemHeldByOneCall
  <1>4. CASE Keeps
    BY <1>4 DEF Keeps, ModemHeldByOneCall, HoldsModem
  <1>5. ASSUME NEW c \in Calls, Frees(c)
        PROVE  ModemHeldByOneCall'
    <2>1. \A d : HoldsModem(d)' = HoldsModem(d) /\ modem'[d] = modem[d]
      BY <1>5 DEF Frees, HoldsModem
    <2>2. CASE c \in registered /\ HoldsModem(c)
      BY <1>5, <2>1, <2>2 DEF Frees, Forget, ModemHeldByOneCall
    <2>3. CASE ~(c \in registered /\ HoldsModem(c))
      BY <1>5, <2>1, <2>3 DEF Frees, Forget, ModemHeldByOneCall
    <2> QED BY <2>2, <2>3
  <1> QED BY <1>1, <1>2, <1>3, <1>4, <1>5, StepKinds

-----------------------------------------------------------------------------
(* The theorems                                                            *)

\* The inductive invariant holds in every reachable state: besides the types
\* and the reservations, each call is in one of the phases of its life
\* (CallWell), which ties its state to the registry, to the handlers suspended
\* on it and to what the userbot has been told.
THEOREM Inductive == Spec => []IInv
  <1>1. Init => IInv
    BY TypeInit, LifeInit, ModemInit DEF IInv
  <1>2. IInv /\ [Next]_vars => IInv'
    BY TypeStep, LifeStep, ModemStep DEF IInv
  <1> QED BY <1>1, <1>2, PTL DEF Spec

\* A reserved modem is always held by exactly one registered outgoing call,
\* and every such call holds the modem it was given: the reservation of
\* ModemPool is exclusive, and no interleaving of handlers, sweeps and
\* restarts loses it or gives it back twice.
THEOREM ModemExclusive == Spec => []ModemHeldByOneCall
  BY Inductive, PTL DEF IInv

\* No handler removes a call that has not ended.
THEOREM OnlyEndedForgotten == Spec => []OnlyEndedCallsForgotten
  <1>1. IInv => OnlyEndedCallsForgotten
    BY DEF IInv, LifeInv, CallWell, OnlyEndedCallsForgotten
  <1> QED BY <1>1, Inductive, PTL

\* No ended call is left in the registry without a handler or a sweep that is
\* going to remove it.
THEOREM EndedIsBeingRemoved == Spec => []EndedCallIsBeingRemoved
  <1>1. IInv => EndedCallIsBeingRemoved
    BY DEF IInv, TypeOK, LifeInv, CallWell, Suspended, EndedCallIsBeingRemoved
  <1> QED BY <1>1, Inductive, PTL

-----------------------------------------------------------------------------
(* An ended call never moves                                               *)

\* The calls that had ended stand where they stood.
Settled == \A d \in Calls : state[d] \in Ended => state'[d] = state[d]

LEMMA EnteringSettled ==
    ASSUME TypeOK, NEW c \in Calls, NEW to, Enter(c, to), state[c] \notin Ended
    PROVE  Settled
  BY DEF Settled, Enter, TypeOK

LEMMA MovingSettled ==
    ASSUME TypeOK, LifeInv, NEW c \in Calls, NEW to, CanMove(c, to), Enter(c, to)
    PROVE  Settled
  BY MovesFromLife, EnteringSettled

LEMMA CompletingSettled ==
    ASSUME TypeOK, LifeInv, NEW c \in Calls, NEW to, CompletableCall(c), Enter(c, to)
    PROVE  Settled
  BY EnteringSettled DEF CompletableCall, LifeInv, CallWell, Ended

LEMMA ClosingSettled ==
    ASSUME TypeOK, LifeInv, NEW c \in Calls, ForceClose(c)
    PROVE  Settled
  BY MovingSettled DEF ForceClose, Close, Settled

LEMMA ContinuingSettled ==
    ASSUME TypeOK, LifeInv, NEW c \in Calls, NEW then, Continue(then, c)
    PROVE  Settled
  BY ClosingSettled DEF Continue, ForceClose, Settled

LEMMA RequestSettled ==
    ASSUME TypeOK, LifeInv, NEW c \in Calls, Request(c)
    PROVE  Settled
  <1>1. ASSUME NEW m, NEW channels, CallIncoming(c, m, channels) PROVE Settled
    BY <1>1, EnteringSettled DEF CallIncoming, Ended, Terminal
  <1>2. ASSUME NEW m, CallOutgoing(c, m) PROVE Settled
    BY <1>2, EnteringSettled DEF CallOutgoing, Ended, Terminal
  <1>3. ASSUME NEW channels, CallOutgoingAccepted(c, channels) PROVE Settled
    <2>1. state[c] \notin Ended
      BY <1>3, MovesFromLife DEF CallOutgoingAccepted
    <2> QED BY <1>3, <2>1, EnteringSettled DEF CallOutgoingAccepted
  <1>4. CASE CompleteIncomingAnswered(c)
    BY <1>4, CompletingSettled DEF CompleteIncomingAnswered
  <1>5. ASSUME NEW to, CompleteIncomingUnanswered(c, to) PROVE Settled
    BY <1>5, CompletingSettled DEF CompleteIncomingUnanswered
  <1>6. CASE CompleteOutgoingAnswered(c)
    BY <1>6, CompletingSettled DEF CompleteOutgoingAnswered
  <1>7. ASSUME NEW to, CompleteOutgoingFailed(c, to) PROVE Settled
    BY <1>7, CompletingSettled DEF CompleteOutgoingFailed
  <1>8. CASE CompleteBridged(c)
    BY <1>8, ClosingSettled DEF CompleteBridged, HangUpLegs, Settled
  <1>9. CASE HangupCall(c)
    BY <1>9, ClosingSettled DEF HangupCall, HangUpLegs, ForceClose, Settled
  <1>10. CASE RejectCall(c)
    BY <1>10, MovingSettled DEF RejectCall
  <1>11. ASSUME NEW to, StepCall(c, to) PROVE Settled
    BY <1>11, MovingSettled DEF StepCall
  <1>12. ASSUME NEW leg, SetLeg(c, leg) PROVE Settled
    BY <1>12 DEF SetLeg, Settled
  <1> QED BY <1>1, <1>2, <1>3, <1>4, <1>5, <1>6, <1>7, <1>8, <1>9, <1>10,
             <1>11, <1>12 DEF Request

LEMMA SweepSettled ==
    ASSUME TypeOK, LifeInv, NEW s \in Sweeps, SweepStep(s)
    PROVE  Settled
  <1>1. CASE SweepStart(s)
    BY <1>1 DEF SweepStart, callVars, Settled
  <1>2. CASE SweepResume(s)
    <2>1. sweep[s].on \in Calls
      BY <1>2 DEF SweepResume, Busy, TypeOK
    <2> QED BY <1>2, <2>1, ContinuingSettled DEF SweepResume
  <1>3. ASSUME NEW c \in Calls, SweepRing(s, c) PROVE Settled
    BY <1>3, MovingSettled DEF SweepRing
  <1>4. ASSUME NEW c \in Calls, SweepInvite(s, c) PROVE Settled
    BY <1>4, MovingSettled DEF SweepInvite
  <1>5. ASSUME NEW c \in Calls, SweepBridged(s, c) PROVE Settled
    BY <1>5, ClosingSettled DEF SweepBridged, Settled
  <1>6. ASSUME NEW c \in Calls, SweepSkip(s, c) PROVE Settled
    BY <1>6 DEF SweepSkip, callVars, Settled
  <1> QED BY <1>1, <1>2, <1>3, <1>4, <1>5, <1>6 DEF SweepStep

LEMMA SettledStep ==
    ASSUME TypeOK, LifeInv, [Next]_vars
    PROVE  \A c \in Calls : state[c] \in Ended => state'[c] \in {state[c], "lost"}
  <1>1. ASSUME NEW c \in Calls, Age(c) PROVE Settled
    BY <1>1 DEF Age, Settled
  <1>2. ASSUME NEW w \in waiting, Resume(w) PROVE Settled
    <2>1. w.call \in Calls
      BY DEF TypeOK
    <2> QED BY <1>2, <2>1, ContinuingSettled DEF Resume
  <1>3. ASSUME NEW m, ModemReport(m) PROVE Settled
    BY <1>3 DEF ModemReport, callVars, Settled
  <1>4. CASE Restart
    BY <1>4 DEF Restart
  <1>5. CASE UNCHANGED vars
    BY <1>5 DEF vars, callVars, Settled
  <1> QED BY <1>1, <1>2, <1>3, <1>4, <1>5, RequestSettled, SweepSettled
          DEF Next, Settled

\* Whatever handler wakes up late, and however often a report is repeated, a
\* call that has ended is not revived and its outcome is not rewritten.
THEOREM EndedStaysEnded == Spec => EndedCallStaysEnded
  <1>1. IInv /\ [Next]_vars
            => [\A c \in Calls : state[c] \in Ended
                                     => state'[c] \in {state[c], "lost"}]_vars
    BY SettledStep DEF IInv
  <1> QED BY <1>1, Inductive, PTL DEF Spec, EndedCallStaysEnded

-----------------------------------------------------------------------------
(* What the user is told                                                   *)

\* A bridged call stays bridged or is hung up.
BridgedEnds == \A d \in Calls : state[d] = "bridged" => state'[d] \in {"bridged", "hangup"}

LEMMA EnteringBridgedEnds ==
    ASSUME TypeOK, NEW c \in Calls, NEW to, Enter(c, to), state[c] # "bridged"
    PROVE  BridgedEnds
  BY DEF BridgedEnds, Enter, TypeOK

LEMMA MovingBridgedEnds ==
    ASSUME TypeOK, NEW c \in Calls, NEW to, CanMove(c, to), Enter(c, to)
    PROVE  BridgedEnds
  BY BridgedHangsUp DEF BridgedEnds, CanMove, Enter, TypeOK

LEMMA ClosingBridgedEnds ==
    ASSUME TypeOK, NEW c \in Calls, ForceClose(c)
    PROVE  BridgedEnds
  BY MovingBridgedEnds DEF ForceClose, Close, BridgedEnds

LEMMA ContinuingBridgedEnds ==
    ASSUME TypeOK, NEW c \in Calls, NEW then, Continue(then, c)
    PROVE  BridgedEnds
  BY ClosingBridgedEnds DEF Continue, ForceClose, BridgedEnds

\* A step that tells the user nothing keeps what he was told true.
LEMMA TellingNothing ==
    ASSUME ToldOnceAndTruly, told' = told, Settled, BridgedEnds
    PROVE  ToldOnceAndTruly'
  <1> SUFFICES ASSUME NEW c \in Calls
               PROVE  \/ told[c] = <<>>
                      \/ told[c] = <<"answered">> /\ state'[c] \in {"bridged", "hangup", "lost"}
                      \/ told[c] = <<"busy">>     /\ state'[c] \in {"gsm_busy", "lost"}
                      \/ told[c] = <<"failed">>   /\ state'[c] \in {"gsm_error", "lost"}
                      \/ told[c] = <<"no_answer">>
                         /\ state'[c] \in {"gsm_no_answer", "telegram_timeout", "lost"}
    BY DEF ToldOnceAndTruly
  <1>1. state[c] \in Ended => state'[c] = state[c]
    BY DEF Settled
  <1>2. state[c] = "bridged" => state'[c] \in {"bridged", "hangup"}
    BY DEF BridgedEnds
  <1> QED BY <1>1, <1>2 DEF ToldOnceAndTruly, Ended, Terminal

\* A call the user was told of is bridged or has ended.
LEMMA NotToldYet ==
    ASSUME ToldOnceAndTruly, NEW c \in Calls, state[c] \notin Ended \cup {"bridged"}
    PROVE  told[c] = <<>>
  BY DEF ToldOnceAndTruly, Ended, Terminal

\* The step that tells the user of a call has not told him before.
LEMMA TellingOnce ==
    ASSUME TypeOK, ToldOnceAndTruly, NEW c \in Calls, NEW to, NEW note, Enter(c, to),
           told' = [told EXCEPT ![c] = Append(@, note)],
           state[c] \notin Ended \cup {"bridged"},
           \/ note = "answered" /\ to = "bridged"
           \/ note = "busy" /\ to = "gsm_busy"
           \/ note = "failed" /\ to = "gsm_error"
           \/ note = "no_answer" /\ to \in {"gsm_no_answer", "telegram_timeout"}
    PROVE  ToldOnceAndTruly'
  <1>1. told[c] = <<>>
    BY NotToldYet
  <1>2. told'[c] = <<note>>
    BY <1>1 DEF TypeOK
  <1>3. state'[c] = to /\ \A d \in Calls \ {c} : state'[d] = state[d] /\ told'[d] = told[d]
    BY DEF Enter, TypeOK
  <1> QED BY <1>2, <1>3 DEF ToldOnceAndTruly

LEMMA RequestTold ==
    ASSUME TypeOK, LifeInv, ToldOnceAndTruly, NEW c \in Calls, Request(c)
    PROVE  ToldOnceAndTruly'
  <1>0. Settled
    BY RequestSettled
  <1>1. ASSUME NEW m, NEW channels, CallIncoming(c, m, channels) PROVE ToldOnceAndTruly'
    BY <1>0, <1>1, EnteringBridgedEnds, TellingNothing DEF CallIncoming
  <1>2. ASSUME NEW m, CallOutgoing(c, m) PROVE ToldOnceAndTruly'
    BY <1>0, <1>2, EnteringBridgedEnds, TellingNothing DEF CallOutgoing
  <1>3. ASSUME NEW channels, CallOutgoingAccepted(c, channels) PROVE ToldOnceAndTruly'
    <2>1. state[c] # "bridged"
      BY <1>3 DEF CallOutgoingAccepted, Pending
    <2> QED BY <1>0, <1>3, <2>1, EnteringBridgedEnds, TellingNothing
            DEF CallOutgoingAccepted
  <1>4. CASE CompleteIncomingAnswered(c)
    BY <1>0, <1>4, EnteringBridgedEnds, TellingNothing DEF CompleteIncomingAnswered
  <1>5. ASSUME NEW to, CompleteIncomingUnanswered(c, to) PROVE ToldOnceAndTruly'
    BY <1>0, <1>5, MovingBridgedEnds, TellingNothing DEF CompleteIncomingUnanswered
  <1>6. CASE CompleteOutgoingAnswered(c)
    <2>1. state[c] \notin Ended \cup {"bridged"}
      BY <1>6, MovesFromLife, BridgedHangsUp DEF CompleteOutgoingAnswered, CanMove
    <2> QED BY <1>6, <2>1, TellingOnce DEF CompleteOutgoingAnswered
  <1>7. ASSUME NEW to \in {"gsm_no_answer", "gsm_busy", "gsm_error"},
               CompleteOutgoingFailed(c, to)
        PROVE  ToldOnceAndTruly'
    <2>1. state[c] \notin Ended \cup {"bridged"}
      BY <1>7, MovesFromLife, BridgedHangsUp DEF CompleteOutgoingFailed, CanMove
    <2>2. /\ Enter(c, to)
          /\ told' = [told EXCEPT ![c] = Append(@, NoticeOf(to))]
      BY <1>7 DEF CompleteOutgoingFailed
    <2>3. \/ NoticeOf(to) = "busy" /\ to = "gsm_busy"
          \/ NoticeOf(to) = "failed" /\ to = "gsm_error"
          \/ NoticeOf(to) = "no_answer" /\ to = "gsm_no_answer"
      BY DEF NoticeOf
    <2> QED BY <2>1, <2>2, <2>3, TellingOnce
  <1>8. CASE CompleteBridged(c)
    <2>1. BridgedEnds
      BY <1>8, ClosingBridgedEnds DEF CompleteBridged, HangUpLegs, BridgedEnds
    <2> QED BY <1>0, <1>8, <2>1, TellingNothing DEF CompleteBridged
  <1>9. CASE HangupCall(c)
    <2>1. BridgedEnds
      BY <1>9, ClosingBridgedEnds DEF HangupCall, HangUpLegs, ForceClose, BridgedEnds
    <2> QED BY <1>0, <1>9, <2>1, TellingNothing DEF HangupCall
  <1>10. CASE RejectCall(c)
    BY <1>0, <1>10, MovingBridgedEnds, TellingNothing DEF RejectCall
  <1>11. ASSUME NEW to, StepCall(c, to) PROVE ToldOnceAndTruly'
    BY <1>0, <1>11, MovingBridgedEnds, TellingNothing DEF StepCall
  <1>12. ASSUME NEW leg, SetLeg(c, leg) PROVE ToldOnceAndTruly'
    BY <1>0, <1>12, TellingNothing DEF SetLeg, BridgedEnds
  <1> QED BY <1>1, <1>2, <1>3, <1>4, <1>5, <1>6, <1>7, <1>8, <1>9, <1>10,
             <1>11, <1>12 DEF Request

LEMMA SweepTold ==
    ASSUME TypeOK, LifeInv, ToldOnceAndTruly, NEW s \in Sweeps, SweepStep(s)
    PROVE  ToldOnceAndTruly'
  <1>0. Settled
    BY SweepSettled
  <1>1. CASE SweepStart(s)
    BY <1>0, <1>1, TellingNothing DEF SweepStart, callVars, BridgedEnds
  <1>2. CASE SweepResume(s)
    <2>1. sweep[s].on \in Calls
      BY <1>2 DEF SweepResume, Busy, TypeOK
    <2> QED BY <1>0, <1>2, <2>1, ContinuingBridgedEnds, TellingNothing DEF SweepResume
  <1>3. ASSUME NEW c \in Calls, SweepRing(s, c) PROVE ToldOnceAndTruly'
    BY <1>0, <1>3, MovingBridgedEnds, TellingNothing DEF SweepRing
  <1>4. ASSUME NEW c \in Calls, SweepInvite(s, c) PROVE ToldOnceAndTruly'
    <2>1. state[c] \notin Ended \cup {"bridged"}
      BY <1>4 DEF SweepInvite, InviteStates, Ended, Terminal
    <2> QED BY <1>4, <2>1, TellingOnce DEF SweepInvite
  <1>5. ASSUME NEW c \in Calls, SweepBridged(s, c) PROVE ToldOnceAndTruly'
    <2>1. BridgedEnds
      BY <1>5, ClosingBridgedEnds DEF SweepBridged, BridgedEnds
    <2> QED BY <1>0, <1>5, <2>1, TellingNothing DEF SweepBridged
  <1>6. ASSUME NEW c \in Calls, SweepSkip(s, c) PROVE ToldOnceAndTruly'
    BY <1>0, <1>6, TellingNothing DEF SweepSkip, callVars, BridgedEnds
  <1> QED BY <1>1, <1>2, <1>3, <1>4, <1>5, <1>6 DEF SweepStep

LEMMA ToldStep ==
    ASSUME TypeOK, LifeInv, ToldOnceAndTruly, [Next]_vars
    PROVE  ToldOnceAndTruly'
  <1>1. ASSUME NEW c \in Calls, Age(c) PROVE ToldOnceAndTruly'
    BY <1>1 DEF Age, ToldOnceAndTruly
  <1>2. ASSUME NEW w \in waiting, Resume(w) PROVE ToldOnceAndTruly'
    <2>1. w.call \in Calls
      BY DEF TypeOK
    <2> QED BY <1>2, <2>1, ContinuingSettled, ContinuingBridgedEnds, TellingNothing
            DEF Resume
  <1>3. ASSUME NEW m, ModemReport(m) PROVE ToldOnceAndTruly'
    BY <1>3 DEF ModemReport, callVars, ToldOnceAndTruly
  <1>4. CASE Restart
    BY <1>4 DEF Restart, ToldOnceAndTruly
  <1>5. CASE UNCHANGED vars
    BY <1>5 DEF vars, callVars, ToldOnceAndTruly
  <1> QED BY <1>1, <1>2, <1>3, <1>4, <1>5, RequestTold, SweepTold DEF Next

\* However completion reports, their duplicates, hangups and the timeout sweep
\* race, the user is told of a call at most once and what became of it.
THEOREM ToldOnce == Spec => []ToldOnceAndTruly
  <1>1. Init => ToldOnceAndTruly
    BY DEF Init, ToldOnceAndTruly
  <1>2. ToldOnceAndTruly /\ IInv /\ [Next]_vars => ToldOnceAndTruly'
    BY ToldStep DEF IInv
  <1> QED BY <1>1, <1>2, Inductive, PTL DEF Spec

-----------------------------------------------------------------------------
(* The registry implements the lease of a modem                            *)

LEMMA LeaseInitially == Init => Lease!LeaseInit
  BY DEF Init, Lease!LeaseInit, Holders

Begun == {c \in Calls : state[c] # "idle"}

\* A step that touches neither the registry nor the pool is a stutter.
LEMMA KeepsHolders ==
    ASSUME Keeps, NoneBegins
    PROVE  UNCHANGED <<Holders, Begun>>
  BY DEF Keeps, NoneBegins, Holders, HoldsModem, Begun

LEMMA FreesImplements ==
    ASSUME TypeOK, ModemHeldByOneCall, NEW c \in Calls, Frees(c), NoneBegins
    PROVE  [Lease!LeaseNext]_<<Holders, Begun>>
  <1>0. Begun' = Begun
    BY DEF NoneBegins, Begun
  <1>1. \A d : HoldsModem(d)' = HoldsModem(d) /\ modem'[d] = modem[d]
    BY DEF Frees, HoldsModem
  <1>2. CASE c \in registered /\ HoldsModem(c)
    <2> DEFINE m == modem[c]
    <2>1. m \in Modems /\ m \in reserved
      BY <1>2 DEF TypeOK, HoldsModem, ModemHeldByOneCall
    <2>2. c \in Holders[m]
      BY <1>2, <2>1 DEF Holders
    <2>3. Holders' = [Holders EXCEPT ![m] = {}]
      <3>1. registered' = registered \ {c} /\ reserved' = reserved \ {m}
        BY <1>2 DEF Frees, Forget
      <3>2. ASSUME NEW n \in Modems, n # m PROVE Holders'[n] = Holders[n]
        BY <1>1, <3>1, <3>2 DEF Holders
      <3>3. Holders'[m] = {}
        BY <2>1, <3>1 DEF Holders
      <3> QED BY <3>2, <3>3 DEF Holders
    <2>4. Lease!Release(m)
      BY <1>0, <2>2, <2>3 DEF Lease!Release, Begun
    <2> QED BY <2>1, <2>4 DEF Lease!LeaseNext
  <1>3. CASE ~(c \in registered /\ HoldsModem(c))
    <2>1. Holders' = Holders
      BY <1>1, <1>3 DEF Holders, Frees, Forget
    <2> QED BY <1>0, <2>1
  <1> QED BY <1>2, <1>3

LEMMA IncomingAbstains ==
    ASSUME TypeOK, LifeInv, NEW c \in Calls, NEW m \in Modems, NEW channels,
           CallIncoming(c, m, channels)
    PROVE  Lease!Abstain(c)
  <1>1. c \notin registered
    BY IdleNotRegistered DEF CallIncoming
  <1>2. \A d \in registered : HoldsModem(d)' = HoldsModem(d) /\ modem'[d] = modem[d]
    BY <1>1 DEF CallIncoming, HoldsModem, TypeOK
  <1>3. ~HoldsModem(c)'
    BY DEF CallIncoming, HoldsModem, TypeOK
  <1>4. registered' = registered \cup {c} /\ reserved' = reserved
    BY DEF CallIncoming
  <1>5. Holders' = Holders
    BY <1>2, <1>3, <1>4 DEF Holders
  <1>6. c \notin Begun /\ Begun' = Begun \cup {c}
    BY DEF Begun, CallIncoming, Enter, TypeOK
  <1> QED BY <1>5, <1>6 DEF Lease!Abstain, Begun

LEMMA OutgoingAcquires ==
    ASSUME TypeOK, LifeInv, ModemHeldByOneCall, NEW c \in Calls,
           NEW m \in Modems \cup {NoModem}, CallOutgoing(c, m)
    PROVE  IF m = NoModem THEN Lease!Abstain(c) ELSE Lease!Acquire(c, m)
  <1>1. c \notin registered
    BY IdleNotRegistered DEF CallOutgoing
  <1>2. \A d \in registered : HoldsModem(d)' = HoldsModem(d) /\ modem'[d] = modem[d]
    BY <1>1 DEF CallOutgoing, HoldsModem, TypeOK
  <1>3. modem'[c] = m /\ (HoldsModem(c)' <=> m # NoModem)
    BY DEF CallOutgoing, HoldsModem, TypeOK
  <1>4. /\ registered' = registered \cup {c}
        /\ reserved' = reserved \cup ({m} \ {NoModem})
    BY DEF CallOutgoing
  <1>5. c \notin Begun /\ Begun' = Begun \cup {c}
    BY DEF Begun, CallOutgoing, Enter, TypeOK
  <1>6. ASSUME NEW n \in Modems, n # m PROVE Holders'[n] = Holders[n]
    BY <1>2, <1>3, <1>4, <1>6 DEF Holders
  <1>7. CASE m = NoModem
    <2>1. Holders' = Holders
      BY <1>6, <1>7, ModemAssumption DEF Holders
    <2> QED BY <1>5, <1>7, <2>1 DEF Lease!Abstain, Begun
  <1>8. CASE m # NoModem
    <2>1. m \in Modems /\ m \notin reserved
      BY <1>8 DEF CallOutgoing, Available
    <2>2. Holders[m] = {}
      BY <2>1 DEF Holders
    <2>3. \A d \in registered : HoldsModem(d)' => modem'[d] # m
      BY <1>2, <1>8, <2>1 DEF ModemHeldByOneCall
    <2>4. Holders'[m] = {c}
      BY <1>3, <1>4, <1>8, <2>1, <2>3 DEF Holders
    <2>5. Holders' = [Holders EXCEPT ![m] = {c}]
      BY <1>6, <2>4 DEF Holders
    <2> QED BY <1>5, <1>8, <2>2, <2>5 DEF Lease!Acquire, Begun
  <1> QED BY <1>7, <1>8

LEMMA RestartLosesAll ==
    ASSUME TypeOK, LifeInv, Restart
    PROVE  Lease!LoseAll
  <1>1. Holders' = [m \in Modems |-> {}]
    BY DEF Restart, Holders
  <1>2. NoneBegins
    BY DEF Restart, NoneBegins, LifeInv, CallWell
  <1>3. Begun' = Begun
    BY <1>2 DEF NoneBegins, Begun
  <1> QED BY <1>1, <1>3 DEF Lease!LoseAll, Begun

LEMMA LeaseStep ==
    ASSUME IInv, [Next]_vars
    PROVE  [Lease!LeaseNext]_<<Holders, Begun>>
  <1>1. TypeOK /\ LifeInv /\ ModemHeldByOneCall
    BY DEF IInv
  <1>2. ASSUME NEW c \in Calls, NEW m \in Modems, NEW channels,
               CallIncoming(c, m, channels)
        PROVE  Lease!LeaseNext
    BY <1>1, <1>2, IncomingAbstains DEF Lease!LeaseNext
  <1>3. ASSUME NEW c \in Calls, NEW m \in Modems \cup {NoModem}, CallOutgoing(c, m)
        PROVE  Lease!LeaseNext
    BY <1>1, <1>3, OutgoingAcquires DEF Lease!LeaseNext
  <1>4. CASE Restart
    BY <1>1, <1>4, RestartLosesAll DEF Lease!LeaseNext
  <1>5. CASE NoneBegins /\ Keeps
    BY <1>5, KeepsHolders
  <1>6. ASSUME NEW c \in Calls, Frees(c), NoneBegins
        PROVE  [Lease!LeaseNext]_<<Holders, Begun>>
    BY <1>1, <1>6, FreesImplements
  <1> QED BY <1>1, <1>2, <1>3, <1>4, <1>5, <1>6, StepKinds

\* The registry, its handlers, the sweep and a restart implement ModemLease:
\* every step leases a free modem to a new call, gives one back, loses all in
\* a restart, or leaves the leases alone.
THEOREM LeaseImplemented == Spec => ImplementsLease
  <1>1. Init => Lease!LeaseInit
    BY LeaseInitially
  <1>2. IInv /\ [Next]_vars => [Lease!LeaseNext]_(Lease!leaseVars)
    BY LeaseStep DEF Lease!leaseVars, Begun
  <1> QED BY <1>1, <1>2, Inductive, PTL
          DEF Spec, ImplementsLease, Lease!LeaseSpec
=============================================================================
