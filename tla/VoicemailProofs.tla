--------------------------- MODULE VoicemailProofs ---------------------------
(***************************************************************************)
(* Proofs about the voicemail.  Two facts are proved for any number of     *)
(* recordings and users: a speech that reached nobody is accounted for,    *)
(* and a voice note comes twice only after a forward was cut off or        *)
(* doubled.  Both are about a script, a sweeper and their handlers in the  *)
(* userbot, each of which may outlive the other; the invariant says what   *)
(* each still owes to a recording.                                         *)
(***************************************************************************)
EXTENDS Voicemail, TLAPS

USE SweeperAssumption

-----------------------------------------------------------------------------
(* The inductive invariant                                                  *)

Forwarding(f) == forward[f] # NoForward
Handling(p) == handler[p] # NoHandler
Over(r) == recording[r] \notin {"none", "live"}

\* A script is on its own recording.
ScriptsOwn == \A r \in Recordings : Forwarding(r) => forward[r].rec = r

\* Nothing happens to a recording before its caller has hung up.
NothingBefore ==
    /\ \A f \in Forwarders : Forwarding(f) => Over(forward[f].rec)
    /\ \A p \in Posts : Handling(p) => Over(handler[p].rec)
    /\ \A r \in listed : Over(r)
    /\ \A r \in Recordings : ~Over(r) =>
           age[r] = "new" /\ \A u \in Audience : got[r][u] = "nothing"

\* A forwarder waits for the handler of its own post, and alone.
WaitsForOwn ==
    \A f \in Forwarders, p \in Posts : Awaits(f, p) =>
        /\ Handling(p) /\ handler[p].rec = forward[f].rec
        /\ \A g \in Forwarders : Awaits(g, p) => g = f

\* No speech is lost with a recording of which only a text is sent.
TextIsDue(r) == speech[r] => r \in excused \/ recording[r] \in {"missing", "deleted"}

TextsDue ==
    /\ \A f \in Forwarders : AtStep(f, "text") => TextIsDue(forward[f].rec)
    /\ \A p \in Posts :
           Handling(p) /\ handler[p].audio = "none" => TextIsDue(handler[p].rec)

\* A handler is through with a user only when it has tried to send to him.
SentIsTried ==
    \A p \in Posts, u \in Audience :
        Handling(p) /\ handler[p].audio # "none" /\ u \notin handler[p].to
            => got[handler[p].rec][u] # "nothing"

\* Two forwarders on one recording repeat it, and so does a handler that
\* nobody waits for.
OneForwarder ==
    \A f, g \in Forwarders :
        f # g /\ Forwarding(f) /\ Forwarding(g) /\ forward[f].rec = forward[g].rec
            => forward[f].rec \in repeated

HandlersAwaited ==
    \A p \in Posts :
        Handling(p) /\ (\A f \in Forwarders : ~Awaits(f, p)) => handler[p].rec \in repeated

\* Who has his note gets no other: the forwarder on the recording, if there is
\* one, waits for a handler that is through with him, and without one the
\* recording has gone.
Noted(r, u) == got[r][u] \in {"note", "two_notes"}

NotedOnce ==
    \A r \in Recordings, u \in Audience : r \notin repeated /\ Noted(r, u) =>
        /\ \A f \in Forwarders : Forwarding(f) /\ forward[f].rec = r =>
               \E p \in Posts : Awaits(f, p) /\ u \notin handler[p].to
        /\ OnDisk(r) => \E f \in Forwarders : AtStep(f, "wait") /\ forward[f].rec = r

VmInv ==
    /\ VmTypeOK
    /\ ScriptsOwn /\ NothingBefore /\ WaitsForOwn
    /\ TextsDue /\ SentIsTried /\ VmSpeechAccounted
    /\ OneForwarder /\ HandlersAwaited /\ NotedOnce /\ VmTwiceOnlyAfterCut

-----------------------------------------------------------------------------
(* What a step does to a forward and to a handler                           *)

\* Of a forward that is on its way: its recording.
LEMMA ForwardType ==
    ASSUME VmTypeOK, NEW f \in Forwarders, Forwarding(f)
    PROVE  /\ forward[f] \in ForwardSteps \cup ForwardWaits
           /\ forward[f].rec \in Recordings
           /\ AtStep(f, "wait") => Awaits(f, forward[f].post) /\ forward[f].post \in Posts
  BY DEF VmTypeOK, Forwarding, ForwardSteps, ForwardWaits, AtStep, Awaits

LEMMA HandlerType ==
    ASSUME VmTypeOK, NEW p \in Posts, Handling(p)
    PROVE  /\ handler[p] \in [to : SUBSET Audience, rec : Recordings,
                              audio : {"none", "partial", "whole"}]
           /\ handler[p].rec \in Recordings
  BY DEF VmTypeOK, Handling

\* A forward goes to its next step before its post, on the recording it was on.
LEMMA Stepping ==
    ASSUME VmTypeOK, NEW f \in Forwarders, NEW step, Forwarding(f), ~AtStep(f, "wait"),
           StepTo(f, step),
           step \in {"probe", "encode", "encoding", "read", "read_raw", "text"}
    PROVE  /\ forward' \in [Forwarders -> {NoForward} \cup ForwardSteps \cup ForwardWaits]
           /\ Forwarding(f)' /\ forward'[f].at = step /\ forward'[f].rec = forward[f].rec
           /\ \A g \in Forwarders : g # f => forward'[g] = forward[g]
  <1>1. forward[f] \in ForwardSteps
    BY ForwardType DEF ForwardWaits, AtStep, Forwarding
  <1>2. forward' = [forward EXCEPT ![f] = [forward[f] EXCEPT !.at = step]]
    BY DEF StepTo
  <1>3. [forward[f] EXCEPT !.at = step] = [at |-> step, rec |-> forward[f].rec]
    BY <1>1 DEF ForwardSteps
  <1>4. /\ [at |-> step, rec |-> forward[f].rec] \in ForwardSteps
        /\ [at |-> step, rec |-> forward[f].rec] # NoForward
    BY <1>1 DEF ForwardSteps, NoForward
  <1>5. forward'[f] = [at |-> step, rec |-> forward[f].rec]
    BY <1>2, <1>3 DEF VmTypeOK
  <1> QED BY <1>2, <1>3, <1>4, <1>5 DEF VmTypeOK, Forwarding

\* A forward begins on a recording.
LEMMA Beginning ==
    ASSUME VmTypeOK, NEW f \in Forwarders, NEW r \in Recordings,
           forward' = [forward EXCEPT ![f] = [at |-> "probe", rec |-> r]]
    PROVE  /\ forward' \in [Forwarders -> {NoForward} \cup ForwardSteps \cup ForwardWaits]
           /\ Forwarding(f)' /\ forward'[f].at = "probe" /\ forward'[f].rec = r
           /\ \A g \in Forwarders : g # f => forward'[g] = forward[g]
  <1>1. forward'[f] = [at |-> "probe", rec |-> r]
    BY DEF VmTypeOK
  <1>2. /\ [at |-> "probe", rec |-> r] # NoForward
        /\ [at |-> "probe", rec |-> r] \in ForwardSteps
    BY DEF NoForward, ForwardSteps
  <1> QED BY <1>1, <1>2 DEF VmTypeOK, Forwarding

LEMMA Ending ==
    ASSUME VmTypeOK, NEW f \in Forwarders,
           forward' = [forward EXCEPT ![f] = NoForward]
    PROVE  /\ forward' \in [Forwarders -> {NoForward} \cup ForwardSteps \cup ForwardWaits]
           /\ ~Forwarding(f)'
           /\ \A g \in Forwarders : g # f => forward'[g] = forward[g]
  BY DEF VmTypeOK, Forwarding

\* The encoded file is nobody's concern but the types'.
LEMMA DropType ==
    ASSUME VmTypeOK, NEW f \in Forwarders, Forwarding(f), DropEncoded(f)
    PROVE  encoded' \in [Recordings -> {"absent", "partial", "whole"}]
  BY ForwardType DEF VmTypeOK, DropEncoded

-----------------------------------------------------------------------------
(* Steps that leave the handlers and the recordings alone                   *)

VmIdleRest == UNCHANGED <<speech, recording, age, listed, handler, got, repeated>>

\* A forward goes on before its post.
LEMMA ForwardGoesOn ==
    ASSUME VmInv, NEW f \in Forwarders, NEW step, Forwarding(f), ~AtStep(f, "wait"),
           step \in {"encode", "encoding", "read", "read_raw", "text"}, StepTo(f, step),
           VmIdleRest, excused \subseteq excused',
           step = "text" => (TextIsDue(forward[f].rec))', VmTypeOK'
    PROVE  VmInv'
  <1>1. /\ Forwarding(f)' /\ forward'[f].at = step /\ forward'[f].rec = forward[f].rec
        /\ \A g \in Forwarders : g # f => forward'[g] = forward[g]
    BY Stepping DEF VmInv
  <1>2. forward[f].rec \in Recordings
    BY ForwardType DEF VmInv
  <1>3. \A g \in Forwarders : /\ Forwarding(g) <=> Forwarding(g)'
                              /\ forward'[g].rec = forward[g].rec
                              /\ AtStep(g, "wait")' <=> AtStep(g, "wait")
                              /\ \A p \in Posts : Awaits(g, p)' <=> Awaits(g, p)
                              /\ AtStep(g, "text")' => AtStep(g, "text") \/ (g = f /\ step = "text")
    BY <1>1 DEF AtStep, Awaits, Forwarding
  <1>4. ScriptsOwn' /\ NothingBefore' /\ WaitsForOwn'
    BY <1>3 DEF VmInv, ScriptsOwn, NothingBefore, WaitsForOwn, VmIdleRest, Handling, Over,
       Forwarders
  <1>5. \A r \in Recordings : TextIsDue(r) => TextIsDue(r)'
    BY DEF TextIsDue, VmIdleRest
  <1>6. TextsDue'
    BY <1>1, <1>2, <1>3, <1>5, ForwardType, HandlerType
       DEF VmInv, TextsDue, VmIdleRest, Handling, AtStep, Forwarding
  <1>7. SentIsTried' /\ VmSpeechAccounted' /\ VmTwiceOnlyAfterCut'
    BY DEF VmInv, SentIsTried, VmSpeechAccounted, VmTwiceOnlyAfterCut, VmIdleRest, Handling
  <1>8. OneForwarder' /\ HandlersAwaited'
    BY <1>3 DEF VmInv, OneForwarder, HandlersAwaited, VmIdleRest, Handling
  <1>9. NotedOnce'
    BY <1>3 DEF VmInv, NotedOnce, Noted, VmIdleRest, OnDisk
  <1> QED BY <1>4, <1>6, <1>7, <1>8, <1>9 DEF VmInv

LEMMA ProbeKeeps ==
    ASSUME VmInv, NEW f \in Forwarders, NEW b \in BOOLEAN, Probe(f, b)
    PROVE  VmInv'
  <1> DEFINE r == forward[f].rec
  <1>1. Forwarding(f) /\ ~AtStep(f, "wait") /\ r \in Recordings
    BY ForwardType DEF Probe, AtStep, Forwarding, VmInv
  <1>2. Over(r)
    BY <1>1 DEF VmInv, NothingBefore
  <1>3. PICK step \in {"encode", "text"} :
            /\ StepTo(f, step)
            /\ excused \subseteq excused' /\ excused' \subseteq excused \cup {r}
            /\ step = "text" => \/ recording[r] \in {"missing", "deleted"}
                                \/ r \in excused' \/ ~speech[r]
    BY <1>1, <1>2 DEF Probe, Excuse, Over, OnDisk, VmInv, VmTypeOK
  <1>4. /\ VmIdleRest /\ UNCHANGED <<encoded, overdue>>
    BY DEF Probe, VmIdleRest
  <1>5. forward'[f].rec = r
    BY <1>1, <1>3, Stepping DEF VmInv
  <1>6. step = "text" => (TextIsDue(forward[f].rec))'
    BY <1>3, <1>4, <1>5 DEF TextIsDue, VmIdleRest
  <1>7. VmTypeOK'
    BY <1>1, <1>3, <1>4, Stepping DEF VmInv, VmTypeOK, VmIdleRest
  <1> HIDE DEF r
  <1> QED BY <1>1, <1>3, <1>4, <1>6, <1>7, ForwardGoesOn

LEMMA EncodeKeeps ==
    ASSUME VmInv, NEW f \in Forwarders, Encode(f)
    PROVE  VmInv'
  <1>1. Forwarding(f) /\ ~AtStep(f, "wait") /\ forward[f].rec \in Recordings
    BY ForwardType DEF Encode, AtStep, Forwarding, VmInv
  <1>2. /\ VmIdleRest /\ UNCHANGED <<overdue, excused>> /\ StepTo(f, "encoding")
    BY DEF Encode, VmIdleRest
  <1>3. VmTypeOK'
    BY <1>1, <1>2, Stepping DEF VmInv, VmTypeOK, VmIdleRest, Encode
  <1> QED BY <1>1, <1>2, <1>3, ForwardGoesOn

LEMMA EncodedKeeps ==
    ASSUME VmInv, NEW f \in Forwarders, NEW b \in BOOLEAN, Encoded(f, b)
    PROVE  VmInv'
  <1>1. Forwarding(f) /\ ~AtStep(f, "wait") /\ forward[f].rec \in Recordings
    BY ForwardType DEF Encoded, AtStep, Forwarding, VmInv
  <1>2. /\ VmIdleRest /\ UNCHANGED <<overdue, excused>>
    BY DEF Encoded, VmIdleRest
  <1>3. PICK step \in {"read", "read_raw"} : StepTo(f, step)
    BY DEF Encoded
  <1>4. encoded' \in [Recordings -> {"absent", "partial", "whole"}]
    BY <1>1 DEF Encoded, VmInv, VmTypeOK
  <1>5. VmTypeOK'
    BY <1>1, <1>2, <1>3, <1>4, Stepping DEF VmInv, VmTypeOK, VmIdleRest
  <1> QED BY <1>1, <1>2, <1>3, <1>5, ForwardGoesOn

-----------------------------------------------------------------------------
(* The post and its answer                                                  *)

LEMMA PostKeeps ==
    ASSUME VmInv, NEW f \in Forwarders, NEW p \in Posts,
           NEW audio \in {"none", "partial", "whole"},
           Forwarding(f), ~AtStep(f, "wait"), Post(f, p, audio),
           audio = "none" => AtStep(f, "text"),
           UNCHANGED <<recording, speech, age, encoded, listed, overdue, got, excused, repeated>>
    PROVE  VmInv'
  <1> DEFINE r == forward[f].rec
             h == [to |-> Audience, rec |-> r, audio |-> audio]
             w == [at |-> "wait", rec |-> r, post |-> p]
  <1>1. r \in Recordings
    BY ForwardType DEF VmInv
  <1>2. /\ h # NoHandler /\ h.to = Audience /\ h.rec = r /\ h.audio = audio
        /\ h \in [to : SUBSET Audience, rec : Recordings, audio : {"none", "partial", "whole"}]
    BY <1>1 DEF NoHandler
  <1>3. w # NoForward /\ w.at = "wait" /\ w.rec = r /\ w.post = p /\ w \in ForwardWaits
    BY <1>1 DEF NoForward, ForwardWaits
  <1>4. ~Handling(p) /\ handler' = [handler EXCEPT ![p] = h] /\ forward' = [forward EXCEPT ![f] = w]
    BY DEF Post, Handling
  <1> HIDE DEF h, w
  <1>5. handler'[p] = h /\ \A q \in Posts : q # p => handler'[q] = handler[q]
    BY <1>4 DEF VmInv, VmTypeOK
  <1>6. forward'[f] = w /\ \A g \in Forwarders : g # f => forward'[g] = forward[g]
    BY <1>4 DEF VmInv, VmTypeOK
  <1>7. VmTypeOK'
    BY <1>2, <1>3, <1>4 DEF VmInv, VmTypeOK
  <1>8. /\ \A g \in Forwarders : /\ Forwarding(g) <=> Forwarding(g)'
                                 /\ forward'[g].rec = forward[g].rec
                                 /\ AtStep(g, "wait")' <=> AtStep(g, "wait") \/ g = f
                                 /\ AtStep(g, "text")' => AtStep(g, "text") /\ g # f
                                 /\ \A q \in Posts :
                                        Awaits(g, q)' <=> Awaits(g, q) \/ (g = f /\ q = p)
        /\ \A q \in Posts : /\ Handling(q)' <=> Handling(q) \/ q = p
                            /\ q # p => handler'[q] = handler[q]
    BY <1>2, <1>3, <1>5, <1>6 DEF AtStep, Awaits, Forwarding, Handling
  <1> HIDE DEF r
  <1>9. \A g \in Forwarders : ~Awaits(g, p)
    BY <1>4 DEF VmInv, WaitsForOwn
  <1>10. ScriptsOwn' /\ NothingBefore' /\ WaitsForOwn'
    <2>1. Over(r)
      BY DEF VmInv, NothingBefore, r
    <2>2. ScriptsOwn'
      BY <1>8 DEF VmInv, ScriptsOwn, Forwarders
    <2>3. NothingBefore'
      BY <1>2, <1>5, <1>8, <2>1 DEF VmInv, NothingBefore, Over
    <2>4. WaitsForOwn'
      BY <1>2, <1>5, <1>8, <1>9 DEF VmInv, WaitsForOwn, Awaits, r
    <2> QED BY <2>2, <2>3, <2>4
  <1>11. TextsDue'
    <2>1. audio = "none" => TextIsDue(r)
      BY DEF VmInv, TextsDue, r
    <2> QED BY <1>2, <1>5, <1>8, <2>1 DEF VmInv, TextsDue, TextIsDue
  <1>12. SentIsTried' /\ VmSpeechAccounted' /\ VmTwiceOnlyAfterCut'
    BY <1>2, <1>5, <1>8 DEF VmInv, SentIsTried, VmSpeechAccounted, VmTwiceOnlyAfterCut
  <1>13. OneForwarder' /\ HandlersAwaited'
    BY <1>8 DEF VmInv, OneForwarder, HandlersAwaited
  <1>14. NotedOnce'
    <2>1. \A u \in Audience : Noted(r, u) => r \in repeated
      BY <1>1 DEF VmInv, NotedOnce, Awaits, r
    <2>2. \A q \in Posts : q # p => handler'[q].to = handler[q].to
      BY <1>8
    <2> QED BY <1>1, <1>8, <1>9, <2>1, <2>2 DEF VmInv, NotedOnce, Noted, OnDisk, r
  <1> QED BY <1>7, <1>10, <1>11, <1>12, <1>13, <1>14 DEF VmInv

LEMMA PostNoteKeeps ==
    ASSUME VmInv, NEW f \in Forwarders, NEW p \in Posts, PostNote(f, p)
    PROVE  VmInv'
  <1>1. Forwarding(f) /\ ~AtStep(f, "wait") /\ forward[f].rec \in Recordings
    BY ForwardType DEF PostNote, Reading, AtStep, Forwarding, VmInv
  <1>2. Payload(f) \in {"partial", "whole"}
    BY <1>1 DEF PostNote, Payload, VmInv, VmTypeOK
  <1> QED BY <1>1, <1>2, PostKeeps DEF PostNote

LEMMA PostTextKeeps ==
    ASSUME VmInv, NEW f \in Forwarders, NEW p \in Posts, PostText(f, p)
    PROVE  VmInv'
  <1>1. Forwarding(f) /\ ~AtStep(f, "wait")
    BY DEF PostText, AtStep, Forwarding
  <1> QED BY <1>1, PostKeeps DEF PostText

\* A forward ends before its post.
LEMMA ForwardStops ==
    ASSUME VmInv, NEW f \in Forwarders, Forwarding(f), ~AtStep(f, "wait"),
           forward' = [forward EXCEPT ![f] = NoForward], DropEncoded(f),
           listed' \subseteq listed,
           UNCHANGED <<recording, speech, age, overdue, handler, got, excused, repeated>>
    PROVE  VmInv'
  <1>1. /\ ~Forwarding(f)'
        /\ \A g \in Forwarders : g # f => forward'[g] = forward[g]
        /\ forward' \in [Forwarders -> {NoForward} \cup ForwardSteps \cup ForwardWaits]
    BY Ending DEF VmInv
  <1>2. forward[f].rec \in Recordings
    BY ForwardType DEF VmInv
  <1>3. VmTypeOK'
    BY <1>1, DropType DEF VmInv, VmTypeOK
  <1>4. \A g \in Forwarders : /\ Forwarding(g)' => Forwarding(g) /\ forward'[g] = forward[g]
                              /\ AtStep(g, "wait")' <=> AtStep(g, "wait")
                              /\ AtStep(g, "text")' => AtStep(g, "text")
                              /\ AtStep(g, "wait") => forward'[g] = forward[g]
                              /\ \A p \in Posts : Awaits(g, p)' <=> Awaits(g, p)
    BY <1>1 DEF AtStep, Awaits, Forwarding
  <1>5. ScriptsOwn' /\ NothingBefore' /\ WaitsForOwn'
    <2>1. \A g \in Forwarders, p \in Posts : Awaits(g, p) => AtStep(g, "wait")
      BY DEF Awaits
    <2>2. ScriptsOwn'
      BY <1>4 DEF VmInv, ScriptsOwn, Forwarders
    <2>3. NothingBefore'
      BY <1>4 DEF VmInv, NothingBefore, Handling, Over, Forwarders
    <2>4. WaitsForOwn'
      BY <1>4, <2>1 DEF VmInv, WaitsForOwn, Handling
    <2> QED BY <2>2, <2>3, <2>4
  <1>6. TextsDue'
    <2>1. \A g \in Forwarders : AtStep(g, "text")' => forward'[g] = forward[g]
      BY <1>1 DEF AtStep, Forwarding
    <2> QED BY <1>4, <2>1 DEF VmInv, TextsDue, TextIsDue, Handling
  <1>7. SentIsTried' /\ VmSpeechAccounted' /\ VmTwiceOnlyAfterCut'
    BY DEF VmInv, SentIsTried, VmSpeechAccounted, VmTwiceOnlyAfterCut, Handling
  <1>8. OneForwarder' /\ HandlersAwaited'
    BY <1>4 DEF VmInv, OneForwarder, HandlersAwaited, Handling
  <1>9. NotedOnce'
    BY <1>4 DEF VmInv, NotedOnce, Noted, OnDisk
  <1> QED BY <1>3, <1>5, <1>6, <1>7, <1>8, <1>9 DEF VmInv

LEMMA StopKeeps ==
    ASSUME VmInv, NEW f \in Forwarders, FileGone(f) \/ PostRefused(f)
    PROVE  VmInv'
  <1>1. Forwarding(f) /\ ~AtStep(f, "wait")
    BY DEF FileGone, PostRefused, Reading, AtStep, Forwarding
  <1> QED BY <1>1, ForwardStops DEF FileGone, PostRefused

\* Nobody answers in time: the recording may be forwarded again from now on.
LEMMA UnansweredKeeps ==
    ASSUME VmInv, NEW f \in Forwarders, ForwardUnanswered(f)
    PROVE  VmInv'
  <1>1. Forwarding(f) /\ AtStep(f, "wait")
    BY DEF ForwardUnanswered, AtStep, Forwarding
  <1>2. /\ ~Forwarding(f)'
        /\ \A g \in Forwarders : g # f => forward'[g] = forward[g]
        /\ forward' \in [Forwarders -> {NoForward} \cup ForwardSteps \cup ForwardWaits]
    BY Ending DEF VmInv, ForwardUnanswered
  <1>3. forward[f].rec \in Recordings
    BY <1>1, ForwardType DEF VmInv
  <1>4. VmTypeOK'
    BY <1>1, <1>2, <1>3, DropType DEF VmInv, VmTypeOK, ForwardUnanswered
  <1>5. \A g \in Forwarders : /\ Forwarding(g)' => Forwarding(g) /\ forward'[g] = forward[g]
                              /\ AtStep(g, "wait")' <=> AtStep(g, "wait") /\ g # f
                              /\ AtStep(g, "text")' => AtStep(g, "text") /\ forward'[g] = forward[g]
                              /\ AtStep(g, "wait") /\ g # f => forward'[g] = forward[g]
                              /\ \A p \in Posts : Awaits(g, p)' <=> Awaits(g, p) /\ g # f
    BY <1>2 DEF AtStep, Awaits, Forwarding
  <1>6. /\ UNCHANGED <<recording, speech, age, listed, handler, got, excused>>
        /\ repeated' = repeated \cup {forward[f].rec}
    BY DEF ForwardUnanswered
  <1>7. ScriptsOwn' /\ NothingBefore' /\ WaitsForOwn'
    <2>1. \A g \in Forwarders, p \in Posts : Awaits(g, p) => AtStep(g, "wait")
      BY DEF Awaits
    <2>2. ScriptsOwn'
      BY <1>5, <1>6 DEF VmInv, ScriptsOwn, Forwarders
    <2>3. NothingBefore'
      BY <1>5, <1>6 DEF VmInv, NothingBefore, Handling, Over, Forwarders
    <2>4. WaitsForOwn'
      BY <1>5, <1>6, <2>1 DEF VmInv, WaitsForOwn, Handling
    <2> QED BY <2>2, <2>3, <2>4
  <1>8. TextsDue'
    BY <1>5, <1>6 DEF VmInv, TextsDue, TextIsDue, Handling
  <1>9. SentIsTried' /\ VmSpeechAccounted' /\ VmTwiceOnlyAfterCut'
    BY <1>6 DEF VmInv, SentIsTried, VmSpeechAccounted, VmTwiceOnlyAfterCut, Handling
  <1>10. OneForwarder'
    BY <1>5, <1>6 DEF VmInv, OneForwarder
  <1>11. HandlersAwaited'
    <2>1. \A p \in Posts : Awaits(f, p) => handler[p].rec = forward[f].rec
      BY DEF VmInv, WaitsForOwn
    <2> QED BY <1>5, <1>6, <2>1 DEF VmInv, HandlersAwaited, Handling
  <1>12. NotedOnce'
    BY <1>3, <1>5, <1>6 DEF VmInv, NotedOnce, Noted, OnDisk
  <1> QED BY <1>4, <1>7, <1>8, <1>9, <1>10, <1>11, <1>12 DEF VmInv

\* The handler is through with everybody, and the recording goes.
LEMMA AnsweredKeeps ==
    ASSUME VmInv, NEW f \in Forwarders, NEW p \in Posts, ForwardAnswered(f, p), NEW r, r = forward[f].rec
    PROVE  VmInv'
  <1>1. /\ Forwarding(f) /\ Awaits(f, p) /\ Handling(p) /\ handler[p].to = {}
        /\ handler[p].rec = r
        /\ \A g \in Forwarders : Awaits(g, p) => g = f
        /\ \A q \in Posts : Awaits(f, q) => q = p
    BY DEF ForwardAnswered, Awaits, AtStep, Forwarding, Handling, VmInv, WaitsForOwn
  <1>2. /\ ~Forwarding(f)'
        /\ \A g \in Forwarders : g # f => forward'[g] = forward[g]
        /\ forward' \in [Forwarders -> {NoForward} \cup ForwardSteps \cup ForwardWaits]
    BY Ending DEF VmInv, ForwardAnswered
  <1>3. r \in Recordings /\ Over(r)
    BY <1>1, ForwardType DEF VmInv, NothingBefore
  <1>4. /\ \A x \in Recordings : x # r => recording'[x] = recording[x]
        /\ OnDisk(r) => recording'[r] = "deleted"
        /\ ~OnDisk(r) => recording'[r] = recording[r]
        /\ recording' \in [Recordings -> {"none", "live", "closed", "missing", "deleted"}]
    BY <1>3 DEF VmInv, VmTypeOK, ForwardAnswered
  <1>5. /\ ~Handling(p)'
        /\ \A q \in Posts : q # p => handler'[q] = handler[q]
        /\ handler' \in [Posts -> {NoHandler} \cup
                [to : SUBSET Audience, rec : Recordings, audio : {"none", "partial", "whole"}]]
    BY DEF ForwardAnswered, VmInv, VmTypeOK, Handling
  <1>6. UNCHANGED <<speech, age, listed, overdue, got, excused, repeated>>
    BY DEF ForwardAnswered
  <1>7. VmTypeOK'
    BY <1>1, <1>2, <1>4, <1>5, <1>6, DropType DEF VmInv, VmTypeOK, ForwardAnswered
  <1>8. \A g \in Forwarders : /\ Forwarding(g)' => Forwarding(g) /\ forward'[g] = forward[g]
                              /\ AtStep(g, "wait")' <=> AtStep(g, "wait") /\ g # f
                              /\ AtStep(g, "text")' => AtStep(g, "text") /\ forward'[g] = forward[g]
                              /\ AtStep(g, "wait") /\ g # f => forward'[g] = forward[g]
                              /\ \A q \in Posts : Awaits(g, q)' <=> Awaits(g, q) /\ q # p
    BY <1>1, <1>2 DEF AtStep, Awaits, Forwarding
  <1>16. \A q \in Posts : /\ Handling(q)' => Handling(q) /\ q # p
                          /\ Handling(q) /\ q # p => Handling(q)' /\ handler'[q] = handler[q]
    BY <1>5 DEF Handling
  <1>9. /\ \A x \in Recordings : Over(x) <=> Over(x)'
        /\ \A x \in Recordings : TextIsDue(x) => TextIsDue(x)'
    BY <1>3, <1>4, <1>6 DEF Over, TextIsDue, OnDisk
  <1>10. ScriptsOwn' /\ NothingBefore' /\ WaitsForOwn'
    <2>1. ScriptsOwn'
      BY <1>8 DEF VmInv, ScriptsOwn, Forwarders
    <2>2. /\ \A g \in Forwarders : Forwarding(g) => forward[g].rec \in Recordings
          /\ \A q \in Posts : Handling(q) => handler[q].rec \in Recordings
      BY ForwardType, HandlerType DEF VmInv
    <2>3. NothingBefore'
      <3>1. \A x \in listed : x \in Recordings
        BY DEF VmInv, VmTypeOK
      <3> QED BY <1>6, <1>8, <1>9, <1>16, <2>2, <3>1 DEF VmInv, NothingBefore
    <2>4. WaitsForOwn'
      <3>1. \A g \in Forwarders, q \in Posts : Awaits(g, q) => AtStep(g, "wait")
        BY DEF Awaits
      <3> QED BY <1>1, <1>8, <1>16, <3>1 DEF VmInv, WaitsForOwn
    <2> QED BY <2>1, <2>3, <2>4
  <1>11. TextsDue'
    <2>1. /\ \A g \in Forwarders : Forwarding(g) => forward[g].rec \in Recordings
          /\ \A q \in Posts : Handling(q) => handler[q].rec \in Recordings
      BY ForwardType, HandlerType DEF VmInv
    <2>2. \A g \in Forwarders : AtStep(g, "text") => Forwarding(g)
      BY DEF AtStep, Forwarding
    <2> QED BY <1>8, <1>9, <1>16, <2>1, <2>2 DEF VmInv, TextsDue
  <1>12. SentIsTried' /\ VmTwiceOnlyAfterCut'
    BY <1>6, <1>16 DEF VmInv, SentIsTried, VmTwiceOnlyAfterCut
  <1>13. VmSpeechAccounted'
    <2>1. OnDisk(r) /\ speech[r] /\ r \notin excused => \A u \in Audience : got[r][u] # "nothing"
      BY <1>1, <1>3 DEF VmInv, TextsDue, SentIsTried, TextIsDue, OnDisk
    <2> QED BY <1>3, <1>4, <1>6, <2>1 DEF VmInv, VmSpeechAccounted
  <1>14. OneForwarder' /\ HandlersAwaited'
    BY <1>6, <1>8, <1>16 DEF VmInv, OneForwarder, HandlersAwaited
  <1>15. NotedOnce'
    <2>1. ~OnDisk(r)'
      BY <1>3, <1>4 DEF OnDisk, Over
    <2>2. \A x \in Recordings : x # r => (OnDisk(x)' <=> OnDisk(x))
      BY <1>4 DEF OnDisk
    <2>3. \A x \in Recordings : x # r => \A g \in Forwarders :
              AtStep(g, "wait") /\ forward[g].rec = x
                  => AtStep(g, "wait")' /\ forward'[g].rec = x
      BY <1>8
    <2>4. \A g \in Forwarders : Forwarding(g)' =>
              /\ Forwarding(g) /\ forward'[g] = forward[g] /\ g # f
              /\ \A q \in Posts : Awaits(g, q) => Awaits(g, q)' /\ handler'[q] = handler[q]
      BY <1>1, <1>2, <1>5, <1>8
    <2> QED BY <1>6, <2>1, <2>2, <2>3, <2>4 DEF VmInv, NotedOnce, Noted
  <1> QED BY <1>7, <1>10, <1>11, <1>12, <1>13, <1>14, <1>15 DEF VmInv

-----------------------------------------------------------------------------
(* The handler                                                              *)

\* What a send makes of what became of the recording for a user.
LEMMA ResultOf ==
    ASSUME NEW before \in {"nothing", "failure", "note", "two_notes"}, NEW works \in BOOLEAN
    PROVE  /\ Result(before, works) \in {"failure", "note", "two_notes"}
           /\ Result(before, works) = "two_notes" => before \in {"note", "two_notes"}
  BY DEF Result

LEMMA SendToKeeps ==
    ASSUME VmInv, NEW p \in Posts, NEW u \in Audience, NEW works \in BOOLEAN,
           SendTo(p, u, works), NEW r, r = handler[p].rec
    PROVE  VmInv'
  <1>1. /\ Handling(p) /\ u \in handler[p].to
        /\ UNCHANGED <<recording, speech, age, encoded, forward, listed, overdue,
                       excused, repeated>>
    BY DEF SendTo, Handling
  <1>2. r \in Recordings /\ Over(r)
    BY <1>1, HandlerType DEF VmInv, NothingBefore
  <1> DEFINE h == [to |-> handler[p].to \ {u}, rec |-> r, audio |-> handler[p].audio]
  <1>3. handler[p] \in [to : SUBSET Audience, rec : Recordings,
                        audio : {"none", "partial", "whole"}]
    BY <1>1, HandlerType DEF VmInv
  <1>4. [handler[p] EXCEPT !.to = handler[p].to \ {u}] = h
    BY <1>3
  <1>5. handler' = [handler EXCEPT ![p] = h]
    BY <1>4 DEF SendTo
  <1>6. /\ h # NoHandler /\ h.to = handler[p].to \ {u} /\ h.rec = r
        /\ h.audio = handler[p].audio
        /\ h \in [to : SUBSET Audience, rec : Recordings, audio : {"none", "partial", "whole"}]
    BY <1>2, <1>3 DEF NoHandler
  <1> HIDE DEF h
  <1>7. /\ handler'[p] = h
        /\ \A q \in Posts : q # p => handler'[q] = handler[q]
        /\ handler' \in [Posts -> {NoHandler} \cup
                [to : SUBSET Audience, rec : Recordings, audio : {"none", "partial", "whole"}]]
    BY <1>5, <1>6 DEF VmInv, VmTypeOK
  <1>8. \A q \in Posts : /\ Handling(q)' <=> Handling(q)
                         /\ Handling(q) => /\ handler'[q].rec = handler[q].rec
                                           /\ handler'[q].audio = handler[q].audio
                         /\ q # p => handler'[q] = handler[q]
    BY <1>1, <1>6, <1>7 DEF Handling
  <1>9. /\ got' \in [Recordings -> [Audience -> {"nothing", "failure", "note", "two_notes"}]]
        /\ \A x \in Recordings, v \in Audience : x # r \/ v # u => got'[x][v] = got[x][v]
        /\ handler[p].audio = "none" => got' = got
        /\ handler[p].audio # "none" =>
               /\ got'[r][u] \in {"failure", "note", "two_notes"}
               /\ got'[r][u] = "two_notes" => got[r][u] \in {"note", "two_notes"}
    <2> DEFINE b == works /\ handler[p].audio = "whole"
               res == Result(got[r][u], b)
    <2>1. got[r][u] \in {"nothing", "failure", "note", "two_notes"}
      BY <1>2 DEF VmInv, VmTypeOK
    <2>2. /\ res \in {"failure", "note", "two_notes"}
          /\ res = "two_notes" => got[r][u] \in {"note", "two_notes"}
      <3> HIDE DEF b
      <3>1. b \in BOOLEAN
        BY DEF b
      <3> QED BY <2>1, <3>1, ResultOf
    <2>3. handler[p].audio # "none" => got' = [got EXCEPT ![r][u] = res]
      BY DEF SendTo
    <2>4. handler[p].audio = "none" => got' = got
      BY DEF SendTo
    <2> HIDE DEF res
    <2>5. CASE handler[p].audio = "none"
      BY <2>4, <2>5 DEF VmInv, VmTypeOK
    <2>6. CASE handler[p].audio # "none"
      <3>1. got' = [got EXCEPT ![r] = [got[r] EXCEPT ![u] = res]]
        BY <2>3, <2>6
      <3>2. got[r] \in [Audience -> {"nothing", "failure", "note", "two_notes"}]
        BY <1>2 DEF VmInv, VmTypeOK
      <3>3. /\ [got[r] EXCEPT ![u] = res] \in [Audience -> {"nothing", "failure", "note", "two_notes"}]
            /\ [got[r] EXCEPT ![u] = res][u] = res
            /\ \A v \in Audience : v # u => [got[r] EXCEPT ![u] = res][v] = got[r][v]
        BY <2>2, <3>2
      <3>4. /\ got'[r] = [got[r] EXCEPT ![u] = res]
            /\ \A x \in Recordings : x # r => got'[x] = got[x]
        BY <1>2, <3>1 DEF VmInv, VmTypeOK
      <3>5. got' \in [Recordings -> [Audience -> {"nothing", "failure", "note", "two_notes"}]]
        BY <1>2, <3>1, <3>3 DEF VmInv, VmTypeOK
      <3> QED BY <2>2, <2>6, <3>3, <3>4, <3>5
    <2> QED BY <2>5, <2>6
  <1>10. VmTypeOK'
    BY <1>1, <1>7, <1>9 DEF VmInv, VmTypeOK
  <1>11. ScriptsOwn' /\ NothingBefore' /\ WaitsForOwn'
    BY <1>1, <1>2, <1>8, <1>9
       DEF VmInv, ScriptsOwn, NothingBefore, WaitsForOwn, Forwarders, Forwarding, Awaits, AtStep, Over
  <1>12. TextsDue'
    BY <1>1, <1>8 DEF VmInv, TextsDue, TextIsDue, AtStep
  <1>13. SentIsTried' /\ VmSpeechAccounted'
    <2>1. \A x \in Recordings, v \in Audience :
              got[x][v] # "nothing" => got'[x][v] # "nothing"
      BY <1>9
    <2>2. VmSpeechAccounted'
      BY <1>1, <2>1 DEF VmInv, VmSpeechAccounted
    <2>3. ASSUME NEW q \in Posts, NEW v \in Audience,
                 Handling(q)', handler'[q].audio # "none", v \notin handler'[q].to
          PROVE  got'[handler'[q].rec][v] # "nothing"
      <3>1. handler[q].rec \in Recordings /\ handler'[q].rec = handler[q].rec
        BY <1>8, <2>3, HandlerType DEF VmInv
      <3>2. CASE q = p /\ v = u
        BY <1>1, <1>6, <1>7, <1>9, <2>3, <3>2
      <3>3. CASE ~(q = p /\ v = u)
        <4>1. v \notin handler[q].to
          BY <1>6, <1>7, <1>8, <2>3, <3>3
        <4> QED BY <1>8, <2>1, <2>3, <3>1, <4>1 DEF VmInv, SentIsTried
      <3> QED BY <3>2, <3>3
    <2> QED BY <2>2, <2>3 DEF SentIsTried
  <1>14. OneForwarder' /\ HandlersAwaited'
    BY <1>1, <1>8 DEF VmInv, OneForwarder, HandlersAwaited, Forwarding, Awaits, AtStep
  <1>15. r \notin repeated => \E f \in Forwarders : Awaits(f, p) /\ forward[f].rec = r
    BY <1>1 DEF VmInv, HandlersAwaited, WaitsForOwn
  <1>16. VmTwiceOnlyAfterCut'
    <2>1. r \notin repeated => ~Noted(r, u)
      BY <1>1, <1>2, <1>15 DEF VmInv, NotedOnce, Awaits, AtStep, Forwarding
    <2> QED BY <1>1, <1>2, <1>9, <2>1 DEF VmInv, VmTwiceOnlyAfterCut, Noted
  <1>17. NotedOnce'
    <2>1. SUFFICES ASSUME NEW x \in Recordings, NEW v \in Audience,
                          x \notin repeated, Noted(x, v)'
                   PROVE  /\ \A g \in Forwarders : Forwarding(g) /\ forward[g].rec = x =>
                                 \E q \in Posts : Awaits(g, q) /\ v \notin handler'[q].to
                          /\ OnDisk(x) => \E g \in Forwarders : AtStep(g, "wait") /\ forward[g].rec = x
      BY <1>1 DEF NotedOnce, Forwarding, Awaits, AtStep, OnDisk
    <2>2. CASE x = r /\ v = u
      <3>1. PICK f \in Forwarders : Awaits(f, p) /\ forward[f].rec = r
        BY <1>15, <2>1, <2>2
      <3>2. \A g \in Forwarders : Forwarding(g) /\ forward[g].rec = r => g = f
        BY <2>1, <2>2, <3>1 DEF VmInv, OneForwarder, Awaits, AtStep, Forwarding
      <3> QED BY <1>6, <1>7, <2>2, <3>1, <3>2 DEF Awaits
    <2>3. CASE ~(x = r /\ v = u)
      <3>1. Noted(x, v)
        BY <1>9, <2>1, <2>3 DEF Noted
      <3>2. \A q \in Posts : v \notin handler[q].to => v \notin handler'[q].to
        BY <1>6, <1>7
      <3> QED BY <2>1, <3>1, <3>2 DEF VmInv, NotedOnce
    <2> QED BY <2>2, <2>3
  <1> QED BY <1>10, <1>11, <1>12, <1>13, <1>14, <1>16, <1>17 DEF VmInv

LEMMA HandlerEndsKeeps ==
    ASSUME VmInv, NEW p \in Posts, HandlerEnds(p)
    PROVE  VmInv'
  <1>1. /\ ~Handling(p)'
        /\ \A q \in Posts : q # p => handler'[q] = handler[q]
        /\ handler' \in [Posts -> {NoHandler} \cup
                [to : SUBSET Audience, rec : Recordings, audio : {"none", "partial", "whole"}]]
        /\ \A f \in Forwarders : ~Awaits(f, p)
        /\ UNCHANGED <<recording, speech, age, encoded, forward, listed, overdue, got,
                       excused, repeated>>
    BY DEF HandlerEnds, VmInv, VmTypeOK, Handling
  <1>2. \A q \in Posts : Handling(q)' => Handling(q) /\ q # p
    BY <1>1 DEF Handling
  <1>3. VmTypeOK'
    BY <1>1 DEF VmInv, VmTypeOK
  <1>4. ScriptsOwn' /\ NothingBefore'
    BY <1>1, <1>2 DEF VmInv, ScriptsOwn, NothingBefore, Forwarders, Forwarding, Over
  <1>5. WaitsForOwn' /\ TextsDue' /\ SentIsTried'
    BY <1>1, <1>2 DEF VmInv, WaitsForOwn, TextsDue, TextIsDue, SentIsTried, Awaits, AtStep, Handling
  <1>6. VmSpeechAccounted' /\ VmTwiceOnlyAfterCut' /\ OneForwarder' /\ HandlersAwaited'
    BY <1>1, <1>2 DEF VmInv, VmSpeechAccounted, VmTwiceOnlyAfterCut, OneForwarder,
       HandlersAwaited, Forwarding, Awaits, AtStep
  <1>7. NotedOnce'
    BY <1>1 DEF VmInv, NotedOnce, Noted, Forwarding, Awaits, AtStep, OnDisk
  <1> QED BY <1>3, <1>4, <1>5, <1>6, <1>7 DEF VmInv

-----------------------------------------------------------------------------
(* The call, the clock and the sweep                                        *)

\* Neither a forward nor a handler is touched, and a recording goes on.
LEMMA RecordingGoesOn ==
    ASSUME VmInv, VmTypeOK', UNCHANGED <<forward, handler, got, repeated>>,
           excused \subseteq excused',
           \A r \in Recordings : Over(r) => /\ Over(r)'
                                            /\ OnDisk(r)' => OnDisk(r)
                                            /\ speech'[r] = speech[r]
                                            /\ TextIsDue(r) => TextIsDue(r)',
           \A r \in Recordings : ~Over(r)' => age'[r] = "new",
           \A r \in Recordings : recording'[r] = "deleted" =>
               r \in excused' \/ (recording[r] = "deleted" /\ speech'[r] = speech[r]),
           \A r \in listed' : Over(r)'
    PROVE  VmInv'
  <1>1. /\ \A f \in Forwarders :
               Forwarding(f) => forward[f].rec \in Recordings /\ Over(forward[f].rec)
        /\ \A p \in Posts : Handling(p) => handler[p].rec \in Recordings /\ Over(handler[p].rec)
    BY ForwardType, HandlerType DEF VmInv, NothingBefore
  <1>2. \A f \in Forwarders : AtStep(f, "text") => Forwarding(f)
    BY DEF AtStep, Forwarding
  <1>3. ScriptsOwn' /\ WaitsForOwn' /\ SentIsTried' /\ OneForwarder' /\ HandlersAwaited'
    BY DEF VmInv, ScriptsOwn, WaitsForOwn, SentIsTried, OneForwarder, HandlersAwaited,
       Forwarding, Handling, Awaits, AtStep
  <1>4. VmTwiceOnlyAfterCut'
    BY DEF VmInv, VmTwiceOnlyAfterCut
  <1>5. NothingBefore'
    <2>1. \A r \in Recordings : ~Over(r)' => \A u \in Audience : got'[r][u] = "nothing"
      BY DEF VmInv, NothingBefore
    <2>2. /\ \A f \in Forwarders : Forwarding(f)' => Over(forward[f].rec)'
          /\ \A p \in Posts : Handling(p)' => Over(handler[p].rec)'
      BY <1>1 DEF Forwarding, Handling, Over
    <2> QED BY <2>1, <2>2 DEF NothingBefore
  <1>6. TextsDue'
    <2>1. \A r \in Recordings : TextIsDue(r) /\ Over(r) => TextIsDue(r)'
      OBVIOUS
    <2>2. /\ \A f \in Forwarders :
                 AtStep(f, "text") => forward[f].rec \in Recordings /\ TextIsDue(forward[f].rec)'
          /\ \A p \in Posts :
                 Handling(p) /\ handler[p].audio = "none" => TextIsDue(handler[p].rec)'
      BY <1>1, <1>2, <2>1 DEF VmInv, TextsDue, TextIsDue
    <2> QED BY <2>2 DEF TextsDue, TextIsDue, AtStep, Handling
  <1>7. VmSpeechAccounted'
    BY DEF VmInv, VmSpeechAccounted
  <1>8. NotedOnce'
    <2>1. \A r \in Recordings, u \in Audience : Noted(r, u) => Over(r)
      BY DEF VmInv, NothingBefore, Noted
    <2> QED BY <2>1 DEF VmInv, NotedOnce, Noted, Forwarding, Awaits, AtStep
  <1> QED BY <1>3, <1>4, <1>5, <1>6, <1>7, <1>8 DEF VmInv

LEMMA StartKeeps ==
    ASSUME VmInv, NEW r \in Recordings, NEW says \in BOOLEAN, StartRecording(r, says)
    PROVE  VmInv'
  <1>1. /\ recording[r] = "none" /\ recording'[r] = "live"
        /\ \A x \in Recordings : x # r => recording'[x] = recording[x] /\ speech'[x] = speech[x]
        /\ UNCHANGED <<age, encoded, forward, listed, overdue, handler, got, excused, repeated>>
    BY DEF StartRecording, VmInv, VmTypeOK
  <1>2. VmTypeOK'
    BY DEF StartRecording, VmInv, VmTypeOK
  <1>3. \A x \in Recordings : Over(x) => /\ Over(x)'
                                         /\ OnDisk(x)' => OnDisk(x)
                                         /\ speech'[x] = speech[x]
                                         /\ TextIsDue(x) => TextIsDue(x)'
    BY <1>1 DEF Over, OnDisk, TextIsDue
  <1>4. \A x \in Recordings : ~Over(x)' => age'[x] = "new"
    BY <1>1 DEF VmInv, NothingBefore, Over
  <1>5. \A x \in Recordings : recording'[x] = "deleted" => recording[x] = "deleted" /\ speech'[x] = speech[x]
    BY <1>1
  <1>6. \A x \in listed' : Over(x)'
    BY <1>1 DEF VmInv, VmTypeOK, NothingBefore, Over
  <1>7. excused \subseteq excused'
    BY <1>1
  <1> QED BY <1>1, <1>2, <1>3, <1>4, <1>5, <1>6, <1>7, RecordingGoesOn

LEMMA GrowKeeps ==
    ASSUME VmInv, NEW r \in Recordings, Grow(r)
    PROVE  VmInv'
  <1>1. /\ recording[r] = "closed"
        /\ \A x \in Recordings : x # r => age'[x] = age[x]
        /\ UNCHANGED <<recording, speech, encoded, forward, listed, overdue, handler, got,
                       excused, repeated>>
    BY DEF Grow, VmInv, VmTypeOK
  <1>2. VmTypeOK'
    BY DEF Grow, VmInv, VmTypeOK
  <1>3. \A x \in Recordings : (Over(x) <=> Over(x)') /\ (OnDisk(x)' => OnDisk(x))
            /\ (TextIsDue(x) => TextIsDue(x)')
    BY <1>1 DEF Over, OnDisk, TextIsDue
  <1>4. \A x \in Recordings : ~Over(x)' => age'[x] = "new"
    BY <1>1 DEF VmInv, NothingBefore, Over
  <1>5. \A x \in listed' : Over(x)'
    BY <1>1 DEF VmInv, NothingBefore, Over
  <1>6. \A x \in Recordings : recording'[x] = recording[x] /\ speech'[x] = speech[x]
    BY <1>1
  <1>7. excused \subseteq excused'
    BY <1>1
  <1> QED BY <1>1, <1>2, <1>3, <1>4, <1>5, <1>6, <1>7, RecordingGoesOn

LEMMA SweepStartsKeeps ==
    ASSUME VmInv, SweepStarts
    PROVE  VmInv'
  <1>1. UNCHANGED <<recording, speech, age, encoded, forward, handler, got, excused, repeated>>
    BY DEF SweepStarts
  <1>2. VmTypeOK'
    BY <1>1 DEF SweepStarts, VmInv, VmTypeOK
  <1>3. \A x \in Recordings : (Over(x) <=> Over(x)') /\ (OnDisk(x)' => OnDisk(x))
            /\ (TextIsDue(x) => TextIsDue(x)')
    BY <1>1 DEF Over, OnDisk, TextIsDue
  <1>4. \A x \in Recordings : ~Over(x)' => age'[x] = "new"
    BY <1>1 DEF VmInv, NothingBefore, Over
  <1>5. \A x \in listed' : x \in Recordings /\ age[x] # "new"
    BY DEF SweepStarts
  <1>6. \A x \in listed' : Over(x)'
    BY <1>3, <1>4, <1>5, <1>1
  <1>7. \A x \in Recordings : recording'[x] = recording[x] /\ speech'[x] = speech[x]
    BY <1>1
  <1>8. excused \subseteq excused'
    BY <1>1
  <1> QED BY <1>1, <1>2, <1>3, <1>4, <1>6, <1>7, <1>8, RecordingGoesOn

\* A forward begins on a recording that may have another.
LEMMA ForwardBegins ==
    ASSUME VmInv, VmTypeOK', NEW f \in Forwarders, NEW r \in Recordings,
           ~Forwarding(f), f \in Recordings => r = f,
           forward' = [forward EXCEPT ![f] = [at |-> "probe", rec |-> r]],
           Over(r)', UNCHANGED <<speech, age, handler, got, excused>>,
           repeated' = repeated \cup {x \in {r} : Working(r) # {}},
           \A x \in Recordings : /\ Over(x) => recording'[x] = recording[x]
                                 /\ recording'[x] = "deleted" => recording[x] = "deleted",
           listed' \subseteq listed,
           Over(r) => OnDisk(r)
    PROVE  VmInv'
  <1>1. /\ Forwarding(f)' /\ forward'[f].at = "probe" /\ forward'[f].rec = r
        /\ \A g \in Forwarders : g # f => forward'[g] = forward[g]
    BY Beginning DEF VmInv
  <1>2. \A g \in Forwarders : /\ Forwarding(g)' <=> Forwarding(g) \/ g = f
                              /\ Forwarding(g) => g # f /\ forward'[g] = forward[g]
                              /\ AtStep(g, "wait")' <=> AtStep(g, "wait")
                              /\ AtStep(g, "wait") => g # f /\ forward'[g] = forward[g]
                              /\ AtStep(g, "text")' <=> AtStep(g, "text")
                              /\ AtStep(g, "text") => g # f /\ forward'[g] = forward[g]
                              /\ \A p \in Posts : Awaits(g, p)' <=> Awaits(g, p)
    BY <1>1 DEF AtStep, Awaits, Forwarding
  <1>3. /\ \A g \in Forwarders :
               Forwarding(g) => forward[g].rec \in Recordings /\ Over(forward[g].rec)
        /\ \A p \in Posts : Handling(p) => handler[p].rec \in Recordings /\ Over(handler[p].rec)
    BY ForwardType, HandlerType DEF VmInv, NothingBefore
  <1>4. \A x \in Recordings : Over(x) => Over(x)' /\ (TextIsDue(x) => TextIsDue(x)')
    BY DEF Over, TextIsDue
  <1>5. ScriptsOwn'
    BY <1>1, <1>2 DEF VmInv, ScriptsOwn, Handling, Forwarders
  <1>6. NothingBefore'
    <2>1. \A g \in Forwarders : Forwarding(g)' => Over(forward[g].rec)'
      BY <1>1, <1>2, <1>3 DEF Over
    <2>2. \A p \in Posts : Handling(p)' => Over(handler[p].rec)'
      BY <1>3 DEF Over, Handling
    <2>3. \A x \in listed' : Over(x)'
      BY DEF VmInv, VmTypeOK, NothingBefore, Over
    <2>4. \A x \in Recordings : ~Over(x)' => ~Over(x)
      BY <1>4
    <2> QED BY <2>1, <2>2, <2>3, <2>4 DEF VmInv, NothingBefore
  <1>7. WaitsForOwn' /\ SentIsTried' /\ VmTwiceOnlyAfterCut'
    BY <1>2 DEF VmInv, WaitsForOwn, SentIsTried, VmTwiceOnlyAfterCut, Handling, Awaits
  <1>8. TextsDue'
    <2>1. \A g \in Forwarders : AtStep(g, "text") => Forwarding(g)
      BY DEF AtStep, Forwarding
    <2>2. /\ \A g \in Forwarders : AtStep(g, "text")' => TextIsDue(forward[g].rec)'
          /\ \A p \in Posts :
                 Handling(p)' /\ handler'[p].audio = "none" => TextIsDue(handler[p].rec)'
      BY <1>2, <1>3, <2>1 DEF VmInv, TextsDue, TextIsDue, Handling, Over
    <2> QED BY <2>2 DEF TextsDue
  <1>9. VmSpeechAccounted'
    BY DEF VmInv, VmSpeechAccounted
  <1>10. OneForwarder'
    <2>1. ASSUME NEW g \in Forwarders, g # f, Forwarding(g), forward[g].rec = r
          PROVE  r \in repeated'
      BY <2>1 DEF Working, Forwarding
    <2> QED BY <1>1, <1>2, <2>1 DEF VmInv, OneForwarder
  <1>11. HandlersAwaited'
    BY <1>2 DEF VmInv, HandlersAwaited, Handling
  <1>12. NotedOnce'
    <2>1. \A x \in Recordings, u \in Audience : Noted(x, u)' => Over(x) /\ Noted(x, u)
      BY DEF VmInv, NothingBefore, Noted
    <2>2. \A u \in Audience : Noted(r, u) => r \in repeated'
      <3>1. SUFFICES ASSUME NEW u \in Audience, Noted(r, u), r \notin repeated
                     PROVE  Working(r) # {}
        OBVIOUS
      <3>2. PICK g \in Forwarders : AtStep(g, "wait") /\ forward[g].rec = r
        BY <2>1, <3>1 DEF VmInv, NotedOnce, Noted
      <3> QED BY <3>2 DEF Working, AtStep
    <2>3. \A x \in Recordings : Over(x) => (OnDisk(x)' <=> OnDisk(x))
      BY DEF OnDisk
    <2> QED BY <1>1, <1>2, <2>1, <2>2, <2>3 DEF VmInv, NotedOnce
  <1> QED BY <1>5, <1>6, <1>7, <1>8, <1>9, <1>10, <1>11, <1>12 DEF VmInv

LEMMA HangUpKeeps ==
    ASSUME VmInv, NEW r \in Recordings, NEW there \in BOOLEAN, HangUp(r, there)
    PROVE  VmInv'
  <1>1. r \in Forwarders /\ ~Over(r)
    BY DEF HangUp, Forwarders, Over
  <1>2. ~Forwarding(r)
    BY <1>1 DEF VmInv, ScriptsOwn, NothingBefore
  <1>3. Working(r) = {}
    BY <1>1 DEF VmInv, NothingBefore, Working, Forwarding
  <1>4. /\ recording'[r] \in {"closed", "missing"}
        /\ \A x \in Recordings : x # r => recording'[x] = recording[x]
        /\ recording' \in [Recordings -> {"none", "live", "closed", "missing", "deleted"}]
    BY DEF HangUp, VmInv, VmTypeOK
  <1>5. forward' = [forward EXCEPT ![r] = [at |-> "probe", rec |-> r]]
    BY DEF HangUp
  <1>6. VmTypeOK'
    BY <1>1, <1>4, <1>5, Beginning DEF HangUp, VmInv, VmTypeOK
  <1>7. Over(r)'
    BY <1>4 DEF Over
  <1>8. \A x \in Recordings : /\ Over(x) => recording'[x] = recording[x]
                              /\ recording'[x] = "deleted" => recording[x] = "deleted"
    BY <1>1, <1>4
  <1>9. UNCHANGED <<speech, age, handler, got, excused>> /\ listed' \subseteq listed
    BY DEF HangUp
  <1>10. repeated' = repeated \cup {x \in {r} : Working(r) # {}}
    BY <1>3 DEF HangUp
  <1> QED BY <1>1, <1>2, <1>5, <1>6, <1>7, <1>8, <1>9, <1>10, ForwardBegins

LEMMA SweepNextKeeps ==
    ASSUME VmInv, NEW r \in Recordings, SweepNext(r)
    PROVE  VmInv'
  <1>1. "sweep" \in Forwarders /\ ~Forwarding("sweep") /\ Over(r)
    BY DEF SweepNext, Forwarders, Forwarding, VmInv, NothingBefore
  <1>2. /\ listed' \subseteq listed
        /\ UNCHANGED <<speech, age, encoded, overdue, handler, got>>
    BY DEF SweepNext
  <1>3. CASE ~OnDisk(r)
    <2>1. UNCHANGED <<recording, forward, excused, repeated>>
      BY <1>3 DEF SweepNext
    <2>2. VmTypeOK'
      BY <1>2, <2>1 DEF VmInv, VmTypeOK
    <2>3. \A x \in Recordings : (Over(x) <=> Over(x)') /\ (OnDisk(x)' => OnDisk(x))
              /\ (TextIsDue(x) => TextIsDue(x)')
      BY <1>2, <2>1 DEF Over, OnDisk, TextIsDue
    <2>4. \A x \in Recordings : ~Over(x)' => age'[x] = "new"
      BY <1>2, <2>1 DEF VmInv, NothingBefore, Over
    <2>5. \A x \in listed' : Over(x)'
      BY <1>2, <2>1 DEF VmInv, NothingBefore, Over
    <2>6. \A x \in Recordings : recording'[x] = recording[x] /\ speech'[x] = speech[x]
      BY <1>2, <2>1
    <2>7. excused \subseteq excused'
      BY <2>1
    <2> QED BY <1>2, <2>1, <2>2, <2>3, <2>4, <2>5, <2>6, <2>7, RecordingGoesOn
  <1>4. CASE OnDisk(r) /\ r \in overdue
    <2>1. /\ recording' = [recording EXCEPT ![r] = "deleted"]
          /\ excused' = excused \cup {r}
          /\ UNCHANGED <<forward, repeated>>
      BY <1>4 DEF SweepNext, Excuse
    <2>2. /\ recording'[r] = "deleted"
          /\ \A x \in Recordings : x # r => recording'[x] = recording[x]
      BY <2>1 DEF VmInv, VmTypeOK
    <2>3. VmTypeOK'
      BY <1>2, <2>1 DEF VmInv, VmTypeOK
    <2>4. \A x \in Recordings : (Over(x) <=> Over(x)') /\ (OnDisk(x)' => OnDisk(x))
              /\ (TextIsDue(x) => TextIsDue(x)')
      BY <1>1, <1>2, <2>1, <2>2 DEF Over, OnDisk, TextIsDue
    <2>5. \A x \in Recordings : ~Over(x)' => age'[x] = "new"
      BY <1>2, <2>4 DEF VmInv, NothingBefore
    <2>6. \A x \in listed' : Over(x)'
      BY <1>2, <2>4 DEF VmInv, VmTypeOK, NothingBefore
    <2>7. \A x \in Recordings : recording'[x] = "deleted" =>
              x \in excused' \/ (recording[x] = "deleted" /\ speech'[x] = speech[x])
      BY <1>2, <2>1, <2>2
    <2>8. \A x \in Recordings : speech'[x] = speech[x]
      BY <1>2
    <2>9. excused \subseteq excused'
      BY <2>1
    <2> QED BY <1>2, <2>1, <2>3, <2>4, <2>5, <2>6, <2>7, <2>8, <2>9, RecordingGoesOn
  <1>5. CASE OnDisk(r) /\ r \notin overdue
    <2>1. /\ forward' = [forward EXCEPT !["sweep"] = [at |-> "probe", rec |-> r]]
          /\ repeated' = repeated \cup {x \in {r} : Working(r) # {}}
          /\ UNCHANGED <<recording, excused>>
      BY <1>5 DEF SweepNext
    <2>2. VmTypeOK'
      BY <1>1, <1>2, <2>1, Beginning DEF VmInv, VmTypeOK
    <2>3. Over(r)' /\ "sweep" \notin Recordings
      BY <1>1, <2>1 DEF Over
    <2>4. \A x \in Recordings : recording'[x] = recording[x]
      BY <2>1
    <2> QED BY <1>1, <1>2, <1>5, <2>1, <2>2, <2>3, <2>4, ForwardBegins
  <1> QED BY <1>3, <1>4, <1>5

\* Scripts in wait of an answer leave their recordings behind.
LEMMA AsteriskDiesKeeps ==
    ASSUME VmInv, AsteriskDies
    PROVE  VmInv'
  <1> DEFINE cut == {r \in Recordings : Forwarding(r) /\ forward[r].at = "wait"}
  <1>1. /\ \A r \in Recordings : recording'[r] =
               IF recording[r] = "live" THEN "closed" ELSE recording[r]
        /\ \A f \in Forwarders : forward'[f] = IF f = "sweep" THEN forward[f] ELSE NoForward
        /\ repeated' = repeated \cup cut
        /\ UNCHANGED <<speech, age, encoded, listed, overdue, handler, got, excused>>
    BY DEF AsteriskDies, Forwarding
  <1>2. cut \subseteq Recordings /\ \A r \in Recordings : AtStep(r, "wait") => r \in cut
    BY DEF AtStep, Forwarding
  <1> HIDE DEF cut
  <1>3. VmTypeOK'
    <2>1. recording' \in [Recordings -> {"none", "live", "closed", "missing", "deleted"}]
      BY DEF AsteriskDies, VmInv, VmTypeOK
    <2>2. forward' \in [Forwarders -> {NoForward} \cup ForwardSteps \cup ForwardWaits]
      BY DEF AsteriskDies, VmInv, VmTypeOK
    <2>3. repeated' \subseteq Recordings
      BY <1>1, <1>2 DEF VmInv, VmTypeOK
    <2> QED BY <1>1, <2>1, <2>2, <2>3 DEF VmInv, VmTypeOK
  <1>4. \A f \in Forwarders : /\ Forwarding(f)' <=> f = "sweep" /\ Forwarding(f)
                              /\ AtStep(f, "wait")' <=> f = "sweep" /\ AtStep(f, "wait")
                              /\ AtStep(f, "text")' <=> f = "sweep" /\ AtStep(f, "text")
                              /\ f = "sweep" => forward'[f] = forward[f]
                              /\ \A p \in Posts : Awaits(f, p)' <=> f = "sweep" /\ Awaits(f, p)
    BY <1>1 DEF Forwarding, Awaits, AtStep
  <1>5. /\ \A f \in Forwarders :
               /\ Forwarding(f) => forward[f].rec \in Recordings /\ Over(forward[f].rec)
               /\ f # "sweep" => f \in Recordings
        /\ \A p \in Posts : Handling(p) => handler[p].rec \in Recordings /\ Over(handler[p].rec)
    BY ForwardType, HandlerType DEF VmInv, NothingBefore, Forwarders
  <1>6. \A r \in Recordings : /\ Over(r) => Over(r)' /\ recording'[r] = recording[r]
                              /\ TextIsDue(r) => TextIsDue(r)'
                              /\ OnDisk(r)' => OnDisk(r)
    BY <1>1 DEF Over, TextIsDue, OnDisk
  <1>7. ScriptsOwn' /\ WaitsForOwn' /\ SentIsTried' /\ VmTwiceOnlyAfterCut'
    BY <1>1, <1>4 DEF VmInv, ScriptsOwn, WaitsForOwn, SentIsTried, VmTwiceOnlyAfterCut,
       Handling, Awaits, Forwarders
  <1>8. NothingBefore'
    <2>1. /\ \A f \in Forwarders : Forwarding(f)' => Over(forward[f].rec)'
          /\ \A p \in Posts : Handling(p)' => Over(handler[p].rec)'
      BY <1>1, <1>4, <1>5, <1>6 DEF Handling, Over
    <2>2. \A r \in listed' : Over(r)'
      BY <1>1, <1>6 DEF VmInv, VmTypeOK, NothingBefore
    <2>3. \A r \in Recordings : ~Over(r)' => ~Over(r)
      BY <1>6
    <2> QED BY <1>1, <2>1, <2>2, <2>3 DEF VmInv, NothingBefore
  <1>9. TextsDue'
    <2>1. \A f \in Forwarders : AtStep(f, "text") => Forwarding(f)
      BY DEF AtStep, Forwarding
    <2>2. /\ \A f \in Forwarders : AtStep(f, "text")' => TextIsDue(forward[f].rec)'
          /\ \A p \in Posts :
                 Handling(p)' /\ handler'[p].audio = "none" => TextIsDue(handler[p].rec)'
      BY <1>1, <1>4, <1>5, <1>6, <2>1 DEF VmInv, TextsDue, TextIsDue, Handling
    <2> QED BY <2>2 DEF TextsDue
  <1>10. VmSpeechAccounted'
    BY <1>1 DEF VmInv, VmSpeechAccounted
  <1>11. OneForwarder'
    BY <1>4 DEF OneForwarder
  <1>12. HandlersAwaited'
    <2>1. ASSUME NEW f \in Forwarders, NEW p \in Posts, Awaits(f, p), f # "sweep"
          PROVE  handler[p].rec \in repeated'
      BY <1>1, <1>2, <1>5, <2>1 DEF VmInv, ScriptsOwn, WaitsForOwn, Awaits, AtStep, Forwarding
    <2> QED BY <1>1, <1>4, <2>1 DEF VmInv, HandlersAwaited, Handling
  <1>13. NotedOnce'
    <2>1. SUFFICES ASSUME NEW r \in Recordings, NEW u \in Audience,
                          r \notin repeated', Noted(r, u)
                   PROVE  /\ \A f \in Forwarders : Forwarding(f)' /\ forward'[f].rec = r =>
                                 \E p \in Posts : Awaits(f, p)' /\ u \notin handler'[p].to
                          /\ OnDisk(r)' => \E f \in Forwarders : AtStep(f, "wait")' /\ forward'[f].rec = r
      BY <1>1 DEF NotedOnce, Noted
    <2>2. r \notin repeated /\ r \notin cut
      BY <1>1, <2>1
    <2>3. /\ \A f \in Forwarders : Forwarding(f) /\ forward[f].rec = r =>
                 \E p \in Posts : Awaits(f, p) /\ u \notin handler[p].to
          /\ OnDisk(r) => \E f \in Forwarders : AtStep(f, "wait") /\ forward[f].rec = r
      BY <2>1, <2>2 DEF VmInv, NotedOnce
    <2>4. \A f \in Forwarders : AtStep(f, "wait") /\ forward[f].rec = r => f = "sweep"
      BY <1>2, <1>5, <2>2 DEF VmInv, ScriptsOwn, AtStep, Forwarding
    <2> QED BY <1>1, <1>4, <1>6, <2>3, <2>4
  <1> QED BY <1>3, <1>7, <1>8, <1>9, <1>10, <1>11, <1>12, <1>13 DEF VmInv

-----------------------------------------------------------------------------
(* The specification                                                        *)

LEMMA VmInitHolds == VmInit => VmInv
  <1> SUFFICES ASSUME VmInit PROVE VmInv
    OBVIOUS
  <1>1. VmTypeOK
    BY DEF VmInit, VmTypeOK
  <1>2. /\ \A f \in Forwarders : ~Forwarding(f) /\ forward[f] = NoForward
        /\ \A p \in Posts : ~Handling(p)
        /\ \A r \in Recordings, u \in Audience : got[r][u] = "nothing"
        /\ \A r \in Recordings : recording[r] = "none" /\ age[r] = "new"
        /\ listed = {}
    BY DEF VmInit, Forwarding, Handling
  <1>3. ScriptsOwn /\ NothingBefore
    BY <1>2 DEF ScriptsOwn, NothingBefore, Forwarders
  <1>4. WaitsForOwn /\ TextsDue /\ SentIsTried
    BY <1>2 DEF WaitsForOwn, TextsDue, SentIsTried, Awaits, AtStep
  <1>5. VmSpeechAccounted /\ OneForwarder /\ HandlersAwaited /\ NotedOnce /\ VmTwiceOnlyAfterCut
    BY <1>2 DEF VmSpeechAccounted, OneForwarder, HandlersAwaited, NotedOnce, Noted,
       VmTwiceOnlyAfterCut
  <1> QED BY <1>1, <1>3, <1>4, <1>5 DEF VmInv

LEMMA VmStutters == VmInv /\ UNCHANGED vmVars => VmInv'
  BY DEF VmInv, VmTypeOK, vmVars, Forwarding, Handling, Over, AtStep, Awaits, ScriptsOwn,
     NothingBefore, WaitsForOwn, TextIsDue, TextsDue, SentIsTried, VmSpeechAccounted,
     OneForwarder, HandlersAwaited, Noted, NotedOnce, OnDisk, VmTwiceOnlyAfterCut

LEMMA VmStepKeeps == VmInv /\ [VmNext]_vmVars => VmInv'
  <1> SUFFICES ASSUME VmInv, [VmNext]_vmVars PROVE VmInv'
    OBVIOUS
  <1>1. CASE AsteriskDies
    BY <1>1, AsteriskDiesKeeps
  <1>2. CASE SweepWorks
    BY <1>2, SweepStartsKeeps, SweepNextKeeps DEF SweepWorks
  <1>3. ASSUME NEW r \in Recordings, NEW b \in BOOLEAN,
               StartRecording(r, b) \/ HangUp(r, b) \/ Grow(r)
        PROVE  VmInv'
    BY <1>3, StartKeeps, HangUpKeeps, GrowKeeps
  <1>4. ASSUME NEW f \in Forwarders, ForwardWorks(f) PROVE VmInv'
    BY <1>4, ProbeKeeps, EncodeKeeps, EncodedKeeps, PostNoteKeeps, PostTextKeeps, StopKeeps,
       AnsweredKeeps, UnansweredKeeps DEF ForwardWorks
  <1>5. ASSUME NEW p \in Posts, HandlerWorks(p) PROVE VmInv'
    BY <1>5, SendToKeeps, HandlerEndsKeeps DEF HandlerWorks
  <1> QED BY <1>1, <1>2, <1>3, <1>4, <1>5, VmStutters DEF VmNext

\* The invariant of the voicemail: scripts, sweeper and handlers agree on what
\* is still owed to each recording.
THEOREM VmInductive == VmSpec => []VmInv
  BY VmInitHolds, VmStepKeeps, PTL DEF VmSpec

\* Every variable keeps its type.
THEOREM VmTypeCorrect == VmSpec => []VmTypeOK
  <1>1. VmInv => VmTypeOK
    BY DEF VmInv
  <1> QED BY <1>1, VmInductive, PTL

\* A deleted recording whose speech a user was never sent was excused: its
\* probe failed, or its retention had ended (forward_recording and the sweep).
THEOREM SpeechAccounted == VmSpec => []VmSpeechAccounted
  <1>1. VmInv => VmSpeechAccounted
    BY DEF VmInv
  <1> QED BY <1>1, VmInductive, PTL

\* A user has a note twice only of a recording whose forward was cut off after
\* its post or was begun beside another: between the AGI script, the sweeper and
\* handlers that nobody waits for any more, no other order of steps does it.
THEOREM TwiceOnlyAfterCut == VmSpec => []VmTwiceOnlyAfterCut
  <1>1. VmInv => VmTwiceOnlyAfterCut
    BY DEF VmInv
  <1> QED BY <1>1, VmInductive, PTL

=============================================================================
