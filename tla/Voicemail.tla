----------------------------- MODULE Voicemail -----------------------------
(***************************************************************************)
(* A voicemail from the hang-up of its caller to the voice note in         *)
(* Telegram.  The h extension of the dialplan starts an AGI script that    *)
(* forwards the recording once; a sweeper, started again and again by a    *)
(* timer, forwards what is left behind (core/voicemail_forward.py is the   *)
(* forward of both).  A forward probes the recording, encodes it to a file *)
(* beside it, posts that to the userbot and deletes the recording when the *)
(* userbot answers ok; the userbot sends to its users one after another    *)
(* and answers ok whatever became of that.                                 *)
(*                                                                         *)
(* The AGI script takes up to seven minutes when its tools hang, and a     *)
(* recording is the sweeper's after five, so the two may work on the same  *)
(* recording; they share the name of the encoded file.                     *)
(***************************************************************************)
CONSTANTS
    Recordings,
    Audience,       \* users with the in_call right
    Posts           \* bounds the posts that the userbot handles at once

ASSUME SweeperAssumption == "sweep" \notin Recordings

VARIABLES
    recording,  \* where a recording is in its life
    speech,     \* whether the caller said something
    age,        \* how old a recording is for the sweeper
    encoded,    \* the encoded file beside the recording
    forward,    \* what a forwarder is doing: the AGI script of a recording, the sweeper
    listed,     \* recordings the sweep in progress has still to look at
    overdue,    \* those of them that were past retention when it began
    handler,    \* the userbot's handlers, one per post
    got,        \* what became of the recording for a user
    excused,    \* history: recordings whose probe failed or whose retention ended
    repeated    \* history: recordings whose forward may have been done already

vmVars == <<recording, speech, age, encoded, forward, listed, overdue, handler,
            got, excused, repeated>>

Forwarders == Recordings \cup {"sweep"}
NoForward == [at |-> "idle"]
NoHandler == [to |-> {}]
OnDisk(r) == recording[r] \in {"live", "closed"}

ForwardSteps == [at : {"probe", "encode", "encoding", "read", "read_raw", "text"}, rec : Recordings]
ForwardWaits == [at : {"wait"}, rec : Recordings, post : Posts]

VmTypeOK ==
    /\ recording \in [Recordings -> {"none", "live", "closed", "missing", "deleted"}]
    /\ speech \in [Recordings -> BOOLEAN]
    /\ age \in [Recordings -> {"new", "sweepable", "expired"}]
    /\ encoded \in [Recordings -> {"absent", "partial", "whole"}]
    /\ forward \in [Forwarders -> {NoForward} \cup ForwardSteps \cup ForwardWaits]
    /\ listed \subseteq Recordings /\ overdue \subseteq Recordings
    /\ handler \in [Posts -> {NoHandler} \cup
            [to : SUBSET Audience, rec : Recordings, audio : {"none", "partial", "whole"}]]
    /\ got \in [Recordings -> [Audience -> {"nothing", "failure", "note", "two_notes"}]]
    /\ excused \subseteq Recordings /\ repeated \subseteq Recordings

VmInit ==
    /\ recording = [r \in Recordings |-> "none"]
    /\ speech = [r \in Recordings |-> FALSE]
    /\ age = [r \in Recordings |-> "new"]
    /\ encoded = [r \in Recordings |-> "absent"]
    /\ forward = [f \in Forwarders |-> NoForward]
    /\ listed = {} /\ overdue = {}
    /\ handler = [p \in Posts |-> NoHandler]
    /\ got = [r \in Recordings |-> [u \in Audience |-> "nothing"]]
    /\ excused = {} /\ repeated = {}

AtStep(f, step) == forward[f] # NoForward /\ forward[f].at = step
Awaits(f, p) == AtStep(f, "wait") /\ forward[f].post = p
StepTo(f, step) == forward' = [forward EXCEPT ![f].at = step]
Working(r) == {f \in Forwarders : forward[f] # NoForward /\ forward[f].rec = r}
Excuse(r) == excused' = excused \cup {r}

-----------------------------------------------------------------------------
(* The call.                                                                *)

\* MixMonitor records from the answer on, before the greeting is played.
StartRecording(r, says) ==
    /\ recording[r] = "none"
    /\ recording' = [recording EXCEPT ![r] = "live"]
    /\ speech' = [speech EXCEPT ![r] = says]
    /\ UNCHANGED <<age, encoded, forward, listed, overdue, handler, got, excused, repeated>>

\* h extension: the file is finalised, then the AGI script runs; the file may
\* not be there, for want of disk space.
HangUp(r, there) ==
    /\ recording[r] = "live"
    /\ recording' = [recording EXCEPT ![r] = IF there THEN "closed" ELSE "missing"]
    /\ forward' = [forward EXCEPT ![r] = [at |-> "probe", rec |-> r]]
    /\ UNCHANGED <<speech, age, encoded, listed, overdue, handler, got, excused, repeated>>

\* Asterisk dies: the recordings in progress have no h extension, the scripts
\* that run are gone with it, and so is what they were about to delete.
AsteriskDies ==
    LET running == {r \in Recordings : forward[r] # NoForward} IN
    /\ \E r \in Recordings : recording[r] = "live" \/ forward[r] # NoForward
    /\ recording' = [r \in Recordings |->
            IF recording[r] = "live" THEN "closed" ELSE recording[r]]
    /\ forward' = [f \in Forwarders |-> IF f = "sweep" THEN forward[f] ELSE NoForward]
    /\ repeated' = repeated \cup {r \in running : forward[r].at = "wait"}
    /\ UNCHANGED <<speech, age, encoded, listed, overdue, handler, got, excused>>

Grow(r) ==
    /\ recording[r] = "closed"
    /\ age[r] # "expired"
    /\ age' = [age EXCEPT ![r] = IF @ = "new" THEN "sweepable" ELSE "expired"]
    /\ UNCHANGED <<recording, speech, encoded, forward, listed, overdue, handler, got, excused, repeated>>

-----------------------------------------------------------------------------
(* The sweeper: systemd starts no second one while it runs.                 *)

Sweeping == listed # {} \/ forward["sweep"] # NoForward

SweepStarts ==
    /\ ~Sweeping
    /\ listed' = {r \in Recordings : OnDisk(r) /\ age[r] # "new"}
    /\ listed' # {}
    /\ overdue' = {r \in Recordings : age[r] = "expired"}
    /\ UNCHANGED <<recording, speech, age, encoded, forward, handler, got, excused, repeated>>

\* Mutant: what is past its retention is forwarded like the rest.
SweepNextNoRetention(r) ==
    /\ forward["sweep"] = NoForward
    /\ r \in listed
    /\ listed' = listed \ {r}
    /\ IF OnDisk(r)
       THEN /\ forward' = [forward EXCEPT !["sweep"] = [at |-> "probe", rec |-> r]]
            /\ repeated' = repeated \cup {x \in {r} : Working(r) # {}}
       ELSE UNCHANGED <<forward, repeated>>
    /\ UNCHANGED <<recording, speech, age, encoded, overdue, handler, got, excused>>

\* The next of the list: one that has gone since is passed over, one past its
\* retention is deleted, any other is forwarded.
SweepNext(r) ==
    /\ forward["sweep"] = NoForward
    /\ r \in listed
    /\ listed' = listed \ {r}
    /\ CASE ~OnDisk(r) -> UNCHANGED <<recording, forward, excused, repeated>>
         [] OnDisk(r) /\ r \in overdue ->
                /\ recording' = [recording EXCEPT ![r] = "deleted"]
                /\ Excuse(r)
                /\ UNCHANGED <<forward, repeated>>
         [] OTHER ->
                /\ forward' = [forward EXCEPT !["sweep"] = [at |-> "probe", rec |-> r]]
                /\ repeated' = repeated \cup {x \in {r} : Working(r) # {}}
                /\ UNCHANGED <<recording, excused>>
    /\ UNCHANGED <<speech, age, encoded, overdue, handler, got>>

-----------------------------------------------------------------------------
(* forward_recording, for the AGI script and for the sweeper.               *)

\* ffprobe gives the duration, or 0.0 for any failure of its own; without
\* audio after the greeting only a text is sent.
Probe(f, works) ==
    LET r == forward[f].rec IN
    /\ AtStep(f, "probe")
    /\ CASE ~OnDisk(r) -> StepTo(f, "text") /\ UNCHANGED excused
         [] OnDisk(r) /\ ~works ->
                /\ StepTo(f, "text")
                /\ Excuse(r)
         [] OTHER ->
                /\ StepTo(f, IF speech[r] THEN "encode" ELSE "text")
                /\ UNCHANGED excused
    /\ UNCHANGED <<recording, speech, age, encoded, listed, overdue, handler, got, repeated>>

\* ffmpeg -y begins a file of its own, over one that is there.
Encode(f) ==
    LET r == forward[f].rec IN
    /\ AtStep(f, "encode")
    /\ encoded' = [encoded EXCEPT ![r] = "partial"]
    /\ StepTo(f, "encoding")
    /\ UNCHANGED <<recording, speech, age, listed, overdue, handler, got, excused, repeated>>

\* With the encoded file there it is sent, otherwise the recording itself.
Encoded(f, works) ==
    LET r == forward[f].rec IN
    /\ AtStep(f, "encoding")
    /\ IF works /\ encoded[r] # "absent" /\ OnDisk(r)
       THEN /\ encoded' = [encoded EXCEPT ![r] = "whole"]
            /\ StepTo(f, "read")
       ELSE /\ StepTo(f, "read_raw")
            /\ UNCHANGED encoded
    /\ UNCHANGED <<recording, speech, age, listed, overdue, handler, got, excused, repeated>>

Reading(f) == AtStep(f, "read") \/ AtStep(f, "read_raw")

\* What the post would carry; nothing if the file is no longer there.
Payload(f) ==
    LET r == forward[f].rec IN
    IF AtStep(f, "read") THEN encoded[r]
    ELSE IF OnDisk(r) THEN "whole" ELSE "absent"

\* The userbot starts a handler, whatever others are still at.
Post(f, p, audio) ==
    /\ handler[p] = NoHandler
    /\ handler' = [handler EXCEPT ![p] =
            [to |-> Audience, rec |-> forward[f].rec, audio |-> audio]]
    /\ forward' = [forward EXCEPT ![f] = [at |-> "wait", rec |-> @.rec, post |-> p]]

PostNote(f, p) ==
    /\ Reading(f)
    /\ Payload(f) # "absent"
    /\ Post(f, p, Payload(f))
    /\ UNCHANGED <<recording, speech, age, encoded, listed, overdue, got, excused, repeated>>

PostText(f, p) ==
    /\ AtStep(f, "text")
    /\ Post(f, p, "none")
    /\ UNCHANGED <<recording, speech, age, encoded, listed, overdue, got, excused, repeated>>

\* The finally clause of a forward with audio removes the encoded file,
\* whoever made it.
DropEncoded(f) ==
    encoded' = IF Reading(f) \/ (AtStep(f, "wait") /\ handler[forward[f].post].audio # "none")
               THEN [encoded EXCEPT ![forward[f].rec] = "absent"] ELSE encoded

\* open raises: the AGI script answers error=internal, the sweep dies.
FileGone(f) ==
    /\ Reading(f)
    /\ Payload(f) = "absent"
    /\ forward' = [forward EXCEPT ![f] = NoForward]
    /\ listed' = IF f = "sweep" THEN {} ELSE listed
    /\ DropEncoded(f)
    /\ UNCHANGED <<recording, speech, age, overdue, handler, got, excused, repeated>>

\* Mutant: the recording is deleted whatever the userbot answers.
PostRefusedDeleting(f) ==
    LET r == forward[f].rec IN
    /\ Reading(f) \/ AtStep(f, "text")
    /\ recording' = [recording EXCEPT ![r] = IF OnDisk(r) THEN "deleted" ELSE @]
    /\ forward' = [forward EXCEPT ![f] = NoForward]
    /\ DropEncoded(f)
    /\ UNCHANGED <<speech, age, listed, overdue, handler, got, excused, repeated>>

\* Userbot down or refusing: the recording is kept.
PostRefused(f) ==
    /\ Reading(f) \/ AtStep(f, "text")
    /\ forward' = [forward EXCEPT ![f] = NoForward]
    /\ DropEncoded(f)
    /\ UNCHANGED <<recording, speech, age, listed, overdue, handler, got, excused, repeated>>

\* Mutant: the recording is left to the sweeper.
ForwardAnsweredKeeping(f, p) ==
    /\ Awaits(f, p) /\ handler[p].to = {}
    /\ forward' = [forward EXCEPT ![f] = NoForward]
    /\ handler' = [handler EXCEPT ![p] = NoHandler]
    /\ DropEncoded(f)
    /\ UNCHANGED <<recording, speech, age, listed, overdue, got, excused, repeated>>

\* The answer is ok, once the handler is through: the recording is deleted.
ForwardAnswered(f, p) ==
    LET r == forward[f].rec IN
    /\ Awaits(f, p) /\ handler[p].to = {}
    /\ recording' = [recording EXCEPT ![r] = IF OnDisk(r) THEN "deleted" ELSE @]
    /\ forward' = [forward EXCEPT ![f] = NoForward]
    /\ handler' = [handler EXCEPT ![p] = NoHandler]
    /\ DropEncoded(f)
    /\ UNCHANGED <<speech, age, listed, overdue, got, excused, repeated>>

\* No answer within 30 s: the recording is kept, and the handler goes on.
ForwardUnanswered(f) ==
    /\ AtStep(f, "wait")
    /\ forward' = [forward EXCEPT ![f] = NoForward]
    /\ repeated' = repeated \cup {forward[f].rec}
    /\ DropEncoded(f)
    /\ UNCHANGED <<recording, speech, age, listed, overdue, handler, got, excused>>

-----------------------------------------------------------------------------
(* handle_voicemail_event of the userbot.                                   *)

\* A send that fails, or carries a file that is cut short, is not a note.
Result(before, works) ==
    CASE works /\ before \in {"note", "two_notes"} -> "two_notes"
      [] works /\ before \in {"nothing", "failure"} -> "note"
      [] ~works /\ before = "nothing" -> "failure"
      [] OTHER -> before

\* The text and then the voice note to the next user; what fails for one user
\* does not keep the next from his.
SendTo(p, u, works) ==
    LET h == handler[p] IN
    /\ h # NoHandler /\ u \in h.to
    /\ handler' = [handler EXCEPT ![p].to = @ \ {u}]
    /\ got' = IF h.audio = "none" THEN got
              ELSE [got EXCEPT ![h.rec][u] = Result(@, works /\ h.audio = "whole")]
    /\ UNCHANGED <<recording, speech, age, encoded, forward, listed, overdue, excused, repeated>>

\* The sender has gone, and nobody takes the answer.
HandlerEnds(p) ==
    /\ handler[p] # NoHandler /\ handler[p].to = {}
    /\ \A f \in Forwarders : ~Awaits(f, p)
    /\ handler' = [handler EXCEPT ![p] = NoHandler]
    /\ UNCHANGED <<recording, speech, age, encoded, forward, listed, overdue, got, excused, repeated>>

SweepWorks == SweepStarts \/ \E r \in Recordings : SweepNext(r)

ForwardWorks(f) ==
    \/ \E b \in BOOLEAN : Probe(f, b) \/ Encoded(f, b)
    \/ Encode(f) \/ FileGone(f) \/ PostRefused(f) \/ ForwardUnanswered(f)
    \/ \E p \in Posts : PostNote(f, p) \/ PostText(f, p) \/ ForwardAnswered(f, p)

HandlerWorks(p) ==
    HandlerEnds(p) \/ \E u \in Audience, b \in BOOLEAN : SendTo(p, u, b)

VmNext ==
    \/ AsteriskDies \/ SweepWorks
    \/ \E r \in Recordings : \/ \E b \in BOOLEAN : StartRecording(r, b) \/ HangUp(r, b)
                             \/ Grow(r)
    \/ \E f \in Forwarders : ForwardWorks(f)
    \/ \E p \in Posts : HandlerWorks(p)

VmSpec == VmInit /\ [][VmNext]_vmVars

\* The timer starts the sweeper again and again, time passes, and every tool,
\* request and send has a timeout of its own.  Nothing has to work.
VmFairness ==
    /\ WF_vmVars(SweepWorks)
    /\ \A r \in Recordings : WF_vmVars(Grow(r))
    /\ \A f \in Forwarders : WF_vmVars(ForwardWorks(f))
    /\ \A p \in Posts : WF_vmVars(HandlerWorks(p))

-----------------------------------------------------------------------------
\* Nobody loses a message without a failure of his own: a user who never got
\* what the caller said, though the recording is deleted, is one whose send
\* failed or was garbled by the other forwarder, or the recording could not be
\* probed, or it was kept for the whole retention.
VmSpeechAccounted ==
    \A r \in Recordings, u \in Audience :
        recording[r] = "deleted" /\ speech[r] /\ got[r][u] = "nothing" => r \in excused

\* A voice note comes twice only when a forward was cut off after its post, or
\* the sweeper took up what the AGI script was still at.
VmTwiceOnlyAfterCut ==
    \A r \in Recordings, u \in Audience : got[r][u] = "two_notes" => r \in repeated

\* "a failed forward keeps it for retry": before its retention ends, a
\* recording that could be probed is not deleted with nobody having got it.
VmFailedForwardKept ==
    \A r \in Recordings :
        recording[r] = "deleted" /\ speech[r] /\ r \notin excused =>
            \E u \in Audience : got[r][u] \in {"note", "two_notes"}

\* Every closed recording leaves the disk in the end, forwarded or not.
VmDiskIsFreed == \A r \in Recordings : recording[r] = "closed" ~> recording[r] = "deleted"
=============================================================================
