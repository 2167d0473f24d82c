----------------------------- MODULE Admission -----------------------------
(***************************************************************************)
(* What stands before a handler of the agent: the bearer token and the     *)
(* address of the client, the correlation id that must not have been seen  *)
(* within the replay window (agent/deps.py), and for POST /sms and POST    *)
(* /call the sliding window of a user's requests (core/ratelimit.py).      *)
(* All of it lives in memory and is lost when the agent restarts.          *)
(*                                                                         *)
(* A time is a whole number.  A bucket holds the requests whose timestamps *)
(* the code keeps: two requests may bear the same time.                    *)
(***************************************************************************)
EXTENDS Integers, FiniteSets

CONSTANTS
    Requests,
    Users,          \* keys of the limiter: "sms:<user>", "call:<user>"
    CorrelationIds,
    NoId,           \* a request without the header
    MaxRequests,    \* limits.sms_per_hour, limits.calls_per_minute
    Window,         \* the limiter's window
    ReplayWindow,   \* limits.replay_window_seconds
    LastTime        \* bound: the clock of a run stops there

ASSUME AdmissionConstants ==
    /\ MaxRequests \in Nat /\ Window \in Nat \ {0} /\ ReplayWindow \in Nat
    /\ LastTime \in Nat
    /\ NoId \notin CorrelationIds

VARIABLES
    clock,      \* time.monotonic()
    bucket,     \* requests in the limiter's bucket of a user
    seen,       \* when an id was seen, in _seen_ids
    result,     \* what became of a request
    passedAt,   \* when it passed the gate
    decidedAt,  \* when the limiter decided on it
    sender,     \* its user
    cid         \* its correlation id

admVars == <<clock, bucket, seen, result, passedAt, decidedAt, sender, cid>>

Never == -1
Results == {"none", "refused", "replayed", "passed", "limited", "admitted", "forgotten"}

AdmTypeOK ==
    /\ clock \in Nat
    /\ bucket \in [Users -> SUBSET Requests]
    /\ seen \in [CorrelationIds -> Nat \cup {Never}]
    /\ result \in [Requests -> Results]
    /\ passedAt \in [Requests -> Nat] /\ decidedAt \in [Requests -> Nat]
    /\ sender \in [Requests -> Users]
    /\ cid \in [Requests -> CorrelationIds \cup {NoId}]

AdmInit ==
    /\ clock = 0
    /\ bucket = [u \in Users |-> {}]
    /\ seen = [i \in CorrelationIds |-> Never]
    /\ result = [r \in Requests |-> "none"]
    /\ passedAt = [r \in Requests |-> 0] /\ decidedAt = [r \in Requests |-> 0]
    /\ \E u \in Users : sender = [r \in Requests |-> u]
    /\ cid = [r \in Requests |-> NoId]

Tick ==
    /\ clock < LastTime
    /\ clock' = clock + 1
    /\ UNCHANGED <<bucket, seen, result, passedAt, decidedAt, sender, cid>>

\* check_auth and check_ip come first: a refused request leaves no id behind.
Refuse(r) ==
    /\ result[r] = "none"
    /\ result' = [result EXCEPT ![r] = "refused"]
    /\ UNCHANGED <<clock, bucket, seen, passedAt, decidedAt, sender, cid>>

\* Mutant: an entry goes when it is as old as the window.
RememberedShort == [i \in CorrelationIds |->
                     IF seen[i] # Never /\ clock - seen[i] >= ReplayWindow
                     THEN Never ELSE seen[i]]

\* _seen_ids without the entries that are older than the window.
Remembered == [i \in CorrelationIds |->
                IF seen[i] # Never /\ clock - seen[i] > ReplayWindow
                THEN Never ELSE seen[i]]

IsDuplicate(i) == i # NoId /\ Remembered[i] # Never

\* check_replay: the id is recorded before the handler runs.
Gate(r, u, i) ==
    /\ result[r] = "none"
    /\ sender' = [sender EXCEPT ![r] = u]
    /\ cid' = [cid EXCEPT ![r] = i]
    /\ passedAt' = [passedAt EXCEPT ![r] = clock]
    /\ result' = [result EXCEPT ![r] = IF IsDuplicate(i) THEN "replayed" ELSE "passed"]
    /\ seen' = IF i = NoId THEN seen
               ELSE IF IsDuplicate(i) THEN Remembered
               ELSE [Remembered EXCEPT ![i] = clock]
    /\ UNCHANGED <<clock, bucket, decidedAt>>

\* Mutant: an entry leaves the bucket one unit too early.
RecentShort(u) == {r \in bucket[u] : decidedAt[r] > clock - Window + 1}

\* Mutant: entries never leave the bucket.
RecentAll(u) == bucket[u]

\* The entries of a bucket that are later than the cutoff.
Recent(u) == {r \in bucket[u] : decidedAt[r] > clock - Window}

\* allow, as the handlers of POST /sms and POST /call use it.
Allow(r) ==
    LET u == sender[r] IN
    /\ result[r] = "passed"
    /\ decidedAt' = [decidedAt EXCEPT ![r] = clock]
    /\ IF Cardinality(Recent(u)) >= MaxRequests
       THEN /\ bucket' = [bucket EXCEPT ![u] = Recent(u)]
            /\ result' = [result EXCEPT ![r] = "limited"]
       ELSE /\ bucket' = [bucket EXCEPT ![u] = Recent(u) \cup {r}]
            /\ result' = [result EXCEPT ![r] = "admitted"]
    /\ UNCHANGED <<clock, seen, passedAt, sender, cid>>

AgentRestarts ==
    /\ bucket' = [u \in Users |-> {}]
    /\ seen' = [i \in CorrelationIds |-> Never]
    /\ result' = [r \in Requests |-> IF result[r] = "none" THEN "none" ELSE "forgotten"]
    /\ UNCHANGED <<clock, passedAt, decidedAt, sender, cid>>

AdmNext ==
    \/ Tick \/ AgentRestarts
    \/ \E r \in Requests : Refuse(r) \/ Allow(r)
    \/ \E r \in Requests, u \in Users, i \in CorrelationIds \cup {NoId} : Gate(r, u, i)

AdmSpec == AdmInit /\ [][AdmNext]_admVars

-----------------------------------------------------------------------------
\* The requests of a user that were admitted in the window that ends at t.
Admitted(u, t) ==
    {r \in Requests : /\ result[r] = "admitted" /\ sender[r] = u
                      /\ t - Window < decidedAt[r] /\ decidedAt[r] <= t}

\* While the agent runs, no window of the limiter's length, wherever it ends,
\* has more than the limit of a user's requests in it.
AdmWindowBound ==
    \A u \in Users, t \in 0 .. LastTime : Cardinality(Admitted(u, t)) <= MaxRequests

\* Nobody is refused below the limit: a refusal finds the window that ends
\* with it full.
AdmRefusedOnlyWhenFull ==
    \A r \in Requests :
        result[r] = "limited" =>
            Cardinality(Admitted(sender[r], decidedAt[r])) >= MaxRequests

\* While the agent runs, two requests with the same id that pass the gate are
\* further apart than the replay window.
AdmNoReplay ==
    \A r, s \in Requests :
        /\ r # s /\ cid[r] = cid[s] /\ cid[r] # NoId
        /\ result[r] \in {"passed", "limited", "admitted"}
        /\ result[s] \in {"passed", "limited", "admitted"}
        => passedAt[r] - passedAt[s] > ReplayWindow \/ passedAt[s] - passedAt[r] > ReplayWindow
=============================================================================
