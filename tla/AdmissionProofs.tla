-------------------------- MODULE AdmissionProofs ---------------------------
(***************************************************************************)
(* The safety properties of Admission for any requests, users, ids, limits *)
(* and windows.                                                            *)
(*                                                                         *)
(* What ties the limiter's memory to what it promises is that every        *)
(* admitted request is in its user's bucket until the window has passed    *)
(* over it (Kept), and that a bucket holds nothing else (BucketExact).  For*)
(* the gate it is that an id is remembered at least as long as any request *)
(* that bore it is within the replay window (Remembers).                   *)
(***************************************************************************)
EXTENDS Admission, FiniteSetTheorems, TLAPS

PassedResults == {"passed", "limited", "admitted"}
DecidedResults == {"limited", "admitted"}

BucketExact ==
    \A u \in Users :
        /\ IsFiniteSet(bucket[u])
        /\ Cardinality(bucket[u]) <= MaxRequests
        /\ \A r \in bucket[u] : result[r] = "admitted" /\ sender[r] = u

Kept ==
    \A r \in Requests :
        result[r] = "admitted" /\ decidedAt[r] > clock - Window => r \in bucket[sender[r]]

Past ==
    \A r \in Requests :
        /\ result[r] \in PassedResults => passedAt[r] <= clock
        /\ result[r] \in DecidedResults => decidedAt[r] <= clock

Remembers ==
    \A r \in Requests :
        /\ result[r] \in PassedResults /\ cid[r] # NoId
        /\ clock - passedAt[r] <= ReplayWindow
        => seen[cid[r]] >= passedAt[r]

\* The bound of a window, for every end of it.
Bounded ==
    \A u \in Users, t \in Nat :
        IsFiniteSet(Admitted(u, t)) /\ Cardinality(Admitted(u, t)) <= MaxRequests

AdmInv ==
    /\ AdmTypeOK /\ BucketExact /\ Kept /\ Past /\ Remembers
    /\ Bounded /\ AdmRefusedOnlyWhenFull /\ AdmNoReplay

-----------------------------------------------------------------------------
(* The clean-up of a bucket and of the ids.                                 *)

\* The recent part of a bucket is a finite part of what was admitted.
LEMMA RecentBucket ==
    ASSUME AdmTypeOK, BucketExact, Past, NEW u \in Users
    PROVE  /\ IsFiniteSet(Recent(u)) /\ Cardinality(Recent(u)) \in Nat
           /\ Cardinality(Recent(u)) <= MaxRequests
           /\ Recent(u) \subseteq Admitted(u, clock)
<1>1. Recent(u) \in SUBSET bucket[u]
  BY DEF Recent
<1>2. IsFiniteSet(bucket[u]) /\ Cardinality(bucket[u]) <= MaxRequests
  BY DEF BucketExact
<1>3. IsFiniteSet(Recent(u)) /\ Cardinality(Recent(u)) <= Cardinality(bucket[u])
  BY <1>1, <1>2, FS_Subset
<1>4. Cardinality(Recent(u)) \in Nat /\ Cardinality(bucket[u]) \in Nat
  BY <1>2, <1>3, FS_CardinalityType
<1>5. Recent(u) \subseteq Admitted(u, clock)
  BY DEF Recent, Admitted, AdmTypeOK, BucketExact, Past, DecidedResults
<1>. QED
  BY <1>2, <1>3, <1>4, <1>5, AdmissionConstants

\* An id that is not remembered was not borne within the replay window.
LEMMA RememberedIds ==
    ASSUME AdmTypeOK, Remembers, NEW r \in Requests, result[r] \in PassedResults,
           cid[r] # NoId, clock - passedAt[r] <= ReplayWindow
    PROVE  Remembered[cid[r]] = seen[cid[r]] /\ seen[cid[r]] >= passedAt[r]
                                              /\ Remembered[cid[r]] # Never
<1>1. cid[r] \in CorrelationIds /\ passedAt[r] \in Nat /\ clock \in Nat
  BY DEF AdmTypeOK
<1>2. seen[cid[r]] >= passedAt[r] /\ seen[cid[r]] \in Nat \cup {Never}
  BY <1>1 DEF Remembers, AdmTypeOK
<1>3. clock - seen[cid[r]] <= ReplayWindow /\ seen[cid[r]] # Never
  BY <1>1, <1>2, AdmissionConstants DEF Never
<1>. QED
  BY <1>1, <1>2, <1>3, AdmissionConstants DEF Remembered

LEMMA RememberedTyped ==
    ASSUME AdmTypeOK
    PROVE  Remembered \in [CorrelationIds -> Nat \cup {Never}]
BY DEF AdmTypeOK, Remembered

\* A step that admits nobody and forgets nobody who was admitted leaves every
\* window as it was.
LEMMA WindowsStand ==
    ASSUME AdmTypeOK, decidedAt' = decidedAt,
           \A r \in Requests :
                /\ result[r] = "admitted" <=> result'[r] = "admitted"
                /\ result[r] = "admitted" => sender'[r] = sender[r],
           NEW u \in Users, NEW t \in Nat
    PROVE  Admitted(u, t)' = Admitted(u, t)
BY DEF Admitted

-----------------------------------------------------------------------------
LEMMA InitAdmInv == AdmInit => AdmInv
<1>. SUFFICES ASSUME AdmInit PROVE AdmInv
  OBVIOUS
<1>. USE DEF AdmInit
<1>1. AdmTypeOK
  BY AdmissionConstants DEF AdmTypeOK, Results, Never
<1>2. BucketExact
  BY FS_EmptySet, AdmissionConstants DEF BucketExact
<1>3. Kept /\ Past /\ Remembers
  BY DEF Kept, Past, Remembers, PassedResults, DecidedResults
<1>4. Bounded
  <2>. SUFFICES ASSUME NEW u \in Users, NEW t \in Nat
                PROVE  IsFiniteSet(Admitted(u, t)) /\ Cardinality(Admitted(u, t)) <= MaxRequests
    BY DEF Bounded
  <2>1. Admitted(u, t) = {}
    BY DEF Admitted
  <2>. QED
    BY <2>1, FS_EmptySet, AdmissionConstants
<1>5. AdmRefusedOnlyWhenFull /\ AdmNoReplay
  BY DEF AdmRefusedOnlyWhenFull, AdmNoReplay
<1>. QED
  BY <1>1, <1>2, <1>3, <1>4, <1>5 DEF AdmInv

LEMMA TickKeeps == AdmInv /\ Tick => AdmInv'
<1>. SUFFICES ASSUME AdmInv, Tick PROVE AdmInv'
  OBVIOUS
<1>. USE DEF Tick
<1>1. AdmTypeOK /\ AdmTypeOK' /\ clock \in Nat
  BY DEF AdmInv, AdmTypeOK
<1>2. BucketExact'
  BY DEF AdmInv, BucketExact
<1>3. Kept' /\ Past' /\ Remembers'
  BY <1>1, AdmissionConstants DEF AdmInv, AdmTypeOK, Kept, Past, Remembers, PassedResults, DecidedResults
<1>4. \A u \in Users, t \in Nat : Admitted(u, t)' = Admitted(u, t)
  BY <1>1, WindowsStand
<1>5. Bounded'
  BY <1>4 DEF AdmInv, Bounded
<1>6. AdmRefusedOnlyWhenFull'
  BY <1>1, <1>4 DEF AdmInv, AdmRefusedOnlyWhenFull, AdmTypeOK
<1>7. AdmNoReplay'
  BY DEF AdmInv, AdmNoReplay
<1>. QED
  BY <1>1, <1>2, <1>3, <1>5, <1>6, <1>7 DEF AdmInv

LEMMA RefuseKeeps ==
    ASSUME AdmInv, NEW r \in Requests, Refuse(r)
    PROVE  AdmInv'
<1>. USE DEF Refuse
<1>1. AdmTypeOK /\ AdmTypeOK'
  BY DEF AdmInv, AdmTypeOK, Results
<1>2. BucketExact'
  BY <1>1 DEF AdmInv, AdmTypeOK, BucketExact
<1>3. Kept' /\ Past' /\ Remembers'
  BY <1>1 DEF AdmInv, AdmTypeOK, Kept, Past, Remembers, PassedResults, DecidedResults
<1>4. \A u \in Users, t \in Nat : Admitted(u, t)' = Admitted(u, t)
  BY <1>1, WindowsStand DEF AdmTypeOK
<1>5. Bounded'
  BY <1>4 DEF AdmInv, Bounded
<1>6. AdmRefusedOnlyWhenFull'
  BY <1>1, <1>4 DEF AdmInv, AdmRefusedOnlyWhenFull, AdmTypeOK
<1>7. AdmNoReplay'
  BY <1>1 DEF AdmInv, AdmTypeOK, AdmNoReplay
<1>. QED
  BY <1>1, <1>2, <1>3, <1>5, <1>6, <1>7 DEF AdmInv

LEMMA GateKeeps ==
    ASSUME AdmInv, NEW r \in Requests, NEW u \in Users,
           NEW i \in CorrelationIds \cup {NoId}, Gate(r, u, i)
    PROVE  AdmInv'
<1>0. /\ AdmTypeOK /\ clock \in Nat /\ clock' = clock
      /\ result[r] = "none" /\ result'[r] \in {"replayed", "passed"}
      /\ sender'[r] = u /\ cid'[r] = i /\ passedAt'[r] = clock
      /\ decidedAt' = decidedAt /\ bucket' = bucket
      /\ \A s \in Requests \ {r} : /\ result'[s] = result[s] /\ sender'[s] = sender[s]
                                   /\ cid'[s] = cid[s] /\ passedAt'[s] = passedAt[s]
  BY DEF AdmInv, AdmTypeOK, Gate
<1>1. AdmTypeOK'
  <2>1. seen' \in [CorrelationIds -> Nat \cup {Never}]
    BY <1>0, RememberedTyped DEF AdmTypeOK, Gate
  <2>2. result' \in [Requests -> Results]
    BY <1>0 DEF AdmTypeOK, Gate, Results
  <2>. QED
    BY <1>0, <2>1, <2>2 DEF AdmTypeOK, Gate
<1>2. BucketExact'
  BY <1>0 DEF AdmInv, AdmTypeOK, BucketExact
<1>3. Kept' /\ Past'
  BY <1>0 DEF AdmInv, AdmTypeOK, Kept, Past, PassedResults, DecidedResults
<1>4. Remembers'
  <2>. SUFFICES ASSUME NEW s \in Requests, result'[s] \in PassedResults, cid'[s] # NoId,
                       clock - passedAt'[s] <= ReplayWindow
                PROVE  seen'[cid'[s]] >= passedAt'[s]
    BY <1>0 DEF Remembers
  <2>1. CASE s = r
    <3>1. ~IsDuplicate(i) /\ i \in CorrelationIds
      BY <1>0, <2>1 DEF Gate, PassedResults
    <3>2. seen'[i] = clock
      BY <1>0, <2>1, <3>1, RememberedTyped DEF Gate
    <3>. QED
      BY <1>0, <2>1, <3>2
  <2>2. CASE s # r
    <3>1. /\ result[s] \in PassedResults /\ cid[s] # NoId /\ cid[s] \in CorrelationIds
          /\ clock - passedAt[s] <= ReplayWindow /\ passedAt[s] <= clock
      BY <1>0, <2>2 DEF AdmTypeOK, AdmInv, Past
    <3>2. /\ Remembered[cid[s]] = seen[cid[s]] /\ seen[cid[s]] >= passedAt[s]
          /\ Remembered[cid[s]] # Never
      BY <1>0, <3>1, RememberedIds DEF AdmInv
    <3>3. seen'[cid[s]] \in {seen[cid[s]], clock}
      BY <1>0, <3>1, <3>2, RememberedTyped DEF Gate
    <3>. QED
      BY <1>0, <2>2, <3>1, <3>2, <3>3
  <2>. QED
    BY <2>1, <2>2
<1>5. \A v \in Users, t \in Nat : Admitted(v, t)' = Admitted(v, t)
  BY <1>0, WindowsStand
<1>6. Bounded'
  BY <1>5 DEF AdmInv, Bounded
<1>7. AdmRefusedOnlyWhenFull'
  BY <1>0, <1>5 DEF AdmInv, AdmRefusedOnlyWhenFull, AdmTypeOK
<1>8. AdmNoReplay'
  <2>1. ASSUME NEW s \in Requests \ {r}, result[s] \in PassedResults, cid[s] = i, i # NoId,
               result'[r] \in PassedResults
        PROVE  passedAt'[r] - passedAt'[s] > ReplayWindow
    <3>1. ~IsDuplicate(i) /\ i \in CorrelationIds
      BY <1>0, <2>1 DEF Gate, PassedResults
    <3>2. Remembered[i] = Never
      BY <2>1, <3>1 DEF IsDuplicate
    <3>3. ~(clock - passedAt[s] <= ReplayWindow)
      BY <1>0, <2>1, <3>2, RememberedIds DEF AdmInv
    <3>. QED
      BY <1>0, <3>3, AdmissionConstants DEF AdmTypeOK
  <2>. SUFFICES ASSUME NEW s \in Requests, NEW q \in Requests, s # q,
                       cid'[s] = cid'[q], cid'[s] # NoId,
                       result'[s] \in PassedResults, result'[q] \in PassedResults
                PROVE  \/ passedAt'[s] - passedAt'[q] > ReplayWindow
                       \/ passedAt'[q] - passedAt'[s] > ReplayWindow
    BY DEF AdmNoReplay, PassedResults
  <2>2. CASE s = r
    BY <1>0, <2>1, <2>2
  <2>3. CASE q = r
    BY <1>0, <2>1, <2>3
  <2>4. CASE s # r /\ q # r
    BY <1>0, <2>4 DEF AdmInv, AdmNoReplay, PassedResults
  <2>. QED
    BY <2>2, <2>3, <2>4
<1>. QED
  BY <1>1, <1>2, <1>3, <1>4, <1>6, <1>7, <1>8 DEF AdmInv

LEMMA AllowKeeps ==
    ASSUME AdmInv, NEW r \in Requests, Allow(r)
    PROVE  AdmInv'
<1>. DEFINE u == sender[r]
            Full == Cardinality(Recent(u)) >= MaxRequests
<1>0. /\ AdmTypeOK /\ clock \in Nat /\ clock' = clock /\ u \in Users
      /\ result[r] = "passed" /\ decidedAt'[r] = clock
      /\ sender' = sender /\ cid' = cid /\ seen' = seen /\ passedAt' = passedAt
      /\ \A s \in Requests \ {r} : result'[s] = result[s] /\ decidedAt'[s] = decidedAt[s]
      /\ \A v \in Users \ {u} : bucket'[v] = bucket[v]
      /\ Full => result'[r] = "limited" /\ bucket'[u] = Recent(u)
      /\ ~Full => result'[r] = "admitted" /\ bucket'[u] = Recent(u) \cup {r}
  BY DEF AdmInv, AdmTypeOK, Allow
<1>r. /\ IsFiniteSet(Recent(u)) /\ Cardinality(Recent(u)) \in Nat
      /\ Cardinality(Recent(u)) <= MaxRequests
      /\ Recent(u) \subseteq Admitted(u, clock)
      /\ Recent(u) \in SUBSET bucket[u] /\ r \notin bucket[u]
  BY <1>0, RecentBucket DEF AdmInv, Recent, BucketExact
<1>1. AdmTypeOK'
  <2>1. bucket' \in [Users -> SUBSET Requests]
    BY <1>0, <1>r DEF AdmTypeOK, Allow
  <2>2. result' \in [Requests -> Results] /\ decidedAt' \in [Requests -> Nat]
    BY <1>0 DEF AdmTypeOK, Allow, Results
  <2>. QED
    BY <1>0, <2>1, <2>2 DEF AdmTypeOK
<1>2. BucketExact'
  <2>. SUFFICES ASSUME NEW v \in Users
                PROVE  /\ IsFiniteSet(bucket'[v]) /\ Cardinality(bucket'[v]) <= MaxRequests
                       /\ \A s \in bucket'[v] : result'[s] = "admitted" /\ sender'[s] = v
    BY DEF BucketExact
  <2>1. CASE v # u
    BY <1>0, <2>1 DEF AdmInv, BucketExact, AdmTypeOK
  <2>2. CASE v = u /\ Full
    BY <1>0, <1>r, <2>2 DEF AdmInv, BucketExact, AdmTypeOK
  <2>3. CASE v = u /\ ~Full
    <3>1. /\ IsFiniteSet(Recent(u) \cup {r})
          /\ Cardinality(Recent(u) \cup {r}) = Cardinality(Recent(u)) + 1
      <4>1. IsFiniteSet(Recent(u)) /\ r \notin Recent(u)
        BY <1>r
      <4>. HIDE DEF u
      <4>. QED
        BY <4>1, FS_AddElement
    <3>2. Cardinality(Recent(u) \cup {r}) <= MaxRequests
      BY <1>r, <2>3, <3>1, FS_CardinalityType, AdmissionConstants
    <3>3. \A s \in Recent(u) : s # r /\ result[s] = "admitted" /\ sender[s] = u
      BY <1>r, <1>0 DEF AdmInv, BucketExact
    <3>. QED
      BY <1>0, <1>r, <2>3, <3>1, <3>2, <3>3 DEF AdmTypeOK
  <2>. QED
    BY <2>1, <2>2, <2>3
<1>3. Kept'
  <2>. SUFFICES ASSUME NEW s \in Requests, result'[s] = "admitted",
                       decidedAt'[s] > clock - Window
                PROVE  s \in bucket'[sender[s]]
    BY <1>0 DEF Kept
  <2>1. CASE s = r
    BY <1>0, <2>1
  <2>2. CASE s # r
    <3>1. s \in bucket[sender[s]]
      BY <1>0, <2>2 DEF AdmInv, Kept
    <3>. QED
      BY <1>0, <2>2, <3>1 DEF AdmTypeOK, Recent
  <2>. QED
    BY <2>1, <2>2
<1>4. Past' /\ Remembers'
  BY <1>0 DEF AdmInv, AdmTypeOK, Past, Remembers, PassedResults, DecidedResults
<1>5. ASSUME NEW v \in Users, NEW t \in Nat, v # u \/ t < clock \/ Full
      PROVE  Admitted(v, t)' = Admitted(v, t)
  BY <1>0, <1>5 DEF Admitted, AdmTypeOK
<1>6. Bounded'
  <2>. SUFFICES ASSUME NEW v \in Users, NEW t \in Nat
                PROVE  IsFiniteSet(Admitted(v, t)') /\ Cardinality(Admitted(v, t)') <= MaxRequests
    BY DEF Bounded
  <2>1. CASE v # u \/ t < clock \/ Full
    BY <2>1, <1>5 DEF AdmInv, Bounded
  <2>2. CASE v = u /\ t >= clock
    <3>1. Admitted(v, t)' \in SUBSET bucket'[u]
      <4>. SUFFICES ASSUME NEW s \in Admitted(v, t)' PROVE s \in bucket'[u]
        OBVIOUS
      <4>1. /\ s \in Requests /\ result'[s] = "admitted" /\ sender'[s] = u
            /\ decidedAt'[s] > t - Window
        BY <2>2, AdmissionConstants, <1>1 DEF Admitted, AdmTypeOK
      <4>2. decidedAt'[s] > clock' - Window
        BY <1>0, <1>1, <2>2, <4>1, AdmissionConstants DEF AdmTypeOK
      <4>. QED
        BY <1>3, <4>1, <4>2 DEF Kept
    <3>2. IsFiniteSet(bucket'[u]) /\ Cardinality(bucket'[u]) <= MaxRequests
      BY <1>0, <1>2 DEF BucketExact
    <3>3. /\ IsFiniteSet(Admitted(v, t)')
          /\ Cardinality(Admitted(v, t)') <= Cardinality(bucket'[u])
      BY <3>1, <3>2, FS_Subset
    <3>. QED
      BY <3>2, <3>3, FS_CardinalityType, AdmissionConstants
  <2>. QED
    BY <1>0, <2>1, <2>2
<1>7. AdmRefusedOnlyWhenFull'
  <2>. SUFFICES ASSUME NEW s \in Requests, result'[s] = "limited",
                       NEW v \in Users, v = sender'[s], NEW t \in Nat, t = decidedAt'[s]
                PROVE  Cardinality(Admitted(v, t)') >= MaxRequests
    BY <1>1 DEF AdmRefusedOnlyWhenFull, AdmTypeOK
  <2>. DEFINE Old == Admitted(v, t)
              New == Admitted(v, t)'
  <2>0. /\ IsFiniteSet(New) /\ Cardinality(New) \in Nat
        /\ IsFiniteSet(Old) /\ Cardinality(Old) \in Nat
    BY <1>6, FS_CardinalityType DEF AdmInv, Bounded
  <2>1. CASE s = r
    <3>1. v = u /\ t = clock /\ Full
      BY <1>0, <2>1
    <3>2. New = Old
      BY <1>5, <3>1
    <3>3. Recent(u) \in SUBSET Old
      BY <1>r, <3>1
    <3>4. Cardinality(Old) >= Cardinality(Recent(u))
      BY <2>0, <3>3, FS_Subset
    <3>. QED
      BY <1>r, <2>0, <3>1, <3>2, <3>4, AdmissionConstants
  <2>2. CASE s # r
    <3>1. decidedAt[s] = t /\ result[s] = "limited" /\ sender[s] = v
      BY <1>0, <2>2
    <3>2. Cardinality(Old) >= MaxRequests
      BY <3>1 DEF AdmInv, AdmRefusedOnlyWhenFull
    <3>3. Old \in SUBSET New
      BY <1>0 DEF Admitted
    <3>4. Cardinality(Old) <= Cardinality(New)
      BY <2>0, <3>3, FS_Subset
    <3>. QED
      BY <2>0, <3>2, <3>4, AdmissionConstants
  <2>. QED
    BY <2>1, <2>2
<1>8. AdmNoReplay'
  BY <1>0 DEF AdmInv, AdmNoReplay
<1>. QED
  BY <1>1, <1>2, <1>3, <1>4, <1>6, <1>7, <1>8 DEF AdmInv

LEMMA RestartKeeps == AdmInv /\ AgentRestarts => AdmInv'
<1>. SUFFICES ASSUME AdmInv, AgentRestarts PROVE AdmInv'
  OBVIOUS
<1>0. \A r \in Requests : result'[r] \in {"none", "forgotten"}
  BY DEF AgentRestarts
<1>1. AdmTypeOK'
  BY DEF AdmInv, AdmTypeOK, AgentRestarts, Results, Never
<1>2. BucketExact'
  BY FS_EmptySet, AdmissionConstants DEF BucketExact, AgentRestarts
<1>3. Kept' /\ Past' /\ Remembers'
  BY <1>0 DEF Kept, Past, Remembers, PassedResults, DecidedResults
<1>4. Bounded'
  <2>1. \A u \in Users, t \in Nat : Admitted(u, t)' = {}
    BY <1>0 DEF Admitted
  <2>. QED
    BY <2>1, FS_EmptySet, AdmissionConstants DEF Bounded
<1>5. AdmRefusedOnlyWhenFull' /\ AdmNoReplay'
  BY <1>0 DEF AdmRefusedOnlyWhenFull, AdmNoReplay
<1>. QED
  BY <1>1, <1>2, <1>3, <1>4, <1>5 DEF AdmInv

LEMMA StepAdmInv == AdmInv /\ [AdmNext]_admVars => AdmInv'
<1>. SUFFICES ASSUME AdmInv, [AdmNext]_admVars PROVE AdmInv'
  OBVIOUS
<1>1. CASE Tick
  BY <1>1, TickKeeps
<1>2. CASE AgentRestarts
  BY <1>2, RestartKeeps
<1>3. CASE \E r \in Requests : Refuse(r)
  BY <1>3, RefuseKeeps
<1>4. CASE \E r \in Requests : Allow(r)
  BY <1>4, AllowKeeps
<1>5. CASE \E r \in Requests, u \in Users, i \in CorrelationIds \cup {NoId} : Gate(r, u, i)
  BY <1>5, GateKeeps
<1>6. CASE UNCHANGED admVars
  <2>1. AdmTypeOK' /\ BucketExact' /\ Kept' /\ Past' /\ Remembers' /\ AdmNoReplay'
    BY <1>6 DEF admVars, AdmInv, AdmTypeOK, BucketExact, Kept, Past, Remembers, AdmNoReplay
  <2>2. \A u \in Users, t \in Nat : Admitted(u, t)' = Admitted(u, t)
    BY <1>6 DEF admVars, Admitted
  <2>3. Bounded'
    BY <2>2 DEF AdmInv, Bounded
  <2>4. AdmRefusedOnlyWhenFull'
    BY <1>6, <2>2 DEF admVars, AdmInv, AdmTypeOK, AdmRefusedOnlyWhenFull
  <2>. QED
    BY <2>1, <2>3, <2>4 DEF AdmInv
<1>. QED
  BY <1>1, <1>2, <1>3, <1>4, <1>5, <1>6 DEF AdmNext

\* The strengthened invariant holds whatever requests come in and whenever the
\* agent restarts.
THEOREM AdmInductive == AdmSpec => []AdmInv
  BY InitAdmInv, StepAdmInv, PTL DEF AdmSpec

\* The limiter's sliding window: no window of its length has more admitted
\* requests of a user than the limit.
THEOREM WindowNeverExceeded == AdmSpec => []AdmWindowBound
<1>1. AdmInv => AdmWindowBound
  BY AdmissionConstants DEF AdmInv, Bounded, AdmWindowBound
<1>. QED
  BY <1>1, AdmInductive, PTL

\* The limiter refuses nobody whose window has room.
THEOREM RefusalsJustified == AdmSpec => []AdmRefusedOnlyWhenFull
<1>1. AdmInv => AdmRefusedOnlyWhenFull
  BY DEF AdmInv
<1>. QED
  BY <1>1, AdmInductive, PTL

\* The replay guard: a correlation id passes once per replay window.
THEOREM NoReplayInWindow == AdmSpec => []AdmNoReplay
<1>1. AdmInv => AdmNoReplay
  BY DEF AdmInv
<1>. QED
  BY <1>1, AdmInductive, PTL
=============================================================================
