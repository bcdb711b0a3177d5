----------------------- MODULE ConnectionPoolProofs -----------------------
(***************************************************************************)
(* Proofs about ConnectionPool, for every value of its constants.          *)
(***************************************************************************)
EXTENDS ConnectionPool, FiniteSetTheorems, SequenceTheorems, TLAPS

-----------------------------------------------------------------------------
(* Lemmas about queues and sets of connections *)

Distinct(q) == \A i, j \in DOMAIN q : q[i] = q[j] => i = j

\* What a handler that only takes items out of the queue leaves of it.
ComesFrom(q2, q) ==
    /\ q2 \in Seq(Scopes)
    /\ Distinct(q2)
    /\ \A j \in DOMAIN q2 : \E i \in DOMAIN q : j <= i /\ q2[j] = q[i]

\* Nothing comes from an empty queue.
LEMMA OnlyEmpty ==
    ASSUME NEW q2, NEW q, ComesFrom(q2, q), q = <<>>
    PROVE  q2 = <<>>
<1>1. q2 \in Seq(Scopes) /\ DOMAIN q = {}
      BY DEF ComesFrom
<1>2. DOMAIN q2 = {}
  <2>1. \A j \in DOMAIN q2 : \E i \in DOMAIN q : j <= i /\ q2[j] = q[i]
        BY DEF ComesFrom
  <2>2. QED
        BY <1>1, <2>1, Zenon
<1>3. QED
      BY <1>1, <1>2, EmptySeq, LenProperties

\* The first item served: the others move up, and none of them is of the same scope.
LEMMA ServedFirst ==
    ASSUME NEW q \in Seq(Scopes), q # <<>>, Distinct(q)
    PROVE  /\ 1 \in DOMAIN q
           /\ Head(q) = q[1]
           /\ Head(q) \in Scopes
           /\ ComesFrom(Tail(q), q)
           /\ \A j \in DOMAIN Tail(q) : j + 1 \in DOMAIN q /\ Tail(q)[j] = q[j + 1] /\ Tail(q)[j] # Head(q)
<1>1. /\ Tail(q) \in Seq(Scopes)
      /\ Len(Tail(q)) = Len(q) - 1
      /\ \A i \in 1 .. Len(Tail(q)) : Tail(q)[i] = q[i + 1]
      /\ Head(q) \in Scopes
      BY HeadTailProperties
<1>2. Len(q) \in Nat /\ Len(q) > 0 /\ DOMAIN q = 1 .. Len(q) /\ Head(q) = q[1]
      BY EmptySeq, LenProperties
<1>3. DOMAIN Tail(q) = 1 .. Len(q) - 1
      BY <1>1, LenProperties
<1>4. \A j \in DOMAIN Tail(q) : j + 1 \in DOMAIN q /\ Tail(q)[j] = q[j + 1] /\ Tail(q)[j] # Head(q)
      BY <1>1, <1>2, <1>3 DEF Distinct
<1>5. Distinct(Tail(q))
      BY <1>2, <1>3, <1>4 DEF Distinct
<1>6. \A j \in DOMAIN Tail(q) : \E i \in DOMAIN q : j <= i /\ Tail(q)[j] = q[i]
  <2>1. TAKE j \in DOMAIN Tail(q)
  <2>2. j <= j + 1
        BY <1>3
  <2>3. WITNESS j + 1 \in DOMAIN q
  <2>4. QED
        BY <1>4, <2>2
<1>7. QED
      BY <1>1, <1>2, <1>4, <1>5, <1>6 DEF ComesFrom

\* One item taken out anywhere.
LEMMA TimedOut ==
    ASSUME queue \in Seq(Scopes), Distinct(queue), NEW k \in DOMAIN queue
    PROVE  ComesFrom(Without(k), queue)
<1> DEFINE n == Len(queue)
           a == SubSeq(queue, 1, k - 1)
           b == SubSeq(queue, k + 1, n)
<1>1. n \in Nat /\ DOMAIN queue = 1 .. n /\ k \in 1 .. n
      BY LenProperties
<1>2. \A i \in 1 .. n : queue[i] \in Scopes
      BY <1>1, ElementOfSeq
<1>3. a \in Seq(Scopes) /\ Len(a) = k - 1 /\ \A i \in 1 .. k - 1 : a[i] = queue[i]
  <2>1. \A i \in 1 .. k - 1 : queue[i] \in Scopes
        BY <1>1, <1>2
  <2>2. /\ a \in Seq(Scopes)
        /\ Len(a) = IF 1 <= k - 1 THEN (k - 1) - 1 + 1 ELSE 0
        /\ \A i \in 1 .. (k - 1) - 1 + 1 : a[i] = queue[1 + i - 1]
        BY <1>1, <2>1, SubSeqProperties
  <2>3. QED
        BY <1>1, <2>2
<1>4. b \in Seq(Scopes) /\ Len(b) = n - k /\ \A i \in 1 .. n - k : b[i] = queue[k + i]
  <2>1. \A i \in k + 1 .. n : queue[i] \in Scopes
        BY <1>1, <1>2
  <2>2. /\ b \in Seq(Scopes)
        /\ Len(b) = IF k + 1 <= n THEN n - (k + 1) + 1 ELSE 0
        /\ \A i \in 1 .. n - (k + 1) + 1 : b[i] = queue[k + 1 + i - 1]
        BY <1>1, <2>1, SubSeqProperties
  <2>3. QED
        BY <1>1, <2>2
<1>0. Without(k) = a \o b
      BY DEF Without
<1> HIDE DEF a, b, n
<1>5. /\ Without(k) \in Seq(Scopes)
      /\ Len(Without(k)) = n - 1
      /\ \A i \in 1 .. n - 1 : Without(k)[i] = IF i <= k - 1 THEN a[i] ELSE b[i - (k - 1)]
  <2>1. /\ a \o b \in Seq(Scopes)
        /\ Len(a \o b) = Len(a) + Len(b)
        /\ \A i \in 1 .. Len(a) + Len(b) : (a \o b)[i] = IF i <= Len(a) THEN a[i] ELSE b[i - Len(a)]
        BY <1>3, <1>4, ConcatProperties
  <2>2. Len(a) + Len(b) = n - 1
        BY <1>1, <1>3, <1>4
  <2>3. QED
        BY <1>0, <1>3, <2>1, <2>2
<1>6. DOMAIN Without(k) = 1 .. n - 1
      BY <1>5, LenProperties
<1>7. \A j \in 1 .. n - 1 : Without(k)[j] = IF j < k THEN queue[j] ELSE queue[j + 1]
  <2> SUFFICES ASSUME NEW j \in 1 .. n - 1
               PROVE  Without(k)[j] = IF j < k THEN queue[j] ELSE queue[j + 1]
      OBVIOUS
  <2>1. CASE j < k
        BY <1>1, <1>3, <1>5, <2>1
  <2>2. CASE j >= k
    <3>1. Without(k)[j] = b[j - (k - 1)]
          BY <1>1, <1>5, <2>2
    <3>2. j - (k - 1) \in 1 .. n - k /\ k + (j - (k - 1)) = j + 1
          BY <1>1, <2>2
    <3>3. b[j - (k - 1)] = queue[k + (j - (k - 1))]
          BY <1>4, <3>2
    <3>4. QED
          BY <1>1, <2>2, <3>1, <3>2, <3>3
  <2>3. QED
        BY <1>1, <2>1, <2>2
<1> DEFINE old(j) == IF j < k THEN j ELSE j + 1
<1>8. \A j \in DOMAIN Without(k) : j \in Nat /\ old(j) \in DOMAIN queue /\ j <= old(j) /\ Without(k)[j] = queue[old(j)]
      BY <1>1, <1>6, <1>7
<1>9. Distinct(Without(k))
  <2> SUFFICES ASSUME NEW i \in DOMAIN Without(k), NEW j \in DOMAIN Without(k), Without(k)[i] = Without(k)[j]
               PROVE  i = j
      BY DEF Distinct
  <2>1. queue[old(i)] = queue[old(j)] /\ i \in Nat /\ j \in Nat
        BY <1>8
  <2>2. old(i) = old(j)
        BY <1>8, <2>1 DEF Distinct
  <2>3. QED
        BY <1>1, <2>1, <2>2
<1>10. \A j \in DOMAIN Without(k) : \E i \in DOMAIN queue : j <= i /\ Without(k)[j] = queue[i]
  <2> HIDE DEF old
  <2>1. QED
        BY <1>8
<1>11. QED
      BY <1>5, <1>9, <1>10 DEF ComesFrom

\* A new item of a scope that does not wait goes to the end.
LEMMA Queued ==
    ASSUME queue \in Seq(Scopes), Distinct(queue), NEW s \in Scopes, ~Waiting(s)
    PROVE  /\ Enqueued(s) \in Seq(Scopes)
           /\ Enqueued(s) # <<>>
           /\ Distinct(Enqueued(s))
           /\ \A j \in DOMAIN Enqueued(s) :
                 \/ j \in DOMAIN queue /\ Enqueued(s)[j] = queue[j]
                 \/ Enqueued(s)[j] = s
<1>1. /\ Enqueued(s) \in Seq(Scopes)
      /\ Enqueued(s) # <<>>
      /\ Len(Enqueued(s)) = Len(queue) + 1
      /\ \A i \in 1 .. Len(queue) : Enqueued(s)[i] = queue[i]
      /\ Enqueued(s)[Len(queue) + 1] = s
      BY AppendProperties DEF Enqueued
<1>2. Len(queue) \in Nat /\ DOMAIN queue = 1 .. Len(queue) /\ DOMAIN Enqueued(s) = 1 .. Len(queue) + 1
      BY <1>1, LenProperties
<1>3. \A i \in 1 .. Len(queue) : queue[i] # s
      BY <1>2 DEF Waiting
<1>4. QED
      BY <1>1, <1>2, <1>3 DEF Distinct

\* Sets of connections are finite, and how their sizes change.
LEMMA Sizes ==
    ASSUME NEW S \in SUBSET Conns, NEW c \in Conns
    PROVE  /\ IsFiniteSet(S)
           /\ Cardinality(S) \in Nat
           /\ Cardinality(S \ {c}) = IF c \in S THEN Cardinality(S) - 1 ELSE Cardinality(S)
           /\ Cardinality(S \cup {c}) = IF c \in S THEN Cardinality(S) ELSE Cardinality(S) + 1
BY PoolAssumption, FS_Subset, FS_CardinalityType, FS_AddElement, FS_RemoveElement

LEMMA SizeOf ==
    ASSUME NEW S \in SUBSET Conns
    PROVE  IsFiniteSet(S) /\ Cardinality(S) \in Nat /\ (Cardinality(S) = 0 <=> S = {})
BY PoolAssumption, FS_Subset, FS_CardinalityType, FS_EmptySet

-----------------------------------------------------------------------------
(* Lemmas about the helpers of the model *)

\* maybeCreateNew keeps the counters balanced and the limit.
LEMMA StartsWithinLimit ==
    ASSUME NEW q \in Seq(Scopes), NEW A \in SUBSET Conns, NEW I \in SUBSET Conns,
           NEW n \in Nat, NEW r \in Nat, NEW f \in Nat,
           MaybeCreateNew(q, A, I, n, r, f)
    PROVE  /\ connectingCount' \in Nat /\ remaining' \in Nat /\ inflight' \in Nat
           /\ connectingCount' + f = n + inflight'
           /\ remaining' + inflight' = r + f
           /\ inflight' >= f
           /\ Cardinality(A) + Cardinality(I) + n <= MaxConnections =>
                 Cardinality(A) + Cardinality(I) + connectingCount' <= MaxConnections
<1>1. Cardinality(A) \in Nat /\ Cardinality(I) \in Nat
      BY SizeOf
<1>2. CASE ~ended /\ CanCreate(q, A, I, n, r)
      BY <1>1, <1>2, PoolAssumption DEF MaybeCreateNew, CanCreate
<1>3. CASE ~(~ended /\ CanCreate(q, A, I, n, r))
      BY <1>3 DEF MaybeCreateNew
<1>4. QED
      BY <1>2, <1>3

\* maybeCreateNew returns early only if something else will serve the queue: an active
\* connection, an attempt, a back-off or a timer of the rate limit.
LEMMA StartsOrSomebodyWill ==
    ASSUME NEW q \in Seq(Scopes), q # <<>>, ~ended, NEW A \in SUBSET Conns,
           NEW n \in Nat, NEW r \in Nat, NEW f \in Nat, NEW b \in Nat, NEW w \in Nat,
           n = f + b, r + f + w = RateLimit,
           MaybeCreateNew(q, A, {}, n, r, f)
    PROVE  A # {} \/ inflight' + b + w > 0
<1>1. Len(q) \in Nat /\ Len(q) > 0
      BY EmptySeq, LenProperties
<1>2. Cardinality({}) = 0
      BY FS_EmptySet
<1>3. CASE CanCreate(q, A, {}, n, r)
      BY <1>3 DEF MaybeCreateNew
<1>4. CASE ~CanCreate(q, A, {}, n, r)
  <2>1. inflight' = f
        BY <1>4 DEF MaybeCreateNew
  <2>2. SUFFICES ASSUME A = {} PROVE f + b + w > 0
        BY <2>1
  <2>3. \/ n >= Len(q)
        \/ n >= MaxConnections
        \/ n >= MaxConnecting
        \/ r = 0
        BY <1>1, <1>2, <1>4, <2>2, PoolAssumption DEF CanCreate
  <2>4. QED
        BY <1>1, <2>3, PoolAssumption
<1>5. QED
      BY <1>3, <1>4

\* Scopes and the connections they hold match one to one.
Holders(A, h) ==
    /\ \A s, t \in Scopes : s # t /\ h[s] # NoConn => h[s] # h[t]
    /\ \A s \in Scopes : h[s] # NoConn => h[s] \in A
    /\ \A c \in A : \E s \in Scopes : h[s] = c

Apart(A, I, D) == A \cap I = {} /\ D \cap (A \cup I) = {}

\* Wherever an available connection goes, it goes to one place.
LEMMA AvailableGoesOn ==
    ASSUME TypeOK, Distinct(queue), NoIdleWhileWaiting,
           NEW c \in Conns, NEW A \in SUBSET Conns, NEW h \in [Scopes -> Conns \cup {NoConn}],
           \A i \in DOMAIN queue : h[queue[i]] = NoConn,
           c \notin A \cup idle \cup doomed, Apart(A, idle, doomed), Holders(A, h),
           HandleAvailable(c, A, h)
    PROVE  /\ idle' \in SUBSET Conns /\ active' \in SUBSET Conns /\ doomed' \in SUBSET Conns
           /\ holds' \in [Scopes -> Conns \cup {NoConn}]
           /\ uses' \in [Conns -> Nat]
           /\ ComesFrom(queue', queue)
           /\ active' \cup idle' \cup doomed' = A \cup idle \cup doomed \cup {c}
           /\ Apart(active', idle', doomed')
           /\ Cardinality(active') + Cardinality(idle') <= Cardinality(A) + Cardinality(idle) + 1
           /\ Holders(active', holds')
           /\ \A i \in DOMAIN queue' : holds'[queue'[i]] = NoConn
           /\ queue' # <<>> => idle' = {}
           /\ queue # <<>> => active' # {}
<1> USE DEF Holders, Apart
<1>0. NoConn \notin Conns
      BY PoolAssumption
<1>1. /\ Cardinality(A) \in Nat /\ Cardinality(idle) \in Nat
      /\ Cardinality(A \cup {c}) = Cardinality(A) + 1
      /\ Cardinality(idle \cup {c}) = Cardinality(idle) + 1
      BY Sizes DEF TypeOK
<1>2. CASE SomebodyWaits
  <2>0. /\ queue # <<>> /\ idle = {}
        /\ active' = A \cup {c} /\ holds' = [h EXCEPT ![Head(queue)] = c]
        /\ queue' = Tail(queue) /\ uses' = Used(c) /\ idle' = idle /\ doomed' = doomed
        BY <1>2 DEF HandleAvailable, SomebodyWaits, NoIdleWhileWaiting
  <2>1. /\ 1 \in DOMAIN queue /\ Head(queue) = queue[1] /\ Head(queue) \in Scopes
        /\ ComesFrom(queue', queue)
        /\ \A j \in DOMAIN queue' : j + 1 \in DOMAIN queue /\ queue'[j] = queue[j + 1] /\ queue'[j] # Head(queue)
        BY <2>0, ServedFirst DEF TypeOK
  <2>2. h[Head(queue)] = NoConn
        BY <2>1
  <2>3. uses' \in [Conns -> Nat]
        BY <2>0 DEF Used, TypeOK
  <2>4. Holders(active', holds')
    <3>1. \A s \in Scopes : holds'[s] = IF s = Head(queue) THEN c ELSE h[s]
          BY <2>0, <2>1
    <3>2. \A d \in active' : \E s \in Scopes : holds'[s] = d
          BY <1>0, <2>0, <2>1, <2>2, <3>1
    <3>3. QED
          BY <2>0, <2>1, <3>1, <3>2
  <2>5. \A i \in DOMAIN queue' : holds'[queue'[i]] = NoConn
    <3> SUFFICES ASSUME NEW i \in DOMAIN queue' PROVE holds'[queue'[i]] = NoConn
        OBVIOUS
    <3>1. queue'[i] \in Scopes /\ queue'[i] # Head(queue) /\ h[queue'[i]] = NoConn
          BY <2>1, ElementOfSeq, LenProperties DEF ComesFrom
    <3>2. QED
          BY <2>0, <3>1
  <2>6. QED
        BY <1>1, <2>0, <2>1, <2>3, <2>4, <2>5 DEF TypeOK
<1>3. CASE ~SomebodyWaits
  <2>0. /\ queue = <<>> /\ queue' = <<>> /\ uses' = uses /\ active' = A /\ holds' = h
        /\ \/ idle' = idle \cup {c} /\ doomed' = doomed
           \/ idle' = idle /\ doomed' = doomed \cup {c}
        BY <1>3 DEF HandleAvailable, SomebodyWaits
  <2>1. ComesFrom(queue', queue)
        BY <2>0 DEF ComesFrom, Distinct, TypeOK
  <2>2. Cardinality(active') + Cardinality(idle') <= Cardinality(A) + Cardinality(idle) + 1
    <3>1. Cardinality(active') = Cardinality(A)
          BY <2>0
    <3>2. Cardinality(idle') = Cardinality(idle) \/ Cardinality(idle') = Cardinality(idle \cup {c})
          BY <2>0
    <3>3. QED
          BY <1>1, <3>1, <3>2
  <2>3. \A i \in DOMAIN queue' : holds'[queue'[i]] = NoConn
        BY <2>0
  <2>4. Apart(active', idle', doomed') /\ active' \cup idle' \cup doomed' = A \cup idle \cup doomed \cup {c}
        BY <2>0
  <2>5. QED
        BY <2>0, <2>1, <2>2, <2>3, <2>4 DEF TypeOK
<1>4. QED
      BY <1>2, <1>3

-----------------------------------------------------------------------------
(* PoolInv, stated by what the steps establish *)

Held == ~ended => Holders(active, holds)

Remembered == Open \subseteq doomed \cup (IF ended THEN {} ELSE active \cup idle)

Kept ==
    /\ TypeOK /\ CountsBalance /\ Places /\ QueueInv
    /\ AtMostMaxConnections /\ NoIdleWhileWaiting /\ SomebodyWillServe
    /\ Held /\ Remembered

\* The two forms are equivalent, so PoolInv is inductive.
LEMMA KeptIsPoolInv == Kept => PoolInv
BY DEF Kept, PoolInv, Held, Remembered, Holders, NeverShared, NothingLeaks, Places, Open, TypeOK

LEMMA PoolInvIsKept == PoolInv => Kept
BY DEF Kept, PoolInv, Held, Remembered, Holders, NeverShared, NothingLeaks, Places, Open, TypeOK

-----------------------------------------------------------------------------
(* Every step keeps it *)

LEMMA InitKept == Init => Kept
<1> SUFFICES ASSUME Init PROVE Kept
    OBVIOUS
<1> USE PoolAssumption DEF Init
<1>0. queue \in Seq(Scopes) /\ remaining \in Nat
      BY EmptySeq
<1>1. TypeOK /\ CountsBalance
  <2>1. TypeOK
        BY <1>0 DEF TypeOK
  <2>2. CountsBalance
        BY <1>0 DEF CountsBalance
  <2>3. QED
        BY <2>1, <2>2
<1>2. Places /\ QueueInv /\ NoIdleWhileWaiting /\ SomebodyWillServe /\ Held /\ Remembered
      BY DEF Places, QueueInv, NoIdleWhileWaiting, SomebodyWillServe, Held, Holders, Remembered, Open
<1>3. AtMostMaxConnections
  <2>1. Cardinality(active) = 0 /\ Cardinality(idle) = 0
        BY FS_EmptySet
  <2>2. QED
        BY <2>1 DEF AtMostMaxConnections
<1>4. QED
      BY <1>1, <1>2, <1>3 DEF Kept

LEMMA AcquireIdleKept ==
    ASSUME Kept, NEW s \in Scopes, NEW c \in Conns, AcquireIdle(s, c)
    PROVE  Kept'
<1> USE DEF Kept, AcquireIdle, IdleWithout, outstanding
<1>1. /\ TypeOK' /\ CountsBalance'
      BY DEF TypeOK, Used, CountsBalance
<1>2. queue = <<>> /\ queue' = <<>>
      BY DEF NoIdleWhileWaiting
<1>3. QueueInv' /\ NoIdleWhileWaiting' /\ SomebodyWillServe'
      BY <1>2 DEF QueueInv, NoIdleWhileWaiting, SomebodyWillServe
<1>4. Places' /\ Remembered'
      BY DEF Places, Remembered, Open, TypeOK
<1>5. AtMostMaxConnections'
  <2>1. Cardinality(active') = Cardinality(active) + 1 /\ Cardinality(idle') = Cardinality(idle) - 1
        BY Sizes DEF TypeOK, Places
  <2>2. Cardinality(active) \in Nat /\ Cardinality(idle) \in Nat
        BY SizeOf DEF TypeOK
  <2>3. QED
        BY <2>1, <2>2, PoolAssumption DEF AtMostMaxConnections, TypeOK
<1>6. Held'
  <2>1. \A t \in Scopes : holds'[t] = IF t = s THEN c ELSE holds[t]
        BY DEF TypeOK
  <2>2. NoConn \notin Conns /\ c \notin active
        BY PoolAssumption DEF Places
  <2>3. QED
        BY <2>1, <2>2 DEF Held, Holders, TypeOK
<1>7. QED
      BY <1>1, <1>3, <1>4, <1>5, <1>6

LEMMA AcquireLaterKept ==
    ASSUME Kept, NEW s \in Scopes, AcquireLater(s)
    PROVE  Kept'
<1> USE DEF Kept, AcquireLater, clients
<1>1. queue' = Enqueued(s) /\ Distinct(queue) /\ queue \in Seq(Scopes)
      BY DEF QueueInv, Distinct, TypeOK
<1>2. /\ queue' \in Seq(Scopes) /\ queue' # <<>> /\ Distinct(queue')
      /\ \A j \in DOMAIN queue' : (j \in DOMAIN queue /\ queue'[j] = queue[j]) \/ queue'[j] = s
      BY <1>1, Queued
<1>3. /\ connectingCount' \in Nat /\ remaining' \in Nat /\ inflight' \in Nat
      /\ connectingCount' + inflight = connectingCount + inflight'
      /\ remaining' + inflight' = remaining + inflight
      /\ Cardinality(active) + Cardinality(idle) + connectingCount' <= MaxConnections
  <2>1. /\ MaybeCreateNew(queue', active, idle, connectingCount, remaining, inflight)
        /\ active \in SUBSET Conns /\ idle \in SUBSET Conns
        /\ connectingCount \in Nat /\ remaining \in Nat /\ inflight \in Nat
        BY DEF TypeOK
  <2>2. Cardinality(active) + Cardinality(idle) + connectingCount <= MaxConnections
        BY DEF AtMostMaxConnections
  <2> HIDE DEF Kept, AcquireLater
  <2>3. QED
        BY <1>2, <2>1, <2>2, StartsWithinLimit
<1>4. TypeOK'
      BY <1>2, <1>3 DEF TypeOK
<1>5. CountsBalance'
  <2>1. /\ connectingCount = inflight + backoff /\ remaining + inflight + renewals = RateLimit
        /\ backoff' = backoff /\ renewals' = renewals
        /\ {connectingCount, remaining, inflight, backoff, renewals, RateLimit} \subseteq Nat
        BY PoolAssumption DEF CountsBalance, TypeOK
  <2> HIDE DEF Kept, AcquireLater
  <2>2. QED
        BY <1>3, <2>1 DEF CountsBalance
<1>6. QueueInv'
      BY <1>2 DEF QueueInv, Distinct
<1>7. SomebodyWillServe'
  <2>1. active # {} \/ inflight' + backoff + renewals > 0
        BY <1>2, StartsOrSomebodyWill DEF TypeOK, CountsBalance
  <2>2. QED
        BY <2>1 DEF SomebodyWillServe
<1>8. Places' /\ Held' /\ Remembered' /\ NoIdleWhileWaiting'
      BY DEF Places, Held, Holders, Remembered, Open, NoIdleWhileWaiting
<1>9. AtMostMaxConnections'
      BY <1>3 DEF AtMostMaxConnections
<1>10. QED
      BY <1>4, <1>5, <1>6, <1>7, <1>8, <1>9

LEMMA ReleaseKept ==
    ASSUME Kept, NEW s \in Scopes, Release(s)
    PROVE  Kept'
<1> DEFINE c == holds[s]
           A == active \ {c}
           h == [holds EXCEPT ![s] = NoConn]
<1> USE DEF Kept, Release
<1>1. c \in Conns /\ c \in active /\ NoConn \notin Conns
      BY PoolAssumption DEF TypeOK, Held, Holders
<1>2. /\ A \in SUBSET Conns /\ h \in [Scopes -> Conns \cup {NoConn}]
      /\ \A t \in Scopes : h[t] = IF t = s THEN NoConn ELSE holds[t]
      BY DEF TypeOK
<1>3. Holders(A, h)
      BY <1>1, <1>2 DEF Held, Holders
<1>4. \A i \in DOMAIN queue : h[queue[i]] = NoConn
  <2>1. \A i \in DOMAIN queue : queue[i] \in Scopes
        BY ElementOfSeq, LenProperties DEF TypeOK
  <2>2. QED
        BY <1>2, <2>1 DEF QueueInv
<1>5. c \notin A \cup idle \cup doomed /\ Apart(A, idle, doomed)
      BY <1>1 DEF Places, Apart
<1>6. HandleAvailable(c, A, h) /\ Distinct(queue)
      BY DEF QueueInv, Distinct
<1> HIDE DEF c, A, h
<1>7. /\ idle' \in SUBSET Conns /\ active' \in SUBSET Conns /\ doomed' \in SUBSET Conns
      /\ holds' \in [Scopes -> Conns \cup {NoConn}]
      /\ uses' \in [Conns -> Nat]
      /\ ComesFrom(queue', queue)
      /\ active' \cup idle' \cup doomed' = A \cup idle \cup doomed \cup {c}
      /\ Apart(active', idle', doomed')
      /\ Cardinality(active') + Cardinality(idle') <= Cardinality(A) + Cardinality(idle) + 1
      /\ Holders(active', holds')
      /\ \A i \in DOMAIN queue' : holds'[queue'[i]] = NoConn
      /\ queue' # <<>> => idle' = {}
      /\ queue # <<>> => active' # {}
      BY <1>1, <1>2, <1>3, <1>4, <1>5, <1>6, AvailableGoesOn
<1>8. TypeOK' /\ CountsBalance'
      BY <1>7 DEF TypeOK, CountsBalance, ComesFrom
<1>9. active' \cup idle' \cup doomed' = active \cup idle \cup doomed
      BY <1>1, <1>7 DEF A
<1>10. Places' /\ Remembered'
  <2>1. \A d \in active' \cup idle' : life[d] = "open"
    <3>1. \A d \in active \cup idle : life[d] = "open"
          BY DEF Places
    <3>2. active' \cup idle' \subseteq active \cup idle
      <4>1. active' \cup idle' \subseteq A \cup idle \cup {c}
            BY <1>5, <1>7 DEF Apart, HandleAvailable
      <4>2. QED
            BY <1>1, <4>1 DEF A
    <3>3. QED
          BY <3>1, <3>2
  <2>2. \A d \in doomed' : life[d] \in {"open", "closing"}
        BY <1>9 DEF Places
  <2>3. QED
        BY <1>7, <1>9, <2>1, <2>2 DEF Places, Remembered, Apart, Open
<1>11. QueueInv'
      BY <1>7 DEF QueueInv, ComesFrom, Distinct
<1>12. AtMostMaxConnections'
  <2>1. Cardinality(A) + 1 = Cardinality(active) /\ Cardinality(A) \in Nat /\ Cardinality(idle) \in Nat
    <3>1. active \in SUBSET Conns /\ idle \in SUBSET Conns
          BY DEF TypeOK
    <3>2. Cardinality(A) = Cardinality(active) - 1 /\ Cardinality(active) \in Nat
          BY <1>1, <3>1, Sizes DEF A
    <3>3. Cardinality(A) \in Nat /\ Cardinality(idle) \in Nat
          BY <1>2, <3>1, SizeOf
    <3>4. QED
          BY <3>2, <3>3
  <2>2. Cardinality(active') \in Nat /\ Cardinality(idle') \in Nat
        BY <1>7, SizeOf
  <2>3. QED
        BY <1>7, <2>1, <2>2, PoolAssumption DEF AtMostMaxConnections, TypeOK
<1>13. NoIdleWhileWaiting' /\ Held'
      BY <1>7 DEF NoIdleWhileWaiting, Held
<1>14. SomebodyWillServe'
  <2>1. queue' # <<>> => queue # <<>>
        BY <1>7, OnlyEmpty
  <2>2. QED
        BY <1>7, <2>1 DEF SomebodyWillServe
<1>15. QED
      BY <1>8, <1>10, <1>11, <1>12, <1>13, <1>14

\* Items that leave the queue leave it in order.
LEMMA ShorterQueue ==
    ASSUME Kept, ComesFrom(queue', queue), UNCHANGED <<holds, ended>>
    PROVE  QueueInv' /\ queue' \in Seq(Scopes) /\ (queue' # <<>> => queue # <<>>)
<1>1. queue = <<>> => queue' = <<>>
      BY OnlyEmpty
<1>2. QueueInv'
      BY <1>1 DEF Kept, QueueInv, ComesFrom, Distinct
<1>3. QED
      BY <1>1, <1>2 DEF ComesFrom

LEMMA DiscardKept ==
    ASSUME Kept, NEW s \in Scopes, ~ended, holds[s] # NoConn, Discard(s)
    PROVE  Kept'
<1> DEFINE c == holds[s]
<1> USE DEF Kept, Discard, clients
<1>1. c \in Conns /\ c \in active /\ NoConn \notin Conns /\ life[c] = "open"
      BY PoolAssumption DEF TypeOK, Held, Holders, Places
<1>2. /\ active' \in SUBSET Conns /\ holds' \in [Scopes -> Conns \cup {NoConn}]
      /\ active' = active \ {c} /\ doomed' = doomed \cup {c}
      /\ \A t \in Scopes : holds'[t] = IF t = s THEN NoConn ELSE holds[t]
      /\ ended' = ended
      BY DEF TypeOK
<1>3. /\ queue \in Seq(Scopes) /\ idle \in SUBSET Conns
      /\ {connectingCount, remaining, inflight, backoff, renewals, RateLimit} \subseteq Nat
      /\ connectingCount = inflight + backoff /\ remaining + inflight + renewals = RateLimit
      /\ MaybeCreateNew(queue, active', idle, connectingCount, remaining, inflight)
      /\ UNCHANGED <<idle, queue, backoff, renewals>>
      BY PoolAssumption DEF TypeOK, CountsBalance
<1>4. Cardinality(active') + Cardinality(idle) + connectingCount <= MaxConnections
  <2>1. Cardinality(active') = Cardinality(active) - 1 /\ Cardinality(active) \in Nat /\ Cardinality(idle) \in Nat
    <3>1. active \in SUBSET Conns
          BY DEF TypeOK
    <3>2. Cardinality(active') = Cardinality(active) - 1
          BY <1>1, <1>2, <3>1, Sizes
    <3>3. QED
          BY <1>3, <3>1, <3>2, SizeOf
  <2>2. QED
        BY <1>3, <2>1, PoolAssumption, SMTT(20) DEF AtMostMaxConnections
<1>5. /\ connectingCount' \in Nat /\ remaining' \in Nat /\ inflight' \in Nat
      /\ connectingCount' + inflight = connectingCount + inflight'
      /\ remaining' + inflight' = remaining + inflight
      /\ Cardinality(active') + Cardinality(idle) + connectingCount' <= MaxConnections
  <2> HIDE DEF Kept, Discard
  <2>1. QED
        BY <1>2, <1>3, <1>4, StartsWithinLimit
<1>6. TypeOK'
      BY <1>1, <1>2, <1>5 DEF TypeOK
<1>7. CountsBalance' /\ AtMostMaxConnections'
  <2> HIDE DEF Kept, Discard
  <2>1. CountsBalance'
    <3>1. /\ connectingCount = inflight + backoff /\ remaining + inflight + renewals = RateLimit
          /\ backoff' = backoff /\ renewals' = renewals
          /\ {connectingCount, remaining, inflight, backoff, renewals, RateLimit} \subseteq Nat
          BY <1>3
    <3>2. QED
          BY <1>5, <3>1 DEF CountsBalance
  <2>2. AtMostMaxConnections'
        BY <1>3, <1>5 DEF AtMostMaxConnections
  <2>3. QED
        BY <2>1, <2>2
<1>8. Held'
      BY <1>1, <1>2 DEF Held, Holders
<1>9. Places' /\ Remembered' /\ NoIdleWhileWaiting'
      BY <1>1 DEF Places, Remembered, Open, NoIdleWhileWaiting
<1>10. QueueInv'
  <2>1. \A i \in DOMAIN queue : queue[i] \in Scopes
        BY <1>3, ElementOfSeq, LenProperties
  <2>2. QED
        BY <1>2, <2>1 DEF QueueInv
<1>11. SomebodyWillServe'
  <2>1. ASSUME queue # <<>> PROVE active' # {} \/ inflight' + backoff + renewals > 0
    <3>1. MaybeCreateNew(queue, active', {}, connectingCount, remaining, inflight)
          BY <1>3, <2>1 DEF NoIdleWhileWaiting
    <3> HIDE DEF Kept, Discard
    <3>2. QED
          BY <1>2, <1>3, <2>1, <3>1, StartsOrSomebodyWill
  <2>2. QED
        BY <2>1, <1>3 DEF SomebodyWillServe
<1>12. QED
      BY <1>6, <1>7, <1>8, <1>9, <1>10, <1>11

LEMMA LeaveClosedKept ==
    ASSUME Kept, NEW s \in Scopes, LeaveClosed(s)
    PROVE  Kept'
<1> USE DEF Kept, LeaveClosed, pool, outstanding, clients
<1>1. TypeOK' /\ CountsBalance' /\ AtMostMaxConnections'
      BY DEF TypeOK, CountsBalance, AtMostMaxConnections
<1>2. queue = <<>> /\ queue' = <<>>
      BY DEF QueueInv
<1>3. QueueInv' /\ NoIdleWhileWaiting' /\ SomebodyWillServe'
      BY <1>2 DEF QueueInv, NoIdleWhileWaiting, SomebodyWillServe
<1>4. Places' /\ Held' /\ Remembered'
      BY DEF Places, Held, Remembered, Open
<1>5. QED
      BY <1>1, <1>3, <1>4

LEMMA CloseIdleKept ==
    ASSUME Kept, CloseIdle
    PROVE  Kept'
<1> USE DEF Kept, CloseIdle, outstanding
<1>1. TypeOK' /\ CountsBalance'
      BY DEF TypeOK, CountsBalance, Spend
<1>2. AtMostMaxConnections'
  <2>1. Cardinality({}) = 0 /\ Cardinality(idle) \in Nat /\ Cardinality(active) \in Nat
        BY FS_EmptySet, SizeOf DEF TypeOK
  <2>2. QED
        BY <2>1, PoolAssumption DEF AtMostMaxConnections, TypeOK
<1>3. QueueInv' /\ NoIdleWhileWaiting' /\ SomebodyWillServe' /\ Held'
      BY DEF QueueInv, NoIdleWhileWaiting, SomebodyWillServe, Held, Holders
<1>4. \A c \in Conns : life'[c] = IF c \in idle /\ life[c] = "open" THEN "closing" ELSE life[c]
      BY DEF Open, TypeOK
<1>5. Places' /\ Remembered'
      BY <1>4 DEF Places, Remembered, Open, TypeOK
<1>6. QED
      BY <1>1, <1>2, <1>3, <1>5

LEMMA EndKept ==
    ASSUME Kept, End
    PROVE  Kept'
<1> USE DEF Kept, End, outstanding
<1>1. TypeOK' /\ CountsBalance' /\ AtMostMaxConnections'
      BY EmptySeq DEF TypeOK, CountsBalance, AtMostMaxConnections, Spend
<1>2. QueueInv' /\ NoIdleWhileWaiting' /\ SomebodyWillServe' /\ Held'
      BY DEF QueueInv, NoIdleWhileWaiting, SomebodyWillServe, Held
<1>3. \A c \in Conns : life'[c] = IF c \in idle \cup active THEN "closing" ELSE life[c]
      BY DEF TypeOK
<1>4. Places' /\ Remembered'
      BY <1>3 DEF Places, Remembered, Open, TypeOK
<1>5. QED
      BY <1>1, <1>2, <1>4

LEMMA EndFinishedKept ==
    ASSUME Kept, EndFinished
    PROVE  Kept'
<1> USE DEF Kept, EndFinished, outstanding, clients
<1>1. TypeOK' /\ CountsBalance'
      BY DEF TypeOK, CountsBalance
<1>2. AtMostMaxConnections'
  <2>1. Cardinality({}) = 0 /\ Cardinality(idle) \in Nat /\ Cardinality(active) \in Nat
        BY FS_EmptySet, SizeOf DEF TypeOK
  <2>2. QED
        BY <2>1, PoolAssumption DEF AtMostMaxConnections, TypeOK
<1>3. queue = <<>> /\ queue' = <<>>
      BY DEF QueueInv
<1>4. QueueInv' /\ NoIdleWhileWaiting' /\ SomebodyWillServe' /\ Held'
      BY <1>3 DEF QueueInv, NoIdleWhileWaiting, SomebodyWillServe, Held
<1>5. Places' /\ Remembered'
      BY DEF Places, Remembered, Open
<1>6. QED
      BY <1>1, <1>2, <1>4, <1>5

\* The numbers of the pool, in one place for arithmetic.
LEMMA Numbers ==
    ASSUME Kept
    PROVE  /\ connectingCount \in Nat /\ remaining \in Nat /\ inflight \in Nat
           /\ backoff \in Nat /\ renewals \in Nat
           /\ RateLimit \in Nat /\ MaxConnections \in Nat
           /\ connectingCount = inflight + backoff
           /\ remaining + inflight + renewals = RateLimit
           /\ Cardinality(active) \in Nat /\ Cardinality(idle) \in Nat
           /\ Cardinality(active) + Cardinality(idle) + connectingCount <= MaxConnections
BY PoolAssumption, SizeOf DEF Kept, TypeOK, CountsBalance, AtMostMaxConnections

LEMMA ConnectedKept ==
    ASSUME Kept, NEW c \in Conns, Connected(c)
    PROVE  Kept'
<1> DEFINE n == connectingCount - 1
           f == inflight - 1
<1> USE DEF Connected, AttemptEnds
<1>1. /\ n \in Nat /\ f \in Nat /\ n = f + backoff
      /\ remaining + f + (renewals + 1) = RateLimit
      BY Numbers
<1>2. /\ c \notin active \cup idle \cup doomed /\ Apart(active, idle, doomed)
      /\ Holders(active, holds)
      /\ \A i \in DOMAIN queue : holds[queue[i]] = NoConn
      /\ Distinct(queue) /\ TypeOK /\ NoIdleWhileWaiting
      BY DEF Kept, Places, Apart, Held, QueueInv, Distinct
<1>3. active \in SUBSET Conns /\ idle \in SUBSET Conns /\ holds \in [Scopes -> Conns \cup {NoConn}]
      BY <1>2 DEF TypeOK
<1>4. HandleAvailable(c, active, holds)
      OBVIOUS
<1>5. /\ idle' \in SUBSET Conns /\ active' \in SUBSET Conns /\ doomed' \in SUBSET Conns
      /\ holds' \in [Scopes -> Conns \cup {NoConn}]
      /\ uses' \in [Conns -> Nat]
      /\ ComesFrom(queue', queue)
      /\ active' \cup idle' \cup doomed' = active \cup idle \cup doomed \cup {c}
      /\ Apart(active', idle', doomed')
      /\ Cardinality(active') + Cardinality(idle') <= Cardinality(active) + Cardinality(idle) + 1
      /\ Holders(active', holds')
      /\ \A i \in DOMAIN queue' : holds'[queue'[i]] = NoConn
      /\ queue' # <<>> => idle' = {}
      BY <1>2, <1>3, <1>4, AvailableGoesOn
<1>6. queue' \in Seq(Scopes) /\ remaining \in Nat
      BY <1>5, Numbers DEF ComesFrom
<1>7. Cardinality(active') + Cardinality(idle') + n <= MaxConnections
  <2>1. Cardinality(active') \in Nat /\ Cardinality(idle') \in Nat
        BY <1>5, SizeOf
  <2>2. Cardinality(active') + Cardinality(idle') <= Cardinality(active) + Cardinality(idle) + 1
        BY <1>5
  <2> HIDE DEF Connected
  <2>3. QED
        BY <2>1, <2>2, Numbers
<1>8. MaybeCreateNew(queue', active', idle', n, remaining, f)
      OBVIOUS
<1> HIDE DEF n, f
<1>9. /\ connectingCount' \in Nat /\ remaining' \in Nat /\ inflight' \in Nat
      /\ connectingCount' + f = n + inflight'
      /\ remaining' + inflight' = remaining + f
      /\ Cardinality(active') + Cardinality(idle') + connectingCount' <= MaxConnections
      BY <1>1, <1>5, <1>6, <1>7, <1>8, StartsWithinLimit, SMTT(20)
<1>10. renewals' = renewals + 1 /\ backoff' = backoff /\ ended' = ended /\ ~ended /\ life[c] = "none"
       OBVIOUS
<1>11. TypeOK'
  <2>1. renewals' \in Nat
        BY <1>10, Numbers
  <2>2. life' \in [Conns -> {"none", "open", "closing", "closed"}]
        BY <1>2 DEF TypeOK
  <2>3. QED
        BY <1>2, <1>5, <1>6, <1>9, <2>1, <2>2 DEF TypeOK
<1>12. CountsBalance'
  <2> HIDE DEF Connected
  <2>1. QED
        BY <1>1, <1>9, <1>10, Numbers DEF CountsBalance
<1>13. AtMostMaxConnections'
       BY <1>9 DEF AtMostMaxConnections
<1>14. \A d \in Conns : life'[d] = IF d = c THEN "open" ELSE life[d]
       BY <1>2 DEF TypeOK
<1>15. Places' /\ Remembered'
  <2>1. \A d \in active' \cup idle' : d \in active \cup idle \cup {c}
        BY <1>2 DEF HandleAvailable
  <2>2. \A d \in active' \cup idle' : life'[d] = "open"
        BY <1>5, <1>10, <1>14, <2>1 DEF Kept, Places
  <2>3. \A d \in doomed' : life'[d] \in {"open", "closing"}
        BY <1>5, <1>10, <1>14 DEF Kept, Places
  <2>4. QED
        BY <1>5, <1>10, <1>14, <2>2, <2>3 DEF Kept, Places, Remembered, Apart, Open
<1>16. QueueInv' /\ NoIdleWhileWaiting' /\ Held'
       BY <1>5, <1>10 DEF QueueInv, ComesFrom, Distinct, NoIdleWhileWaiting, Held
<1>17. SomebodyWillServe'
  <2>1. inflight' + backoff' + renewals' > 0
        BY <1>9, <1>10, Numbers
  <2>2. QED
        BY <2>1 DEF SomebodyWillServe
<1>18. QED
       BY <1>11, <1>12, <1>13, <1>15, <1>16, <1>17 DEF Kept

LEMMA ConnectedAfterEndKept ==
    ASSUME Kept, NEW c \in Conns, ConnectedAfterEnd(c)
    PROVE  Kept'
<1> USE DEF ConnectedAfterEnd, AttemptEnds, AfterEnd
<1>1. TypeOK'
      BY Numbers DEF Kept, TypeOK
<1>2. CountsBalance' /\ AtMostMaxConnections'
  <2>1. CountsBalance'
        BY Numbers DEF CountsBalance
  <2>2. AtMostMaxConnections'
    <3>1. connectingCount' = connectingCount - 1 /\ UNCHANGED <<active, idle>>
          OBVIOUS
    <3> HIDE DEF ConnectedAfterEnd
    <3>2. QED
          BY <3>1, Numbers DEF AtMostMaxConnections
  <2>3. QED
        BY <2>1, <2>2
<1>3. QueueInv' /\ NoIdleWhileWaiting' /\ SomebodyWillServe' /\ Held'
      BY DEF Kept, QueueInv, NoIdleWhileWaiting, SomebodyWillServe, Held
<1>4. \A d \in Conns : life'[d] = IF d = c THEN "closing" ELSE life[d]
      BY DEF Kept, TypeOK
<1>5. Places' /\ Remembered'
      BY <1>4 DEF Kept, Places, Remembered, Open, TypeOK
<1>6. QED
      BY <1>1, <1>2, <1>3, <1>5 DEF Kept

LEMMA ConnectFailsForNowKept ==
    ASSUME Kept, ConnectFailsForNow
    PROVE  Kept'
<1> USE DEF ConnectFailsForNow, AttemptEnds, Spend, pool, clients
<1>1. TypeOK'
      BY Numbers DEF Kept, TypeOK
<1>2. CountsBalance' /\ AtMostMaxConnections'
      BY Numbers DEF CountsBalance, AtMostMaxConnections
<1>3. SomebodyWillServe'
  <2>1. inflight' + backoff' + renewals' > 0
        BY Numbers
  <2>2. QED
        BY <2>1 DEF SomebodyWillServe
<1>4. QueueInv' /\ NoIdleWhileWaiting' /\ Held' /\ Places' /\ Remembered'
      BY DEF Kept, QueueInv, NoIdleWhileWaiting, Held, Holders, Places, Remembered, Open
<1>5. QED
      BY <1>1, <1>2, <1>3, <1>4 DEF Kept

LEMMA ReconnectKept ==
    ASSUME Kept, Reconnect
    PROVE  Kept'
<1> DEFINE n == connectingCount - 1
           r == remaining
<1> USE DEF Reconnect
<1>1. /\ n \in Nat /\ r \in Nat /\ inflight \in Nat /\ backoff' \in Nat /\ renewals' \in Nat
      /\ n = inflight + backoff' /\ r + inflight + renewals' = RateLimit
      /\ Cardinality(active) + Cardinality(idle) + n <= MaxConnections
      BY Numbers
<1>2. /\ queue \in Seq(Scopes) /\ active \in SUBSET Conns /\ idle \in SUBSET Conns
      /\ MaybeCreateNew(queue, active, idle, n, r, inflight)
      BY DEF Kept, TypeOK
<1>3. UNCHANGED <<ended, idle, active, queue, doomed, life, uses, lost, holds, thrown, left>>
      BY DEF clients
<1> HIDE DEF n, r, Reconnect
<1>4. /\ connectingCount' \in Nat /\ remaining' \in Nat /\ inflight' \in Nat
      /\ connectingCount' + inflight = n + inflight'
      /\ remaining' + inflight' = r + inflight
      /\ Cardinality(active) + Cardinality(idle) + connectingCount' <= MaxConnections
      BY <1>1, <1>2, StartsWithinLimit
<1>5. TypeOK'
      BY <1>1, <1>3, <1>4 DEF Kept, TypeOK
<1>6. CountsBalance'
  <2>1. backoff' = backoff - 1 /\ backoff > 0 /\ renewals' = renewals
        BY DEF Reconnect, n, r
  <2>2. QED
        BY <1>4, <2>1, Numbers DEF CountsBalance, n, r
<1>7. AtMostMaxConnections'
      BY <1>3, <1>4 DEF AtMostMaxConnections
<1>8. SomebodyWillServe'
  <2>1. ASSUME queue # <<>> PROVE active # {} \/ inflight' + backoff' + renewals' > 0
    <3>1. ~ended /\ MaybeCreateNew(queue, active, {}, n, r, inflight)
          BY <1>2, <2>1 DEF Kept, QueueInv, NoIdleWhileWaiting
    <3>2. QED
          BY <1>1, <1>2, <2>1, <3>1, StartsOrSomebodyWill
  <2>2. QED
        BY <1>3, <2>1 DEF SomebodyWillServe
<1>9. QueueInv' /\ NoIdleWhileWaiting' /\ Held' /\ Places' /\ Remembered'
      BY <1>3 DEF Kept, QueueInv, NoIdleWhileWaiting, Held, Holders, Places, Remembered, Open
<1>10. QED
       BY <1>5, <1>6, <1>7, <1>8, <1>9 DEF Kept

LEMMA RateRenewedKept ==
    ASSUME Kept, RateRenewed
    PROVE  Kept'
<1> DEFINE n == connectingCount
           r == remaining + 1
<1> USE DEF RateRenewed
<1>1. /\ n \in Nat /\ r \in Nat /\ inflight \in Nat /\ backoff' \in Nat /\ renewals' \in Nat
      /\ n = inflight + backoff' /\ r + inflight + renewals' = RateLimit
      /\ Cardinality(active) + Cardinality(idle) + n <= MaxConnections
      BY Numbers
<1>2. /\ queue \in Seq(Scopes) /\ active \in SUBSET Conns /\ idle \in SUBSET Conns
      /\ MaybeCreateNew(queue, active, idle, n, r, inflight)
      BY DEF Kept, TypeOK
<1>3. UNCHANGED <<ended, idle, active, queue, doomed, life, uses, lost, holds, thrown, left>>
      BY DEF clients
<1> HIDE DEF n, r, RateRenewed
<1>4. /\ connectingCount' \in Nat /\ remaining' \in Nat /\ inflight' \in Nat
      /\ connectingCount' + inflight = n + inflight'
      /\ remaining' + inflight' = r + inflight
      /\ Cardinality(active) + Cardinality(idle) + connectingCount' <= MaxConnections
      BY <1>1, <1>2, StartsWithinLimit
<1>5. TypeOK'
      BY <1>1, <1>3, <1>4 DEF Kept, TypeOK
<1>6. CountsBalance'
  <2>1. renewals' = renewals - 1 /\ renewals > 0 /\ backoff' = backoff
        BY DEF RateRenewed, n, r
  <2>2. connectingCount' + inflight = connectingCount + inflight' /\ remaining' + inflight' = remaining + 1 + inflight
        BY <1>4 DEF n, r
  <2>3. connectingCount' = inflight' + backoff'
        BY <1>4, <2>1, <2>2, Numbers
  <2>4. remaining' + inflight' + renewals' = RateLimit
        BY <1>4, <2>1, <2>2, Numbers
  <2>5. QED
        BY <2>3, <2>4 DEF CountsBalance
<1>7. AtMostMaxConnections'
      BY <1>3, <1>4 DEF AtMostMaxConnections
<1>8. SomebodyWillServe'
  <2>1. ASSUME queue # <<>> PROVE active # {} \/ inflight' + backoff' + renewals' > 0
    <3>1. ~ended /\ MaybeCreateNew(queue, active, {}, n, r, inflight)
          BY <1>2, <2>1 DEF Kept, QueueInv, NoIdleWhileWaiting
    <3>2. QED
          BY <1>1, <1>2, <2>1, <3>1, StartsOrSomebodyWill
  <2>2. QED
        BY <1>3, <2>1 DEF SomebodyWillServe
<1>9. QueueInv' /\ NoIdleWhileWaiting' /\ Held' /\ Places' /\ Remembered'
      BY <1>3 DEF Kept, QueueInv, NoIdleWhileWaiting, Held, Holders, Places, Remembered, Open
<1>10. QED
       BY <1>5, <1>6, <1>7, <1>8, <1>9 DEF Kept

LEMMA ConnectFailsKept ==
    ASSUME Kept, ConnectFails
    PROVE  Kept'
<1> USE DEF ConnectFails, AttemptEnds, Spend, FewerConnecting, clients
<1>1. queue \in Seq(Scopes) /\ Distinct(queue)
      BY DEF Kept, TypeOK, QueueInv, Distinct
<1>2. ComesFrom(queue', queue)
  <2>1. CASE active = {} /\ queue # <<>>
        BY <1>1, <2>1, ServedFirst
  <2>2. CASE ~(active = {} /\ queue # <<>>)
    <3>1. queue' = queue
          BY <2>2
    <3>2. \A j \in DOMAIN queue : j \in Nat /\ j <= j
          BY <1>1, LenProperties
    <3>3. QED
          BY <1>1, <3>1, <3>2 DEF ComesFrom
  <2>3. QED
        BY <2>1, <2>2
<1>3. QueueInv' /\ queue' \in Seq(Scopes) /\ (queue' # <<>> => queue # <<>>)
      BY <1>2, ShorterQueue
<1>4. TypeOK'
      BY <1>3, Numbers DEF Kept, TypeOK
<1>5. /\ connectingCount' = connectingCount - 1 /\ inflight' = inflight - 1 /\ inflight > 0
      /\ renewals' = renewals + 1 /\ backoff' = backoff /\ remaining' = remaining
      /\ UNCHANGED <<active, idle, ended>>
      OBVIOUS
<1>6. Places' /\ Held' /\ Remembered'
      BY DEF Kept, Places, Held, Holders, Remembered, Open
<1>7. NoIdleWhileWaiting'
      BY <1>3 DEF Kept, NoIdleWhileWaiting
<1> HIDE DEF ConnectFails
<1>8. CountsBalance'
  <2>1. connectingCount' = inflight' + backoff'
        BY <1>5, Numbers
  <2>2. remaining' + inflight' + renewals' = RateLimit
        BY <1>5, Numbers
  <2>3. QED
        BY <2>1, <2>2 DEF CountsBalance
<1>9. AtMostMaxConnections'
      BY <1>5, Numbers DEF AtMostMaxConnections
<1>10. SomebodyWillServe'
  <2>1. inflight' + backoff' + renewals' > 0
        BY <1>5, Numbers
  <2>2. QED
        BY <2>1 DEF SomebodyWillServe
<1>11. QED
       BY <1>3, <1>4, <1>6, <1>7, <1>8, <1>9, <1>10 DEF Kept

LEMMA ItemTimeoutKept ==
    ASSUME Kept, NEW i \in 1 .. Len(queue), ItemTimeout(i)
    PROVE  Kept'
<1> USE DEF ItemTimeout, Spend, clients, outstanding
<1>1. queue \in Seq(Scopes) /\ Distinct(queue) /\ i \in DOMAIN queue /\ queue' = Without(i)
      BY DEF Kept, TypeOK, QueueInv, Distinct
<1>2. ComesFrom(queue', queue)
      BY <1>1, TimedOut
<1>3. QueueInv' /\ queue' \in Seq(Scopes) /\ (queue' # <<>> => queue # <<>>)
      BY <1>2, ShorterQueue
<1>4. TypeOK'
      BY <1>3 DEF Kept, TypeOK
<1>5. CountsBalance' /\ AtMostMaxConnections'
      BY DEF Kept, CountsBalance, AtMostMaxConnections
<1>6. Places' /\ Held' /\ Remembered'
      BY DEF Kept, Places, Held, Holders, Remembered, Open
<1>7. NoIdleWhileWaiting' /\ SomebodyWillServe'
      BY <1>3 DEF Kept, NoIdleWhileWaiting, SomebodyWillServe
<1>8. QED
      BY <1>3, <1>4, <1>5, <1>6, <1>7 DEF Kept

\* A disposal changes only whether the connection is open.
LEMMA Disposal ==
    ASSUME TypeOK, NEW c \in Conns, Dispose(c)
    PROVE  /\ life' \in [Conns -> {"none", "open", "closing", "closed"}]
           /\ thrown' \in SUBSET Conns
           /\ \A d \in Conns : life'[d] = IF d = c /\ life[c] = "open" THEN "closing" ELSE life[d]
BY DEF TypeOK, Dispose

\* An idle connection that is dropped.
LEMMA IdleDropped ==
    ASSUME Kept, NEW c \in Conns, idle' = idle \ {c}, Dispose(c),
           UNCHANGED <<ended, connectingCount, remaining, active, queue, outstanding, uses, holds>>,
           left' \in Nat, lost' \in SUBSET Conns, c \notin active
    PROVE  Kept'
<1> USE DEF outstanding
<1>1. /\ life' \in [Conns -> {"none", "open", "closing", "closed"}]
      /\ thrown' \in SUBSET Conns
      /\ \A d \in Conns : life'[d] = IF d = c /\ life[c] = "open" THEN "closing" ELSE life[d]
      BY Disposal DEF Kept
<1>2. TypeOK' /\ CountsBalance'
      BY <1>1 DEF Kept, TypeOK, CountsBalance
<1>3. QueueInv' /\ NoIdleWhileWaiting' /\ SomebodyWillServe' /\ Held'
      BY DEF Kept, QueueInv, NoIdleWhileWaiting, SomebodyWillServe, Held, Holders
<1>4. AtMostMaxConnections'
  <2>1. Cardinality(idle') <= Cardinality(idle) /\ Cardinality(idle') \in Nat
    <3>1. Cardinality(idle \ {c}) = Cardinality(idle) \/ Cardinality(idle \ {c}) = Cardinality(idle) - 1
          BY Sizes DEF Kept, TypeOK
    <3>2. Cardinality(idle') \in Nat
          BY <1>2, SizeOf DEF TypeOK
    <3>3. QED
          BY <3>1, <3>2, Numbers
  <2>2. connectingCount' = connectingCount /\ active' = active
        OBVIOUS
  <2>3. QED
        BY <2>1, <2>2, Numbers DEF AtMostMaxConnections
<1>5. Places' /\ Remembered'
      BY <1>1 DEF Kept, TypeOK, Places, Remembered, Open
<1>6. QED
      BY <1>2, <1>3, <1>4, <1>5 DEF Kept

LEMMA IdleTimeoutKept ==
    ASSUME Kept, NEW c \in Conns, IdleTimeout(c)
    PROVE  Kept'
<1>1. left' \in Nat /\ lost' \in SUBSET Conns /\ c \notin active
      BY DEF Kept, TypeOK, Places, IdleTimeout
<1>2. QED
      BY <1>1, IdleDropped DEF IdleTimeout

LEMMA ErrorEventKept ==
    ASSUME Kept, NEW c \in Conns, ErrorEvent(c)
    PROVE  Kept'
<1>1. left' \in Nat /\ lost' \in SUBSET Conns
      BY DEF Kept, TypeOK, ErrorEvent, Spend
<1>2. CASE c \in active
  <2> USE <1>2 DEF ErrorEvent, outstanding
  <2>1. TypeOK' /\ CountsBalance' /\ AtMostMaxConnections'
        BY <1>1 DEF Kept, TypeOK, CountsBalance, AtMostMaxConnections
  <2>2. QueueInv' /\ NoIdleWhileWaiting' /\ SomebodyWillServe' /\ Held'
        BY DEF Kept, QueueInv, NoIdleWhileWaiting, SomebodyWillServe, Held, Holders
  <2>3. Places' /\ Remembered'
        BY DEF Kept, Places, Remembered, Open
  <2>4. QED
        BY <2>1, <2>2, <2>3 DEF Kept
<1>3. CASE c \notin active
      BY <1>1, <1>3, IdleDropped DEF ErrorEvent
<1>4. QED
      BY <1>2, <1>3

LEMMA DisposeDoomedKept ==
    ASSUME Kept, NEW c \in Conns, DisposeDoomed(c)
    PROVE  Kept'
<1> USE DEF DisposeDoomed, pool
<1>1. /\ life' \in [Conns -> {"none", "open", "closing", "closed"}]
      /\ thrown' \in SUBSET Conns
      /\ \A d \in Conns : life'[d] = IF d = c /\ life[c] = "open" THEN "closing" ELSE life[d]
      BY Disposal DEF Kept
<1>2. TypeOK' /\ CountsBalance' /\ AtMostMaxConnections'
      BY <1>1 DEF Kept, TypeOK, CountsBalance, AtMostMaxConnections
<1>3. QueueInv' /\ NoIdleWhileWaiting' /\ SomebodyWillServe' /\ Held'
      BY DEF Kept, QueueInv, NoIdleWhileWaiting, SomebodyWillServe, Held, Holders
<1>4. Places' /\ Remembered'
      BY <1>1 DEF Kept, TypeOK, Places, Remembered, Open
<1>5. QED
      BY <1>2, <1>3, <1>4 DEF Kept

LEMMA ClosedKept ==
    ASSUME Kept, NEW c \in Conns, Closed(c)
    PROVE  Kept'
<1> USE DEF Closed, pool, outstanding
<1>1. \A d \in Conns : life'[d] = IF d = c THEN (IF ended THEN "closed" ELSE "none") ELSE life[d]
      BY DEF Kept, TypeOK
<1>2. TypeOK' /\ CountsBalance' /\ AtMostMaxConnections'
      BY DEF Kept, TypeOK, CountsBalance, AtMostMaxConnections
<1>3. QueueInv' /\ NoIdleWhileWaiting' /\ SomebodyWillServe' /\ Held'
      BY DEF Kept, QueueInv, NoIdleWhileWaiting, SomebodyWillServe, Held, Holders
<1>4. Places' /\ Remembered'
      BY <1>1 DEF Kept, TypeOK, Places, Remembered, Open
<1>5. QED
      BY <1>2, <1>3, <1>4 DEF Kept

LEMMA StutterKept ==
    ASSUME Kept, UNCHANGED vars
    PROVE  Kept'
<1> USE DEF vars, pool, outstanding, clients
<1>1. TypeOK' /\ CountsBalance' /\ AtMostMaxConnections'
      BY DEF Kept, TypeOK, CountsBalance, AtMostMaxConnections
<1>2. QueueInv' /\ NoIdleWhileWaiting' /\ SomebodyWillServe' /\ Held'
      BY DEF Kept, QueueInv, NoIdleWhileWaiting, SomebodyWillServe, Held, Holders
<1>3. Places' /\ Remembered'
      BY DEF Kept, Places, Remembered, Open
<1>4. QED
      BY <1>1, <1>2, <1>3 DEF Kept

LEMMA NextKept ==
    ASSUME Kept, [Next]_vars
    PROVE  Kept'
<1>1. ASSUME NEW s \in Scopes, NEW c \in Conns, AcquireIdle(s, c) PROVE Kept'
      BY <1>1, AcquireIdleKept
<1>2. ASSUME NEW s \in Scopes, AcquireLater(s) PROVE Kept'
      BY <1>2, AcquireLaterKept
<1>3. ASSUME NEW s \in Scopes, Ends(s) PROVE Kept'
  <2>1. CASE Release(s)
        BY <2>1, ReleaseKept
  <2>2. CASE ReleaseWorn(s)
        BY <2>2, DiscardKept DEF ReleaseWorn
  <2>3. CASE DisposeHeld(s)
        BY <2>3, DiscardKept DEF DisposeHeld
  <2>4. CASE LeaveClosed(s)
        BY <2>4, LeaveClosedKept
  <2>5. QED
        BY <1>3, <2>1, <2>2, <2>3, <2>4 DEF Ends
<1>4. CASE CloseIdle
      BY <1>4, CloseIdleKept
<1>5. CASE End
      BY <1>5, EndKept
<1>6. CASE EndFinished
      BY <1>6, EndFinishedKept
<1>7. CASE Settles
  <2>1. ASSUME NEW c \in Conns, Connected(c) PROVE Kept'
        BY <2>1, ConnectedKept
  <2>2. ASSUME NEW c \in Conns, ConnectedAfterEnd(c) PROVE Kept'
        BY <2>2, ConnectedAfterEndKept
  <2>3. CASE ConnectFailsForNow
        BY <2>3, ConnectFailsForNowKept
  <2>4. CASE ConnectFails
        BY <2>4, ConnectFailsKept
  <2>5. QED
        BY <1>7, <2>1, <2>2, <2>3, <2>4 DEF Settles
<1>8. CASE Reconnect
      BY <1>8, ReconnectKept
<1>9. CASE RateRenewed
      BY <1>9, RateRenewedKept
<1>10. ASSUME NEW i \in 1 .. Len(queue), ItemTimeout(i) PROVE Kept'
       BY <1>10, ItemTimeoutKept
<1>11. ASSUME NEW c \in Conns, IdleTimeout(c) PROVE Kept'
       BY <1>11, IdleTimeoutKept
<1>12. ASSUME NEW c \in Conns, DisposeDoomed(c) PROVE Kept'
       BY <1>12, DisposeDoomedKept
<1>13. ASSUME NEW c \in Conns, ErrorEvent(c) PROVE Kept'
       BY <1>13, ErrorEventKept
<1>14. ASSUME NEW c \in Conns, Closed(c) PROVE Kept'
       BY <1>14, ClosedKept
<1>15. CASE UNCHANGED vars
       BY <1>15, StutterKept
<1>16. QED
       BY <1>1, <1>2, <1>3, <1>4, <1>5, <1>6, <1>7, <1>8, <1>9, <1>10, <1>11, <1>12, <1>13, <1>14, <1>15
       DEF Next

LEMMA AlwaysKept == Spec => []Kept
<1>1. Init => Kept
      BY InitKept
<1>2. Kept /\ [Next]_vars => Kept'
      BY NextKept
<1>3. QED
      BY <1>1, <1>2, PTL DEF Spec

-----------------------------------------------------------------------------
(* No step lets anybody overtake *)

InTurn ==
    \A i \in DOMAIN queue, j \in DOMAIN queue' : queue'[j] = queue[i] =>
        /\ j <= i
        /\ \A s \in Scopes : holds[s] = NoConn /\ holds'[s] # NoConn =>
              \E k \in 1 .. i - 1 : queue[k] = s

NobodyGains == \A s \in Scopes : holds'[s] \in {holds[s], NoConn}

LEMMA KeptQueue ==
    ASSUME Kept
    PROVE  queue \in Seq(Scopes) /\ Distinct(queue) /\ \A i \in DOMAIN queue : i \in Nat /\ i > 0
BY LenProperties DEF Kept, TypeOK, QueueInv, Distinct

\* Items leave, and nobody gets a connection.
LEMMA LeavingInTurn ==
    ASSUME Kept, NobodyGains, ComesFrom(queue', queue)
    PROVE  InTurn
<1> SUFFICES ASSUME NEW i \in DOMAIN queue, NEW j \in DOMAIN queue', queue'[j] = queue[i]
             PROVE  j <= i
    BY DEF InTurn, NobodyGains
<1>1. PICK k \in DOMAIN queue : j <= k /\ queue'[j] = queue[k]
      BY DEF ComesFrom
<1>2. k = i
      BY <1>1, KeptQueue DEF Distinct
<1>3. QED
      BY <1>1, <1>2

\* The queue stays, and nobody gets a connection.
LEMMA StayingInTurn ==
    ASSUME Kept, NobodyGains, UNCHANGED queue
    PROVE  InTurn
<1>1. ComesFrom(queue', queue)
      BY KeptQueue DEF ComesFrom
<1>2. QED
      BY <1>1, LeavingInTurn

LEMMA EmptyInTurn ==
    ASSUME queue = <<>> \/ queue' = <<>>
    PROVE  InTurn
BY DEF InTurn

LEMMA AcquireLaterInTurn ==
    ASSUME Kept, NEW s \in Scopes, AcquireLater(s)
    PROVE  InTurn
<1>1. ~Waiting(s) /\ queue' = Enqueued(s) /\ holds' = holds
      BY DEF AcquireLater
<1>2. \A j \in DOMAIN queue' : (j \in DOMAIN queue /\ queue'[j] = queue[j]) \/ queue'[j] = s
      BY <1>1, KeptQueue, Queued
<1> SUFFICES ASSUME NEW i \in DOMAIN queue, NEW j \in DOMAIN queue', queue'[j] = queue[i]
             PROVE  j <= i
    BY <1>1 DEF InTurn
<1>3. j \in DOMAIN queue /\ queue'[j] = queue[j]
      BY <1>1, <1>2 DEF Waiting
<1>4. j = i
      BY <1>3, KeptQueue DEF Distinct
<1>5. QED
      BY <1>4, KeptQueue

\* An available connection goes to the first.
LEMMA ServingInTurn ==
    ASSUME Kept, NEW c, NEW A, NEW h, HandleAvailable(c, A, h),
           h \in [Scopes -> Conns \cup {NoConn}],
           \A s \in Scopes : h[s] \in {holds[s], NoConn}
    PROVE  InTurn
<1>1. CASE queue = <<>>
      BY <1>1, EmptyInTurn
<1>2. CASE queue # <<>>
  <2>1. queue' = Tail(queue) /\ holds' = [h EXCEPT ![Head(queue)] = c]
        BY <1>2 DEF HandleAvailable, SomebodyWaits
  <2>2. /\ Head(queue) = queue[1]
        /\ \A j \in DOMAIN queue' : j + 1 \in DOMAIN queue /\ queue'[j] = queue[j + 1]
        /\ queue' \in Seq(Scopes)
        BY <1>2, <2>1, KeptQueue, ServedFirst DEF ComesFrom
  <2>3. SUFFICES ASSUME NEW i \in DOMAIN queue, NEW j \in DOMAIN queue', queue'[j] = queue[i]
                 PROVE  /\ j <= i
                        /\ \A s \in Scopes : holds[s] = NoConn /\ holds'[s] # NoConn =>
                              \E k \in 1 .. i - 1 : queue[k] = s
        BY DEF InTurn
  <2>4. j + 1 = i
        BY <2>2, <2>3, KeptQueue DEF Distinct
  <2>5. j \in Nat /\ j > 0
        BY <2>2, LenProperties
  <2>6. ASSUME NEW s \in Scopes, holds[s] = NoConn, holds'[s] # NoConn
        PROVE  s = queue[1]
        BY <2>1, <2>2, <2>6
  <2>7. 1 \in 1 .. i - 1
        BY <2>4, <2>5
  <2>8. QED
        BY <2>4, <2>5, <2>6, <2>7
<1>3. QED
      BY <1>1, <1>2

LEMMA NextInTurn ==
    ASSUME Kept, [Next]_vars
    PROVE  InTurn
<1> USE DEF pool
<1>0. /\ holds \in [Scopes -> Conns \cup {NoConn}] /\ queue \in Seq(Scopes)
      /\ (ended => queue = <<>>)
      BY DEF Kept, TypeOK, QueueInv
<1>1. ASSUME NEW s \in Scopes, NEW c \in Conns, AcquireIdle(s, c) PROVE InTurn
      BY <1>1, EmptyInTurn DEF AcquireIdle, Kept, NoIdleWhileWaiting
<1>2. ASSUME NEW s \in Scopes, AcquireLater(s) PROVE InTurn
      BY <1>2, AcquireLaterInTurn
<1>3. ASSUME NEW s \in Scopes, Ends(s) PROVE InTurn
  <2>1. CASE Release(s)
        BY <1>0, <2>1, ServingInTurn DEF Release
  <2>2. CASE Discard(s)
        BY <1>0, <2>2, StayingInTurn DEF Discard, NobodyGains
  <2>3. CASE LeaveClosed(s)
        BY <1>0, <2>3, EmptyInTurn DEF LeaveClosed
  <2>4. QED
        BY <1>3, <2>1, <2>2, <2>3 DEF Ends, ReleaseWorn, DisposeHeld
<1>4. CASE CloseIdle \/ EndFinished \/ ConnectFailsForNow \/ Reconnect \/ RateRenewed
      BY <1>4, StayingInTurn
      DEF CloseIdle, EndFinished, ConnectFailsForNow, Reconnect, RateRenewed, NobodyGains
<1>5. CASE End
      BY <1>5, EmptyInTurn DEF End
<1>6. ASSUME NEW c \in Conns, Connected(c) PROVE InTurn
      BY <1>0, <1>6, ServingInTurn DEF Connected
<1>7. ASSUME NEW c \in Conns, ConnectedAfterEnd(c) PROVE InTurn
      BY <1>7, StayingInTurn DEF ConnectedAfterEnd, NobodyGains
<1>8. CASE ConnectFails
  <2>1. NobodyGains /\ (queue' = queue \/ (queue # <<>> /\ queue' = Tail(queue)))
        BY <1>8 DEF ConnectFails, NobodyGains
  <2>2. CASE queue' = queue
        BY <2>1, <2>2, StayingInTurn
  <2>3. CASE queue # <<>> /\ queue' = Tail(queue)
        BY <2>1, <2>3, KeptQueue, ServedFirst, LeavingInTurn
  <2>4. QED
        BY <2>1, <2>2, <2>3
<1>9. ASSUME NEW i \in 1 .. Len(queue), ItemTimeout(i) PROVE InTurn
  <2>1. i \in DOMAIN queue /\ queue' = Without(i) /\ NobodyGains
        BY <1>9 DEF ItemTimeout, NobodyGains
  <2>2. ComesFrom(queue', queue)
        BY <2>1, KeptQueue, TimedOut
  <2>3. QED
        BY <2>1, <2>2, LeavingInTurn
<1>10. ASSUME NEW c \in Conns, IdleTimeout(c) \/ DisposeDoomed(c) \/ ErrorEvent(c) \/ Closed(c) PROVE InTurn
       BY <1>10, StayingInTurn DEF IdleTimeout, DisposeDoomed, ErrorEvent, Closed, NobodyGains
<1>11. CASE UNCHANGED vars
       BY <1>11, StayingInTurn DEF vars, NobodyGains
<1>12. QED
       BY <1>1, <1>2, <1>3, <1>4, <1>5, <1>6, <1>7, <1>8, <1>9, <1>10, <1>11 DEF Next, Settles

-----------------------------------------------------------------------------
(* The theorems *)

\* Every field of the pool keeps its type, for any limits and any number of callers.
THEOREM PoolTypeCorrect == Spec => []TypeOK
<1>1. Kept => TypeOK
      BY DEF Kept
<1>2. QED
      BY <1>1, AlwaysKept, PTL

\* The inductive invariant of the pool holds in every reachable state: its counters
\* balance what is outstanding and every connection is in one place.
THEOREM PoolInvariant == Spec => []PoolInv
BY KeptIsPoolInv, AlwaysKept, PTL

\* The check in maybeCreateNew is enough: whatever connects, fails, retries and timers run
\* between the check and the connection, the pool never exceeds maxConnections.
THEOREM LimitKept == Spec => []AtMostMaxConnections
<1>1. Kept => AtMostMaxConnections
      BY DEF Kept
<1>2. QED
      BY <1>1, AlwaysKept, PTL

\* A connection in use belongs to one scope, and nobody disposes it under that scope.
THEOREM Exclusive == Spec => []NeverShared
<1>1. PoolInv => NeverShared
      BY DEF PoolInv
<1>2. QED
      BY <1>1, PoolInvariant, PTL

\* Whenever a handler returns and somebody waits, something is outstanding that will call
\* maybeCreateNew or hand over a connection.
THEOREM NoLostWakeup == Spec => []SomebodyWillServe
<1>1. Kept => SomebodyWillServe
      BY DEF Kept
<1>2. QED
      BY <1>1, AlwaysKept, PTL

\* No open connection is forgotten, also one whose connect() outlives end().
THEOREM NoLeak == Spec => []NothingLeaks
<1>1. PoolInv => NothingLeaks
      BY DEF PoolInv
<1>2. QED
      BY <1>1, PoolInvariant, PTL

\* Nobody waits while a connection is idle.
THEOREM IdleIsUsed == Spec => []NoIdleWhileWaiting
<1>1. Kept => NoIdleWhileWaiting
      BY DEF Kept
<1>2. QED
      BY <1>1, AlwaysKept, PTL

\* Connections are handed out in the order of the calls of acquire.
THEOREM InOrder == Spec => NoOvertaking
<1>1. Kept /\ [Next]_vars => [InTurn]_vars
      BY NextInTurn
<1>2. QED
      BY <1>1, AlwaysKept, PTL DEF Spec, NoOvertaking, InTurn
=============================================================================
