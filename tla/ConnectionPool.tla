-------------------------- MODULE ConnectionPool --------------------------
(***************************************************************************)
(* The pool of database connections (database/client/Pool.ts) and the      *)
(* scopes that take connections from it (Connection.scopeOnce).            *)
(*                                                                         *)
(* Node runs one handler at a time, so a step is a handler from its start  *)
(* to its return or first await: a call of the pool, the settling of a     *)
(* connect(), a timer, a setImmediate callback, an event of a socket.      *)
(* What is outstanding between the steps is counted: connect() promises in *)
(* "inflight", timers of recoverable errors in "backoff", timers that give *)
(* back a unit of the rate limit in "renewals", callbacks that will        *)
(* dispose a connection in "doomed".                                       *)
(*                                                                         *)
(* A connection is named while it exists; its name is used again once it   *)
(* is closed and nothing refers to it.  The idle connections are a set:    *)
(* which one acquire pops is a choice.  Statistics and logs are left out.  *)
(***************************************************************************)
EXTENDS Naturals, Sequences, FiniteSets

CONSTANTS
    Conns,          (* bound: connections open or being closed together     *)
    NoConn,         (* what a scope that holds none holds                   *)
    Scopes,         (* concurrent callers of acquire                        *)
    MaxConnections,
    MaxConnecting,
    MaxIdle,
    RateLimit,      (* rateLimitCount                                       *)
    MaxUses,        (* maxUses, 0 if not configured                         *)
    Ages,           (* whether maxAgeMs is configured                       *)
    Allowed,        (* the kinds of trouble that may happen                 *)
    MaxTroubles     (* bound: how many of them together                     *)

Troubles == {"recoverable", "fatal", "lost", "timeout", "closeIdle", "end"}

ASSUME PoolAssumption ==
    /\ IsFiniteSet(Conns)
    /\ NoConn \notin Conns
    /\ MaxConnections \in Nat \ {0}
    /\ MaxConnecting \in Nat \ {0}
    /\ RateLimit \in Nat \ {0}
    /\ MaxIdle \in Nat
    /\ MaxUses \in Nat
    /\ Ages \in BOOLEAN
    /\ Allowed \subseteq Troubles
    /\ MaxTroubles \in Nat

VARIABLES
    \* the fields of Pool: ended, connectingCount, remainingRateLimit, idle, active, queue
    ended, connectingCount, remaining, idle, active, queue,
    \* outstanding promises, timers and callbacks
    inflight, backoff, renewals, doomed,
    \* each connection: its client, its uses, whether the server end is lost
    life, uses, lost,
    \* the connection each scope holds
    holds,
    \* history: connections whose disposal threw because they were disposed before
    thrown,
    \* troubles left to happen
    left

pool == <<ended, connectingCount, remaining, idle, active, queue>>
outstanding == <<inflight, backoff, renewals, doomed>>
clients == <<life, uses, lost>>
vars == <<pool, outstanding, clients, holds, thrown, left>>

-----------------------------------------------------------------------------
(* Helpers *)

Waiting(s) == \E i \in DOMAIN queue : queue[i] = s

Spend(kind) ==
    /\ kind \in Allowed
    /\ left > 0
    /\ left' = left - 1

Open == {c \in Conns : life[c] = "open"}

\* The conditions of maybeCreateNew: q waits, n attempts run, r of the rate limit remain.
CanCreate_anyNumber(q, A, I, n, r) ==
    /\ n < Len(q)
    /\ Cardinality(A) + Cardinality(I) < MaxConnections
    /\ n < MaxConnecting
    /\ r > 0
CanCreate(q, A, I, n, r) ==
    /\ n < Len(q)
    /\ Cardinality(A) + Cardinality(I) + n < MaxConnections
    /\ n < MaxConnecting
    /\ r > 0

\* maybeCreateNew, at the end of a handler that leaves the pool with these values and
\* f attempts in flight: at most one attempt starts.
MaybeCreateNew(q, A, I, n, r, f) ==
    IF ~ended /\ CanCreate(q, A, I, n, r)
       THEN connectingCount' = n + 1 /\ remaining' = r - 1 /\ inflight' = f + 1
       ELSE connectingCount' = n /\ remaining' = r /\ inflight' = f

\* disposeConnection: the second call for a connection throws, in a callback nobody awaits.
Dispose(c) ==
    IF life[c] = "open"
       THEN life' = [life EXCEPT ![c] = "closing"] /\ UNCHANGED thrown
       ELSE thrown' = thrown \cup {c} /\ UNCHANGED life

\* createPendingItem
Enqueued_first(s) == <<s>> \o queue
Enqueued(s) == Append(queue, s)

\* The item that timed out leaves the queue wherever it stands.
Without(i) == SubSeq(queue, 1, i - 1) \o SubSeq(queue, i + 1, Len(queue))

SomebodyWaits == queue # <<>>

IdleWithout_kept(c) == idle
IdleWithout(c) == idle \ {c}

\* uses++; counted only where maxUses is configured.
Used(c) == IF MaxUses = 0 THEN uses ELSE [uses EXCEPT ![c] = @ + 1]

\* The connection is past maxUses, or may be past maxAgeMs.
Worn(c) == MaxUses # 0 /\ uses[c] >= MaxUses

\* handleAvailableConnection: c goes to the first item of the queue, is disposed since
\* there are enough idle ones, or becomes idle.  A and h: active connections and holders
\* once c was taken from its last holder.
HandleAvailable(c, A, h) ==
    \/ /\ SomebodyWaits
       /\ active' = A \cup {c}
       /\ holds' = [h EXCEPT ![Head(queue)] = c]
       /\ queue' = Tail(queue)
       /\ uses' = Used(c)
       /\ UNCHANGED <<idle, doomed>>
    \/ /\ ~SomebodyWaits
       /\ Cardinality(idle) >= MaxIdle
       /\ doomed' = doomed \cup {c}
       /\ active' = A
       /\ holds' = h
       /\ UNCHANGED <<idle, queue, uses>>
    \/ /\ ~SomebodyWaits
       /\ Cardinality(idle) < MaxIdle
       /\ idle' = idle \cup {c}
       /\ active' = A
       /\ holds' = h
       /\ UNCHANGED <<queue, doomed, uses>>

-----------------------------------------------------------------------------
(* Types and the initial state *)

TypeOK ==
    /\ ended \in BOOLEAN
    /\ connectingCount \in Nat
    /\ remaining \in Nat
    /\ idle \in SUBSET Conns
    /\ active \in SUBSET Conns
    /\ queue \in Seq(Scopes)
    /\ inflight \in Nat
    /\ backoff \in Nat
    /\ renewals \in Nat
    /\ doomed \in SUBSET Conns
    /\ life \in [Conns -> {"none", "open", "closing", "closed"}]
    /\ uses \in [Conns -> Nat]
    /\ lost \in SUBSET Conns
    /\ holds \in [Scopes -> Conns \cup {NoConn}]
    /\ thrown \in SUBSET Conns
    /\ left \in Nat

Init ==
    /\ ended = FALSE
    /\ connectingCount = 0
    /\ remaining = RateLimit
    /\ idle = {} /\ active = {}
    /\ queue = <<>>
    /\ inflight = 0 /\ backoff = 0 /\ renewals = 0
    /\ doomed = {}
    /\ life = [c \in Conns |-> "none"]
    /\ uses = [c \in Conns |-> 0]
    /\ lost = {}
    /\ holds = [s \in Scopes |-> NoConn]
    /\ thrown = {}
    /\ left = MaxTroubles

-----------------------------------------------------------------------------
(* Calls of the pool *)

\* acquire: an idle connection at once ...
AcquireIdle(s, c) ==
    /\ ~ended /\ holds[s] = NoConn /\ ~Waiting(s)
    /\ c \in idle
    /\ idle' = IdleWithout(c)
    /\ active' = active \cup {c}
    /\ holds' = [holds EXCEPT ![s] = c]
    /\ uses' = Used(c)
    /\ UNCHANGED <<ended, connectingCount, remaining, queue, outstanding, life, lost, thrown, left>>

\* ... or a place in the queue.
AcquireLater(s) ==
    /\ ~ended /\ holds[s] = NoConn /\ ~Waiting(s)
    /\ idle = {}
    /\ queue' = Enqueued(s)
    /\ MaybeCreateNew(queue', active, idle, connectingCount, remaining, inflight)
    /\ UNCHANGED <<ended, idle, active, backoff, renewals, doomed, clients, holds, thrown, left>>

\* The scope ends well: release.  A worn connection is disposed instead.
Release(s) ==
    /\ ~ended /\ holds[s] # NoConn
    /\ ~Worn(holds[s])
    /\ HandleAvailable(holds[s], active \ {holds[s]}, [holds EXCEPT ![s] = NoConn])
    /\ UNCHANGED <<ended, connectingCount, remaining, inflight, backoff, renewals, life, lost, thrown, left>>

\* What release does with a worn connection, and dispose with one whose scope threw.
Discard(s) ==
    /\ active' = active \ {holds[s]}
    /\ holds' = [holds EXCEPT ![s] = NoConn]
    /\ doomed' = doomed \cup {holds[s]}
    /\ MaybeCreateNew(queue, active', idle, connectingCount, remaining, inflight)
    /\ UNCHANGED <<ended, idle, queue, backoff, renewals, clients, thrown, left>>

ReleaseWorn(s) ==
    /\ ~ended /\ holds[s] # NoConn
    /\ Worn(holds[s]) \/ Ages
    /\ Discard(s)

DisposeHeld(s) ==
    /\ ~ended /\ holds[s] # NoConn
    /\ Discard(s)

\* release and dispose return early once the pool is closed.
LeaveClosed(s) ==
    /\ ended /\ holds[s] # NoConn
    /\ holds' = [holds EXCEPT ![s] = NoConn]
    /\ UNCHANGED <<pool, outstanding, clients, thrown, left>>

\* closeIdle; in a closed pool its idle connections were disposed before.
CloseIdle ==
    /\ idle # {}
    /\ Spend("closeIdle")
    /\ idle' = {}
    /\ life' = [c \in Conns |-> IF c \in idle \cap Open THEN "closing" ELSE life[c]]
    /\ UNCHANGED <<ended, connectingCount, remaining, active, queue, outstanding, uses, lost, holds, thrown>>

\* end, up to its await: the queue is rejected, idle and active connections are disposed,
\* and still listed ...
End ==
    /\ ~ended
    /\ Spend("end")
    /\ ended' = TRUE
    /\ queue' = <<>>
    /\ life' = [c \in Conns |-> IF c \in idle \cup active THEN "closing" ELSE life[c]]
    /\ UNCHANGED <<connectingCount, remaining, idle, active, outstanding, uses, lost, holds, thrown>>

\* ... until all of them are closed.
EndFinished ==
    /\ ended
    /\ idle \cup active # {}
    /\ \A c \in idle \cup active : life[c] = "closed"
    /\ idle' = {} /\ active' = {}
    /\ UNCHANGED <<ended, connectingCount, remaining, queue, outstanding, clients, holds, thrown, left>>

-----------------------------------------------------------------------------
(* Promises, timers and events *)

\* connect() is done: the finally block starts the timer of the rate limit.
AttemptEnds == renewals' = renewals + 1

\* connect() resolved in a pool that is still open ...
Connected(c) ==
    /\ inflight > 0 /\ ~ended
    /\ life[c] = "none"
    /\ AttemptEnds
    /\ life' = [life EXCEPT ![c] = "open"]
    /\ HandleAvailable(c, active, holds)
    /\ MaybeCreateNew(queue', active', idle', connectingCount - 1, remaining, inflight - 1)
    /\ UNCHANGED <<ended, backoff, lost, thrown, left>>

\* ... or closed meanwhile: the connection is not kept.
AfterEnd_kept == "open"
AfterEnd == "closing"

ConnectedAfterEnd(c) ==
    /\ inflight > 0 /\ ended
    /\ life[c] = "none"
    /\ AttemptEnds
    /\ inflight' = inflight - 1
    /\ connectingCount' = connectingCount - 1
    /\ life' = [life EXCEPT ![c] = AfterEnd]
    /\ UNCHANGED <<ended, remaining, idle, active, queue, backoff, doomed, uses, lost, holds, thrown, left>>

\* connect() failed with an error that is worth a retry; the attempt keeps its place.
ConnectFailsForNow ==
    /\ inflight > 0
    /\ Spend("recoverable")
    /\ AttemptEnds
    /\ inflight' = inflight - 1
    /\ backoff' = backoff + 1
    /\ UNCHANGED <<pool, doomed, clients, holds, thrown>>

Reconnect ==
    /\ backoff > 0
    /\ backoff' = backoff - 1
    /\ MaybeCreateNew(queue, active, idle, connectingCount - 1, remaining, inflight)
    /\ UNCHANGED <<ended, idle, active, queue, renewals, doomed, clients, holds, thrown, left>>

\* connect() failed for good: with nothing active the first item is told.
FewerConnecting_forgotten == connectingCount
FewerConnecting == connectingCount - 1

ConnectFails ==
    /\ inflight > 0
    /\ Spend("fatal")
    /\ AttemptEnds
    /\ inflight' = inflight - 1
    /\ connectingCount' = FewerConnecting
    /\ queue' = IF active = {} /\ queue # <<>> THEN Tail(queue) ELSE queue
    /\ UNCHANGED <<ended, remaining, idle, active, backoff, doomed, clients, holds, thrown>>

\* A unit of the rate limit is given back after rateLimitPeriodMs.
RateRenewed ==
    /\ renewals > 0
    /\ renewals' = renewals - 1
    /\ MaybeCreateNew(queue, active, idle, connectingCount, remaining + 1, inflight)
    /\ UNCHANGED <<ended, idle, active, queue, backoff, doomed, clients, holds, thrown, left>>

\* acquireTimeoutMs of a queued item is over.
ItemTimeout(i) ==
    /\ i \in DOMAIN queue
    /\ Spend("timeout")
    /\ queue' = Without(i)
    /\ UNCHANGED <<ended, connectingCount, remaining, idle, active, outstanding, clients, holds, thrown>>

\* idleTimeoutMs of an idle connection is over; end() does not stop this timer.
IdleTimeout(c) ==
    /\ c \in idle
    /\ idle' = idle \ {c}
    /\ Dispose(c)
    /\ UNCHANGED <<ended, connectingCount, remaining, active, queue, outstanding, uses, lost, holds, left>>

\* The setImmediate callback of release, dispose or handleAvailableConnection.
DisposeDoomed(c) ==
    /\ c \in doomed
    /\ doomed' = doomed \ {c}
    /\ Dispose(c)
    /\ UNCHANGED <<pool, inflight, backoff, renewals, uses, lost, holds, left>>

\* The server end is lost: the error listener disposes the connection unless it is active.
ErrorEvent(c) ==
    /\ life[c] = "open" /\ c \notin lost
    /\ Spend("lost")
    /\ lost' = lost \cup {c}
    /\ IF c \in active
          THEN UNCHANGED <<idle, life, thrown>>
          ELSE idle' = idle \ {c} /\ Dispose(c)
    /\ UNCHANGED <<ended, connectingCount, remaining, active, queue, outstanding, uses, holds>>

\* client.end() is done, or the five seconds it gets are over.
Closed(c) ==
    /\ life[c] = "closing" /\ c \notin doomed
    /\ life' = [life EXCEPT ![c] = IF ended THEN "closed" ELSE "none"]
    /\ uses' = [uses EXCEPT ![c] = 0]
    /\ lost' = lost \ {c}
    /\ UNCHANGED <<pool, outstanding, holds, thrown, left>>
-----------------------------------------------------------------------------
(* The specification *)

Ends(s) == Release(s) \/ ReleaseWorn(s) \/ DisposeHeld(s) \/ LeaveClosed(s)

Settles ==
    \/ \E c \in Conns : Connected(c) \/ ConnectedAfterEnd(c)
    \/ ConnectFailsForNow
    \/ ConnectFails

Next ==
    \/ \E s \in Scopes, c \in Conns : AcquireIdle(s, c)
    \/ \E s \in Scopes : AcquireLater(s) \/ Ends(s)
    \/ CloseIdle \/ End \/ EndFinished
    \/ Settles \/ Reconnect \/ RateRenewed
    \/ \E i \in 1 .. Len(queue) : ItemTimeout(i)
    \/ \E c \in Conns : IdleTimeout(c) \/ DisposeDoomed(c) \/ ErrorEvent(c) \/ Closed(c)

Spec == Init /\ [][Next]_vars

\* A connect() settles (connectionTimeoutMillis), timers and callbacks run, client.end()
\* gets five seconds, and a scope returns its connection: its queries are answered or
\* end with an error.  This is an assumption about the callers: a scope that lasts, as
\* that of a dispatcher, has to have its connection besides those the others need.  No
\* acquire needs its timeout.
Fairness ==
    /\ WF_vars(Settles)
    /\ WF_vars(Reconnect)
    /\ WF_vars(RateRenewed)
    /\ \A s \in Scopes : WF_vars(Ends(s))
    /\ \A c \in Conns : WF_vars(DisposeDoomed(c)) /\ WF_vars(Closed(c))

FairSpec == Spec /\ Fairness

-----------------------------------------------------------------------------
(* Properties *)

\* The connections of the pool, those being established included, never exceed
\* maxConnections, whatever handlers run between the check and the connection.
AtMostMaxConnections == Cardinality(active) + Cardinality(idle) + connectingCount <= MaxConnections

\* A connection in use is used by one scope, is neither offered to others nor about to
\* be disposed, and is not disposed before its scope ends or the pool is closed.
NeverShared ==
    ~ended =>
        /\ \A s, t \in Scopes : s # t /\ holds[s] # NoConn => holds[s] # holds[t]
        /\ \A s \in Scopes : holds[s] # NoConn =>
              holds[s] \in (active \cap Open) \ (idle \cup doomed)

\* No item waits beside an idle connection.
NoIdleWhileWaiting == queue # <<>> => idle = {}

\* No wakeup is lost: while items wait, some connection will be returned, some attempt
\* will settle or some timer will start one.
SomebodyWillServe == queue # <<>> => active # {} \/ inflight + backoff + renewals > 0

\* No open connection is forgotten: somebody holds it, it is idle, or a callback will
\* dispose it; once the pool is closed only the last remains, also for a connection that
\* was established while the pool was being closed.
NothingLeaks ==
    /\ Open \subseteq doomed \cup (IF ended THEN {} ELSE active \cup idle)
    /\ ~ended => \A c \in active : \E s \in Scopes : holds[s] = c

\* Items are served in the order they came: an item that stays in the queue only moves
\* forward, and whoever gets a connection meanwhile stood before it.
NoOvertaking ==
    [][\A i \in DOMAIN queue, j \in DOMAIN queue' : queue'[j] = queue[i] =>
          /\ j <= i
          /\ \A s \in Scopes : holds[s] = NoConn /\ holds'[s] # NoConn =>
                \E k \in 1 .. i - 1 : queue[k] = s]_vars

\* Every item is served or rejected without its own timeout, if attempts to connect stop
\* failing and every scope ends: no handler forgets to start the attempt the queue still
\* needs.
EveryItemServed == \A s \in Scopes : Waiting(s) ~> ~Waiting(s)

-----------------------------------------------------------------------------
(* Why the properties hold: the inductive invariant of ConnectionPoolProofs. *)

\* connectingCount and the rate limit account for everything outstanding.
CountsBalance ==
    /\ connectingCount = inflight + backoff
    /\ remaining + inflight + renewals = RateLimit

\* Where each connection is.
Places ==
    /\ active \cap idle = {}
    /\ doomed \cap (active \cup idle) = {}
    /\ \A c \in active \cup idle : IF ended THEN life[c] \in {"closing", "closed"} ELSE life[c] = "open"
    /\ \A c \in doomed : life[c] \in {"open", "closing"}

\* Items are of scopes that hold nothing, one of each.
QueueInv ==
    /\ ended => queue = <<>>
    /\ \A i \in DOMAIN queue : holds[queue[i]] = NoConn
    /\ \A i, j \in DOMAIN queue : queue[i] = queue[j] => i = j

PoolInv ==
    /\ TypeOK
    /\ CountsBalance
    /\ Places
    /\ QueueInv
    /\ AtMostMaxConnections
    /\ NeverShared
    /\ NoIdleWhileWaiting
    /\ SomebodyWillServe
    /\ NothingLeaks

-----------------------------------------------------------------------------
(* A claim of the code that it does not keep *)

\* disposeConnection throws if a connection is already disposed: it is disposed once.
DisposedOnce == thrown = {}
=============================================================================
