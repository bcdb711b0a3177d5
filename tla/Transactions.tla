--------------------------- MODULE Transactions ---------------------------
(***************************************************************************)
(* A transaction of an acquired connection with its nested transactions    *)
(* (savepoints) and nested scopes: database/client/Transaction.ts,         *)
(* AcquiredConnection.ts and utils/Mutex.ts.                               *)
(*                                                                         *)
(* A frame is one call of transaction() or scope() with its callback.      *)
(* Every frame hands its callback a connection with a mutex of its own;    *)
(* what uses that connection - a statement, a nested frame, the command    *)
(* that closes the frame - takes the mutex first, and a nested frame keeps *)
(* it until it is over.  A flow is a sequential part of a callback; the    *)
(* flows of one callback run in parallel (Promise.all).  A flow normally   *)
(* uses the connection of its own frame and by mistake may use one of an   *)
(* outer frame.                                                            *)
(*                                                                         *)
(* The server runs the statements in the order they were sent.  It keeps   *)
(* a stack of layers, one per savepoint, and in each the work done since.  *)
(***************************************************************************)
EXTENDS Naturals, Sequences, FiniteSets

CONSTANTS
    Frames,
    Top,            (* the frame of BEGIN                                   *)
    Parent,         (* the frame in whose callback another is called        *)
    Above,          (* all the frames around a frame                        *)
    Kind,           (* "transaction" or "scope"                             *)
    Flows,
    Home,           (* the frame whose callback a flow belongs to           *)
    Abandons,       (* frames whose callback may reject before its flows    *)
                    (* and nested frames have ended (Promise.all)           *)
    MaxStatements,  (* bound: statements of a flow                          *)
    Allowed,        (* the kinds of trouble that may happen                 *)
    MaxTroubles     (* bound: how many of them together                     *)

Troubles == {"error", "lost"}

ASSUME TransactionsAssumption ==
    /\ Flows \cap Frames = {} /\ IsFiniteSet(Frames)
    /\ Top \in Frames /\ Kind \in [Frames -> {"transaction", "scope"}]
    /\ Kind[Top] = "transaction"
    /\ Parent \in [Frames \ {Top} -> Frames]
    /\ Above \in [Frames -> SUBSET Frames]
    /\ Above[Top] = {}
    /\ \A f \in Frames \ {Top} : f \notin Above[f] /\ Above[f] = {Parent[f]} \cup Above[Parent[f]]
    /\ Home \in [Flows -> Frames]
    /\ \A f \in Abandons : f \in Frames /\ Kind[f] = "transaction"
    /\ MaxStatements \in Nat
    /\ Allowed \subseteq Troubles
    /\ MaxTroubles \in Nat

VARIABLES
    lock,       \* the mutex of each frame's connection: its holder, then who waits
    phase,      \* of each frame
    goal,       \* how the frame is to be closed
    closed,     \* TransactionLikeState
    failedIn,   \* frames in which a statement or a nested frame has failed
    busy,       \* flows with a statement that is not settled
    via,        \* the frame whose connection that statement uses
    issued,     \* statements of each flow so far
    wire,       \* statements sent and not answered, by who sent them
    link,       \* "up", "lost", or "ended" with the scope that threw
    \* the server: layers of the transaction in progress, whether it is aborted
    stack, aborted,
    \* history: frames with work that was answered, with work that is durable,
    \* flows with a statement that ran when its frame was over
    wrote, durable, stray,
    left        \* troubles left to happen

frames == <<phase, goal, closed, failedIn>>
flows == <<busy, via, issued>>
server == <<stack, aborted, durable>>
vars == <<lock, frames, flows, wire, link, server, wrote, stray, left>>

-----------------------------------------------------------------------------
(* Helpers *)

Upwards(f) == {f} \cup Above[f]

\* The transaction or savepoint whose state a frame's connection checks.
Owner(f) == CHOOSE g \in Upwards(f) :
    /\ Kind[g] = "transaction"
    /\ \A h \in Upwards(f) : Kind[h] = "transaction" => h \in Upwards(g)

IsClosed(f) == closed[Owner(f)]
ClosedAbove(f) == \E g \in Above[Owner(f)] : Kind[g] = "transaction" /\ closed[g]

\* A frame between its opening and its end; in a closed transaction a scope can do nothing.
Active(f) == phase[f] \in {"open", "closing"} /\ ~IsClosed(f)

Spend(kind) ==
    /\ kind \in Allowed
    /\ left > 0
    /\ left' = left - 1

\* The frame whose connection, hence whose mutex, an activity uses.
Handle(a) ==
    IF a \in Flows THEN via[a]
    ELSE IF a = Top \/ phase[a] = "closing" THEN a ELSE Parent[a]

Sent(a) == \E i \in DOMAIN wire : wire[i] = a

HasTurn(a) == lock[Handle(a)] # <<>> /\ Head(lock[Handle(a)]) = a

\* Mutex.lock and release: the holder is the head; a release hands over to the next.
Locked_barging(l, h, a) == [l EXCEPT ![h] = <<a>> \o @]
Locked(l, h, a) == [l EXCEPT ![h] = Append(@, a)]
Released(l, h) == [l EXCEPT ![h] = Tail(@)]

\* A flow holds, in its asynchronous context, the mutexes of the frames around its own.
WouldDeadlock_never(k, h) == FALSE
WouldDeadlock(k, h) == lock[h] # <<>> /\ h \in Above[Home[k]]

\* The callback of f runs, or was abandoned and its flows run on.
Running(f) == phase[f] = "open" \/ (f \in Abandons /\ goal[f] = "rollback")

\* Everything the callback of f awaits has ended.
Settled(f) ==
    /\ \A k \in busy : Home[k] # f
    /\ \A g \in Frames \ {Top} : Parent[g] = f => phase[g] \in {"none", "over"}

\* f is over and gives the connection of its parent back; l: the mutexes meanwhile.
Leaves(f, l) ==
    /\ phase' = [phase EXCEPT ![f] = "over"]
    /\ lock' = IF f = Top THEN l ELSE Released(l, Parent[f])

\* What the parent's callback sees if f rejects.
Rejects(f) == failedIn' = IF f = Top THEN failedIn ELSE failedIn \cup {Parent[f]}

\* What an activity asks for is refused once the connection is gone or an outer transaction is closed.
Refused(a) ==
    \/ link # "up"
    \/ a \in Flows /\ ClosedAbove(via[a])
    \/ a \in Frames /\ (ClosedAbove(a) \/ (phase[a] = "closing" /\ closed[a]))

-----------------------------------------------------------------------------
(* The server *)

Layer(f) == CHOOSE i \in DOMAIN stack : stack[i].frame = f
OnStack(f) == \E i \in DOMAIN stack : stack[i].frame = f

AllWork(s) == UNION {s[i].work : i \in DOMAIN s}

\* The work of the layers from i on joins layer i - 1, and they are gone.
ReleasedFrom(i) ==
    [SubSeq(stack, 1, i - 1) EXCEPT ![i - 1].work = @ \cup AllWork(SubSeq(stack, i, Len(stack)))]

\* The work since the savepoint is undone; the savepoint itself stays.
RolledBackTo(i) == [SubSeq(stack, 1, i) EXCEPT ![i].work = {}]

Works(w) == [stack EXCEPT ![Len(stack)].work = @ \cup w]

-----------------------------------------------------------------------------
(* Types and the initial state *)

TypeOK ==
    /\ lock \in [Frames -> Seq(Frames \cup Flows)]
    /\ phase \in [Frames -> {"none", "waiting", "opening", "open", "closing", "over"}]
    /\ goal \in [Frames -> {"none", "commit", "rollback"}]
    /\ closed \in [Frames -> BOOLEAN]
    /\ failedIn \subseteq Frames
    /\ busy \subseteq Flows
    /\ via \in [Flows -> Frames]
    /\ issued \in [Flows -> 0 .. MaxStatements]
    /\ wire \in Seq(Frames \cup Flows)
    /\ link \in {"up", "lost", "ended"}
    /\ stack \in Seq([frame: Frames, work: SUBSET Frames])
    /\ aborted \in BOOLEAN
    /\ wrote \subseteq Frames /\ durable \subseteq Frames
    /\ stray \subseteq Flows
    /\ left \in 0 .. MaxTroubles

Init ==
    /\ lock = [f \in Frames |-> <<>>]
    /\ phase = [f \in Frames |-> "none"]
    /\ goal = [f \in Frames |-> "none"]
    /\ closed = [f \in Frames |-> FALSE]
    /\ failedIn = {} /\ busy = {}
    /\ via = Home
    /\ issued = [k \in Flows |-> 0]
    /\ wire = <<>>
    /\ link = "up"
    /\ stack = <<>> /\ aborted = FALSE
    /\ wrote = {} /\ durable = {} /\ stray = {}
    /\ left = MaxTroubles

-----------------------------------------------------------------------------
(* Calls *)

\* AcquiredConnection.transaction, in the scope it opens: BEGIN.
Begin ==
    /\ phase[Top] = "none"
    /\ phase' = [phase EXCEPT ![Top] = "opening"]
    /\ wire' = Append(wire, Top)
    /\ UNCHANGED <<lock, goal, closed, failedIn, flows, link, server, wrote, stray, left>>

\* transaction() or scope() in the callback of the parent.
Call(f) ==
    /\ f # Top /\ phase[f] = "none"
    /\ Running(Parent[f])
    /\ phase' = [phase EXCEPT ![f] = "waiting"]
    /\ lock' = Locked(lock, Parent[f], f)
    /\ UNCHANGED <<goal, closed, failedIn, flows, wire, link, server, wrote, stray, left>>

\* A scope begins once it has the connection of its parent.
Enter(f) ==
    /\ phase[f] = "waiting" /\ Kind[f] = "scope"
    /\ HasTurn(f)
    /\ phase' = [phase EXCEPT ![f] = "open"]
    /\ UNCHANGED <<lock, goal, closed, failedIn, flows, wire, link, server, wrote, stray, left>>

\* query() of flow k on the connection of h.
Query(k, h) ==
    /\ k \notin busy /\ Running(Home[k])
    /\ h \in Upwards(Home[k])
    /\ issued[k] < MaxStatements
    /\ issued' = [issued EXCEPT ![k] = @ + 1]
    /\ IF IsClosed(h) \/ WouldDeadlock(k, h)
          THEN /\ failedIn' = failedIn \cup {Home[k]}
               /\ UNCHANGED <<busy, via, lock>>
          ELSE /\ busy' = busy \cup {k}
               /\ via' = [via EXCEPT ![k] = h]
               /\ lock' = Locked(lock, h, k)
               /\ UNCHANGED failedIn
    /\ UNCHANGED <<phase, goal, closed, wire, link, server, wrote, stray, left>>

\* The callback of f ends: well, or by an error or a rollback() of its own.
MayEnd(f, g) ==
    \/ Settled(f)
    \/ g = "rollback" /\ f \in failedIn \cap Abandons

EndScope(f, g) ==
    /\ phase[f] = "open" /\ Kind[f] = "scope"
    /\ MayEnd(f, g)
    /\ goal' = [goal EXCEPT ![f] = g]
    /\ Leaves(f, lock)
    /\ IF g = "commit" THEN UNCHANGED failedIn ELSE Rejects(f)
    /\ UNCHANGED <<closed, flows, wire, link, server, wrote, stray, left>>

\* executeTransaction: commit() or rollback() waits for the frame's connection as well.
EndTransaction(f, g) ==
    /\ phase[f] = "open" /\ Kind[f] = "transaction"
    /\ MayEnd(f, g)
    /\ goal' = [goal EXCEPT ![f] = g]
    /\ phase' = [phase EXCEPT ![f] = "closing"]
    /\ lock' = Locked(lock, f, f)
    /\ UNCHANGED <<closed, failedIn, flows, wire, link, server, wrote, stray, left>>

\* Who got the mutex sends what it waited to send.
Unsent(a) ==
    IF a \in Flows THEN a \in busy /\ ~Sent(a)
    ELSE \/ phase[a] = "waiting" /\ Kind[a] = "transaction"
         \/ phase[a] = "closing" /\ ~Sent(a)

Send(a) ==
    /\ Unsent(a) /\ HasTurn(a) /\ ~Refused(a)
    /\ wire' = Append(wire, a)
    /\ phase' = IF a \in Frames /\ phase[a] = "waiting" THEN [phase EXCEPT ![a] = "opening"] ELSE phase
    /\ UNCHANGED <<lock, goal, closed, failedIn, flows, link, server, wrote, stray, left>>

-----------------------------------------------------------------------------
(* How a call fails: refused, answered with an error, or cut off *)

QueryFails(k) ==
    /\ busy' = busy \ {k}
    /\ lock' = Released(lock, via[k])
    /\ failedIn' = failedIn \cup {Home[k]}
    /\ UNCHANGED <<phase, goal, closed>>

OpeningFails(f) ==
    /\ Leaves(f, lock)
    /\ Rejects(f)
    /\ UNCHANGED <<goal, closed, busy>>

\* A commit that throws is followed by a rollback ...
CommitFails(f) ==
    /\ goal' = [goal EXCEPT ![f] = "rollback"]
    /\ lock' = Locked(Released(lock, f), f, f)
    /\ UNCHANGED <<phase, closed, failedIn, busy>>

\* ... a rollback that throws is not, and the frame never counts as closed.
RollbackFails(f) ==
    /\ Leaves(f, Released(lock, f))
    /\ Rejects(f)
    /\ UNCHANGED <<goal, closed, busy>>

CallFails(a) ==
    \/ a \in Flows /\ QueryFails(a)
    \/ a \in Frames /\ phase[a] \in {"waiting", "opening"} /\ OpeningFails(a)
    \/ a \in Frames /\ phase[a] = "closing" /\ goal[a] = "commit" /\ CommitFails(a)
    \/ a \in Frames /\ phase[a] = "closing" /\ goal[a] = "rollback" /\ RollbackFails(a)

Refuse(a) ==
    /\ Unsent(a) /\ HasTurn(a) /\ Refused(a)
    /\ CallFails(a)
    /\ UNCHANGED <<via, issued, wire, link, server, wrote, stray, left>>

-----------------------------------------------------------------------------
(* Answers to the statement the server runs next *)

Next1(a) == wire # <<>> /\ Head(wire) = a /\ wire' = Tail(wire)

InTime(k) == Active(via[k])
Strays(k) == stray' = IF InTime(k) THEN stray ELSE stray \cup {k}

\* The work of a stray is not followed: only that the statement ran (stray).
WorkDone(k) ==
    /\ Next1(k) /\ link = "up" /\ ~aborted
    /\ busy' = busy \ {k}
    /\ lock' = Released(lock, via[k])
    /\ IF InTime(k)
          THEN stack' = Works({via[k]}) /\ wrote' = wrote \cup {via[k]}
          ELSE UNCHANGED <<stack, wrote>>
    /\ Strays(k)
    /\ UNCHANGED <<frames, via, issued, link, aborted, durable, left>>

WorkFails(k) ==
    /\ Next1(k) /\ link = "up"
    /\ \/ aborted /\ UNCHANGED left
       \/ ~aborted /\ Spend("error")
    /\ QueryFails(k)
    /\ aborted' = (stack # <<>>)
    /\ Strays(k)
    /\ UNCHANGED <<via, issued, link, stack, durable, wrote>>

Opened(f) ==
    /\ Next1(f) /\ link = "up" /\ phase[f] = "opening"
    /\ f = Top \/ (stack # <<>> /\ ~aborted)
    /\ stack' = Append(stack, [frame |-> f, work |-> {}])
    /\ phase' = [phase EXCEPT ![f] = "open"]
    /\ UNCHANGED <<lock, goal, closed, failedIn, flows, link, aborted, durable, wrote, stray, left>>

NotOpened(f) ==
    /\ Next1(f) /\ link = "up" /\ phase[f] = "opening"
    /\ f # Top /\ (stack = <<>> \/ aborted)
    /\ OpeningFails(f)
    /\ UNCHANGED <<via, issued, link, server, wrote, stray, left>>

\* COMMIT.  Of an aborted transaction it is a rollback, and commit() throws when it is closed.
CommitOutcome_unchecked == "commit"
CommitOutcome == IF aborted THEN "rollback" ELSE "commit"

Committed ==
    /\ Next1(Top) /\ link = "up" /\ phase[Top] = "closing" /\ goal[Top] = "commit"
    /\ durable' = IF aborted THEN durable ELSE durable \cup AllWork(stack)
    /\ stack' = <<>> /\ aborted' = FALSE
    /\ closed' = [closed EXCEPT ![Top] = TRUE]
    /\ goal' = [goal EXCEPT ![Top] = CommitOutcome]
    /\ Leaves(Top, Released(lock, Top))
    /\ UNCHANGED <<failedIn, flows, link, wrote, stray, left>>

\* A deferred constraint or a serialization failure.
CommitRejected ==
    /\ Next1(Top) /\ link = "up" /\ phase[Top] = "closing" /\ goal[Top] = "commit"
    /\ ~aborted /\ Spend("error")
    /\ stack' = <<>>
    /\ CommitFails(Top)
    /\ UNCHANGED <<via, issued, link, aborted, durable, wrote, stray>>

RolledBack ==
    /\ Next1(Top) /\ link = "up" /\ phase[Top] = "closing" /\ goal[Top] = "rollback"
    /\ stack' = <<>> /\ aborted' = FALSE
    /\ closed' = [closed EXCEPT ![Top] = TRUE]
    /\ Leaves(Top, Released(lock, Top))
    /\ UNCHANGED <<goal, failedIn, flows, link, durable, wrote, stray, left>>

\* RELEASE SAVEPOINT
SavepointReleased(f) ==
    /\ f # Top /\ Next1(f) /\ link = "up" /\ phase[f] = "closing" /\ goal[f] = "commit"
    /\ IF OnStack(f) /\ ~aborted
          THEN /\ stack' = ReleasedFrom(Layer(f))
               /\ closed' = [closed EXCEPT ![f] = TRUE]
               /\ Leaves(f, Released(lock, f))
               /\ UNCHANGED <<goal, failedIn, busy, aborted>>
          ELSE /\ CommitFails(f)
               /\ aborted' = (stack # <<>>)
               /\ UNCHANGED stack
    /\ UNCHANGED <<via, issued, link, durable, wrote, stray, left>>

\* ROLLBACK TO SAVEPOINT; the callback may have asked for it and return normally.
SavepointRolledBack(f) ==
    /\ f # Top /\ Next1(f) /\ link = "up" /\ phase[f] = "closing" /\ goal[f] = "rollback"
    /\ IF OnStack(f)
          THEN /\ stack' = RolledBackTo(Layer(f))
               /\ aborted' = FALSE
               /\ closed' = [closed EXCEPT ![f] = TRUE]
               /\ Leaves(f, Released(lock, f))
               /\ Rejects(f) \/ UNCHANGED failedIn
               /\ UNCHANGED <<goal, busy>>
          ELSE /\ RollbackFails(f)
               /\ aborted' = (stack # <<>>)
               /\ UNCHANGED stack
    /\ UNCHANGED <<via, issued, link, durable, wrote, stray, left>>

Answered(a) ==
    \/ a \in Flows /\ (WorkDone(a) \/ WorkFails(a))
    \/ a \in Frames /\ (Opened(a) \/ NotOpened(a) \/ SavepointReleased(a) \/ SavepointRolledBack(a))
    \/ a = Top /\ (Committed \/ CommitRejected \/ RolledBack)

\* The connection is lost or terminated by the memory budget, or ended by the scope that
\* threw.  The server may have run a COMMIT whose answer never comes.
Disconnect ==
    /\ link = "up" /\ phase[Top] # "none"
    /\ \/ Spend("lost") /\ link' = "lost"
       \/ phase[Top] = "over" /\ goal[Top] = "rollback" /\ link' = "ended" /\ UNCHANGED left
    /\ stack' = <<>> /\ aborted' = FALSE
    /\ \/ UNCHANGED durable
       \/ /\ wire # <<>> /\ Head(wire) = Top /\ goal[Top] = "commit" /\ ~aborted
          /\ durable' = durable \cup AllWork(stack)
    /\ UNCHANGED <<lock, frames, flows, wire, wrote, stray>>

CutOff(a) ==
    /\ Next1(a) /\ link # "up"
    /\ CallFails(a)
    /\ UNCHANGED <<via, issued, link, server, wrote, stray, left>>

-----------------------------------------------------------------------------
(* The specification *)

Ends(f) == \E g \in {"commit", "rollback"} : EndScope(f, g) \/ EndTransaction(f, g)

Next ==
    \/ Begin \/ Disconnect
    \/ \E f \in Frames : Call(f) \/ Enter(f) \/ Ends(f)
    \/ \E k \in Flows, h \in Frames : Query(k, h)
    \/ \E a \in Frames \cup Flows : Send(a) \/ Refuse(a) \/ Answered(a) \/ CutOff(a)

Spec == Init /\ [][Next]_vars

\* Statements are answered or cut off, who gets the mutex goes on, and a callback ends
\* once everything it awaits has.
Fairness ==
    /\ \A a \in Frames \cup Flows : WF_vars(Send(a) \/ Refuse(a) \/ Answered(a) \/ CutOff(a))
    /\ \A f \in Frames : WF_vars(Enter(f)) /\ WF_vars(Ends(f))

FairSpec == Spec /\ Fairness

-----------------------------------------------------------------------------
(* Properties *)

\* While a frame is open, only its own statements and those of frames inside it run:
\* parallel nested transactions and scopes of one connection take turns, so a savepoint
\* encloses the work of its own callback and nothing else.  Not so for strays: a statement
\* that an abandoned callback issued in time, but that ran after its frame was over, runs
\* in the savepoint of whichever sibling is open, in the outer transaction, or in none.
Serialized ==
    \A i \in DOMAIN wire :
        LET sender == wire[i] IN
        (sender \in Flows => InTime(sender)) =>
            \A g \in Frames : Active(g) => g \in Upwards(Handle(sender))

\* RELEASE and ROLLBACK TO find their savepoint, with those of outer frames below it.
SavepointsNested ==
    link = "up" => \A f \in Frames : Kind[f] = "transaction" /\ phase[f] \in {"open", "closing"} =>
        \/ OnStack(f) /\ \A g \in Above[f] : OnStack(g) => Layer(g) < Layer(f)
        \/ f = Top /\ stack = <<>> /\ goal[f] = "rollback"

\* What was done in f counts: f and the transactions around it were committed.
Kept(f) == \A g \in Upwards(f) : Kind[g] = "transaction" => goal[g] = "commit"

\* All or nothing, at every level: once the outermost transaction reports its commit,
\* exactly the work of the nested transactions that reported theirs is durable; if it
\* reports a failure nothing is, unless the answer to the COMMIT was lost.  This counts work
\* done while its frame was alive.  What strays do shares the fate of the transaction they
\* end up in, or is durable at once if there is none: nothing is promised about it.
AllOrNothing ==
    /\ phase[Top] = "over" /\ goal[Top] = "commit" => durable = {f \in wrote : Kept(f)}
    /\ durable # {} => goal[Top] = "commit" \/ link = "lost"

\* Nobody hangs: no two parts of a transaction wait for one another, whatever connections
\* they use, so it ends, and so does every call of a part of it, an abandoned one included.
NobodyHangs ==
    /\ phase[Top] = "open" ~> phase[Top] = "over"
    /\ \A k \in Flows : k \in busy ~> k \notin busy
-----------------------------------------------------------------------------
(* Why the properties hold: the inductive invariant of TransactionsProofs. *)

Held(f) == phase[f] \in {"opening", "open", "closing"}
Alive(f) == Held(f) /\ ~IsClosed(f)

\* The callback of f has begun.
Entered(f) == phase[f] \in {"open", "closing"} \/ (phase[f] = "over" /\ goal[f] # "none")

\* A sender whose statement belongs to a transaction that is not closed.
Live(a) == a \in Frames \/ InTime(a)
LiveSent == \E a \in Frames \cup Flows : Sent(a) /\ Live(a)
Busy == link = "up" \/ LiveSent

Wants(a, h) ==
    \/ a \in Flows /\ a \in busy /\ via[a] = h
    \/ a \in Frames \ {Top} /\ Parent[a] = h /\ phase[a] \in {"waiting", "opening", "open", "closing"}
    \/ a = h /\ phase[h] = "closing"

In(a, s) == \E i \in DOMAIN s : s[i] = a
Once(s) == \A i, j \in DOMAIN s : s[i] = s[j] => i = j

\* In a mutex is who wants it, once; a frame that has begun has its parent's.
LockInv ==
    /\ \A h \in Frames : Once(lock[h]) /\ \A a \in Frames \cup Flows : In(a, lock[h]) => Wants(a, h)
    /\ \A f \in Frames \ {Top} : Held(f) => lock[Parent[f]] # <<>> /\ Head(lock[Parent[f]]) = f

\* Who is on the wire has the mutex, and is there once.
WireInv ==
    /\ Once(wire)
    /\ \A k \in Flows : Sent(k) => k \in busy /\ HasTurn(k)
    /\ \A f \in Frames : Sent(f) =>
          \/ phase[f] = "opening" /\ (f = Top \/ HasTurn(f))
          \/ phase[f] = "closing" /\ HasTurn(f)

\* A frame is called by a callback that has begun; a scope is not left before its parts.
CallInv ==
    /\ phase[Top] # "waiting"
    /\ \A f \in Frames :
          /\ Kind[f] = "scope" => phase[f] \notin {"opening", "closing"}
          /\ phase[f] = "closing" => goal[f] # "none"
          /\ goal[f] # "none" => phase[f] \in {"closing", "over"}
          /\ closed[f] => Kind[f] = "transaction" /\ phase[f] = "over" /\ goal[f] # "none"
          /\ phase[f] # "none" => \A g \in Above[f] : Entered(g)
          /\ f # Top /\ Kind[Parent[f]] = "scope" /\ phase[Parent[f]] = "over"
                => phase[f] \in {"none", "over"}
    /\ \A k \in busy : Entered(via[k])

\* What is alive is alive all the way up, and a transaction is closed when it is over.
ChainInv ==
    Busy => \A f \in Frames :
        /\ Alive(f) => \A g \in Above[f] : Active(g)
        /\ Kind[f] = "transaction" /\ phase[f] = "over" /\ goal[f] # "none" => closed[f]

\* The layers are of transactions that have begun, and a transaction in progress has one,
\* above those of the transactions around it.
StackInv ==
    link = "up" =>
        /\ \A i, j \in DOMAIN stack : stack[i].frame = stack[j].frame => i = j
        /\ \A i \in DOMAIN stack : Kind[stack[i].frame] = "transaction" /\ Entered(stack[i].frame)
        /\ SavepointsNested

\* The work done in w has not been undone.
Counts(w) == \A g \in Upwards(w) : Kind[g] = "transaction" /\ phase[g] = "over" => goal[g] = "commit"

\* The layers have the work that was not undone; that from the savepoint of a transaction
\* in progress on is the work done inside it.
WorkInv ==
    /\ \A w \in wrote : Entered(w)
    /\ link = "up" /\ OnStack(Top) =>
        /\ AllWork(stack) = {w \in wrote : Counts(w)}
        /\ \A f \in Frames : Kind[f] = "transaction" /\ phase[f] \in {"open", "closing"} =>
              \A i \in DOMAIN stack : \A w \in stack[i].work : Layer(f) <= i <=> f \in Upwards(w)

\* Nothing is durable before the outermost transaction commits, and nothing happens after.
DurableInv ==
    /\ durable # {} => (phase[Top] = "over" /\ goal[Top] = "commit") \/ link = "lost"
    /\ phase[Top] = "over" /\ goal[Top] = "commit" =>
        /\ closed[Top]
        /\ \A f \in Frames : Kind[f] = "transaction" => ~Held(f)
        /\ durable = {w \in wrote : Kept(w)}

TransInv ==
    /\ TypeOK
    /\ LockInv
    /\ WireInv
    /\ CallInv
    /\ ChainInv
    /\ StackInv
    /\ WorkInv
    /\ DurableInv
=============================================================================
