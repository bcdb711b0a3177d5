------------------------ MODULE TransactionsProofs ------------------------
(***************************************************************************)
(* Transactions and scopes of a connection, proved: the inductive          *)
(* invariant TransInv, and that statements take turns, that savepoints     *)
(* nest and that the work of a transaction is durable as a whole, for any  *)
(* tree of calls.                                                          *)
(***************************************************************************)
EXTENDS Transactions, FiniteSetTheorems, WellFoundedInduction, SequenceTheorems, TLAPS

-----------------------------------------------------------------------------
(* The tree of calls *)

\* Induction over the natural numbers, as a fact about sets of them.
LEMMA Least ==
    ASSUME NEW T \in SUBSET Nat, T # {}
    PROVE  \E n \in T : \A m \in T : n <= m
<1>1. PICK n \in T : \A m \in T : <<m, n>> \notin OpToRel(<, Nat)
  BY NatLessThanWellFounded, WFMin, Zenon
<1>2. \A m \in T : ~(m < n)
  BY <1>1 DEF OpToRel
<1> QED
  BY <1>2

\* Induction over the tree: of any frames, one is Top or called from outside of them.
LEMMA Root ==
    ASSUME NEW S \in SUBSET Frames, S # {}
    PROVE  \E f \in S : f = Top \/ Parent[f] \notin S
<1> DEFINE T == {Cardinality(Above[f]) : f \in S}
<1>1. \A f \in Frames : IsFiniteSet(Above[f]) /\ Cardinality(Above[f]) \in Nat
  BY FS_Subset, FS_CardinalityType, TransactionsAssumption
<1>2. PICK n \in T : \A m \in T : n <= m
  <2>1. T \in SUBSET Nat /\ T # {}
    BY <1>1
  <2> QED
    BY <2>1, Least
<1>3. PICK f \in S : n = Cardinality(Above[f])
  OBVIOUS
<1>4. SUFFICES ASSUME f # Top, Parent[f] \in S
               PROVE  FALSE
  OBVIOUS
<1>5. /\ Above[Parent[f]] \subseteq Above[f]
      /\ Above[Parent[f]] # Above[f]
  BY <1>4, TransactionsAssumption
<1>6. Cardinality(Above[Parent[f]]) < Cardinality(Above[f])
  <2>1. f \in Frames /\ Parent[f] \in Frames /\ IsFiniteSet(Above[f])
    BY <1>1, <1>4
  <2>2. Above[Parent[f]] \in SUBSET Above[f]
    BY <1>5
  <2>3. /\ Cardinality(Above[Parent[f]]) <= Cardinality(Above[f])
        /\ Cardinality(Above[Parent[f]]) # Cardinality(Above[f])
    BY <2>1, <2>2, <1>5, FS_Subset, Zenon
  <2> QED
    BY <2>1, <2>3, <1>1
<1>7. Cardinality(Above[Parent[f]]) \in T
  BY <1>4
<1> QED
  BY <1>1, <1>2, <1>3, <1>4, <1>6, <1>7

\* Parents.
LEMMA Parents ==
    ASSUME NEW f \in Frames
    PROVE  /\ Above[f] \subseteq Frames /\ f \notin Above[f]
           /\ f = Top => Above[f] = {}
           /\ f # Top => /\ Parent[f] \in Frames /\ Parent[f] # f
                         /\ Above[f] = Upwards(Parent[f])
  BY TransactionsAssumption DEF Upwards

LEMMA AboveIsTransitive ==
    ASSUME NEW f \in Frames, NEW g \in Above[f]
    PROVE  Above[g] \subseteq Above[f] /\ g \in Frames /\ f \notin Above[g] /\ f # g
<1> DEFINE S == {x \in Frames : \E y \in Above[x] : ~(Above[y] \subseteq Above[x])}
<1>1. S = {}
  <2>1. SUFFICES ASSUME S # {}
                 PROVE  FALSE
    OBVIOUS
  <2>2. PICK x \in S : x = Top \/ Parent[x] \notin S
    BY <2>1, Root
  <2> QED
    BY <2>2, Parents DEF Upwards
<1>2. Above[g] \subseteq Above[f]
  BY <1>1
<1> QED
  BY <1>2, Parents

\* Between a frame and one above it there is a child of the latter.
LEMMA PathDown ==
    ASSUME NEW f \in Frames, NEW g \in Above[f]
    PROVE  \E c \in Upwards(f) : c \in Frames \ {Top} /\ Parent[c] = g
<1> DEFINE S == {x \in Frames : \E y \in Above[x] : \A c \in Upwards(x) \ {Top} : Parent[c] # y}
<1>1. S = {}
  <2>1. SUFFICES ASSUME S # {}
                 PROVE  FALSE
    OBVIOUS
  <2>2. PICK x \in S : x = Top \/ Parent[x] \notin S
    BY <2>1, Root
  <2>3. x # Top /\ Parent[x] \in Frames /\ Above[x] = Upwards(Parent[x])
    BY <2>2, Parents
  <2>4. PICK y \in Above[x] : \A c \in Upwards(x) \ {Top} : Parent[c] # y
    BY <2>2
  <2>5. y \in Above[Parent[x]]
    BY <2>3, <2>4 DEF Upwards
  <2>6. PICK c \in Upwards(Parent[x]) \ {Top} : Parent[c] = y
    BY <2>2, <2>3, <2>5
  <2> QED
    BY <2>3, <2>4, <2>6 DEF Upwards
<1>2. PICK c \in Upwards(f) \ {Top} : Parent[c] = g
  BY <1>1
<1> QED
  BY <1>2, Parents DEF Upwards

LEMMA TopIsAbove ==
    ASSUME NEW f \in Frames
    PROVE  Top \in Upwards(f)
<1> DEFINE S == {x \in Frames : Top \notin Upwards(x)}
<1>1. SUFFICES ASSUME S # {}
               PROVE  FALSE
  OBVIOUS
<1>2. PICK x \in S : x = Top \/ Parent[x] \notin S
  BY <1>1, Root
<1> QED
  BY <1>2, Parents DEF Upwards

\* Two frames are one inside the other, or there are two siblings around them.
LEMMA Siblings ==
    ASSUME NEW f \in Frames, NEW g \in Frames, f \notin Upwards(g), g \notin Upwards(f)
    PROVE  \E c \in Upwards(f), d \in Upwards(g) :
               c \in Frames \ {Top} /\ d \in Frames \ {Top} /\ c # d /\ Parent[c] = Parent[d]
<1> DEFINE Apart(x) == \E c \in Upwards(x), d \in Upwards(g) :
               c \in Frames \ {Top} /\ d \in Frames \ {Top} /\ c # d /\ Parent[c] = Parent[d]
           S == {x \in Frames : x \notin Upwards(g) /\ g \notin Upwards(x) /\ ~Apart(x)}
<1>1. SUFFICES ASSUME S # {}
               PROVE  FALSE
  OBVIOUS
<1>2. PICK x \in S : x = Top \/ Parent[x] \notin S
  BY <1>1, Root
<1>3. x # Top /\ Parent[x] \in Frames /\ Above[x] = Upwards(Parent[x])
  BY <1>2, TopIsAbove, Parents
<1>4. g # Parent[x] /\ g \notin Upwards(Parent[x])
  BY <1>2, <1>3 DEF Upwards
<1>5. ~Apart(Parent[x])
  <2>1. Upwards(Parent[x]) \subseteq Upwards(x)
    BY <1>3 DEF Upwards
  <2> QED
    BY <2>1, <1>2
<1>6. Parent[x] \in Above[g]
  BY <1>2, <1>3, <1>4, <1>5 DEF Upwards
<1>7. PICK d \in Upwards(g) : d \in Frames \ {Top} /\ Parent[d] = Parent[x]
  BY <1>6, PathDown
<1> QED
  BY <1>2, <1>3, <1>7 DEF Upwards

\* The owner of a frame is the innermost transaction around it.
IsOwner(g, f) ==
    /\ g \in Upwards(f) /\ Kind[g] = "transaction"
    /\ \A h \in Upwards(f) : Kind[h] = "transaction" => h \in Upwards(g)

LEMMA OwnerIsInnermost ==
    ASSUME NEW f \in Frames
    PROVE  /\ IsOwner(Owner(f), f) /\ Owner(f) \in Frames
           /\ Kind[f] = "transaction" => Owner(f) = f
           /\ Kind[f] # "transaction" => f # Top /\ Owner(f) = Owner(Parent[f])
<1> DEFINE S == {x \in Frames : \A g \in Frames : ~IsOwner(g, x)}
<1>1. \A x \in Frames : Upwards(x) \subseteq Frames /\ x \in Upwards(x)
  BY Parents DEF Upwards
<1>2. \A x \in Frames : Kind[x] = "transaction" => IsOwner(x, x)
  BY DEF IsOwner, Upwards
<1>3. \A x \in Frames : Kind[x] # "transaction" =>
          /\ x # Top
          /\ \A g \in Frames : IsOwner(g, x) <=> IsOwner(g, Parent[x])
  <2> SUFFICES ASSUME NEW x \in Frames, Kind[x] # "transaction"
               PROVE  x # Top /\ \A g \in Frames : IsOwner(g, x) <=> IsOwner(g, Parent[x])
    OBVIOUS
  <2>1. x # Top
    BY TransactionsAssumption
  <2>2. Upwards(x) = {x} \cup Upwards(Parent[x])
    BY <2>1, Parents DEF Upwards
  <2> QED
    BY <2>1, <2>2 DEF IsOwner
<1>4. S = {}
  <2>1. SUFFICES ASSUME S # {}
                 PROVE  FALSE
    OBVIOUS
  <2>2. PICK x \in S : x = Top \/ Parent[x] \notin S
    BY <2>1, Root
  <2>3. Kind[x] # "transaction" /\ x # Top
    BY <1>2, <1>3, <2>2
  <2>4. PICK g \in Frames : IsOwner(g, Parent[x])
    BY <2>2, <2>3, Parents
  <2> QED
    BY <1>3, <2>2, <2>3, <2>4
<1>5. \A x \in Frames : \A g, h \in Frames : IsOwner(g, x) /\ IsOwner(h, x) => g = h
  BY AboveIsTransitive, <1>1 DEF IsOwner, Upwards
<1>6. \A x \in Frames : IsOwner(Owner(x), x) /\ Owner(x) \in Frames
  <2> SUFFICES ASSUME NEW x \in Frames
               PROVE  IsOwner(Owner(x), x) /\ Owner(x) \in Frames
    OBVIOUS
  <2>1. PICK g \in Frames : IsOwner(g, x)
    BY <1>4
  <2>2. IsOwner(Owner(x), x)
    BY <2>1 DEF Owner, IsOwner
  <2> QED
    BY <2>2, <1>1 DEF IsOwner
<1>7. \A x \in Frames \ {Top} : Parent[x] \in Frames
  BY Parents
<1> QED
  BY <1>2, <1>3, <1>5, <1>6, <1>7

-----------------------------------------------------------------------------
(* Sequences *)

LEMMA TailFacts ==
    ASSUME NEW X, NEW s \in Seq(X), s # <<>>, Once(s)
    PROVE  /\ Tail(s) \in Seq(X) /\ Once(Tail(s)) /\ In(Head(s), s)
           /\ \A a : In(a, Tail(s)) <=> In(a, s) /\ a # Head(s)
<1>1. /\ Tail(s) \in Seq(X) /\ Len(Tail(s)) = Len(s) - 1 /\ Len(s) \in Nat /\ Len(s) > 0
      /\ \A i \in 1 .. Len(s) - 1 : Tail(s)[i] = s[i + 1]
      /\ Head(s) = s[1]
  OBVIOUS
<1>2. DOMAIN s = 1 .. Len(s) /\ DOMAIN Tail(s) = 1 .. Len(s) - 1
  BY <1>1
<1>3. Once(Tail(s)) /\ In(Head(s), s)
  BY <1>1, <1>2 DEF Once, In
<1>4. ASSUME NEW a, In(a, Tail(s))
      PROVE  In(a, s) /\ a # Head(s)
  BY <1>1, <1>2, <1>4 DEF Once, In
<1>5. ASSUME NEW a, In(a, s), a # Head(s)
      PROVE  In(a, Tail(s))
  <2>1. PICK i \in 1 .. Len(s) : s[i] = a
    BY <1>5, <1>2 DEF In
  <2>2. i - 1 \in 1 .. Len(s) - 1 /\ Tail(s)[i - 1] = a
    BY <1>1, <1>5, <2>1
  <2> QED
    BY <1>2, <2>2 DEF In
<1> QED
  BY <1>1, <1>3, <1>4, <1>5

LEMMA AppendFacts ==
    ASSUME NEW X, NEW s \in Seq(X), NEW e \in X, Once(s), ~In(e, s)
    PROVE  /\ Append(s, e) \in Seq(X) /\ Append(s, e) # <<>> /\ Once(Append(s, e))
           /\ \A a : In(a, Append(s, e)) <=> In(a, s) \/ a = e
           /\ s # <<>> => Head(Append(s, e)) = Head(s)
           /\ s = <<>> => Head(Append(s, e)) = e
<1>1. /\ Append(s, e) \in Seq(X) /\ Len(Append(s, e)) = Len(s) + 1 /\ Len(s) \in Nat
      /\ \A i \in 1 .. Len(s) : Append(s, e)[i] = s[i]
      /\ Append(s, e)[Len(s) + 1] = e
      /\ Append(s, e) # <<>>
  OBVIOUS
<1>2. DOMAIN s = 1 .. Len(s) /\ DOMAIN Append(s, e) = 1 .. Len(s) + 1
  BY <1>1
<1>3. Once(Append(s, e))
  BY <1>1, <1>2 DEF Once, In
<1>4. \A a : In(a, Append(s, e)) <=> In(a, s) \/ a = e
  <2>1. ASSUME NEW a, In(a, s)
        PROVE  In(a, Append(s, e))
    BY <1>1, <1>2, <2>1 DEF In
  <2>2. In(e, Append(s, e))
    BY <1>1, <1>2 DEF In
  <2>3. ASSUME NEW a, In(a, Append(s, e)), a # e
        PROVE  In(a, s)
    BY <1>1, <1>2, <2>3 DEF In
  <2> QED
    BY <2>1, <2>2, <2>3
<1>5. /\ s # <<>> => Head(Append(s, e)) = Head(s)
      /\ s = <<>> => Head(Append(s, e)) = e
  OBVIOUS
<1> QED
  BY <1>1, <1>3, <1>4, <1>5

LEMMA SentIsIn == \A a : Sent(a) <=> In(a, wire)
  BY DEF Sent, In

-----------------------------------------------------------------------------
(* What the invariant says of a state *)

Core == TypeOK /\ LockInv /\ WireInv /\ CallInv /\ ChainInv

LEMMA KindsDiffer == ASSUME NEW f \in Frames
                     PROVE  /\ Kind[f] \in {"transaction", "scope"} /\ f \notin Flows
                            /\ Kind[Top] = "transaction" /\ Top \in Frames
  BY TransactionsAssumption

LEMMA TopIsFrame == Top \in Frames /\ Kind[Top] = "transaction"
  BY TransactionsAssumption

\* A transaction that is held is not closed, so it is alive.
LEMMA HeldTransaction ==
    ASSUME Core, NEW f \in Frames, Kind[f] = "transaction"
    PROVE  /\ IsClosed(f) <=> closed[f]
           /\ Held(f) => Alive(f) /\ ~closed[f]
           /\ phase[f] \in {"open", "closing"} => Active(f)
  BY OwnerIsInnermost DEF Core, CallInv, IsClosed, Alive, Held, Active

\* Under a frame that is alive there is one of its children that has its mutex.
LEMMA Below ==
    ASSUME Core, Busy, NEW f \in Frames, Alive(f), NEW g \in Above[f]
    PROVE  /\ Active(g) /\ g \in Frames
           /\ \E c \in Upwards(f) : /\ c \in Frames \ {Top} /\ Parent[c] = g /\ Held(c)
                                    /\ lock[g] # <<>> /\ Head(lock[g]) = c
                                    /\ c = f \/ Active(c)
<1>1. \A h \in Above[f] : Active(h)
  BY DEF Core, ChainInv
<1>2. PICK c \in Upwards(f) : c \in Frames \ {Top} /\ Parent[c] = g
  BY PathDown
<1>3. Held(c) /\ (c = f \/ Active(c))
  BY <1>1, <1>2 DEF Upwards, Active, Alive, Held
<1> QED
  BY <1>1, <1>2, <1>3, AboveIsTransitive DEF Core, LockInv

\* What is alive lies on one path.
LEMMA Related ==
    ASSUME Core, Busy, NEW f \in Frames, Alive(f), NEW g \in Frames, Alive(g)
    PROVE  f \in Upwards(g) \/ g \in Upwards(f)
<1>1. SUFFICES ASSUME f \notin Upwards(g), g \notin Upwards(f)
               PROVE  FALSE
  OBVIOUS
<1>2. PICK c \in Upwards(f), d \in Upwards(g) :
          c \in Frames \ {Top} /\ d \in Frames \ {Top} /\ c # d /\ Parent[c] = Parent[d]
  BY <1>1, Siblings
<1>3. Held(c) /\ Held(d)
  BY <1>2, Below DEF Upwards, Active, Alive, Held
<1> QED
  BY <1>2, <1>3 DEF Core, LockInv

\* Where a live statement is sent from: no frame is active below it.
LEMMA LiveSender ==
    ASSUME Core, NEW a \in Frames \cup Flows, Sent(a), Live(a)
    PROVE  /\ Busy /\ Handle(a) \in Frames
           /\ (a = Top /\ phase[Top] = "opening") \/ (Active(Handle(a)) /\ HasTurn(a))
<1>1. Busy
  BY DEF Busy, LiveSent
<1>2. CASE a \in Flows
  BY <1>1, <1>2, TransactionsAssumption DEF Core, WireInv, Live, InTime, Handle, TypeOK
<1>3. CASE a \in Frames /\ phase[a] = "closing"
  <2>1. HasTurn(a) /\ Kind[a] = "transaction"
    BY <1>3, KindsDiffer DEF Core, WireInv, CallInv
  <2> QED
    BY <1>1, <1>3, <2>1, HeldTransaction, KindsDiffer DEF Handle
<1>4. CASE a \in Frames /\ phase[a] # "closing"
  <2>1. phase[a] = "opening" /\ (a = Top \/ HasTurn(a)) /\ Kind[a] = "transaction"
    BY <1>4, KindsDiffer DEF Core, WireInv, CallInv
  <2>2. a # Top => Active(Parent[a]) /\ Parent[a] \in Frames
    BY <1>1, <1>4, <2>1, HeldTransaction, Parents, Below DEF Held, Upwards
  <2> QED
    BY <1>1, <1>4, <2>1, <2>2, KindsDiffer DEF Handle
<1> QED
  BY <1>2, <1>3, <1>4

LEMMA NoneBelow ==
    ASSUME Core, NEW a \in Frames \cup Flows, Sent(a), Live(a), NEW g \in Frames, Active(g)
    PROVE  g \in Upwards(Handle(a))
<1> DEFINE h == Handle(a)
<1>1. Busy /\ h \in Frames /\ Alive(g)
  BY LiveSender DEF Active, Alive, Held
<1>2. CASE a = Top /\ phase[Top] = "opening"
  BY <1>1, <1>2, TopIsAbove, Below DEF Active, Upwards
<1>3. CASE Active(h) /\ HasTurn(a)
  <2>1. SUFFICES ASSUME h \in Above[g]
                 PROVE  FALSE
    BY <1>1, <1>3, Related DEF Active, Alive, Held, Upwards
  <2>2. PICK c \in Upwards(g) : /\ c \in Frames \ {Top} /\ Parent[c] = h /\ Head(lock[h]) = c
                                /\ c = g \/ Active(c)
    BY <1>1, <2>1, Below
  <2>3. a = c /\ a \in Frames
    BY <1>3, <2>2 DEF HasTurn
  <2>4. phase[a] = "closing" \/ phase[a] = "opening"
    BY <2>3 DEF Core, WireInv
  <2>5. phase[a] = "closing"
    BY <2>2, <2>3, <2>4 DEF Active
  <2> QED
    BY <2>2, <2>3, <2>5, Parents, KindsDiffer DEF Handle
<1> QED
  BY <1>2, <1>3, LiveSender

\* Statements take turns.
LEMMA TakeTurns ==
    ASSUME Core
    PROVE  Serialized
<1> SUFFICES ASSUME NEW i \in DOMAIN wire, wire[i] \in Flows => InTime(wire[i]),
                    NEW g \in Frames, Active(g)
             PROVE  g \in Upwards(Handle(wire[i]))
  BY DEF Serialized
<1>1. wire[i] \in Frames \cup Flows /\ Sent(wire[i]) /\ Live(wire[i])
  BY DEF Core, TypeOK, Sent, Live
<1> QED
  BY <1>1, NoneBelow

\* Two live statements are never sent together.
LEMMA OneLive ==
    ASSUME Core, NEW a \in Frames \cup Flows, Sent(a), Live(a),
           NEW b \in Frames \cup Flows, Sent(b), Live(b)
    PROVE  a = b
<1>1. Busy /\ Handle(a) \in Frames /\ Handle(b) \in Frames
  BY LiveSender
<1>2. CASE Active(Handle(a)) /\ HasTurn(a) /\ Active(Handle(b)) /\ HasTurn(b)
  <2>1. Handle(a) \in Upwards(Handle(b)) /\ Handle(b) \in Upwards(Handle(a))
    BY <1>1, <1>2, NoneBelow
  <2>2. Handle(a) = Handle(b)
    BY <1>1, <2>1, AboveIsTransitive DEF Upwards
  <2> QED
    BY <1>2, <2>2 DEF HasTurn
<1>3. CASE a = Top /\ phase[Top] = "opening"
  <2>1. \A g \in Frames : ~Active(g)
    BY <1>3, NoneBelow, Parents, KindsDiffer DEF Handle, Upwards, Active
  <2> QED
    BY <1>1, <1>3, <2>1, LiveSender
<1>4. CASE b = Top /\ phase[Top] = "opening"
  <2>1. \A g \in Frames : ~Active(g)
    BY <1>4, NoneBelow, Parents, KindsDiffer DEF Handle, Upwards, Active
  <2> QED
    BY <1>1, <1>4, <2>1, LiveSender
<1> QED
  BY <1>2, <1>3, <1>4, LiveSender

-----------------------------------------------------------------------------
(* Mutexes *)

Acts == Frames \cup Flows
Locks == {l \in [Frames -> Seq(Acts)] : \A h \in Frames : Once(l[h])}

LEMMA LockedFacts ==
    ASSUME NEW l \in Locks, NEW h \in Frames, NEW a \in Acts, ~In(a, l[h])
    PROVE  /\ Locked(l, h, a) \in Locks
           /\ \A g \in Frames : /\ g # h => Locked(l, h, a)[g] = l[g]
                                /\ l[g] # <<>> => /\ Locked(l, h, a)[g] # <<>>
                                                  /\ Head(Locked(l, h, a)[g]) = Head(l[g])
                                /\ \A b : In(b, Locked(l, h, a)[g]) <=> In(b, l[g]) \/ (g = h /\ b = a)
<1>1. l \in [Frames -> Seq(Acts)] /\ Once(l[h]) /\ l[h] \in Seq(Acts)
  BY DEF Locks
<1>2. Locked(l, h, a) = [l EXCEPT ![h] = Append(l[h], a)]
  BY DEF Locked
<1>3. /\ Append(l[h], a) \in Seq(Acts) /\ Append(l[h], a) # <<>> /\ Once(Append(l[h], a))
      /\ \A b : In(b, Append(l[h], a)) <=> In(b, l[h]) \/ b = a
      /\ l[h] # <<>> => Head(Append(l[h], a)) = Head(l[h])
  BY <1>1, AppendFacts, Zenon, SMTT(20)
<1>4. /\ Locked(l, h, a)[h] = Append(l[h], a)
      /\ \A g \in Frames : g # h => Locked(l, h, a)[g] = l[g]
  BY <1>1, <1>2
<1>5. Locked(l, h, a) \in Locks
  BY <1>1, <1>2, <1>3, <1>4 DEF Locks
<1> QED
  BY <1>3, <1>4, <1>5

LEMMA ReleasedFacts ==
    ASSUME NEW l \in Locks, NEW h \in Frames, l[h] # <<>>
    PROVE  /\ Released(l, h) \in Locks
           /\ \A g \in Frames : /\ g # h => Released(l, h)[g] = l[g]
                                /\ \A b : In(b, Released(l, h)[g]) <=>
                                          In(b, l[g]) /\ ~(g = h /\ b = Head(l[h]))
           /\ In(Head(l[h]), l[h])
<1>1. l \in [Frames -> Seq(Acts)] /\ Once(l[h]) /\ l[h] \in Seq(Acts)
  BY DEF Locks
<1>2. Released(l, h) = [l EXCEPT ![h] = Tail(l[h])]
  BY DEF Released
<1>3. /\ Tail(l[h]) \in Seq(Acts) /\ Once(Tail(l[h])) /\ In(Head(l[h]), l[h])
      /\ \A b : In(b, Tail(l[h])) <=> In(b, l[h]) /\ b # Head(l[h])
  BY <1>1, TailFacts, Zenon
<1>4. /\ Released(l, h)[h] = Tail(l[h])
      /\ \A g \in Frames : g # h => Released(l, h)[g] = l[g]
  BY <1>1, <1>2
<1>5. Released(l, h) \in Locks
  BY <1>1, <1>2, <1>3, <1>4 DEF Locks
<1> QED
  BY <1>3, <1>4, <1>5

LEMMA LockIsLocks == ASSUME TypeOK, LockInv PROVE lock \in Locks
  BY DEF TypeOK, LockInv, Locks, Acts

-----------------------------------------------------------------------------
(* The layers of the server *)

LayerType == [frame : Frames, work : SUBSET Frames]
Layers == Seq(LayerType)

LEMMA StackIsSeq ==
    ASSUME stack \in Layers
    PROVE  /\ Len(stack) \in Nat /\ DOMAIN stack = 1 .. Len(stack)
           /\ \A j \in 1 .. Len(stack) : stack[j] \in LayerType
  BY DEF Layers

LEMMA LayerFacts ==
    ASSUME NEW f, OnStack(f)
    PROVE  Layer(f) \in DOMAIN stack /\ stack[Layer(f)].frame = f
  BY DEF OnStack, Layer

LEMMA ReleasedFromFacts ==
    ASSUME stack \in Layers, NEW i \in DOMAIN stack
    PROVE  /\ ReleasedFrom(i) \in Layers /\ DOMAIN ReleasedFrom(i) = 1 .. i - 1
           /\ \A j \in 1 .. i - 1 :
                 /\ ReleasedFrom(i)[j].frame = stack[j].frame
                 /\ j < i - 1 => ReleasedFrom(i)[j].work = stack[j].work
           /\ i > 1 => ReleasedFrom(i)[i - 1].work = UNION {stack[j].work : j \in i - 1 .. Len(stack)}
<1> DEFINE low == SubSeq(stack, 1, i - 1)
           high == SubSeq(stack, i, Len(stack))
           W == AllWork(high)
<1>1. /\ Len(stack) \in Nat /\ i \in 1 .. Len(stack) /\ \A j \in 1 .. Len(stack) : stack[j] \in LayerType
  BY StackIsSeq
<1>2. /\ low \in Seq(LayerType) /\ Len(low) = i - 1 /\ DOMAIN low = 1 .. i - 1
      /\ \A j \in 1 .. i - 1 : low[j] = stack[j]
  BY <1>1, SubSeqProperties
<1>3. /\ high \in Seq(LayerType) /\ DOMAIN high = 1 .. Len(stack) - i + 1
      /\ \A j \in 1 .. Len(stack) - i + 1 : high[j] = stack[i + j - 1]
  BY <1>1, SubSeqProperties
<1>4. W = UNION {stack[j].work : j \in i .. Len(stack)} /\ W \subseteq Frames
  <2>1. W = UNION {high[j].work : j \in 1 .. Len(stack) - i + 1}
    BY <1>3 DEF AllWork
  <2>2. ASSUME NEW j \in 1 .. Len(stack) - i + 1
        PROVE  i + j - 1 \in i .. Len(stack) /\ high[j].work = stack[i + j - 1].work
    BY <1>1, <1>3
  <2>3. ASSUME NEW j \in i .. Len(stack)
        PROVE  j - i + 1 \in 1 .. Len(stack) - i + 1 /\ high[j - i + 1].work = stack[j].work
    BY <1>1, <1>3
  <2>4. W \subseteq UNION {stack[j].work : j \in i .. Len(stack)}
    BY <2>1, <2>2
  <2>5. UNION {stack[j].work : j \in i .. Len(stack)} \subseteq W
    BY <2>1, <2>3
  <2>6. \A j \in i .. Len(stack) : stack[j].work \subseteq Frames
    BY <1>1 DEF LayerType
  <2> QED
    BY <2>4, <2>5, <2>6
<1>5. ReleasedFrom(i) = [low EXCEPT ![i - 1].work = @ \cup W]
  BY DEF ReleasedFrom
<1> HIDE DEF W, low, high
<1>6. CASE i = 1
  <2>1. low = <<>>
    BY <1>2, <1>6
  <2>2. ReleasedFrom(i) = <<>>
    BY <1>5, <1>6, <2>1
  <2>3. <<>> \in Layers /\ DOMAIN <<>> = {} /\ 1 .. i - 1 = {}
    BY <1>6, EmptySeq DEF Layers
  <2>4. /\ ReleasedFrom(i) \in Layers /\ DOMAIN ReleasedFrom(i) = 1 .. i - 1
        /\ \A j \in 1 .. i - 1 : FALSE
        /\ ~(i > 1)
    BY <1>6, <2>2, <2>3
  <2> QED
    BY <2>4
<1>7. CASE i > 1
  <2>1. i - 1 \in 1 .. i - 1 /\ low[i - 1] \in LayerType
    BY <1>1, <1>2, <1>7
  <2>2. /\ DOMAIN ReleasedFrom(i) = 1 .. i - 1
        /\ \A j \in 1 .. i - 1 : j # i - 1 => ReleasedFrom(i)[j] = low[j]
        /\ ReleasedFrom(i)[i - 1] = [low[i - 1] EXCEPT !.work = low[i - 1].work \cup W]
    BY <1>2, <1>5, <2>1
  <2>3. /\ ReleasedFrom(i)[i - 1] \in LayerType /\ ReleasedFrom(i)[i - 1].frame = low[i - 1].frame
        /\ ReleasedFrom(i)[i - 1].work = low[i - 1].work \cup W
    BY <1>4, <2>1, <2>2 DEF LayerType
  <2>4. ReleasedFrom(i) \in Layers
    <3>1. \A j \in 1 .. i - 1 : ReleasedFrom(i)[j] \in LayerType
      BY <1>1, <1>2, <2>2, <2>3
    <3>2. ReleasedFrom(i) = [low EXCEPT ![i - 1] = ReleasedFrom(i)[i - 1]]
      BY <1>2, <1>5, <2>1, <2>2
    <3>3. ASSUME NEW n \in 1 .. Len(low), NEW e \in LayerType
          PROVE  [low EXCEPT ![n] = e] \in Seq(LayerType)
      BY <1>2, <3>3, ExceptSeq
    <3>4. i - 1 \in 1 .. Len(low)
      BY <1>2, <2>1
    <3>5. ReleasedFrom(i) \in Seq(LayerType)
      BY <2>3, <3>2, <3>3, <3>4
    <3> QED
      BY <3>5 DEF Layers
  <2>5. ReleasedFrom(i)[i - 1].work = UNION {stack[j].work : j \in i - 1 .. Len(stack)}
    <3>1. \A j \in i - 1 .. Len(stack) : j = i - 1 \/ j \in i .. Len(stack)
      BY <1>1, <1>7
    <3>2. \A j \in i .. Len(stack) : j \in i - 1 .. Len(stack)
      BY <1>1, <1>7
    <3>3. i - 1 \in i - 1 .. Len(stack)
      BY <1>1
    <3>4. low[i - 1].work = stack[i - 1].work
      BY <1>2, <2>1
    <3> QED
      BY <1>4, <2>3, <3>1, <3>2, <3>3, <3>4
  <2>6. ASSUME NEW j \in 1 .. i - 1
        PROVE  /\ ReleasedFrom(i)[j].frame = stack[j].frame
               /\ j < i - 1 => ReleasedFrom(i)[j].work = stack[j].work
    <3>1. low[j] = stack[j]
      BY <1>2, <2>6
    <3>2. CASE j = i - 1
      BY <1>1, <2>3, <3>1, <3>2
    <3>3. CASE j # i - 1
      BY <2>2, <2>6, <3>1, <3>3
    <3> QED
      BY <3>2, <3>3
  <2> QED
    BY <2>2, <2>4, <2>5, <2>6
<1> QED
  BY <1>1, <1>6, <1>7

LEMMA RolledBackToFacts ==
    ASSUME stack \in Layers, NEW i \in DOMAIN stack
    PROVE  /\ RolledBackTo(i) \in Layers /\ DOMAIN RolledBackTo(i) = 1 .. i
           /\ \A j \in 1 .. i : /\ RolledBackTo(i)[j].frame = stack[j].frame
                                /\ j < i => RolledBackTo(i)[j].work = stack[j].work
           /\ RolledBackTo(i)[i].work = {}
<1> DEFINE low == SubSeq(stack, 1, i)
<1>1. /\ Len(stack) \in Nat /\ i \in 1 .. Len(stack) /\ \A j \in 1 .. Len(stack) : stack[j] \in LayerType
  BY StackIsSeq
<1>2. /\ low \in Seq(LayerType) /\ Len(low) = i /\ DOMAIN low = 1 .. i
      /\ \A j \in 1 .. i : low[j] = stack[j]
  BY <1>1, SubSeqProperties
<1>3. RolledBackTo(i) = [low EXCEPT ![i].work = {}]
  BY DEF RolledBackTo
<1> HIDE DEF low
<1>4. i \in 1 .. i /\ low[i] \in LayerType
  BY <1>1, <1>2
<1>5. /\ DOMAIN RolledBackTo(i) = 1 .. i
      /\ \A j \in 1 .. i : j # i => RolledBackTo(i)[j] = low[j]
      /\ RolledBackTo(i)[i] = [low[i] EXCEPT !.work = {}]
  BY <1>2, <1>3, <1>4
<1>6. /\ RolledBackTo(i)[i] \in LayerType /\ RolledBackTo(i)[i].frame = low[i].frame
      /\ RolledBackTo(i)[i].work = {}
  BY <1>4, <1>5 DEF LayerType
<1>7. RolledBackTo(i) = [low EXCEPT ![i] = RolledBackTo(i)[i]]
  BY <1>2, <1>3, <1>4, <1>5
<1>8. RolledBackTo(i) \in Layers
  BY <1>2, <1>4, <1>6, <1>7, ExceptSeq DEF Layers
<1>9. ASSUME NEW j \in 1 .. i
      PROVE  /\ RolledBackTo(i)[j].frame = stack[j].frame
             /\ j < i => RolledBackTo(i)[j].work = stack[j].work
  <2>1. low[j] = stack[j]
    BY <1>2, <1>9
  <2>2. CASE j = i
    BY <1>1, <1>6, <2>1, <2>2
  <2>3. CASE j # i
    BY <1>5, <1>9, <2>1, <2>3
  <2> QED
    BY <2>2, <2>3
<1> QED
  BY <1>5, <1>6, <1>8, <1>9

LEMMA WorksFacts ==
    ASSUME stack \in Layers, NEW w \in SUBSET Frames
    PROVE  /\ Works(w) \in Layers /\ DOMAIN Works(w) = DOMAIN stack
           /\ \A j \in DOMAIN stack :
                 /\ Works(w)[j].frame = stack[j].frame
                 /\ j # Len(stack) => Works(w)[j].work = stack[j].work
           /\ stack # <<>> => /\ Len(stack) \in DOMAIN stack
                              /\ Works(w)[Len(stack)].work = stack[Len(stack)].work \cup w
<1> DEFINE n == Len(stack)
<1>1. n \in Nat /\ DOMAIN stack = 1 .. n /\ \A j \in 1 .. n : stack[j] \in LayerType
  BY StackIsSeq
<1>2. CASE stack = <<>>
  BY <1>1, <1>2 DEF Works
<1>3. CASE stack # <<>>
  <2>1. n \in 1 .. n
    BY <1>1, <1>3 DEF Layers
  <2>2. /\ DOMAIN Works(w) = 1 .. n
        /\ \A j \in 1 .. n : j # n => Works(w)[j] = stack[j]
        /\ Works(w)[n] = [stack[n] EXCEPT !.work = stack[n].work \cup w]
    BY <1>1, <2>1 DEF Works
  <2>3. /\ Works(w)[n] \in LayerType /\ Works(w)[n].frame = stack[n].frame
        /\ Works(w)[n].work = stack[n].work \cup w
    BY <1>1, <2>1, <2>2 DEF LayerType
  <2>4. Works(w) = [stack EXCEPT ![n] = Works(w)[n]]
    BY <1>1, <2>1, <2>2 DEF Works
  <2>5. Works(w) \in Layers
    BY <2>1, <2>3, <2>4, ExceptSeq DEF Layers
  <2> QED
    BY <1>1, <2>1, <2>2, <2>3, <2>5
<1> QED
  BY <1>2, <1>3

-----------------------------------------------------------------------------
(* What the steps do to the frames *)

Becomes(f, s) == phase' = [phase EXCEPT ![f] = s]

Called(f) ==
    /\ phase[f] = "none" /\ UNCHANGED <<goal, closed>>
    /\ \/ f = Top /\ Becomes(f, "opening")
       \/ f # Top /\ Running(Parent[f]) /\ Becomes(f, "waiting")

Asked(f) ==
    /\ phase[f] = "waiting" /\ Kind[f] = "transaction" /\ HasTurn(f) /\ ~Refused(f)
    /\ Becomes(f, "opening") /\ UNCHANGED <<goal, closed>>

\* A frame that never opened.
Missed(f) ==
    /\ phase[f] \in {"waiting", "opening"} /\ Kind[f] = "transaction"
    /\ Becomes(f, "over") /\ UNCHANGED <<goal, closed>>

TurnedBack(f) ==
    /\ phase[f] = "closing" /\ goal[f] = "commit" /\ HasTurn(f)
    /\ goal' = [goal EXCEPT ![f] = "rollback"] /\ UNCHANGED <<phase, closed>>

\* A transaction that is over and whose rollback failed.
Dropped(f) ==
    /\ phase[f] = "closing" /\ goal[f] = "rollback" /\ HasTurn(f)
    /\ Becomes(f, "over") /\ UNCHANGED <<goal, closed>>
    /\ \/ Refuse(f) \/ CutOff(f)
       \/ f # Top /\ ~OnStack(f) /\ link = "up"

Closed(f) ==
    /\ phase[f] = "closing" /\ HasTurn(f)
    /\ Becomes(f, "over") /\ closed' = [closed EXCEPT ![f] = TRUE]
    /\ \/ goal' = goal
       \/ f = Top /\ goal[f] = "commit" /\ goal' = [goal EXCEPT ![f] = CommitOutcome]

FrameStep(f) ==
    \/ Called(f) \/ Asked(f) \/ Enter(f) \/ Opened(f) \/ Missed(f)
    \/ \E g \in {"commit", "rollback"} : EndScope(f, g) \/ EndTransaction(f, g)
    \/ TurnedBack(f) \/ Dropped(f) \/ Closed(f)

\* Who is answered or cut off was sent.
LEMMA HeadIsSent ==
    ASSUME TypeOK, NEW a \in Acts, wire # <<>>, Head(wire) = a
    PROVE  Sent(a)
<1>1. Len(wire) \in Nat /\ 1 \in DOMAIN wire /\ Head(wire) = wire[1]
  BY DEF TypeOK
<1> QED
  BY <1>1 DEF Sent

LEMMA FailsFacts ==
    ASSUME Core, NEW a \in Frames, CallFails(a), Refuse(a) \/ CutOff(a)
    PROVE  /\ Kind[a] = "transaction"
           /\ phase[a] = "closing" => HasTurn(a)
           /\ UNCHANGED closed
           /\ \/ phase[a] \in {"waiting", "opening"} /\ Missed(a)
              \/ TurnedBack(a) /\ CommitFails(a)
              \/ Dropped(a) /\ RollbackFails(a)
<1>1. CASE Refuse(a)
  <2>1. Unsent(a) /\ HasTurn(a) /\ a \notin Flows
    BY <1>1, KindsDiffer DEF Refuse
  <2>2. phase[a] \in {"waiting", "closing"} /\ Kind[a] = "transaction"
    BY <2>1, KindsDiffer DEF Unsent, Core, CallInv
  <2> QED
    BY <1>1, <2>1, <2>2 DEF CallFails, OpeningFails, CommitFails, RollbackFails, Leaves, Missed, TurnedBack, Dropped, Becomes
<1>2. CASE CutOff(a)
  <2>1. Sent(a) /\ a \notin Flows
    BY <1>2, KindsDiffer, HeadIsSent DEF CutOff, Next1, Acts, Core
  <2>2. phase[a] \in {"opening", "closing"} /\ (phase[a] = "closing" => HasTurn(a)) /\ Kind[a] = "transaction"
    BY <2>1, KindsDiffer DEF Core, WireInv, CallInv
  <2> QED
    BY <1>2, <2>1, <2>2 DEF CallFails, OpeningFails, CommitFails, RollbackFails, Leaves, Missed, TurnedBack, Dropped, Becomes
<1> QED
  BY <1>1, <1>2

LEMMA FrameSteps ==
    ASSUME Core, Next
    PROVE  UNCHANGED <<phase, goal, closed>> \/ \E f \in Frames : FrameStep(f)
<1>1. CASE Begin
  <2>1. Called(Top)
    BY <1>1 DEF Begin, Called, Becomes
  <2> QED
    BY <2>1, TopIsFrame DEF FrameStep
<1>2. CASE Disconnect
  BY <1>2 DEF Disconnect, frames
<1>3. ASSUME NEW f \in Frames, Call(f) \/ Enter(f) \/ Ends(f)
      PROVE  FrameStep(f)
  <2>1. CASE Call(f)
    BY <2>1 DEF Call, FrameStep, Called, Becomes
  <2>2. CASE Enter(f)
    BY <2>2 DEF FrameStep
  <2>3. CASE Ends(f)
    BY <2>3 DEF Ends, FrameStep
  <2> QED
    BY <1>3, <2>1, <2>2, <2>3
<1>4. ASSUME NEW k \in Flows, NEW h \in Frames, Query(k, h)
      PROVE  UNCHANGED <<phase, goal, closed>>
  BY <1>4 DEF Query
<1>5. ASSUME NEW a \in Acts, Send(a)
      PROVE  UNCHANGED <<phase, goal, closed>> \/ (a \in Frames /\ FrameStep(a))
  <2>1. CASE a \in Frames /\ phase[a] = "waiting"
    <3>1. Asked(a)
      BY <1>5, <2>1, KindsDiffer DEF Send, Unsent, Asked, Becomes
    <3> QED
      BY <2>1, <3>1 DEF FrameStep
  <2>2. CASE ~(a \in Frames /\ phase[a] = "waiting")
    BY <1>5, <2>2 DEF Send
  <2> QED
    BY <2>1, <2>2
<1>6. ASSUME NEW a \in Acts, Refuse(a) \/ CutOff(a)
      PROVE  UNCHANGED <<phase, goal, closed>> \/ (a \in Frames /\ FrameStep(a))
  <2>1. CASE a \in Frames
    <3>1. CallFails(a)
      BY <1>6 DEF Refuse, CutOff
    <3> QED
      BY <1>6, <2>1, <3>1, FailsFacts DEF FrameStep
  <2>2. CASE a \notin Frames
    BY <1>6, <2>2 DEF Acts, Refuse, CutOff, CallFails, QueryFails
  <2> QED
    BY <2>1, <2>2
<1>7. ASSUME NEW k \in Flows, WorkDone(k) \/ WorkFails(k)
      PROVE  UNCHANGED <<phase, goal, closed>>
  BY <1>7 DEF WorkDone, WorkFails, QueryFails, frames
<1>8. ASSUME NEW f \in Frames, Next1(f), link = "up", phase[f] = "closing"
      PROVE  HasTurn(f)
  <2>1. Sent(f)
    BY <1>8, HeadIsSent DEF Next1, Acts, Core
  <2> QED
    BY <1>8, <2>1 DEF Core, WireInv
<1>9. ASSUME NEW f \in Frames, Opened(f) \/ NotOpened(f) \/ SavepointReleased(f) \/ SavepointRolledBack(f)
      PROVE  FrameStep(f)
  <2>1. CASE Opened(f)
    BY <2>1 DEF FrameStep
  <2>2. CASE NotOpened(f)
    <3>1. Kind[f] = "transaction"
      BY <2>2, KindsDiffer DEF NotOpened, Core, CallInv
    <3> QED
      BY <2>2, <3>1 DEF NotOpened, OpeningFails, Leaves, Missed, Becomes, FrameStep
  <2>3. CASE SavepointReleased(f)
    BY <2>3, <1>8 DEF SavepointReleased, CommitFails, Leaves, TurnedBack, Closed, Becomes, FrameStep
  <2>4. CASE SavepointRolledBack(f)
    <3>1. HasTurn(f) /\ phase[f] = "closing" /\ goal[f] = "rollback" /\ goal' = goal /\ Becomes(f, "over")
      BY <2>4, <1>8 DEF SavepointRolledBack, RollbackFails, Leaves, Becomes
    <3>2. CASE OnStack(f)
      BY <2>4, <3>1, <3>2 DEF SavepointRolledBack, Closed, FrameStep
    <3>3. CASE ~OnStack(f)
      BY <2>4, <3>1, <3>3 DEF SavepointRolledBack, RollbackFails, Dropped, FrameStep
    <3> QED
      BY <3>2, <3>3
  <2> QED
    BY <1>9, <2>1, <2>2, <2>3, <2>4
<1>10. CASE Committed
  <2>1. HasTurn(Top)
    BY <1>10, <1>8, TopIsFrame DEF Committed
  <2>2. Closed(Top)
    BY <1>10, <2>1 DEF Committed, Leaves, Closed, Becomes
  <2> QED
    BY <2>2, TopIsFrame DEF FrameStep
<1>11. CASE CommitRejected
  <2>1. HasTurn(Top)
    BY <1>11, <1>8, TopIsFrame DEF CommitRejected
  <2>2. TurnedBack(Top)
    BY <1>11, <2>1 DEF CommitRejected, CommitFails, TurnedBack
  <2> QED
    BY <2>2, TopIsFrame DEF FrameStep
<1>12. CASE RolledBack
  <2>1. HasTurn(Top)
    BY <1>12, <1>8, TopIsFrame DEF RolledBack
  <2>2. Closed(Top)
    BY <1>12, <2>1 DEF RolledBack, Leaves, Closed, Becomes
  <2> QED
    BY <2>2, TopIsFrame DEF FrameStep
<1> QED
  BY <1>1, <1>2, <1>3, <1>4, <1>5, <1>6, <1>7, <1>9, <1>10, <1>11, <1>12, KindsDiffer
     DEF Next, Answered, Acts

FrameTypes ==
    /\ phase \in [Frames -> {"none", "waiting", "opening", "open", "closing", "over"}]
    /\ goal \in [Frames -> {"none", "commit", "rollback"}]
    /\ closed \in [Frames -> BOOLEAN]

\* One frame changes, and how.
LEMMA OneFrame ==
    ASSUME Core, NEW f \in Frames, FrameStep(f)
    PROVE  /\ FrameTypes'
           /\ \A g \in Frames \ {f} : /\ phase'[g] = phase[g] /\ goal'[g] = goal[g]
                                      /\ closed'[g] = closed[g]
           /\ closed'[f] = closed[f] \/ (closed'[f] /\ Closed(f))
           /\ \/ /\ phase[f] \in {"none", "waiting"} /\ goal'[f] = goal[f]
                 /\ phase'[f] \in {"waiting", "opening"} /\ (phase'[f] = "waiting" => f # Top)
                 /\ phase'[f] = "waiting" => phase[f] = "none"
                 /\ phase[f] = "waiting" => Kind[f] = "transaction"
                 /\ phase'[f] = "opening" => Kind[f] = "transaction"
              \/ phase'[f] = "open" /\ goal'[f] = goal[f] /\ (Enter(f) \/ Opened(f))
              \/ phase'[f] = "over" /\ goal'[f] = goal[f] /\ Missed(f)
              \/ /\ phase[f] = "open" /\ goal[f] = "none" /\ goal'[f] # "none"
                 /\ phase'[f] = IF Kind[f] = "scope" THEN "over" ELSE "closing"
              \/ phase[f] = "closing" /\ goal'[f] # "none" /\ phase'[f] \in {"closing", "over"}
<1>1. f \in DOMAIN phase /\ f \in DOMAIN goal /\ f \in DOMAIN closed
  BY DEF Core, TypeOK
<1>2. goal[f] # "none" => phase[f] \in {"closing", "over"}
  BY DEF Core, CallInv
<1>3. Kind[f] \in {"transaction", "scope"} /\ Kind[Top] = "transaction"
  BY TransactionsAssumption
<1>4. CASE Called(f)
  BY <1>1, <1>3, <1>4 DEF Called, Becomes, FrameTypes, Core, TypeOK
<1>5. CASE Asked(f)
  <2>1. f # Top
    BY <1>5 DEF Asked, Core, CallInv
  <2> QED
    BY <1>1, <1>5, <2>1 DEF Asked, Becomes, FrameTypes, Core, TypeOK
<1>6. CASE Enter(f)
  BY <1>1, <1>6 DEF Enter, FrameTypes, Core, TypeOK
<1>7. CASE Opened(f)
  BY <1>1, <1>7 DEF Opened, FrameTypes, Core, TypeOK
<1>8. CASE Missed(f)
  BY <1>1, <1>8 DEF Missed, Becomes, FrameTypes, Core, TypeOK
<1>9. ASSUME NEW g \in {"commit", "rollback"}, EndScope(f, g) \/ EndTransaction(f, g)
      PROVE  /\ FrameTypes'
             /\ \A h \in Frames \ {f} : /\ phase'[h] = phase[h] /\ goal'[h] = goal[h]
                                        /\ closed'[h] = closed[h]
             /\ closed'[f] = closed[f]
             /\ phase[f] = "open" /\ goal[f] = "none" /\ goal'[f] # "none"
             /\ phase'[f] = IF Kind[f] = "scope" THEN "over" ELSE "closing"
  <2>1. CASE EndScope(f, g)
    BY <1>1, <1>2, <2>1 DEF EndScope, Leaves, FrameTypes, Core, TypeOK
  <2>2. CASE EndTransaction(f, g)
    BY <1>1, <1>2, <2>2 DEF EndTransaction, FrameTypes, Core, TypeOK
  <2> QED
    BY <1>9, <2>1, <2>2
<1>10. CASE TurnedBack(f)
  BY <1>1, <1>10 DEF TurnedBack, FrameTypes, Core, TypeOK
<1>11. CASE Dropped(f)
  BY <1>1, <1>11 DEF Dropped, Becomes, FrameTypes, Core, TypeOK
<1>12. CASE Closed(f)
  <2>1. goal[f] \in {"commit", "rollback"} /\ CommitOutcome \in {"commit", "rollback"}
    BY <1>12 DEF Closed, Core, TypeOK, CallInv, CommitOutcome
  <2> QED
    BY <1>1, <1>12, <2>1 DEF Closed, Becomes, FrameTypes, Core, TypeOK
<1> QED
  BY <1>4, <1>5, <1>6, <1>7, <1>8, <1>9, <1>10, <1>11, <1>12 DEF FrameStep

\* What is never taken back.
LEMMA Progress ==
    ASSUME Core, Next, NEW g \in Frames
    PROVE  /\ FrameTypes'
           /\ Entered(g) => Entered(g)'
           /\ closed[g] => closed'[g]
           /\ phase'[g] \in {"open", "closing"} =>
                 \/ phase[g] \in {"open", "closing"}
                 \/ ~Entered(g) /\ (Enter(g) \/ Opened(g))
           /\ phase[g] = "over" => phase'[g] = "over" /\ goal'[g] = goal[g] /\ closed'[g] = closed[g]
           /\ goal[g] = "rollback" => goal'[g] = "rollback"
           /\ phase[g] # "none" => phase'[g] # "none"
<1>1. CASE UNCHANGED <<phase, goal, closed>>
  BY <1>1 DEF Core, TypeOK, FrameTypes, Entered
<1>2. ASSUME NEW f \in Frames, FrameStep(f), g # f
      PROVE  /\ FrameTypes'
             /\ phase'[g] = phase[g] /\ goal'[g] = goal[g] /\ closed'[g] = closed[g]
  BY <1>2, OneFrame
<1>3. CASE FrameStep(g)
  <2>1. goal[g] # "none" => phase[g] \in {"closing", "over"}
    BY DEF Core, CallInv
  <2>2. Enter(g) => phase[g] = "waiting"
    BY DEF Enter
  <2>3. Opened(g) => phase[g] = "opening"
    BY DEF Opened
  <2>4. Missed(g) => phase[g] \in {"waiting", "opening"}
    BY DEF Missed
  <2>5. phase[g] = "over" => FALSE
    BY <1>3, <2>2, <2>3, <2>4, OneFrame
  <2>6. phase[g] = "closing" /\ goal[g] = "rollback" => goal'[g] = "rollback"
    BY <1>3, <2>2, <2>3 DEF FrameStep, Called, Asked, Missed, EndScope, EndTransaction,
                            TurnedBack, Dropped, Closed
  <2> QED
    BY <1>3, <2>1, <2>2, <2>3, <2>4, <2>5, <2>6, OneFrame DEF Entered
<1> QED
  BY <1>1, <1>2, <1>3, FrameSteps DEF Entered

-----------------------------------------------------------------------------
(* What the steps do to the mutexes *)

Turn(l, h, a) == l[h] # <<>> /\ Head(l[h]) = a

\* The mutexes are in order after the step, and who is still on the wire has kept its turn.
MutexesHold ==
    /\ lock' \in Locks /\ LockInv'
    /\ \A h \in Frames, b \in Acts : Sent(b)' /\ Turn(lock, h, b) => Turn(lock', h, b)

LEMMA TurnIsHead == \A a : HasTurn(a) <=> Turn(lock, Handle(a), a)
  BY DEF HasTurn, Turn

LEMMA NotTaken ==
    ASSUME Core, NEW h \in Frames, NEW a \in Acts, ~Wants(a, h)
    PROVE  ~In(a, lock[h])
  BY DEF Core, LockInv, Acts

LEMMA LockKept ==
    ASSUME Core, lock' = lock,
           \A a \in Acts, h \in Frames : Wants(a, h) => Wants(a, h)',
           \A f \in Frames \ {Top} : Held(f)' => Held(f) \/ Turn(lock, Parent[f], f)
    PROVE  MutexesHold
<1>1. lock \in Locks
  BY LockIsLocks DEF Core
<1> QED
  BY <1>1 DEF MutexesHold, LockInv, Core, Acts, Turn

LEMMA LockTaken ==
    ASSUME Core, NEW h \in Frames, NEW a \in Acts, lock' = Locked(lock, h, a), ~Wants(a, h),
           \A b \in Acts, g \in Frames : Wants(b, g) => Wants(b, g)',
           Wants(a, h)',
           \A f \in Frames \ {Top} : Held(f)' => Held(f)
    PROVE  MutexesHold
<1>1. lock \in Locks /\ ~In(a, lock[h])
  BY LockIsLocks, NotTaken DEF Core
<1>2. /\ lock' \in Locks
      /\ \A g \in Frames : /\ lock[g] # <<>> => lock'[g] # <<>> /\ Head(lock'[g]) = Head(lock[g])
                           /\ \A b : In(b, lock'[g]) <=> In(b, lock[g]) \/ (g = h /\ b = a)
  BY <1>1, LockedFacts
<1>3. \A f \in Frames \ {Top} : Parent[f] \in Frames
  BY Parents
<1>4. LockInv'
  <2>1. \A g \in Frames : Once(lock'[g])
    BY <1>2 DEF Locks
  <2>2. \A g \in Frames, b \in Acts : In(b, lock'[g]) => Wants(b, g)'
    BY <1>2 DEF Core, LockInv, Acts
  <2>3. \A f \in Frames \ {Top} : Held(f)' => Turn(lock', Parent[f], f)
    BY <1>2, <1>3 DEF Core, LockInv, Turn
  <2> QED
    BY <2>1, <2>2, <2>3 DEF LockInv, Turn, Acts
<1> QED
  BY <1>2, <1>4 DEF MutexesHold, Turn

LEMMA FlowLeaves ==
    ASSUME Core, NEW k \in Flows, Turn(lock, via[k], k), lock' = Released(lock, via[k]),
           busy' = busy \ {k}, via' = via, phase' = phase, ~Sent(k)'
    PROVE  MutexesHold
<1>1. lock \in Locks /\ via[k] \in Frames /\ k \notin Frames
  BY LockIsLocks, TransactionsAssumption DEF Core, TypeOK
<1>2. /\ lock' \in Locks
      /\ \A g \in Frames : /\ g # via[k] => lock'[g] = lock[g]
                           /\ \A b : In(b, lock'[g]) <=> In(b, lock[g]) /\ ~(g = via[k] /\ b = k)
  BY <1>1, ReleasedFacts DEF Turn
<1>3. \A g \in Frames, b \in Acts : In(b, lock'[g]) => Wants(b, g)'
  <2> SUFFICES ASSUME NEW g \in Frames, NEW b \in Acts, In(b, lock'[g])
               PROVE  Wants(b, g)'
    OBVIOUS
  <2>1. Wants(b, g) /\ ~(g = via[k] /\ b = k)
    BY <1>2 DEF Core, LockInv, Acts
  <2>2. b # k
    BY <1>1, <2>1 DEF Wants
  <2> QED
    BY <2>1, <2>2 DEF Wants
<1>4. \A f \in Frames \ {Top} : Held(f)' => Turn(lock', Parent[f], f)
  <2> SUFFICES ASSUME NEW f \in Frames \ {Top}, Held(f)'
               PROVE  Turn(lock', Parent[f], f)
    OBVIOUS
  <2>1. Turn(lock, Parent[f], f) /\ Parent[f] \in Frames
    BY Parents DEF Core, LockInv, Held, Turn
  <2>2. Parent[f] # via[k]
    BY <1>1, <2>1 DEF Turn
  <2> QED
    BY <1>2, <2>1, <2>2 DEF Turn
<1>5. LockInv'
  BY <1>2, <1>3, <1>4 DEF LockInv, Locks, Acts, Turn
<1>6. \A h \in Frames, b \in Acts : Sent(b)' /\ Turn(lock, h, b) => Turn(lock', h, b)
  BY <1>2 DEF Turn
<1> QED
  BY <1>2, <1>5, <1>6 DEF MutexesHold

LEMMA FrameLeaves ==
    ASSUME Core, NEW f \in Frames, NEW l, Leaves(f, l), busy' = busy, via' = via, ~Sent(f)',
           f # Top => Turn(lock, Parent[f], f),
           \/ phase[f] # "closing" /\ l = lock
           \/ phase[f] = "closing" /\ l = Released(lock, f) /\ Turn(lock, f, f)
    PROVE  MutexesHold
<1>1. lock \in Locks
  BY LockIsLocks DEF Core
<1>2. f \in DOMAIN phase /\ phase' = [phase EXCEPT ![f] = "over"] /\ f \notin Flows
  BY KindsDiffer DEF Leaves, Core, TypeOK
<1>3. /\ l \in Locks
      /\ \A g \in Frames : /\ g # f => l[g] = lock[g]
                           /\ \A b : In(b, l[g]) => In(b, lock[g]) /\ ~(g = f /\ b = f)
      /\ phase[f] # "closing" => l = lock
  <2>1. CASE phase[f] # "closing" /\ l = lock
    <3>1. ~Wants(f, f)
      BY <2>1, <1>2, Parents DEF Wants
    <3> QED
      BY <1>1, <2>1, <3>1, NotTaken DEF Acts
  <2>2. CASE phase[f] = "closing" /\ l = Released(lock, f) /\ Turn(lock, f, f)
    <3>1. lock[f] # <<>> /\ Head(lock[f]) = f
      BY <2>2 DEF Turn
    <3>2. /\ Released(lock, f) \in Locks
          /\ \A g \in Frames : /\ g # f => Released(lock, f)[g] = lock[g]
                               /\ \A b : In(b, Released(lock, f)[g]) <=>
                                         In(b, lock[g]) /\ ~(g = f /\ b = Head(lock[f]))
      BY <1>1, <3>1, ReleasedFacts
    <3> QED
      BY <2>2, <3>1, <3>2
  <2> QED
    BY <2>1, <2>2
<1>4. /\ lock' \in Locks
      /\ \A g \in Frames : /\ (g # f /\ (f # Top => g # Parent[f])) => lock'[g] = lock[g]
                           /\ phase[f] # "closing" /\ (f # Top => g # Parent[f]) => lock'[g] = lock[g]
                           /\ \A b : In(b, lock'[g]) => /\ In(b, lock[g]) /\ ~(g = f /\ b = f)
                                                        /\ ~(f # Top /\ g = Parent[f] /\ b = f)
  <2>1. CASE f = Top
    BY <1>3, <2>1 DEF Leaves
  <2>2. CASE f # Top
    <3>1. lock' = Released(l, Parent[f]) /\ Parent[f] \in Frames /\ Parent[f] # f
      BY <2>2, Parents DEF Leaves
    <3>2. l[Parent[f]] # <<>> /\ Head(l[Parent[f]]) = f
      BY <1>3, <2>2, <3>1 DEF Turn
    <3>0. l \in Locks /\ Parent[f] \in Frames /\ l[Parent[f]] # <<>>
      BY <1>3, <3>1, <3>2
    <3>3. /\ Released(l, Parent[f]) \in Locks
          /\ \A g \in Frames : /\ g # Parent[f] => Released(l, Parent[f])[g] = l[g]
                               /\ \A b : In(b, Released(l, Parent[f])[g]) <=>
                                         In(b, l[g]) /\ ~(g = Parent[f] /\ b = Head(l[Parent[f]]))
      BY <3>0, ReleasedFacts
    <3> QED
      BY <1>3, <2>2, <3>1, <3>2, <3>3, SMTT(20)
  <2> QED
    BY <2>1, <2>2
<1>5. \A g \in Frames, b \in Acts : In(b, lock'[g]) => Wants(b, g)'
  <2> SUFFICES ASSUME NEW g \in Frames, NEW b \in Acts, In(b, lock'[g])
               PROVE  Wants(b, g)'
    OBVIOUS
  <2>1. Wants(b, g) /\ ~(g = f /\ b = f) /\ ~(f # Top /\ g = Parent[f] /\ b = f)
    BY <1>4 DEF Core, LockInv, Acts
  <2>2. b # f
    BY <1>2, <2>1 DEF Wants
  <2> QED
    BY <1>2, <2>1, <2>2 DEF Wants
<1>6. \A g \in Frames, b \in Acts : b # f /\ Turn(lock, g, b) => Turn(lock', g, b)
  <2> SUFFICES ASSUME NEW g \in Frames, NEW b \in Acts, b # f, Turn(lock, g, b)
               PROVE  Turn(lock', g, b)
    OBVIOUS
  <2>1. f # Top => g # Parent[f]
    BY DEF Turn
  <2>2. phase[f] = "closing" => g # f
    BY DEF Turn
  <2> QED
    BY <1>4, <2>1, <2>2 DEF Turn
<1>7. \A g \in Frames \ {Top} : Held(g)' => Turn(lock', Parent[g], g)
  <2> SUFFICES ASSUME NEW g \in Frames \ {Top}, Held(g)'
               PROVE  Turn(lock', Parent[g], g)
    OBVIOUS
  <2>1. g # f /\ Held(g)
    BY <1>2 DEF Held
  <2>2. Turn(lock, Parent[g], g) /\ Parent[g] \in Frames
    BY <2>1, Parents DEF Core, LockInv, Turn
  <2> QED
    BY <1>6, <2>1, <2>2 DEF Acts
<1>8. LockInv'
  BY <1>4, <1>5, <1>7 DEF LockInv, Locks, Acts, Turn
<1> QED
  BY <1>4, <1>6, <1>8 DEF MutexesHold

LEMMA CommitRepeats ==
    ASSUME Core, NEW f \in Frames, CommitFails(f), via' = via, ~Sent(f)',
           phase[f] = "closing", Turn(lock, f, f)
    PROVE  MutexesHold
<1>1. lock \in Locks /\ f \in Acts /\ lock[f] # <<>> /\ Head(lock[f]) = f
  BY LockIsLocks DEF Core, Acts, Turn
<1>2. /\ Released(lock, f) \in Locks
      /\ \A g \in Frames : /\ g # f => Released(lock, f)[g] = lock[g]
                           /\ \A b : In(b, Released(lock, f)[g]) <=> In(b, lock[g]) /\ ~(g = f /\ b = f)
  BY <1>1, ReleasedFacts
<1>3. lock' = Locked(Released(lock, f), f, f) /\ ~In(f, Released(lock, f)[f])
  BY <1>2 DEF CommitFails
<1>4. /\ lock' \in Locks
      /\ \A g \in Frames : /\ g # f => lock'[g] = lock[g]
                           /\ \A b : In(b, lock'[g]) => In(b, lock[g]) \/ (g = f /\ b = f)
  BY <1>1, <1>2, <1>3, LockedFacts
<1>5. \A g \in Frames, b \in Acts : In(b, lock'[g]) => Wants(b, g)'
  <2> SUFFICES ASSUME NEW g \in Frames, NEW b \in Acts, In(b, lock'[g])
               PROVE  Wants(b, g)'
    OBVIOUS
  <2>1. Wants(b, g)
    BY <1>4 DEF Core, LockInv, Acts, Wants
  <2> QED
    BY <2>1 DEF Wants, CommitFails
<1>6. \A g \in Frames \ {Top} : Held(g)' => Turn(lock', Parent[g], g)
  <2> SUFFICES ASSUME NEW g \in Frames \ {Top}, Held(g)'
               PROVE  Turn(lock', Parent[g], g)
    OBVIOUS
  <2>1. Turn(lock, Parent[g], g) /\ Parent[g] \in Frames /\ Parent[g] # g
    BY Parents DEF Core, LockInv, Turn, Held, CommitFails
  <2>2. Parent[g] # f
    BY <1>1, <2>1 DEF Turn
  <2> QED
    BY <1>4, <2>1, <2>2 DEF Turn
<1>7. \A g \in Frames, b \in Acts : Sent(b)' /\ Turn(lock, g, b) => Turn(lock', g, b)
  BY <1>1, <1>4 DEF Turn
<1>8. LockInv'
  BY <1>4, <1>5, <1>6 DEF LockInv, Locks, Acts, Turn
<1> QED
  BY <1>4, <1>7, <1>8 DEF MutexesHold

LEMMA WireTail ==
    ASSUME Core, NEW a \in Acts, Next1(a)
    PROVE  /\ Sent(a) /\ wire' \in Seq(Acts) /\ Once(wire')
           /\ \A b : Sent(b)' <=> Sent(b) /\ b # a
<1>1. wire \in Seq(Acts) /\ wire # <<>> /\ Once(wire) /\ Head(wire) = a /\ wire' = Tail(wire)
  BY DEF Core, TypeOK, WireInv, Next1, Acts
<1>2. /\ Tail(wire) \in Seq(Acts) /\ Once(Tail(wire)) /\ In(Head(wire), wire)
      /\ \A b : In(b, Tail(wire)) <=> In(b, wire) /\ b # Head(wire)
  BY <1>1, TailFacts, Zenon
<1>3. \A b : Sent(b)' <=> In(b, wire')
  BY DEF Sent, In
<1> QED
  BY <1>1, <1>2, <1>3, SentIsIn

LEMMA WireAppend ==
    ASSUME Core, NEW a \in Acts, ~Sent(a), wire' = Append(wire, a)
    PROVE  /\ wire' \in Seq(Acts) /\ Once(wire')
           /\ \A b : Sent(b)' <=> Sent(b) \/ b = a
<1>1. wire \in Seq(Acts) /\ Once(wire) /\ ~In(a, wire)
  BY SentIsIn DEF Core, TypeOK, WireInv, Acts
<1>2. /\ Append(wire, a) \in Seq(Acts) /\ Once(Append(wire, a))
      /\ \A b : In(b, Append(wire, a)) <=> In(b, wire) \/ b = a
  BY <1>1, AppendFacts, Zenon
<1>3. \A b : Sent(b)' <=> In(b, wire')
  BY DEF Sent, In
<1> QED
  BY <1>1, <1>2, <1>3, SentIsIn

\* Who waits to send, or was sent, is first in the mutex it waits for, but for BEGIN.
LEMMA UnsentFacts ==
    ASSUME Core, NEW a \in Acts, Unsent(a)
    PROVE  ~Sent(a)
  BY KindsDiffer DEF Unsent, Core, WireInv, Acts

LEMMA SentHasTurn ==
    ASSUME Core, NEW a \in Acts, Sent(a)
    PROVE  /\ a \in Flows => a \in busy /\ Turn(lock, via[a], a)
           /\ a \in Frames => /\ Kind[a] = "transaction" /\ phase[a] \in {"opening", "closing"}
                              /\ phase[a] = "closing" => Turn(lock, a, a)
                              /\ a # Top => Turn(lock, Parent[a], a)
<1>1. CASE a \in Flows
  <2>1. a \in busy /\ HasTurn(a)
    BY <1>1 DEF Core, WireInv
  <2>2. Handle(a) = via[a]
    BY <1>1 DEF Handle
  <2> QED
    BY <1>1, <2>1, <2>2, TurnIsHead, KindsDiffer
<1>2. CASE a \in Frames
  <2>1. phase[a] \in {"opening", "closing"} /\ a \notin Flows
    BY <1>2, KindsDiffer DEF Core, WireInv
  <2>2. Kind[a] = "transaction"
    BY <1>2, <2>1, KindsDiffer DEF Core, CallInv
  <2>3. phase[a] = "closing" => Turn(lock, a, a)
    BY <1>2, <2>1, TurnIsHead DEF Core, WireInv, Handle
  <2>4. a # Top => Turn(lock, Parent[a], a)
    BY <1>2, <2>1 DEF Core, LockInv, Held, Turn
  <2> QED
    BY <1>2, <2>1, <2>2, <2>3, <2>4
<1> QED
  BY <1>1, <1>2 DEF Acts

\* A failed call gives back what it held.
LEMMA FailsMutexes ==
    ASSUME Core, NEW a \in Acts, CallFails(a), Refuse(a) \/ CutOff(a)
    PROVE  MutexesHold
<1>1. via' = via
  BY DEF Refuse, CutOff
<1>2. ~Sent(a)'
  <2>1. CASE Refuse(a)
    BY <2>1, UnsentFacts DEF Refuse, Sent
  <2>2. CASE CutOff(a)
    BY <2>2, WireTail DEF CutOff
  <2> QED
    BY <2>1, <2>2
<1>3. /\ a \in Flows => Turn(lock, via[a], a)
      /\ a \in Frames \ {Top} => Turn(lock, Parent[a], a)
      /\ a \in Frames /\ phase[a] = "closing" => Turn(lock, a, a)
  <2>1. CASE Refuse(a)
    <3>1. Turn(lock, Handle(a), a) /\ Unsent(a)
      BY <2>1, TurnIsHead DEF Refuse
    <3>2. a \in Frames => a \notin Flows
      BY KindsDiffer
    <3>3. a \in Frames /\ phase[a] = "closing" => Turn(lock, a, a)
      BY <3>1, <3>2 DEF Handle
    <3>4. a \in Frames \ {Top} => Turn(lock, Parent[a], a)
      BY <3>1, <3>2 DEF Handle, Unsent, Core, LockInv, Held, Turn
    <3> QED
      BY <3>1, <3>3, <3>4 DEF Handle
  <2>2. CASE CutOff(a)
    <3>1. Sent(a)
      BY <2>2, WireTail DEF CutOff
    <3> QED
      BY <3>1, SentHasTurn
  <2> QED
    BY <2>1, <2>2
<1>4. CASE a \in Flows
  <2>1. QueryFails(a)
    BY <1>4, KindsDiffer DEF CallFails
  <2> QED
    BY <1>1, <1>2, <1>3, <1>4, <2>1, FlowLeaves DEF QueryFails
<1>5. CASE a \in Frames /\ phase[a] \in {"waiting", "opening"}
  <2>1. OpeningFails(a)
    BY <1>5, KindsDiffer DEF CallFails
  <2> QED
    BY <1>1, <1>2, <1>3, <1>5, <2>1, FrameLeaves DEF OpeningFails
<1>6. CASE a \in Frames /\ phase[a] = "closing" /\ goal[a] = "commit"
  <2>1. CommitFails(a)
    BY <1>6, KindsDiffer DEF CallFails
  <2> QED
    BY <1>1, <1>2, <1>3, <1>6, <2>1, CommitRepeats
<1>7. CASE a \in Frames /\ phase[a] = "closing" /\ goal[a] = "rollback"
  <2>1. RollbackFails(a)
    BY <1>7, KindsDiffer DEF CallFails
  <2> QED
    BY <1>1, <1>2, <1>3, <1>7, <2>1, FrameLeaves DEF RollbackFails
<1> QED
  BY <1>4, <1>5, <1>6, <1>7 DEF CallFails

LEMMA AnswerMutexes ==
    ASSUME Core, NEW a \in Acts, Answered(a)
    PROVE  MutexesHold
<1>1. Next1(a) /\ (a \in Flows => a \notin Frames)
  BY KindsDiffer DEF Answered, WorkDone, WorkFails, Opened, NotOpened, SavepointReleased, SavepointRolledBack,
     Committed, CommitRejected, RolledBack
<1>2. /\ ~Sent(a)'
      /\ a \in Flows => a \in busy /\ Turn(lock, via[a], a)
      /\ a \in Frames => /\ phase[a] = "closing" => Turn(lock, a, a)
                         /\ a # Top => Turn(lock, Parent[a], a)
  BY <1>1, WireTail, SentHasTurn
<1>3. CASE a \in Flows /\ (WorkDone(a) \/ WorkFails(a))
  <2>1. lock' = Released(lock, via[a]) /\ busy' = busy \ {a} /\ via' = via /\ phase' = phase
    BY <1>3 DEF WorkDone, WorkFails, QueryFails, frames
  <2> QED
    BY <1>2, <1>3, <2>1, FlowLeaves
<1>4. CASE a \in Frames /\ Opened(a)
  <2>1. /\ lock' = lock /\ busy' = busy /\ via' = via /\ phase[a] = "opening"
        /\ phase' = [phase EXCEPT ![a] = "open"] /\ phase \in [Frames -> {"none", "waiting", "opening", "open", "closing", "over"}]
    BY <1>4 DEF Opened, flows, Core, TypeOK
  <2>2. \A b \in Acts, h \in Frames : Wants(b, h) => Wants(b, h)'
    BY <2>1 DEF Wants
  <2>3. \A f \in Frames \ {Top} : Held(f)' => Held(f)
    BY <2>1 DEF Held
  <2> QED
    BY <2>1, <2>2, <2>3, LockKept
<1>5. CASE a \in Frames /\ NotOpened(a)
  BY <1>2, <1>5, FrameLeaves DEF NotOpened, OpeningFails
<1>6. CASE a \in Frames /\ SavepointReleased(a)
  <2>1. via' = via /\ phase[a] = "closing"
    BY <1>6 DEF SavepointReleased
  <2>2. CASE OnStack(a) /\ ~aborted
    <3>1. Leaves(a, Released(lock, a)) /\ busy' = busy
      BY <1>6, <2>2 DEF SavepointReleased
    <3> QED
      BY <1>2, <1>6, <2>1, <3>1, FrameLeaves
  <2>3. CASE ~(OnStack(a) /\ ~aborted)
    <3>1. CommitFails(a)
      BY <1>6, <2>3 DEF SavepointReleased
    <3> QED
      BY <1>2, <1>6, <2>1, <3>1, CommitRepeats
  <2> QED
    BY <2>2, <2>3
<1>7. CASE a \in Frames /\ SavepointRolledBack(a)
  <2>1. /\ via' = via /\ phase[a] = "closing" /\ busy' = busy
        /\ Leaves(a, Released(lock, a))
    BY <1>7 DEF SavepointRolledBack, RollbackFails
  <2> QED
    BY <1>2, <1>7, <2>1, FrameLeaves
<1>8. CASE a = Top /\ (Committed \/ RolledBack)
  <2>1. /\ via' = via /\ phase[a] = "closing" /\ busy' = busy /\ a \in Frames
        /\ Leaves(a, Released(lock, a))
    BY <1>8, TopIsFrame DEF Committed, RolledBack, flows
  <2> QED
    BY <1>2, <2>1, FrameLeaves
<1>9. CASE a = Top /\ CommitRejected
  <2>1. /\ via' = via /\ phase[a] = "closing" /\ a \in Frames /\ CommitFails(a)
    BY <1>9, TopIsFrame DEF CommitRejected
  <2> QED
    BY <1>2, <2>1, CommitRepeats
<1> QED
  BY <1>3, <1>4, <1>5, <1>6, <1>7, <1>8, <1>9 DEF Answered

LEMMA MutexSteps ==
    ASSUME Core, Next
    PROVE  MutexesHold
<1> DEFINE P == phase \in [Frames -> {"none", "waiting", "opening", "open", "closing", "over"}]
<1>1. P /\ via \in [Flows -> Frames] /\ busy \subseteq Flows
  BY DEF Core, TypeOK
<1>2. CASE Begin
  <2>1. lock' = lock /\ busy' = busy /\ via' = via /\ phase' = [phase EXCEPT ![Top] = "opening"]
    BY <1>2 DEF Begin, flows
  <2>2. \A b \in Acts, h \in Frames : Wants(b, h) => Wants(b, h)'
    BY <1>1, <1>2, <2>1 DEF Wants, Begin
  <2>3. \A f \in Frames \ {Top} : Held(f)' => Held(f)
    BY <1>1, <2>1 DEF Held
  <2> QED
    BY <2>1, <2>2, <2>3, LockKept
<1>3. CASE Disconnect
  <2>1. lock' = lock /\ busy' = busy /\ via' = via /\ phase' = phase
    BY <1>3 DEF Disconnect, flows, frames
  <2> QED
    BY <2>1, LockKept DEF Wants, Held
<1>4. ASSUME NEW f \in Frames, Call(f)
      PROVE  MutexesHold
  <2>1. /\ lock' = Locked(lock, Parent[f], f) /\ busy' = busy /\ via' = via /\ f # Top
        /\ phase[f] = "none" /\ phase' = [phase EXCEPT ![f] = "waiting"] /\ f \notin Flows
        /\ Parent[f] \in Frames /\ Parent[f] # f /\ f \in Acts
    BY <1>4, KindsDiffer, Parents DEF Call, flows, Acts
  <2>2. ~Wants(f, Parent[f])
    BY <2>1 DEF Wants
  <2>3. \A b \in Acts, h \in Frames : Wants(b, h) => Wants(b, h)'
    BY <1>1, <2>1 DEF Wants
  <2>4. Wants(f, Parent[f])'
    BY <1>1, <2>1 DEF Wants
  <2>5. \A g \in Frames \ {Top} : Held(g)' => Held(g)
    BY <1>1, <2>1 DEF Held
  <2> QED
    BY <2>1, <2>2, <2>3, <2>4, <2>5, LockTaken
<1>5. ASSUME NEW f \in Frames, Enter(f)
      PROVE  MutexesHold
  <2>1. /\ lock' = lock /\ busy' = busy /\ via' = via
        /\ phase[f] = "waiting" /\ phase' = [phase EXCEPT ![f] = "open"] /\ HasTurn(f) /\ f \notin Flows
    BY <1>5, KindsDiffer DEF Enter, flows
  <2>2. f # Top => Turn(lock, Parent[f], f)
    BY <2>1, TurnIsHead DEF Handle
  <2>3. \A b \in Acts, h \in Frames : Wants(b, h) => Wants(b, h)'
    BY <1>1, <2>1 DEF Wants
  <2>4. \A g \in Frames \ {Top} : Held(g)' => Held(g) \/ Turn(lock, Parent[g], g)
    BY <1>1, <2>1, <2>2 DEF Held
  <2> QED
    BY <2>1, <2>3, <2>4, LockKept
<1>6. ASSUME NEW f \in Frames, NEW g \in {"commit", "rollback"}, EndScope(f, g)
      PROVE  MutexesHold
  <2>1. /\ Leaves(f, lock) /\ busy' = busy /\ via' = via /\ phase[f] = "open"
        /\ wire' = wire /\ f \in Acts
    BY <1>6 DEF EndScope, flows, Acts
  <2>2. ~Sent(f)'
    BY <2>1, SentHasTurn DEF Sent
  <2>3. f # Top => Turn(lock, Parent[f], f)
    BY <2>1 DEF Core, LockInv, Held, Turn
  <2> QED
    BY <2>1, <2>2, <2>3, FrameLeaves
<1>7. ASSUME NEW f \in Frames, NEW g \in {"commit", "rollback"}, EndTransaction(f, g)
      PROVE  MutexesHold
  <2>1. /\ lock' = Locked(lock, f, f) /\ busy' = busy /\ via' = via /\ phase[f] = "open"
        /\ phase' = [phase EXCEPT ![f] = "closing"] /\ f \notin Flows /\ f \in Acts
        /\ f # Top => Parent[f] # f
    BY <1>7, KindsDiffer, Parents DEF EndTransaction, flows, Acts
  <2>2. ~Wants(f, f)
    BY <2>1 DEF Wants
  <2>3. \A b \in Acts, h \in Frames : Wants(b, h) => Wants(b, h)'
    BY <1>1, <2>1 DEF Wants
  <2>4. Wants(f, f)'
    BY <1>1, <2>1 DEF Wants
  <2>5. \A h \in Frames \ {Top} : Held(h)' => Held(h)
    BY <1>1, <2>1 DEF Held
  <2> QED
    BY <2>1, <2>2, <2>3, <2>4, <2>5, LockTaken
<1>8. ASSUME NEW k \in Flows, NEW h \in Frames, Query(k, h)
      PROVE  MutexesHold
  <2>1. k \notin busy /\ k \notin Frames /\ phase' = phase /\ k \in Acts
    BY <1>8, TransactionsAssumption DEF Query, Acts
  <2>2. CASE lock' = lock /\ busy' = busy /\ via' = via
    BY <2>1, <2>2, LockKept DEF Wants, Held
  <2>3. CASE lock' = Locked(lock, h, k) /\ busy' = busy \cup {k} /\ via' = [via EXCEPT ![k] = h]
    <3>1. ~Wants(k, h)
      BY <2>1 DEF Wants
    <3>2. \A b \in Acts, g \in Frames : Wants(b, g) => Wants(b, g)'
      BY <1>1, <2>1, <2>3 DEF Wants
    <3>3. Wants(k, h)'
      BY <1>1, <2>3 DEF Wants
    <3>4. \A g \in Frames \ {Top} : Held(g)' => Held(g)
      BY <2>1 DEF Held
    <3> QED
      BY <2>1, <2>3, <3>1, <3>2, <3>3, <3>4, LockTaken
  <2> QED
    BY <1>8, <2>2, <2>3 DEF Query
<1>9. ASSUME NEW a \in Acts, Send(a)
      PROVE  MutexesHold
  <2>1. lock' = lock /\ busy' = busy /\ via' = via /\ Turn(lock, Handle(a), a)
    BY <1>9, TurnIsHead DEF Send, flows
  <2>2. CASE a \in Frames /\ phase[a] = "waiting"
    <3>1. phase' = [phase EXCEPT ![a] = "opening"] /\ a \notin Flows
      BY <1>9, <2>2, KindsDiffer DEF Send
    <3>2. a # Top => Turn(lock, Parent[a], a)
      BY <2>1, <2>2, <3>1 DEF Handle
    <3>3. \A b \in Acts, h \in Frames : Wants(b, h) => Wants(b, h)'
      BY <1>1, <2>1, <2>2, <3>1 DEF Wants
    <3>4. \A g \in Frames \ {Top} : Held(g)' => Held(g) \/ Turn(lock, Parent[g], g)
      BY <1>1, <3>1, <3>2 DEF Held
    <3> QED
      BY <2>1, <3>3, <3>4, LockKept
  <2>3. CASE ~(a \in Frames /\ phase[a] = "waiting")
    <3>1. phase' = phase
      BY <1>9, <2>3 DEF Send
    <3> QED
      BY <2>1, <3>1, LockKept DEF Wants, Held
  <2> QED
    BY <2>2, <2>3
<1>10. ASSUME NEW a \in Acts, Refuse(a) \/ CutOff(a)
       PROVE  MutexesHold
  BY <1>10, FailsMutexes DEF Refuse, CutOff
<1> QED
  BY <1>2, <1>3, <1>4, <1>5, <1>6, <1>7, <1>8, <1>9, <1>10, AnswerMutexes DEF Next, Ends, Acts

-----------------------------------------------------------------------------
(* The wire *)

SentWell(a) ==
    /\ a \in Flows => a \in busy /\ HasTurn(a)
    /\ a \in Frames => \/ phase[a] = "opening" /\ (a = Top \/ HasTurn(a))
                       \/ phase[a] = "closing" /\ HasTurn(a)

LEMMA SentStays ==
    ASSUME Core, MutexesHold, NEW b \in Acts, Sent(b), Sent(b)',
           b \in Flows => b \in busy' /\ via'[b] = via[b],
           b \in Frames => phase'[b] = phase[b]
    PROVE  SentWell(b)'
<1>1. \A h \in Frames : Turn(lock, h, b) => Turn(lock', h, b)
  BY DEF MutexesHold
<1>2. CASE b \in Flows
  <2>1. Turn(lock, via[b], b) /\ via[b] \in Frames /\ b \notin Frames
    BY <1>2, SentHasTurn, TransactionsAssumption DEF Core, TypeOK
  <2>2. Turn(lock', via'[b], b)
    BY <1>1, <1>2, <2>1
  <2> QED
    BY <1>2, <2>1, <2>2 DEF SentWell, HasTurn, Handle, Turn
<1>3. CASE b \in Frames
  <2>1. /\ phase[b] \in {"opening", "closing"} /\ b \notin Flows
        /\ phase[b] = "closing" => Turn(lock', b, b)
        /\ b # Top => Turn(lock', Parent[b], b)
    BY <1>1, <1>3, SentHasTurn, KindsDiffer, Parents
  <2> QED
    BY <1>3, <2>1 DEF SentWell, HasTurn, Handle, Turn
<1> QED
  BY <1>2, <1>3 DEF Acts

LEMMA SentWants ==
    \A b \in Acts : Core /\ Sent(b) => /\ b \in Flows => b \in busy
                                       /\ b \in Frames => phase[b] \in {"opening", "closing"}
  BY SentHasTurn

\* What the others on the wire use does not change.
SentSame(b) ==
    Sent(b) => /\ b \in Flows => b \in busy' /\ via'[b] = via[b]
               /\ b \in Frames => phase'[b] = phase[b]

LEMMA WireStep ==
    ASSUME Core, Next
    PROVE  wire' \in Seq(Acts) /\ WireInv'
<1> DEFINE Good == wire' \in Seq(Acts) /\ Once(wire') /\ \A b \in Acts : Sent(b)' => SentWell(b)'
           P == phase \in [Frames -> {"none", "waiting", "opening", "open", "closing", "over"}]
<1>1. MutexesHold
  BY MutexSteps
<1>2. /\ wire \in Seq(Acts) /\ Once(wire) /\ P /\ via \in [Flows -> Frames]
      /\ \A b \in Acts : b \in Flows => b \notin Frames
  BY TransactionsAssumption DEF Core, TypeOK, WireInv, Acts
<1>3. ASSUME wire' = wire,
             \A b \in Acts : SentSame(b)
      PROVE  Good
  <2>1. \A b : Sent(b)' <=> Sent(b)
    BY <1>3 DEF Sent
  <2> QED
    BY <1>1, <1>2, <1>3, <2>1, SentStays DEF SentSame
<1>4. ASSUME NEW a \in Acts, Next1(a),
             \A b \in Acts \ {a} : SentSame(b)
      PROVE  Good
  <2>1. /\ Sent(a) /\ wire' \in Seq(Acts) /\ Once(wire')
        /\ \A b : Sent(b)' <=> Sent(b) /\ b # a
    BY <1>4, WireTail
  <2> QED
    BY <1>1, <1>4, <2>1, SentStays DEF SentSame
<1>5. ASSUME NEW a \in Acts, ~Sent(a), wire' = Append(wire, a), SentWell(a)',
             \A b \in Acts \ {a} : SentSame(b)
      PROVE  Good
  <2>1. /\ wire' \in Seq(Acts) /\ Once(wire')
        /\ \A b : Sent(b)' <=> Sent(b) \/ b = a
    BY <1>5, WireAppend
  <2> QED
    BY <1>1, <1>5, <2>1, SentStays DEF SentSame
<1> HIDE DEF Good, P
<1>7. ASSUME Begin
      PROVE  Good
  <2>1. /\ wire' = Append(wire, Top) /\ phase' = [phase EXCEPT ![Top] = "opening"] /\ Top \in Acts
        /\ busy' = busy /\ via' = via /\ phase[Top] = "none" /\ Top \notin Flows
    BY <1>7, TopIsFrame, TransactionsAssumption DEF Begin, flows, Acts
  <2>2. ~Sent(Top) /\ SentWell(Top)'
    BY <1>2, SentWants, <2>1, TopIsFrame DEF SentWell, P
  <2>3. \A b \in Acts \ {Top} : SentSame(b)
    BY <1>2, SentWants, <2>1 DEF SentSame, P
  <2> QED
    BY <1>5, <2>1, <2>2, <2>3
<1>8. ASSUME Disconnect
      PROVE  Good
  <2>1. wire' = wire /\ busy' = busy /\ via' = via /\ phase' = phase
    BY <1>8 DEF Disconnect, frames, flows
  <2>2. \A b \in Acts : SentSame(b)
    BY SentWants, <2>1 DEF SentSame
  <2> QED
    BY <1>3, <2>1, <2>2
<1>9. ASSUME NEW f \in Frames, Call(f) \/ Enter(f) \/ Ends(f)
      PROVE  Good
  <2>1. /\ wire' = wire /\ busy' = busy /\ via' = via
        /\ phase[f] \in {"none", "waiting", "open"}
        /\ \A b \in Frames \ {f} : phase'[b] = phase[b]
    BY <1>2, <1>9 DEF P, Call, Enter, Ends, EndScope, EndTransaction, Leaves, flows
  <2>2. \A b \in Acts : SentSame(b)
    BY SentWants, <2>1 DEF SentSame
  <2> QED
    BY <1>3, <2>1, <2>2
<1>10. ASSUME NEW k \in Flows, NEW h \in Frames, Query(k, h)
       PROVE  Good
  <2>1. /\ wire' = wire /\ busy \subseteq busy' /\ k \notin busy /\ phase' = phase
        /\ \A b \in Flows \ {k} : via'[b] = via[b]
    BY <1>2, <1>10 DEF Query
  <2>2. \A b \in Acts : SentSame(b)
    BY SentWants, <2>1 DEF SentSame
  <2> QED
    BY <1>3, <2>1, <2>2
<1>11. ASSUME NEW a \in Acts, Send(a)
       PROVE  Good
  <2>1. ~Sent(a)
    BY <1>11, UnsentFacts DEF Send
  <2>2. /\ wire' = Append(wire, a) /\ lock' = lock /\ busy' = busy /\ via' = via /\ HasTurn(a) /\ Unsent(a)
    BY <1>11 DEF Send, flows
  <2>3. \A b \in Frames \ {a} : phase'[b] = phase[b]
    BY <1>2, <1>11 DEF P, Send
  <2>4. SentWell(a)'
    <3>1. CASE a \in Flows
      BY <1>2, <2>2, <3>1 DEF SentWell, HasTurn, Handle, Unsent
    <3>2. CASE a \in Frames /\ phase[a] = "waiting"
      <4>1. a \notin Flows /\ phase'[a] = "opening"
        BY <1>2, <1>11, <3>2, KindsDiffer DEF Send, P
      <4>2. a # Top => HasTurn(a)'
        BY <2>2, <3>2, <4>1 DEF HasTurn, Handle
      <4> QED
        BY <4>1, <4>2 DEF SentWell
    <3>3. CASE a \in Frames /\ phase[a] # "waiting"
      <4>1. a \notin Flows /\ phase' = phase /\ phase[a] = "closing"
        BY <1>11, <2>2, <3>3, KindsDiffer DEF Send, Unsent
      <4> QED
        BY <2>2, <3>3, <4>1 DEF SentWell, HasTurn, Handle
    <3> QED
      BY <3>1, <3>2, <3>3 DEF Acts
  <2>5. \A b \in Acts \ {a} : SentSame(b)
    BY SentWants, <2>2, <2>3 DEF SentSame
  <2> QED
    BY <1>5, <2>1, <2>2, <2>4, <2>5
<1>12. ASSUME NEW a \in Acts, CallFails(a), via' = via
       PROVE  \A b \in Acts \ {a} : SentSame(b)
  <2>1. CASE a \in Flows /\ QueryFails(a)
    BY SentWants, <1>12, <2>1, KindsDiffer DEF QueryFails, SentSame
  <2>2. CASE a \in Frames /\ (OpeningFails(a) \/ CommitFails(a) \/ RollbackFails(a))
    <3>1. busy' = busy /\ \A b \in Frames \ {a} : phase'[b] = phase[b]
      BY <1>2, <2>2 DEF OpeningFails, CommitFails, RollbackFails, Leaves, P
    <3> QED
      BY SentWants, <1>12, <3>1 DEF SentSame
  <2> QED
    BY <1>12, <2>1, <2>2 DEF CallFails
<1>13. ASSUME NEW a \in Acts, Refuse(a)
       PROVE  Good
  <2>1. ~Sent(a) /\ wire' = wire /\ via' = via /\ CallFails(a)
    BY <1>13, UnsentFacts DEF Refuse
  <2>2. SentSame(a)
    BY <2>1 DEF SentSame
  <2> QED
    BY <1>3, <1>12, <2>1, <2>2
<1>14. ASSUME NEW a \in Acts, CutOff(a)
       PROVE  Good
  <2>1. Next1(a) /\ via' = via /\ CallFails(a)
    BY <1>14 DEF CutOff
  <2> QED
    BY <1>4, <1>12, <2>1
<1>15. ASSUME NEW a \in Acts, Answered(a)
       PROVE  Good
  <2>1. CASE a \in Flows /\ (WorkDone(a) \/ WorkFails(a))
    <3>1. Next1(a) /\ busy' = busy \ {a} /\ via' = via /\ phase' = phase
      BY <2>1 DEF WorkDone, WorkFails, QueryFails, frames
    <3> QED
      BY <1>4, SentWants, <3>1 DEF SentSame
  <2>2. CASE /\ a \in Frames
             /\ \/ Opened(a) \/ NotOpened(a) \/ SavepointReleased(a) \/ SavepointRolledBack(a)
                \/ a = Top /\ (Committed \/ CommitRejected \/ RolledBack)
    <3>1. Next1(a) /\ busy' = busy /\ via' = via
      BY <2>2 DEF Opened, NotOpened, SavepointReleased, SavepointRolledBack, Committed, CommitRejected, RolledBack,
         OpeningFails, CommitFails, RollbackFails, flows
    <3>2. \A b \in Frames \ {a} : phase'[b] = phase[b]
      BY <1>2, <2>2 DEF P, Opened, NotOpened, SavepointReleased, SavepointRolledBack, Committed, CommitRejected, RolledBack,
         OpeningFails, CommitFails, RollbackFails, Leaves
    <3>3. \A b \in Acts \ {a} : SentSame(b)
      BY SentWants, <3>1, <3>2 DEF SentSame
    <3> QED
      BY <1>4, <3>1, <3>3
  <2> QED
    BY <1>15, <2>1, <2>2, TopIsFrame DEF Answered
<1>16. Good
  BY <1>7, <1>8, <1>9, <1>10, <1>11, <1>13, <1>14, <1>15 DEF Next, Acts
<1> QED
  BY <1>16 DEF WireInv, SentWell, Acts, Good

-----------------------------------------------------------------------------
(* Calls *)

\* A flow or a frame is started by a callback that has begun.
LEMMA RunningHasEntered ==
    ASSUME Core, NEW f \in Frames, Running(f)
    PROVE  Entered(f) /\ \A g \in Upwards(f) : Entered(g)
<1>1. goal[f] # "none" => phase[f] \in {"closing", "over"}
  BY DEF Core, CallInv
<1>2. Entered(f) /\ phase[f] # "none"
  BY <1>1 DEF Running, Entered
<1> QED
  BY <1>2 DEF Core, CallInv, Upwards

LEMMA CallStep ==
    ASSUME Core, Next
    PROVE  CallInv'
<1>1. \A g \in Frames : Entered(g) => Entered(g)'
  BY Progress
<1>2. \A g \in Frames : phase[g] # "none" => phase'[g] # "none"
  BY Progress
<1>3. phase'[Top] # "waiting"
  <2>1. phase[Top] # "waiting"
    BY DEF Core, CallInv
  <2>2. ASSUME NEW f \in Frames, FrameStep(f)
        PROVE  phase'[Top] # "waiting"
    BY <2>1, <2>2, OneFrame, TopIsFrame
  <2> QED
    BY <2>1, <2>2, FrameSteps
<1>4. ASSUME NEW f \in Frames
      PROVE  /\ Kind[f] = "scope" => phase'[f] \notin {"opening", "closing"}
             /\ phase'[f] = "closing" => goal'[f] # "none"
             /\ goal'[f] # "none" => phase'[f] \in {"closing", "over"}
             /\ closed'[f] => Kind[f] = "transaction" /\ phase'[f] = "over" /\ goal'[f] # "none"
  <2>1. /\ Kind[f] = "scope" => phase[f] \notin {"opening", "closing"}
        /\ phase[f] = "closing" => goal[f] # "none"
        /\ goal[f] # "none" => phase[f] \in {"closing", "over"}
        /\ closed[f] => Kind[f] = "transaction" /\ phase[f] = "over" /\ goal[f] # "none"
        /\ Kind[f] \in {"transaction", "scope"}
    BY KindsDiffer DEF Core, CallInv
  <2>2. CASE UNCHANGED <<phase, goal, closed>>
    BY <2>1, <2>2
  <2>3. ASSUME NEW g \in Frames, FrameStep(g), f # g
        PROVE  phase'[f] = phase[f] /\ goal'[f] = goal[f] /\ closed'[f] = closed[f]
    BY <2>3, OneFrame
  <2>4. CASE FrameStep(f)
    <3>1. Enter(f) => phase[f] = "waiting" /\ Kind[f] = "scope"
      BY DEF Enter
    <3>2. Opened(f) => phase[f] = "opening"
      BY DEF Opened
    <3>3. Missed(f) => phase[f] \in {"waiting", "opening"}
      BY DEF Missed
    <3>4. Closed(f) => phase[f] = "closing" /\ phase'[f] = "over"
      BY DEF Closed, Becomes, Core, TypeOK
    <3> QED
      BY <2>1, <2>4, <3>1, <3>2, <3>3, <3>4, OneFrame
  <2> QED
    BY <2>1, <2>2, <2>3, <2>4, FrameSteps
<1>5. ASSUME NEW f \in Frames, phase'[f] # "none", NEW g \in Above[f]
      PROVE  Entered(g)'
  <2>1. CASE phase[f] # "none"
    BY <1>1, <2>1, AboveIsTransitive DEF Core, CallInv
  <2>2. CASE phase[f] = "none"
    <3>1. FrameStep(f)
      BY <1>5, <2>2, FrameSteps, OneFrame
    <3>2. Called(f)
      BY <2>2, <3>1 DEF FrameStep, Asked, Enter, Opened, Missed, EndScope, EndTransaction,
         TurnedBack, Dropped, Closed
    <3>3. f # Top /\ Running(Parent[f]) /\ Parent[f] \in Frames /\ g \in Upwards(Parent[f])
      BY <3>2, Parents DEF Called
    <3>4. Entered(g)
      BY <3>3, RunningHasEntered
    <3> QED
      BY <1>1, <3>4, AboveIsTransitive
  <2> QED
    BY <2>1, <2>2
<1>6. ASSUME NEW f \in Frames \ {Top}, Kind[Parent[f]] = "scope", phase'[Parent[f]] = "over"
      PROVE  phase'[f] \in {"none", "over"}
  <2>1. Parent[f] \in Frames /\ Parent[f] # f
    BY Parents
  <2>2. CASE phase[Parent[f]] = "over"
    <3>1. phase[f] \in {"none", "over"}
      BY <1>6, <2>2 DEF Core, CallInv
    <3>2. ~FrameStep(f)
      <4>1. ~Running(Parent[f])
        BY <1>6, <2>1, <2>2, TransactionsAssumption DEF Running
      <4> QED
        BY <3>1, <4>1 DEF FrameStep, Called, Asked, Enter, Opened, Missed, EndScope, EndTransaction,
           TurnedBack, Dropped, Closed
    <3> QED
      BY <3>1, <3>2, FrameSteps, OneFrame
  <2>3. CASE phase[Parent[f]] # "over"
    <3>1. FrameStep(Parent[f])
      BY <1>6, <2>1, <2>3, FrameSteps, OneFrame
    <3>2. PICK g \in {"commit", "rollback"} : EndScope(Parent[f], g)
      <4>1. Kind[Parent[f]] # "transaction" /\ phase[Parent[f]] \notin {"closing"}
        BY <1>6, <2>1 DEF Core, CallInv
      <4>2. ~Called(Parent[f]) /\ ~Enter(Parent[f]) /\ ~Opened(Parent[f])
        BY <1>6, <2>1 DEF Called, Becomes, Enter, Opened, Core, TypeOK
      <4> QED
        BY <3>1, <4>1, <4>2 DEF FrameStep, Asked, Missed, EndTransaction, TurnedBack, Dropped, Closed
    <3>3. Settled(Parent[f])
      BY <1>6, <3>2, TransactionsAssumption DEF EndScope, MayEnd
    <3>4. phase[f] \in {"none", "over"} /\ phase'[f] = phase[f]
      BY <2>1, <3>1, <3>3, OneFrame DEF Settled
    <3> QED
      BY <3>4
  <2> QED
    BY <2>2, <2>3
<1>7. ASSUME NEW k \in busy'
      PROVE  Entered(via[k])'
  <2>1. \A j \in busy : Entered(via[j]) /\ via[j] \in Frames /\ j \in Flows
    BY DEF Core, CallInv, TypeOK
  <2>2. ASSUME via' = via, busy' \subseteq busy
        PROVE  Entered(via[k])'
    BY <1>1, <1>7, <2>1, <2>2 DEF Entered
  <2>3. ASSUME NEW j \in Flows, NEW h \in Frames, Query(j, h)
        PROVE  Entered(via[k])'
    <3>1. CASE busy' = busy \cup {j} /\ via' = [via EXCEPT ![j] = h]
      <4>1. Running(Home[j]) /\ Home[j] \in Frames /\ h \in Upwards(Home[j])
        BY <2>3, TransactionsAssumption DEF Query
      <4>2. Entered(h)
        BY <4>1, RunningHasEntered
      <4>3. via \in [Flows -> Frames]
        BY DEF Core, TypeOK
      <4>4. CASE k = j
        BY <1>1, <3>1, <4>2, <4>3, <4>4 DEF Entered
      <4>5. CASE k # j
        BY <1>1, <1>7, <2>1, <3>1, <4>3, <4>5 DEF Entered
      <4> QED
        BY <4>4, <4>5
    <3> QED
      BY <2>2, <2>3, <3>1 DEF Query
  <2>4. ASSUME NEW a \in Acts, Refuse(a) \/ CutOff(a) \/ Send(a) \/ Answered(a)
        PROVE  via' = via /\ busy' \subseteq busy
    BY <2>4 DEF Refuse, CutOff, Send, CallFails, Answered, WorkDone, WorkFails, Opened, NotOpened,
       SavepointReleased, SavepointRolledBack, Committed, CommitRejected, RolledBack,
       QueryFails, OpeningFails, CommitFails, RollbackFails, flows
  <2>5. ASSUME NEW f \in Frames, Call(f) \/ Enter(f) \/ Ends(f)
        PROVE  via' = via /\ busy' \subseteq busy
    BY <2>5 DEF Call, Enter, Ends, EndScope, EndTransaction, flows
  <2>6. Begin \/ Disconnect => via' = via /\ busy' \subseteq busy
    BY DEF Begin, Disconnect, flows
  <2> QED
    BY <2>2, <2>3, <2>4, <2>5, <2>6 DEF Next, Acts
<1> QED
  BY <1>3, <1>4, <1>5, <1>6, <1>7 DEF CallInv

-----------------------------------------------------------------------------
(* Types *)

RestTypes ==
    /\ failedIn \subseteq Frames /\ busy \subseteq Flows
    /\ via \in [Flows -> Frames] /\ issued \in [Flows -> 0 .. MaxStatements]
    /\ link \in {"up", "lost", "ended"}
    /\ aborted \in BOOLEAN /\ stray \subseteq Flows /\ left \in 0 .. MaxTroubles

LayerTypes == stack \in Layers /\ wrote \subseteq Frames /\ durable \subseteq Frames

LEMMA CoreTypes == Core => RestTypes /\ LayerTypes
  BY DEF Core, TypeOK, RestTypes, LayerTypes, Layers, LayerType

LEMMA SpendType ==
    ASSUME RestTypes, NEW kind, Spend(kind)
    PROVE  left' \in 0 .. MaxTroubles
  BY TransactionsAssumption DEF RestTypes, Spend

LEMMA RestStep ==
    ASSUME Core, Next
    PROVE  RestTypes'
<1>1. RestTypes
  BY CoreTypes
<1>2. \A f \in Frames \ {Top} : Parent[f] \in Frames
  BY Parents
<1>3. \A k \in Flows : Home[k] \in Frames
  BY TransactionsAssumption
<1>4. ASSUME Begin \/ Disconnect
      PROVE  RestTypes'
  <2>1. CASE Begin
    BY <1>1, <2>1 DEF Begin, RestTypes, flows, server
  <2>2. CASE Disconnect
    <3>1. left' \in 0 .. MaxTroubles
      BY <1>1, <2>2, SpendType DEF Disconnect, RestTypes
    <3> QED
      BY <1>1, <2>2, <3>1 DEF Disconnect, RestTypes, frames, flows
  <2> QED
    BY <1>4, <2>1, <2>2
<1>5. ASSUME NEW f \in Frames, Call(f) \/ Enter(f) \/ Ends(f)
      PROVE  RestTypes'
  BY <1>1, <1>2, <1>5 DEF Call, Enter, Ends, EndScope, EndTransaction, Rejects, RestTypes, flows, server
<1>6. ASSUME NEW k \in Flows, NEW h \in Frames, Query(k, h)
      PROVE  RestTypes'
  <2>1. /\ failedIn' \subseteq Frames /\ busy' \subseteq Flows /\ via' \in [Flows -> Frames]
    BY <1>1, <1>3, <1>6 DEF Query, RestTypes
  <2>2. issued' \in [Flows -> 0 .. MaxStatements]
    <3>1. issued[k] + 1 \in 0 .. MaxStatements
      BY <1>1, <1>6, TransactionsAssumption DEF Query, RestTypes
    <3> QED
      BY <1>1, <1>6, <3>1 DEF Query, RestTypes
  <2> QED
    BY <1>1, <1>6, <2>1, <2>2 DEF Query, RestTypes, server
<1>7. ASSUME NEW a \in Acts, Send(a)
      PROVE  RestTypes'
  BY <1>1, <1>7 DEF Send, RestTypes, flows, server
<1>8. ASSUME NEW a \in Acts, CallFails(a)
      PROVE  failedIn' \subseteq Frames /\ busy' \subseteq Flows
  BY <1>1, <1>2, <1>3, <1>8 DEF CallFails, QueryFails, OpeningFails, CommitFails, RollbackFails, Rejects, RestTypes
<1>9. ASSUME NEW a \in Acts, Refuse(a) \/ CutOff(a)
      PROVE  RestTypes'
  BY <1>1, <1>8, <1>9 DEF Refuse, CutOff, RestTypes, server
<1>10. ASSUME NEW k \in Flows, WorkDone(k) \/ WorkFails(k)
       PROVE  RestTypes'
  <2>1. CASE WorkDone(k)
    BY <1>1, <2>1 DEF WorkDone, Strays, RestTypes, frames
  <2>2. CASE WorkFails(k)
    <3>1. left' \in 0 .. MaxTroubles
      BY <1>1, <2>2, SpendType DEF WorkFails, RestTypes
    <3>2. aborted' \in BOOLEAN /\ stray' \subseteq Flows
      BY <1>1, <2>2 DEF WorkFails, Strays, RestTypes
    <3> QED
      BY <1>1, <1>3, <2>2, <3>1, <3>2 DEF WorkFails, QueryFails, RestTypes
  <2> QED
    BY <1>10, <2>1, <2>2
<1>11. ASSUME NEW f \in Frames, Opened(f) \/ NotOpened(f) \/ SavepointReleased(f) \/ SavepointRolledBack(f)
       PROVE  RestTypes'
  <2>1. CASE Opened(f)
    BY <1>1, <2>1 DEF Opened, RestTypes, flows
  <2>2. CASE NotOpened(f)
    BY <1>1, <1>2, <2>2 DEF NotOpened, OpeningFails, Rejects, RestTypes, server
  <2>3. CASE SavepointReleased(f)
    BY <1>1, <2>3 DEF SavepointReleased, CommitFails, RestTypes
  <2>4. CASE SavepointRolledBack(f)
    <3>1. failedIn' \subseteq Frames
      BY <1>1, <1>2, <2>4 DEF SavepointRolledBack, RollbackFails, Rejects, RestTypes
    <3>2. busy' = busy /\ aborted' \in BOOLEAN
      BY <2>4 DEF SavepointRolledBack, RollbackFails
    <3> QED
      BY <1>1, <2>4, <3>1, <3>2 DEF SavepointRolledBack, RestTypes
  <2> QED
    BY <1>11, <2>1, <2>2, <2>3, <2>4
<1>12. CASE Committed \/ RolledBack
  BY <1>1, <1>12 DEF Committed, RolledBack, RestTypes, flows
<1>13. CASE CommitRejected
  <2>1. left' \in 0 .. MaxTroubles
    BY <1>1, <1>13, SpendType DEF CommitRejected
  <2> QED
    BY <1>1, <1>13, <2>1 DEF CommitRejected, CommitFails, RestTypes
<1> QED
  BY <1>4, <1>5, <1>6, <1>7, <1>9, <1>10, <1>11, <1>12, <1>13 DEF Next, Answered, Acts

\* The steps that change what the server has, or what was done.
ServerStep ==
    \/ Disconnect
    \/ \E k \in Flows : WorkDone(k) /\ InTime(k)
    \/ \E f \in Frames : \/ Opened(f)
                         \/ SavepointReleased(f) /\ OnStack(f) /\ ~aborted
                         \/ SavepointRolledBack(f) /\ OnStack(f)
    \/ Committed \/ CommitRejected \/ RolledBack

LEMMA ServerSteps ==
    ASSUME Next
    PROVE  UNCHANGED <<stack, wrote, durable, link>> \/ ServerStep
<1>1. ASSUME NEW f \in Frames, Call(f) \/ Enter(f) \/ Ends(f)
      PROVE  UNCHANGED <<stack, wrote, durable, link>>
  BY <1>1 DEF Call, Enter, Ends, EndScope, EndTransaction, server
<1>2. ASSUME NEW k \in Flows, NEW h \in Frames, Query(k, h)
      PROVE  UNCHANGED <<stack, wrote, durable, link>>
  BY <1>2 DEF Query, server
<1>3. ASSUME NEW a, Send(a) \/ Refuse(a) \/ CutOff(a)
      PROVE  UNCHANGED <<stack, wrote, durable, link>>
  BY <1>3 DEF Send, Refuse, CutOff, server
<1>4. ASSUME NEW k \in Flows, WorkDone(k) \/ WorkFails(k)
      PROVE  UNCHANGED <<stack, wrote, durable, link>> \/ (WorkDone(k) /\ InTime(k))
  BY <1>4 DEF WorkDone, WorkFails
<1>5. ASSUME NEW f \in Frames, NotOpened(f)
      PROVE  UNCHANGED <<stack, wrote, durable, link>>
  BY <1>5 DEF NotOpened, server
<1>6. ASSUME NEW f \in Frames, SavepointReleased(f), ~(OnStack(f) /\ ~aborted)
      PROVE  UNCHANGED <<stack, wrote, durable, link>>
  BY <1>6 DEF SavepointReleased
<1>7. ASSUME NEW f \in Frames, SavepointRolledBack(f), ~OnStack(f)
      PROVE  UNCHANGED <<stack, wrote, durable, link>>
  BY <1>7 DEF SavepointRolledBack
<1>8. Begin => UNCHANGED <<stack, wrote, durable, link>>
  BY DEF Begin, server
<1> QED
  BY <1>1, <1>2, <1>3, <1>4, <1>5, <1>6, <1>7, <1>8 DEF Next, Answered, ServerStep

LEMMA AllWorkType ==
    ASSUME stack \in Layers
    PROVE  AllWork(stack) = UNION {stack[i].work : i \in 1 .. Len(stack)} /\ AllWork(stack) \subseteq Frames
  BY StackIsSeq DEF AllWork, LayerType

LEMMA ServerTypes ==
    ASSUME Core, Next
    PROVE  LayerTypes'
<1>1. LayerTypes /\ \A k \in Flows : via[k] \in Frames
  BY CoreTypes DEF RestTypes
<1>2. AllWork(stack) \subseteq Frames /\ <<>> \in Layers
  BY <1>1, AllWorkType, EmptySeq DEF LayerTypes, Layers
<1>3. CASE UNCHANGED <<stack, wrote, durable, link>>
  BY <1>1, <1>3 DEF LayerTypes
<1>4. CASE Disconnect
  BY <1>1, <1>2, <1>4 DEF Disconnect, LayerTypes
<1>5. ASSUME NEW k \in Flows, WorkDone(k), InTime(k)
      PROVE  LayerTypes'
  <2>1. stack' = Works({via[k]}) /\ wrote' = wrote \cup {via[k]} /\ durable' = durable
    BY <1>5 DEF WorkDone
  <2>2. {via[k]} \in SUBSET Frames
    BY <1>1
  <2>3. Works({via[k]}) \in Layers
    BY <1>1, <2>2, WorksFacts DEF LayerTypes
  <2> QED
    BY <1>1, <2>1, <2>2, <2>3 DEF LayerTypes
<1>6. ASSUME NEW f \in Frames, Opened(f)
      PROVE  LayerTypes'
  <2>1. stack' = Append(stack, [frame |-> f, work |-> {}]) /\ wrote' = wrote /\ durable' = durable
    BY <1>6 DEF Opened
  <2>2. [frame |-> f, work |-> {}] \in LayerType
    BY DEF LayerType
  <2>3. stack' \in Layers
    BY <1>1, <2>1, <2>2 DEF LayerTypes, Layers
  <2> QED
    BY <1>1, <2>1, <2>3 DEF LayerTypes
<1>7. ASSUME NEW f \in Frames, OnStack(f),
             (SavepointReleased(f) /\ ~aborted) \/ SavepointRolledBack(f)
      PROVE  LayerTypes'
  <2>1. Layer(f) \in DOMAIN stack
    BY <1>7, LayerFacts
  <2>2. stack' \in {ReleasedFrom(Layer(f)), RolledBackTo(Layer(f))} /\ wrote' = wrote /\ durable' = durable
    BY <1>7 DEF SavepointReleased, SavepointRolledBack
  <2>3. stack' \in Layers
    BY <1>1, <2>1, <2>2, ReleasedFromFacts, RolledBackToFacts DEF LayerTypes
  <2> QED
    BY <1>1, <2>2, <2>3 DEF LayerTypes
<1>8. CASE Committed \/ CommitRejected \/ RolledBack
  BY <1>1, <1>2, <1>8 DEF Committed, CommitRejected, RolledBack, LayerTypes
<1> QED
  BY <1>3, <1>4, <1>5, <1>6, <1>7, <1>8, ServerSteps DEF ServerStep

LEMMA TypeStep ==
    ASSUME Core, Next
    PROVE  TypeOK'
<1>1. /\ lock' \in Locks /\ wire' \in Seq(Acts) /\ FrameTypes' /\ RestTypes' /\ LayerTypes'
  BY MutexSteps, WireStep, Progress, RestStep, ServerTypes, TopIsFrame DEF MutexesHold
<1>2. lock' \in [Frames -> Seq(Acts)]
  BY <1>1 DEF Locks
<1> QED
  BY <1>1, <1>2 DEF TypeOK, FrameTypes, RestTypes, LayerTypes, Layers, LayerType, Acts

-----------------------------------------------------------------------------
(* What is alive *)

\* Without the connection nothing more is sent.
LEMMA SentBack ==
    ASSUME Core, Next, link # "up", phase[Top] # "none", NEW b \in Acts, Sent(b)'
    PROVE  Sent(b) /\ (b \in Flows => via'[b] = via[b])
<1>1. /\ \A k \in Flows : Sent(k) => k \in busy
      /\ via \in [Flows -> Frames]
  BY SentWants DEF Acts, Core, TypeOK
<1>2. ASSUME wire' = wire
      PROVE  Sent(b)
  BY <1>2 DEF Sent
<1>3. ASSUME NEW f \in Frames, Call(f) \/ Enter(f) \/ Ends(f)
      PROVE  Sent(b) /\ via' = via
  BY <1>2, <1>3 DEF Call, Enter, Ends, EndScope, EndTransaction, flows
<1>4. ASSUME NEW k \in Flows, NEW h \in Frames, Query(k, h)
      PROVE  Sent(b) /\ (b \in Flows => via'[b] = via[b])
  <2>1. Sent(b)
    BY <1>2, <1>4 DEF Query
  <2>2. b # k
    BY <1>1, <1>4, <2>1 DEF Query
  <2> QED
    BY <1>1, <1>4, <2>1, <2>2 DEF Query
<1>5. ASSUME NEW a \in Acts, Refuse(a)
      PROVE  Sent(b) /\ via' = via
  BY <1>2, <1>5 DEF Refuse
<1>6. ASSUME NEW a \in Acts, CutOff(a)
      PROVE  Sent(b) /\ via' = via
  BY <1>6, WireTail DEF CutOff
<1>7. ~Begin /\ ~Disconnect /\ \A a : ~Send(a) /\ ~Answered(a)
  BY DEF Begin, Disconnect, Send, Refused, Answered, WorkDone, WorkFails, Opened, NotOpened,
     SavepointReleased, SavepointRolledBack, Committed, CommitRejected, RolledBack
<1> QED
  BY <1>3, <1>4, <1>5, <1>6, <1>7 DEF Next, Acts

LEMMA BusyBack ==
    ASSUME Core, Next, phase[Top] # "none", Busy'
    PROVE  /\ Busy
           /\ link # "up" => \A b \in Acts : Sent(b)' /\ Live(b)' => Sent(b) /\ Live(b)
<1>1. SUFFICES ASSUME link # "up"
               PROVE  Busy /\ \A b \in Acts : Sent(b)' /\ Live(b)' => Sent(b) /\ Live(b)
  BY DEF Busy
<1>2. link' # "up"
  <2>1. ~ServerStep
    BY <1>1 DEF ServerStep, Disconnect, WorkDone, Opened, SavepointReleased, SavepointRolledBack,
       Committed, CommitRejected, RolledBack
  <2> QED
    BY <1>1, <2>1, ServerSteps
<1>3. ASSUME NEW b \in Acts, Sent(b)', Live(b)'
      PROVE  Sent(b) /\ Live(b)
  <2>1. Sent(b) /\ (b \in Flows => via'[b] = via[b])
    BY <1>1, <1>3, SentBack
  <2>2. CASE b \in Flows
    <3>1. b \in busy /\ via[b] \in Frames /\ Entered(via[b]) /\ b \notin Frames
      BY <2>1, <2>2, SentWants, TransactionsAssumption DEF Core, TypeOK, CallInv
    <3>2. phase'[via[b]] \in {"open", "closing"} /\ ~closed'[Owner(via[b])]
      BY <1>3, <2>1, <2>2, <3>1 DEF Live, InTime, Active, IsClosed
    <3>3. phase[via[b]] \in {"open", "closing"}
      BY <3>1, <3>2, Progress
    <3>4. ~IsClosed(via[b])
      <4>1. Owner(via[b]) \in Frames
        BY <3>1, OwnerIsInnermost
      <4> QED
        BY <3>2, <4>1, Progress DEF IsClosed
    <3> QED
      BY <2>1, <3>3, <3>4 DEF Live, InTime, Active
  <2>3. CASE b \in Frames
    BY <2>1, <2>3 DEF Live
  <2> QED
    BY <2>2, <2>3 DEF Acts
<1>4. LiveSent
  BY <1>2, <1>3 DEF Busy, LiveSent, Acts
<1> QED
  BY <1>3, <1>4 DEF Busy

LEMMA HeldNotRefused ==
    ASSUME Core, Busy, NEW f \in Frames, Kind[f] = "transaction", Held(f)
    PROVE  ~ClosedAbove(f) /\ ~closed[f]
<1>1. Alive(f) /\ ~closed[f] /\ Owner(f) = f
  BY HeldTransaction, OwnerIsInnermost
<1>2. \A g \in Above[f] : Kind[g] = "transaction" => ~closed[g]
  BY <1>1, Below, HeldTransaction DEF Active
<1> QED
  BY <1>1, <1>2 DEF ClosedAbove

LEMMA NoneInside ==
    ASSUME Core, Busy, NEW f \in Frames, phase[f] = "closing", HasTurn(f), NEW g \in Frames, Alive(g)
    PROVE  f \notin Above[g]
<1>1. SUFFICES ASSUME f \in Above[g]
               PROVE  FALSE
  OBVIOUS
<1>2. Head(lock[f]) = f
  BY KindsDiffer DEF HasTurn, Handle
<1>3. PICK c \in Frames \ {Top} : Parent[c] = f /\ Head(lock[f]) = c
  BY <1>1, Below
<1> QED
  BY <1>2, <1>3, Parents

\* A rollback fails only when nothing can be done on the connection any more.
LEMMA DroppedIsLast ==
    ASSUME Core, StackInv, Next, NEW f \in Frames, Dropped(f)
    PROVE  ~Busy'
<1> SUFFICES ASSUME Busy'
             PROVE  FALSE
  OBVIOUS
<1>1. /\ phase[f] = "closing" /\ goal[f] = "rollback" /\ HasTurn(f)
      /\ f \notin Flows /\ Kind[f] = "transaction" /\ f \in Acts
  BY KindsDiffer DEF Dropped, Core, CallInv, Acts
<1>2. phase[Top] # "none"
  <2>1. f # Top => Entered(Top)
    BY <1>1, TopIsAbove DEF Core, CallInv, Upwards
  <2> QED
    BY <1>1, <2>1 DEF Entered
<1>3. Busy /\ (link # "up" => \A b \in Acts : Sent(b)' /\ Live(b)' => Sent(b) /\ Live(b))
  BY <1>2, BusyBack
<1>4. ~ClosedAbove(f) /\ ~closed[f] /\ Active(f) /\ Alive(f)
  BY <1>1, <1>3, HeldNotRefused, HeldTransaction DEF Held
<1>5. CASE Refuse(f)
  <2>1. link # "up" /\ wire' = wire /\ link' = link /\ ~Sent(f)
    BY <1>1, <1>4, <1>5, UnsentFacts DEF Refuse, Refused
  <2>2. PICK b \in Acts : Sent(b) /\ Live(b)
    BY <1>3, <2>1 DEF Busy, LiveSent, Acts
  <2>3. f \in Upwards(Handle(b)) /\ Handle(b) \in Frames
    BY <1>4, <2>2, NoneBelow, LiveSender DEF Acts
  <2>4. CASE b = Top /\ phase[Top] = "opening"
    <3>1. Handle(Top) = Top
      BY TopIsFrame, TransactionsAssumption DEF Handle
    <3> QED
      BY <1>1, <2>3, <2>4, <3>1, TransactionsAssumption DEF Upwards
  <2>5. CASE Active(Handle(b)) /\ HasTurn(b)
    <3>1. f = Handle(b)
      BY <1>1, <1>3, <2>3, <2>5, NoneInside DEF Upwards, Active, Alive, Held
    <3>2. b = f
      BY <1>1, <2>5, <3>1 DEF HasTurn, Handle
    <3> QED
      BY <2>1, <2>2, <3>2
  <2> QED
    BY <2>2, <2>4, <2>5, LiveSender DEF Acts
<1>6. CASE CutOff(f)
  <2>1. link # "up" /\ link' = link /\ Sent(f) /\ ~Sent(f)'
    BY <1>1, <1>6, WireTail DEF CutOff
  <2>2. PICK b \in Acts : Sent(b)' /\ Sent(b) /\ Live(b)
    BY <1>3, <2>1 DEF Busy, LiveSent, Acts
  <2>3. b = f
    BY <2>1, <2>2, OneLive DEF Live, Acts
  <2> QED
    BY <2>1, <2>2, <2>3
<1>7. CASE f # Top /\ ~OnStack(f) /\ link = "up"
  BY <1>1, <1>7 DEF StackInv, SavepointsNested
<1> QED
  BY <1>1, <1>5, <1>6, <1>7 DEF Dropped

\* Before BEGIN there is nothing.
LEMMA NothingYet ==
    ASSUME Core, phase[Top] = "none", NEW f \in Frames, f # Top
    PROVE  phase[f] = "none" /\ ~Entered(Top) /\ Top \in Above[f]
<1>1. ~Entered(Top)
  BY TopIsFrame DEF Core, CallInv, Entered
<1>2. Top \in Above[f]
  BY TopIsAbove DEF Upwards
<1> QED
  BY <1>1, <1>2 DEF Core, CallInv

LEMMA ChainFirst ==
    ASSUME Core, Next, phase[Top] = "none"
    PROVE  ChainInv'
<1>1. \A f \in Frames \ {Top} : phase'[f] = "none"
  <2> SUFFICES ASSUME NEW f \in Frames \ {Top}, FrameStep(f)
               PROVE  FALSE
    BY NothingYet, FrameSteps, OneFrame
  <2>1. phase[f] = "none" /\ ~Entered(Top) /\ Parent[f] \in Frames
    BY NothingYet, Parents
  <2>2. ~Running(Parent[f])
    <3>1. Parent[f] # Top => phase[Parent[f]] = "none"
      BY <2>1, NothingYet
    <3>2. ~Entered(Parent[f])
      BY <2>1, <3>1 DEF Entered, Core, CallInv
    <3> QED
      BY <2>1, <3>2, RunningHasEntered
  <2> QED
    BY <2>1, <2>2 DEF FrameStep, Called, Asked, Enter, Opened, Missed, EndScope, EndTransaction,
       TurnedBack, Dropped, Closed
<1>2. phase'[Top] \in {"none", "opening"}
  <2>1. ASSUME FrameStep(Top)
        PROVE  Called(Top)
    BY <2>1 DEF FrameStep, Asked, Enter, Opened, Missed, EndScope, EndTransaction,
       TurnedBack, Dropped, Closed
  <2>2. Called(Top) => phase'[Top] = "opening"
    BY TopIsFrame DEF Called, Becomes, Core, TypeOK
  <2> QED
    BY <2>1, <2>2, FrameSteps, OneFrame, TopIsFrame
<1>3. \A f \in Frames : Held(f)' => Above[f] = {}
  BY <1>1, TransactionsAssumption DEF Held
<1>4. \A f \in Frames : phase'[f] # "over"
  BY <1>1, <1>2
<1> QED
  BY <1>3, <1>4 DEF ChainInv, Alive

LEMMA ChainLater ==
    ASSUME Core, StackInv, Next, phase[Top] # "none", Busy'
    PROVE  ChainInv'
<1>1. Busy
  BY BusyBack
<1>2. \A f \in Frames : ~Dropped(f)
  BY DroppedIsLast
<1>3. ASSUME NEW f \in Frames, Kind[f] = "transaction", phase'[f] = "over", goal'[f] # "none"
      PROVE  closed'[f]
  <2>1. CASE phase[f] = "over"
    <3>1. goal'[f] = goal[f] /\ closed'[f] = closed[f]
      BY <2>1, Progress
    <3> QED
      BY <1>1, <1>3, <2>1, <3>1 DEF Core, ChainInv
  <2>2. CASE phase[f] # "over"
    <3>1. FrameStep(f)
      BY <1>3, <2>2, FrameSteps, OneFrame
    <3>2. phase[f] \in {"none", "waiting", "opening", "open"} => goal[f] = "none"
      BY DEF Core, CallInv
    <3>3. f \in DOMAIN phase /\ f \in DOMAIN goal /\ f \in DOMAIN closed
      BY DEF Core, TypeOK
    <3>4. Closed(f)
      BY <1>2, <1>3, <2>2, <3>1, <3>2, <3>3 DEF FrameStep, Called, Asked, Enter, Opened, Missed, EndScope, EndTransaction,
         TurnedBack, Becomes
    <3> QED
      BY <3>3, <3>4 DEF Closed
  <2> QED
    BY <2>1, <2>2
<1>4. \A f \in Frames : IsClosed(f) => IsClosed(f)'
  BY OwnerIsInnermost, Progress DEF IsClosed
<1>5. ASSUME NEW f \in Frames, Alive(f)', ~Alive(f), NEW g \in Above[f]
      PROVE  Active(g)'
  <2>1. ~IsClosed(f) /\ ~Held(f) /\ Held(f)' /\ f # Top /\ g \in Frames
    BY <1>4, <1>5, AboveIsTransitive, Parents DEF Alive
  <2>2. FrameStep(f)
    BY <2>1, FrameSteps, OneFrame DEF Held
  <2>3. phase[f] \notin {"over", "opening", "open", "closing"}
    BY <2>1, Progress DEF Held
  <2>4. Asked(f) \/ Enter(f)
    <3>1. ~Called(f)
      BY <2>1 DEF Called, Becomes, Held, Core, TypeOK
    <3>2. ~Missed(f)
      BY <2>1 DEF Missed, Becomes, Held, Core, TypeOK
    <3> QED
      BY <2>2, <2>3, <3>1, <3>2 DEF FrameStep, Opened, EndScope, EndTransaction, TurnedBack, Dropped, Closed
  <2>5. phase[f] = "waiting" /\ Parent[f] \in Frames /\ Above[f] = Upwards(Parent[f])
    BY <2>1, <2>4, Parents DEF Asked, Enter
  <2>6. Entered(Parent[f])
    BY <2>5 DEF Core, CallInv, Upwards
  <2>7. Kind[Parent[f]] = "transaction" => ~closed[Parent[f]]
    <3>1. CASE Asked(f)
      <4>1. ~ClosedAbove(f) /\ Owner(f) = f
        BY <3>1, KindsDiffer, OwnerIsInnermost DEF Asked, Refused
      <4> QED
        BY <2>5, <4>1 DEF ClosedAbove, Upwards
    <3>2. CASE Enter(f)
      BY <2>1, <2>5, <3>2, OwnerIsInnermost DEF Enter, IsClosed
    <3> QED
      BY <2>4, <3>1, <3>2
  <2>8. phase[Parent[f]] \in {"open", "closing"}
    <3>1. CASE Kind[Parent[f]] = "transaction"
      BY <1>1, <2>5, <2>6, <2>7, <3>1 DEF Core, ChainInv, Entered
    <3>2. CASE Kind[Parent[f]] = "scope"
      <4>1. phase[Parent[f]] # "over"
        BY <2>1, <2>5, <3>2 DEF Core, CallInv
      <4> QED
        BY <2>6, <4>1 DEF Entered
    <3> QED
      BY <2>5, <3>1, <3>2, KindsDiffer
  <2>9. ~IsClosed(Parent[f])
    <3>1. CASE Asked(f)
      <4>1. ~ClosedAbove(f) /\ Owner(f) = f
        BY <3>1, KindsDiffer, OwnerIsInnermost DEF Asked, Refused
      <4>2. Owner(Parent[f]) \in Upwards(Parent[f]) /\ Kind[Owner(Parent[f])] = "transaction"
        BY <2>5, OwnerIsInnermost DEF IsOwner
      <4> QED
        BY <2>5, <4>1, <4>2 DEF ClosedAbove, IsClosed
    <3>2. CASE Enter(f)
      BY <2>1, <2>5, <3>2, OwnerIsInnermost DEF Enter, IsClosed
    <3> QED
      BY <2>4, <3>1, <3>2
  <2>10. Active(g)
    <3>1. Active(Parent[f]) /\ Alive(Parent[f])
      BY <2>8, <2>9 DEF Active, Alive, Held
    <3> QED
      BY <1>1, <2>5, <3>1 DEF Core, ChainInv, Upwards
  <2>11. phase'[g] = phase[g]
    BY <2>1, <2>2, AboveIsTransitive, OneFrame
  <2>12. closed'[Owner(g)] = closed[Owner(g)]
    <3>1. Owner(g) \in Upwards(g) /\ Owner(g) \in Frames /\ f \notin Upwards(g)
      BY <2>1, OwnerIsInnermost, AboveIsTransitive DEF IsOwner, Upwards
    <3> QED
      BY <2>2, <3>1, OneFrame
  <2> QED
    BY <2>10, <2>11, <2>12 DEF Active, IsClosed
<1>6. ASSUME NEW f \in Frames, Alive(f), NEW g \in Above[f]
      PROVE  Active(g)'
  <2>1. Active(g) /\ g \in Frames
    BY <1>1, <1>6, Below
  <2>2. ASSUME NEW h \in Frames, h \in Above[f], Closed(h)
        PROVE  FALSE
    BY <1>1, <1>6, <2>2, NoneInside DEF Closed
  <2>3. phase'[g] \in {"open", "closing"}
    <3> SUFFICES ASSUME phase'[g] \notin {"open", "closing"}
                 PROVE  FALSE
      OBVIOUS
    <3>1. FrameStep(g) /\ phase[g] \in {"open", "closing"}
      BY <2>1, FrameSteps, OneFrame DEF Active
    <3>2. g \in DOMAIN phase
      BY <2>1 DEF Core, TypeOK
    <3>3. PICK e \in {"commit", "rollback"} : EndScope(g, e)
      BY <1>2, <2>1, <2>2, <3>1, <3>2 DEF FrameStep, Called, Asked, Enter, Opened, Missed, EndTransaction,
         TurnedBack, Becomes
    <3>4. Settled(g)
      BY <3>3, TransactionsAssumption DEF EndScope, MayEnd
    <3>5. PICK c \in Frames \ {Top} : Parent[c] = g /\ Held(c)
      BY <1>1, <1>6, Below
    <3> QED
      BY <3>4, <3>5 DEF Settled, Held
  <2>4. ~closed'[Owner(g)]
    <3> SUFFICES ASSUME closed'[Owner(g)]
                 PROVE  FALSE
      OBVIOUS
    <3>1. Owner(g) \in Upwards(g) /\ Owner(g) \in Frames /\ ~closed[Owner(g)]
      BY <2>1, OwnerIsInnermost DEF IsOwner, Active, IsClosed
    <3>2. Owner(g) \in Above[f]
      BY <2>1, <3>1, AboveIsTransitive DEF Upwards
    <3>3. Closed(Owner(g))
      BY <3>1, FrameSteps, OneFrame
    <3> QED
      BY <2>2, <3>1, <3>2, <3>3
  <2> QED
    BY <2>3, <2>4 DEF Active, IsClosed
<1>7. \A f \in Frames : Alive(f)' => \A g \in Above[f] : Active(g)'
  BY <1>5, <1>6
<1> QED
  BY <1>3, <1>7 DEF ChainInv

LEMMA ChainStep ==
    ASSUME Core, StackInv, Next
    PROVE  ChainInv'
  BY ChainFirst, ChainLater DEF ChainInv

-----------------------------------------------------------------------------
(* Savepoints *)

Distinct == \A i, j \in DOMAIN stack : stack[i].frame = stack[j].frame => i = j

LEMMA LayerIs ==
    ASSUME Distinct, NEW i \in DOMAIN stack
    PROVE  OnStack(stack[i].frame) /\ Layer(stack[i].frame) = i
<1>1. OnStack(stack[i].frame)
  BY DEF OnStack
<1> QED
  BY <1>1, LayerFacts DEF Distinct

\* The lowest layers stay, with the frames they are of.
LowestStay(n) ==
    /\ n \in 0 .. Len(stack) /\ DOMAIN stack' = 1 .. n
    /\ \A i \in 1 .. n : stack'[i].frame = stack[i].frame

LEMMA LowestLayers ==
    ASSUME stack \in Layers, Distinct, NEW n, LowestStay(n)
    PROVE  /\ Distinct'
           /\ \A f : /\ OnStack(f)' <=> OnStack(f) /\ Layer(f) <= n
                     /\ OnStack(f)' => Layer(f)' = Layer(f)
<1>1. Len(stack) \in Nat /\ DOMAIN stack = 1 .. Len(stack) /\ n \in Nat /\ n <= Len(stack)
  BY StackIsSeq DEF LowestStay
<1>2. \A i \in DOMAIN stack' : i \in DOMAIN stack /\ i <= n /\ stack'[i].frame = stack[i].frame
  BY <1>1 DEF LowestStay
<1>3. Distinct'
  BY <1>2 DEF Distinct
<1>4. ASSUME NEW f, OnStack(f)'
      PROVE  OnStack(f) /\ Layer(f) <= n /\ Layer(f)' = Layer(f)
  <2>1. Layer(f)' \in DOMAIN stack' /\ stack'[Layer(f)'].frame = f
    BY <1>4 DEF OnStack, Layer
  <2>2. Layer(f)' \in DOMAIN stack /\ Layer(f)' <= n /\ stack[Layer(f)'].frame = f
    BY <1>2, <2>1
  <2> QED
    BY <2>2, LayerIs
<1>5. ASSUME NEW f, OnStack(f), Layer(f) <= n
      PROVE  OnStack(f)'
  <2>1. Layer(f) \in DOMAIN stack /\ stack[Layer(f)].frame = f
    BY <1>5, LayerFacts
  <2>2. Layer(f) \in 1 .. n
    BY <1>1, <1>5, <2>1
  <2>3. Layer(f) \in DOMAIN stack' /\ stack'[Layer(f)].frame = f
    BY <2>1, <2>2 DEF LowestStay
  <2> QED
    BY <2>3 DEF OnStack
<1> QED
  BY <1>3, <1>4, <1>5

\* A transaction in progress has a savepoint, or was cut short by the server.
Saved(f) ==
    \/ OnStack(f) /\ \A g \in Above[f] : OnStack(g) => Layer(g) < Layer(f)
    \/ f = Top /\ stack = <<>> /\ goal[f] = "rollback"

LEMMA StackInvIs ==
    StackInv <=>
        (link = "up" =>
            /\ Distinct
            /\ \A i \in DOMAIN stack : Kind[stack[i].frame] = "transaction" /\ Entered(stack[i].frame)
            /\ \A f \in Frames : Kind[f] = "transaction" /\ phase[f] \in {"open", "closing"} => Saved(f))
  BY DEF StackInv, SavepointsNested, Distinct, Saved

LEMMA StillInProgress ==
    ASSUME Core, Next, NEW f \in Frames, Kind[f] = "transaction", phase'[f] \in {"open", "closing"}
    PROVE  phase[f] \in {"open", "closing"} \/ (Opened(f) /\ ~Entered(f))
  BY Progress DEF Enter

LEMMA StackKept ==
    ASSUME Core, StackInv, Next, link = "up", stack \in Layers, stack' \in Layers, NEW n, LowestStay(n),
           \A f \in Frames : ~Opened(f),
           \A f \in Frames : /\ Kind[f] = "transaction" /\ phase[f] \in {"open", "closing"}
                             /\ phase'[f] \in {"open", "closing"} /\ OnStack(f)
                             => Layer(f) <= n
    PROVE  StackInv'
<1>1. /\ Distinct
      /\ \A i \in DOMAIN stack : Kind[stack[i].frame] = "transaction" /\ Entered(stack[i].frame)
      /\ \A f \in Frames : Kind[f] = "transaction" /\ phase[f] \in {"open", "closing"} => Saved(f)
  BY StackInvIs
<1>2. /\ Distinct'
      /\ \A f : /\ OnStack(f)' <=> OnStack(f) /\ Layer(f) <= n
                /\ OnStack(f)' => Layer(f)' = Layer(f)
  BY <1>1, LowestLayers
<1>3. Len(stack) \in Nat /\ DOMAIN stack = 1 .. Len(stack) /\ \A i \in 1 .. Len(stack) : stack[i].frame \in Frames
  BY StackIsSeq DEF LayerType
<1>4. \A i \in DOMAIN stack' : i \in DOMAIN stack /\ stack'[i].frame = stack[i].frame
  BY <1>3 DEF LowestStay
<1>5. ASSUME NEW i \in DOMAIN stack'
      PROVE  Kind[stack'[i].frame] = "transaction" /\ Entered(stack[i].frame)'
  <2>1. /\ stack'[i].frame = stack[i].frame /\ stack[i].frame \in Frames
        /\ Kind[stack[i].frame] = "transaction" /\ Entered(stack[i].frame)
    BY <1>1, <1>3, <1>4
  <2> QED
    BY <2>1, Progress DEF Entered
<1>6. ASSUME NEW f \in Frames, Kind[f] = "transaction", phase'[f] \in {"open", "closing"}
      PROVE  Saved(f)'
  <2>1. phase[f] \in {"open", "closing"} /\ Saved(f)
    BY <1>1, <1>6, StillInProgress
  <2>2. CASE OnStack(f) /\ \A g \in Above[f] : OnStack(g) => Layer(g) < Layer(f)
    <3>1. Layer(f) <= n
      BY <1>6, <2>1, <2>2
    <3> QED
      BY <1>2, <2>2, <3>1 DEF Saved
  <2>3. CASE f = Top /\ stack = <<>> /\ goal[f] = "rollback"
    <3>1. goal'[f] = "rollback"
      BY <2>3, Progress
    <3>2. stack' = <<>>
      <4>1. Len(stack') = 0
        BY <1>3, <2>3, StackIsSeq DEF LowestStay, Layers
      <4> QED
        BY <4>1 DEF Layers
    <3> QED
      BY <2>3, <3>1, <3>2 DEF Saved
  <2> QED
    BY <2>1, <2>2, <2>3 DEF Saved
<1> QED
  BY <1>2, <1>5, <1>6 DEF StackInv, Distinct, SavepointsNested, Saved

\* When a frame is closed, the transactions in progress are around it.
LEMMA AroundClosing ==
    ASSUME Core, link = "up", NEW f \in Frames, phase[f] = "closing", HasTurn(f),
           NEW g \in Frames, Kind[g] = "transaction", Held(g)
    PROVE  g \in Upwards(f)
<1>1. Busy /\ Kind[f] = "transaction" /\ Held(f)
  BY KindsDiffer DEF Busy, Core, CallInv, Held
<1>2. Alive(f) /\ Alive(g)
  BY <1>1, HeldTransaction
<1> QED
  BY <1>1, <1>2, Related, NoneInside DEF Upwards

LEMMA AnswerHasTurn ==
    ASSUME Core, NEW f \in Frames, Next1(f), phase[f] = "closing"
    PROVE  HasTurn(f)
<1>1. f \in Acts /\ Sent(f)
  BY WireTail DEF Acts
<1> QED
  BY <1>1 DEF Core, WireInv

LEMMA StackEmptied ==
    ASSUME Core, StackInv, Next, Committed \/ CommitRejected \/ RolledBack
    PROVE  StackInv' /\ stack' = <<>> /\ link = "up" /\ phase[Top] = "closing" /\ HasTurn(Top)
<1>1. /\ stack' = <<>> /\ link = "up" /\ phase[Top] = "closing" /\ HasTurn(Top)
      /\ Committed \/ RolledBack => phase'[Top] = "over"
      /\ CommitRejected => goal'[Top] = "rollback"
      /\ \A f : ~Opened(f)
  <2>1. /\ stack' = <<>> /\ link = "up" /\ phase[Top] = "closing" /\ Next1(Top)
    BY DEF Committed, CommitRejected, RolledBack
  <2>2. Top \in DOMAIN phase /\ Top \in DOMAIN goal
    BY TopIsFrame DEF Core, TypeOK
  <2>3. \A f : Opened(f) => f = Top /\ phase[f] = "opening"
    BY <2>1 DEF Opened, Next1
  <2> QED
    BY <2>1, <2>2, <2>3, TopIsFrame, AnswerHasTurn DEF Committed, CommitRejected, RolledBack, CommitFails, Leaves
<1>2. ASSUME NEW f \in Frames, Kind[f] = "transaction", phase'[f] \in {"open", "closing"}
      PROVE  f = Top /\ goal'[f] = "rollback"
  <2>1. phase[f] \in {"open", "closing"}
    BY <1>1, <1>2, StillInProgress
  <2>2. f \in Upwards(Top)
    BY <1>1, <1>2, <2>1, TopIsFrame, AroundClosing DEF Held
  <2>3. f = Top
    BY <2>2, TransactionsAssumption DEF Upwards
  <2> QED
    BY <1>1, <1>2, <2>3
<1>3. DOMAIN stack' = {}
  BY <1>1
<1> QED
  BY <1>1, <1>2, <1>3 DEF StackInv, SavepointsNested

LEMMA StackOpened ==
    ASSUME Core, StackInv, Next, stack \in Layers, NEW f \in Frames, Opened(f)
    PROVE  /\ StackInv' /\ link = "up" /\ phase[f] = "opening" /\ ~Entered(f) /\ Kind[f] = "transaction"
           /\ stack' = Append(stack, [frame |-> f, work |-> {}]) /\ ~OnStack(f)
           /\ (f = Top => stack = <<>>)
           /\ DOMAIN stack' = 1 .. Len(stack) + 1
           /\ \A i \in DOMAIN stack : stack'[i] = stack[i]
           /\ stack'[Len(stack) + 1] = [frame |-> f, work |-> {}]
           /\ OnStack(f)' /\ Layer(f)' = Len(stack) + 1
           /\ \A g : g # f => /\ OnStack(g)' <=> OnStack(g)
                              /\ OnStack(g) => Layer(g)' = Layer(g)
<1> DEFINE n == Len(stack)
           new == [frame |-> f, work |-> {}]
<1>1. /\ link = "up" /\ link' = link /\ phase[f] = "opening" /\ stack' = Append(stack, new) /\ Busy
      /\ f = Top \/ stack # <<>>
      /\ phase' = [phase EXCEPT ![f] = "open"] /\ goal' = goal
  BY DEF Opened, Busy
<1>2. ~Entered(f) /\ Kind[f] = "transaction"
  BY <1>1, KindsDiffer DEF Entered, Core, CallInv
<1>3. /\ Distinct
      /\ \A i \in DOMAIN stack : Kind[stack[i].frame] = "transaction" /\ Entered(stack[i].frame)
      /\ \A g \in Frames : Kind[g] = "transaction" /\ phase[g] \in {"open", "closing"} => Saved(g)
  BY <1>1, StackInvIs
<1>4. n \in Nat /\ DOMAIN stack = 1 .. n /\ \A i \in 1 .. n : stack[i].frame \in Frames
  BY StackIsSeq DEF LayerType
<1>5. DOMAIN stack' = 1 .. n + 1 /\ (\A i \in 1 .. n : stack'[i] = stack[i]) /\ stack'[n + 1] = new
  <2>1. new \in LayerType
    BY DEF LayerType
  <2> QED
    BY <1>1, <1>4, <2>1 DEF Layers
<1> HIDE DEF n
<1>6. ~OnStack(f)
  BY <1>2, <1>3 DEF OnStack
<1>7. f = Top => stack = <<>>
  <2> SUFFICES ASSUME f = Top, stack # <<>>
               PROVE  FALSE
    OBVIOUS
  <2>1. 1 \in DOMAIN stack
    BY <1>4 DEF n, Layers
  <2>2. stack[1].frame \in Frames /\ Entered(stack[1].frame) /\ stack[1].frame # Top
    BY <1>2, <1>3, <1>4, <2>1
  <2>3. Top \in Above[stack[1].frame]
    BY <2>2, TopIsAbove DEF Upwards
  <2> QED
    BY <1>2, <2>2, <2>3 DEF Core, CallInv, Entered
<1>8. \A i \in DOMAIN stack' : stack'[i].frame = f <=> i = n + 1
  BY <1>4, <1>5, <1>6 DEF OnStack
<1>9. OnStack(f)' /\ Layer(f)' = n + 1
  <2>1. n + 1 \in DOMAIN stack'
    BY <1>4, <1>5
  <2>2. Layer(f)' = CHOOSE i \in DOMAIN stack' : stack'[i].frame = f
    BY DEF Layer
  <2> QED
    BY <1>8, <2>1, <2>2 DEF OnStack
<1>10. ASSUME NEW g, g # f
       PROVE  /\ OnStack(g)' <=> OnStack(g)
              /\ OnStack(g) => Layer(g)' = Layer(g)
  <2>1. \A i : i \in DOMAIN stack' /\ stack'[i].frame = g <=> i \in DOMAIN stack /\ stack[i].frame = g
    BY <1>4, <1>5, <1>10
  <2>2. OnStack(g)' <=> OnStack(g)
    BY <2>1 DEF OnStack
  <2>3. ASSUME OnStack(g)
        PROVE  Layer(g)' = Layer(g)
    <3>1. Layer(g) \in DOMAIN stack' /\ stack'[Layer(g)].frame = g
      BY <2>1, <2>3, LayerFacts
    <3>2. Layer(g)' \in DOMAIN stack' /\ stack'[Layer(g)'].frame = g
      <4>1. Layer(g)' = CHOOSE i \in DOMAIN stack' : stack'[i].frame = g
        BY DEF Layer
      <4> QED
        BY <3>1, <4>1
    <3>3. Layer(g)' \in DOMAIN stack /\ stack[Layer(g)'].frame = g
      BY <2>1, <3>2
    <3> QED
      BY <1>3, <3>3, LayerIs
  <2> QED
    BY <2>2, <2>3
<1>11. Distinct'
  BY <1>3, <1>4, <1>5, <1>8 DEF Distinct
<1>12. \A g \in Frames : Entered(g) \/ g = f => Entered(g)'
  BY <1>1, Progress DEF Entered, Core, TypeOK
<1>13. ASSUME NEW i \in DOMAIN stack'
       PROVE  Kind[stack'[i].frame] = "transaction" /\ Entered(stack[i].frame)'
  <2>1. /\ stack'[i].frame \in Frames /\ Kind[stack'[i].frame] = "transaction"
        /\ Entered(stack'[i].frame) \/ stack'[i].frame = f
    <3>1. CASE i = n + 1
      BY <1>2, <1>5, <3>1
    <3>2. CASE i \in 1 .. n
      BY <1>3, <1>4, <1>5, <3>2
    <3> QED
      BY <1>4, <1>5, <3>1, <3>2
  <2> QED
    BY <1>12, <2>1 DEF Entered
<1>14. ASSUME NEW g \in Frames, Kind[g] = "transaction", phase'[g] \in {"open", "closing"}
       PROVE  Saved(g)'
  <2>1. CASE g = f
    <3>1. \A h \in Above[f] : OnStack(h)' => Layer(h)' < n + 1
      <4> SUFFICES ASSUME NEW h \in Above[f], OnStack(h)'
                   PROVE  Layer(h)' < n + 1
        OBVIOUS
      <4>1. h # f
        BY AboveIsTransitive
      <4>2. OnStack(h) /\ Layer(h)' = Layer(h)
        BY <1>10, <4>1
      <4> QED
        BY <1>4, <4>2, LayerFacts
    <3> QED
      BY <1>9, <2>1, <3>1 DEF Saved
  <2>2. CASE g # f
    <3>1. phase[g] \in {"open", "closing"} /\ goal'[g] = goal[g]
      BY <1>1, <1>14, <2>2 DEF Core, TypeOK
    <3>2. f \notin Above[g]
      BY <1>2, <3>1 DEF Core, CallInv
    <3>3. OnStack(g) /\ \A h \in Above[g] : OnStack(h) => Layer(h) < Layer(g)
      <4>1. CASE g = Top /\ stack = <<>>
        BY <1>1, <2>2, <4>1
      <4>2. CASE ~(g = Top /\ stack = <<>>)
        BY <1>3, <1>14, <3>1, <4>2 DEF Saved
      <4> QED
        BY <4>1, <4>2
    <3>4. \A h \in Above[g] : OnStack(h)' => Layer(h)' < Layer(g)'
      BY <1>10, <2>2, <3>2, <3>3
    <3> QED
      BY <1>10, <2>2, <3>3, <3>4 DEF Saved
  <2> QED
    BY <2>1, <2>2
<1>15. StackInv'
  BY <1>11, <1>13, <1>14 DEF StackInv, Distinct, SavepointsNested, Saved
<1> QED
  BY <1>1, <1>2, <1>4, <1>5, <1>6, <1>7, <1>9, <1>10, <1>15 DEF n

SavepointCloses(f) ==
    \/ SavepointReleased(f) /\ OnStack(f) /\ ~aborted
    \/ SavepointRolledBack(f) /\ OnStack(f)

LEMMA ClosesFacts ==
    ASSUME Core, StackInv, Next, NEW f \in Frames, SavepointCloses(f)
    PROVE  /\ f # Top /\ phase[f] = "closing" /\ HasTurn(f) /\ Kind[f] = "transaction"
           /\ link = "up" /\ link' = "up" /\ Layer(f) \in DOMAIN stack
           /\ phase' = [phase EXCEPT ![f] = "over"]
           /\ \A g : ~Opened(g)
           /\ Distinct /\ Saved(f)
           /\ \A g \in Frames : Kind[g] = "transaction" /\ phase'[g] \in {"open", "closing"} =>
                 g # f /\ g \in Above[f] /\ phase[g] \in {"open", "closing"} /\ OnStack(g) /\ Layer(g) < Layer(f)
           /\ OnStack(Top) => Layer(Top) < Layer(f)
<1>1. /\ f # Top /\ phase[f] = "closing" /\ Next1(f) /\ link = "up" /\ link' = "up" /\ OnStack(f)
      /\ phase' = [phase EXCEPT ![f] = "over"]
  BY DEF SavepointCloses, SavepointReleased, SavepointRolledBack, Leaves
<1>2. HasTurn(f) /\ Kind[f] = "transaction" /\ Layer(f) \in DOMAIN stack
  BY <1>1, AnswerHasTurn, KindsDiffer, LayerFacts DEF Core, CallInv
<1>3. \A g : ~Opened(g)
  BY <1>1 DEF Opened, Next1
<1>4. Distinct /\ Saved(f) /\ \A g \in Frames : Kind[g] = "transaction" /\ phase[g] \in {"open", "closing"} => Saved(g)
  BY <1>1, <1>2, StackInvIs
<1>5. \A g \in Above[f] : OnStack(g) => Layer(g) < Layer(f)
  BY <1>1, <1>4 DEF Saved
<1>6. stack # <<>>
  BY <1>1 DEF OnStack
<1>7. ASSUME NEW g \in Frames, Kind[g] = "transaction", phase'[g] \in {"open", "closing"}
      PROVE  g # f /\ g \in Above[f] /\ phase[g] \in {"open", "closing"} /\ OnStack(g) /\ Layer(g) < Layer(f)
  <2>1. g # f /\ phase[g] \in {"open", "closing"}
    BY <1>1, <1>7 DEF Core, TypeOK
  <2>2. g \in Above[f]
    BY <1>1, <1>2, <1>7, <2>1, AroundClosing DEF Held, Upwards
  <2>3. OnStack(g)
    BY <1>4, <1>6, <1>7, <2>1 DEF Saved
  <2> QED
    BY <1>5, <2>1, <2>2, <2>3
<1>8. Top \in Above[f]
  BY <1>1, TopIsAbove DEF Upwards
<1> QED
  BY <1>1, <1>2, <1>3, <1>4, <1>5, <1>7, <1>8

LEMMA StackStep ==
    ASSUME Core, StackInv, Next
    PROVE  StackInv'
<1>1. stack \in Layers /\ stack' \in Layers
  BY CoreTypes, ServerTypes DEF LayerTypes
<1>2. Len(stack) \in Nat /\ DOMAIN stack = 1 .. Len(stack)
  BY <1>1, StackIsSeq
<1>3. CASE \E f \in Frames : Opened(f)
  BY <1>1, <1>3, StackOpened
<1>4. CASE Committed \/ CommitRejected \/ RolledBack
  BY <1>4, StackEmptied
<1>5. ASSUME NEW f \in Frames, SavepointCloses(f)
      PROVE  StackInv'
  <2> DEFINE n == Len(stack')
  <2>1. /\ link = "up" /\ Layer(f) \in 1 .. Len(stack)
        /\ \A g : ~Opened(g)
        /\ \A g \in Frames : Kind[g] = "transaction" /\ phase'[g] \in {"open", "closing"} =>
              OnStack(g) /\ Layer(g) < Layer(f)
    BY <1>2, <1>5, ClosesFacts
  <2>2. n \in {Layer(f) - 1, Layer(f)} /\ LowestStay(n)
    <3>1. CASE SavepointReleased(f) /\ OnStack(f) /\ ~aborted
      <4>1. stack' = ReleasedFrom(Layer(f))
        BY <3>1 DEF SavepointReleased
      <4>2. DOMAIN stack' = 1 .. Layer(f) - 1 /\ \A i \in 1 .. Layer(f) - 1 : stack'[i].frame = stack[i].frame
        BY <1>1, <1>2, <2>1, <4>1, ReleasedFromFacts
      <4>3. n = Layer(f) - 1
        BY <1>1, <2>1, <4>2 DEF Layers
      <4> QED
        BY <1>2, <2>1, <4>2, <4>3 DEF LowestStay
    <3>2. CASE SavepointRolledBack(f) /\ OnStack(f)
      <4>1. stack' = RolledBackTo(Layer(f))
        BY <3>2 DEF SavepointRolledBack
      <4>2. DOMAIN stack' = 1 .. Layer(f) /\ \A i \in 1 .. Layer(f) : stack'[i].frame = stack[i].frame
        BY <1>1, <1>2, <2>1, <4>1, RolledBackToFacts
      <4>3. n = Layer(f)
        BY <1>1, <2>1, <4>2 DEF Layers
      <4> QED
        BY <1>2, <2>1, <4>2, <4>3 DEF LowestStay
    <3> QED
      BY <1>5, <3>1, <3>2 DEF SavepointCloses
  <2>3. \A g \in Frames : Kind[g] = "transaction" /\ phase'[g] \in {"open", "closing"} /\ OnStack(g) => Layer(g) <= n
    <3> SUFFICES ASSUME NEW g \in Frames, Kind[g] = "transaction", phase'[g] \in {"open", "closing"}
                 PROVE  Layer(g) <= n
      OBVIOUS
    <3>1. Layer(g) < Layer(f) /\ Layer(g) \in 1 .. Len(stack)
      BY <1>2, <2>1, LayerFacts
    <3> QED
      BY <1>2, <2>1, <2>2, <3>1
  <2> QED
    BY <1>1, <2>1, <2>2, <2>3, StackKept
<1>6. ASSUME link = "up", ~ \E f \in Frames : Opened(f), LowestStay(Len(stack))
      PROVE  StackInv'
  <2>1. \A g \in Frames : OnStack(g) => Layer(g) <= Len(stack)
    BY <1>2, LayerFacts
  <2> QED
    BY <1>1, <1>6, <2>1, StackKept
<1>7. ASSUME NEW k \in Flows, WorkDone(k), InTime(k)
      PROVE  StackInv'
  <2>1. link = "up" /\ Next1(k) /\ stack' = Works({via[k]}) /\ via[k] \in Frames
    BY <1>7 DEF WorkDone, Core, TypeOK
  <2>2. \A f \in Frames : ~Opened(f)
    BY <2>1, KindsDiffer DEF Opened, Next1
  <2>3. LowestStay(Len(stack))
    BY <1>1, <1>2, <2>1, WorksFacts DEF LowestStay
  <2> QED
    BY <1>6, <2>1, <2>2, <2>3
<1>8. CASE Disconnect
  BY <1>8, TransactionsAssumption DEF Disconnect, StackInv, Spend
<1>9. CASE UNCHANGED <<stack, link>> /\ ~ \E f \in Frames : Opened(f)
  <2>1. LowestStay(Len(stack))
    BY <1>2, <1>9 DEF LowestStay
  <2>2. CASE link = "up"
    BY <1>6, <1>9, <2>1, <2>2
  <2>3. CASE link # "up"
    BY <1>9, <2>3 DEF StackInv
  <2> QED
    BY <2>2, <2>3
<1> QED
  BY <1>3, <1>4, <1>5, <1>7, <1>8, <1>9, ServerSteps DEF ServerStep, SavepointCloses

-----------------------------------------------------------------------------
(* Work *)

InProgress(f) == Kind[f] = "transaction" /\ phase[f] \in {"open", "closing"}

\* The work from the layer of f on is the work done inside f.
Parted(f) == \A i \in DOMAIN stack : \A w \in stack[i].work : Layer(f) <= i <=> f \in Upwards(w)

Tallied == AllWork(stack) = {w \in wrote : Counts(w)} /\ \A f \in Frames : InProgress(f) => Parted(f)

LEMMA WorkInvIs ==
    WorkInv <=> (\A w \in wrote : Entered(w)) /\ (link = "up" /\ OnStack(Top) => Tallied)
  BY DEF WorkInv, Tallied, Parted, InProgress

LEMMA EnteredUpwards ==
    ASSUME Core, NEW w \in Frames, Entered(w), NEW g \in Upwards(w)
    PROVE  Entered(g) /\ g \in Frames
  BY Parents DEF Core, CallInv, Entered, Upwards

LEMMA CountsSame ==
    ASSUME Core, Next, NEW w \in Frames, Entered(w),
           \A g \in Frames : phase[g] = "closing" /\ phase'[g] = "over" => goal'[g] = "commit"
    PROVE  Counts(w)' <=> Counts(w)
<1>1. ASSUME NEW g \in Upwards(w), Kind[g] = "transaction"
      PROVE  (phase'[g] = "over" => goal'[g] = "commit") <=> (phase[g] = "over" => goal[g] = "commit")
  <2>1. Entered(g) /\ g \in Frames
    BY EnteredUpwards
  <2>2. CASE phase[g] = "over"
    BY <2>1, <2>2, Progress
  <2>3. CASE phase[g] \in {"open", "closing"}
    <3>1. phase[g] = "open" => phase'[g] # "over"
      <4>1. Missed(g) => phase[g] # "open"
        BY DEF Missed
      <4> QED
        BY <1>1, <2>1, <4>1, FrameSteps, OneFrame
    <3> QED
      BY <2>1, <2>3, <3>1
  <2> QED
    BY <2>1, <2>2, <2>3 DEF Entered
<1> QED
  BY <1>1 DEF Counts

LEMMA WroteEntered ==
    ASSUME Core, WorkInv, Next
    PROVE  \A w \in wrote' : Entered(w)' /\ w \in Frames
<1>1. \A w \in wrote : Entered(w)' /\ w \in Frames
  BY CoreTypes, Progress DEF WorkInv, LayerTypes
<1>2. ASSUME NEW k \in Flows, WorkDone(k), InTime(k)
      PROVE  wrote' = wrote \cup {via[k]} /\ via[k] \in Frames /\ Entered(via[k])'
  <2>1. wrote' = wrote \cup {via[k]} /\ via[k] \in Frames /\ Entered(via[k])
    BY <1>2 DEF WorkDone, InTime, Active, Entered, Core, TypeOK
  <2>2. via' = via
    BY <1>2 DEF WorkDone
  <2> QED
    BY <2>1, <2>2, Progress DEF Entered
<1>3. ASSUME NEW w \in wrote', w \notin wrote
      PROVE  Entered(w)' /\ w \in Frames
  <2>1. PICK k \in Flows : WorkDone(k) /\ InTime(k)
    BY <1>3, ServerSteps DEF ServerStep, Disconnect, Opened, SavepointReleased, SavepointRolledBack,
       Committed, CommitRejected, RolledBack
  <2>2. w = via[k] /\ via' = via
    BY <1>2, <1>3, <2>1 DEF WorkDone
  <2> QED
    BY <1>2, <2>1, <2>2 DEF Entered
<1> QED
  BY <1>1, <1>3

LEMMA ClosedByServer ==
    ASSUME Core, Next, NEW f \in Frames, Closed(f)
    PROVE  ServerStep
<1>1. closed' # closed
  <2>1. ~closed[f] /\ closed'[f]
    BY DEF Closed, Core, CallInv, TypeOK
  <2> QED
    BY <2>1
<1>2. ASSUME NEW a, Send(a) \/ Refuse(a) \/ CutOff(a) \/ WorkDone(a) \/ WorkFails(a) \/ NotOpened(a)
      PROVE  closed' = closed
  BY <1>2 DEF Send, Refuse, CutOff, CallFails, QueryFails, OpeningFails, CommitFails, RollbackFails,
     WorkDone, WorkFails, NotOpened, frames
<1>3. ASSUME NEW g \in Frames, SavepointReleased(g) \/ SavepointRolledBack(g)
      PROVE  closed' = closed \/ ServerStep
  BY <1>3 DEF SavepointReleased, SavepointRolledBack, CommitFails, RollbackFails, ServerStep
<1>4. ASSUME NEW g \in Frames, Call(g) \/ Enter(g) \/ Ends(g)
      PROVE  closed' = closed
  BY <1>4 DEF Call, Enter, Ends, EndScope, EndTransaction
<1>5. (\E k \in Flows, h \in Frames : Query(k, h)) \/ Begin => closed' = closed
  BY DEF Query, Begin
<1>6. Disconnect \/ Committed \/ CommitRejected \/ RolledBack => ServerStep
  BY DEF ServerStep
<1>7. \A g \in Frames : Opened(g) => ServerStep
  BY DEF ServerStep
<1> QED
  BY <1>1, <1>2, <1>3, <1>4, <1>5, <1>6, <1>7 DEF Next, Answered

\* A step the server takes no part in.
LEMMA WorkUntouched ==
    ASSUME Core, StackInv, WorkInv, Next, ~ServerStep
    PROVE  WorkInv'
<1>1. stack' = stack /\ wrote' = wrote /\ link' = link
  BY ServerSteps
<1>2. SUFFICES ASSUME link = "up", OnStack(Top)
               PROVE  Tallied'
  BY <1>1, WroteEntered DEF WorkInv, Tallied, Parted, InProgress, OnStack
<1>3. Busy' /\ Tallied
  BY <1>1, <1>2, WorkInvIs DEF Busy
<1>4. \A g \in Frames : phase[g] = "closing" => phase'[g] # "over"
  <2> SUFFICES ASSUME NEW g \in Frames, phase[g] = "closing", phase'[g] = "over"
               PROVE  FALSE
    OBVIOUS
  <2>1. FrameStep(g)
    BY FrameSteps, OneFrame
  <2>2. ~Closed(g) /\ ~Dropped(g)
    BY <1>3, ClosedByServer, DroppedIsLast
  <2> QED
    BY <2>1, <2>2 DEF FrameStep, Called, Asked, Enter, Opened, Missed, EndScope, EndTransaction, TurnedBack
<1>5. \A w \in wrote : Counts(w)' <=> Counts(w)
  BY <1>4, CoreTypes, CountsSame DEF WorkInv, LayerTypes
<1>6. AllWork(stack') = {w \in wrote' : Counts(w)'}
  BY <1>1, <1>3, <1>5 DEF Tallied
<1>7. ASSUME NEW f \in Frames, InProgress(f)'
      PROVE  Parted(f)'
  <2>1. ~Opened(f)
    BY DEF ServerStep
  <2>2. InProgress(f)
    BY <1>7, <2>1, StillInProgress DEF InProgress
  <2>3. Parted(f)
    BY <1>3, <2>2 DEF Tallied
  <2> QED
    BY <1>1, <2>3 DEF Parted, Layer
<1> QED
  BY <1>6, <1>7 DEF Tallied

LEMMA WorkIsDone ==
    ASSUME Core, StackInv, WorkInv, Next, NEW k \in Flows, WorkDone(k), InTime(k)
    PROVE  WorkInv'
<1> DEFINE n == Len(stack)
           h == via[k]
<1>1. /\ link = "up" /\ link' = link /\ stack' = Works({h}) /\ wrote' = wrote \cup {h}
      /\ phase' = phase /\ goal' = goal /\ via' = via /\ h \in Frames /\ Next1(k) /\ k \in Acts /\ k \notin Frames
  BY TransactionsAssumption DEF WorkDone, frames, Core, TypeOK, Acts
<1>2. Busy /\ Active(h) /\ Alive(h)
  BY <1>1 DEF Busy, InTime, Active, Alive, Held
<1>3. stack \in Layers /\ {h} \in SUBSET Frames
  BY <1>1, CoreTypes DEF LayerTypes
<1>4. /\ stack' \in Layers /\ DOMAIN stack' = DOMAIN stack /\ DOMAIN stack = 1 .. n /\ n \in Nat
      /\ \A j \in DOMAIN stack : /\ stack'[j].frame = stack[j].frame
                                 /\ j # n => stack'[j].work = stack[j].work
      /\ stack # <<>> => n \in DOMAIN stack /\ stack'[n].work = stack[n].work \cup {h}
  BY <1>1, <1>3, WorksFacts, StackIsSeq
<1>5. Distinct
  BY <1>1, StackInvIs
<1>6. \A f : /\ OnStack(f)' <=> OnStack(f)
             /\ OnStack(f) => Layer(f)' = Layer(f)
  <2>1. LowestStay(n)
    BY <1>4 DEF LowestStay
  <2>2. \A f : OnStack(f) => Layer(f) <= n
    BY <1>4, LayerFacts
  <2> QED
    BY <1>3, <1>5, <2>1, <2>2, LowestLayers
<1>7. SUFFICES ASSUME OnStack(Top)
               PROVE  Tallied'
  BY <1>1, <1>6, WroteEntered DEF WorkInv, Tallied, Parted, InProgress
<1>8. Tallied /\ stack # <<>>
  BY <1>1, <1>7, WorkInvIs DEF OnStack
<1> HIDE DEF n, h
<1>9. Counts(h)
  <2>1. \A g \in Above[h] : Active(g)
    BY <1>1, <1>2, Below
  <2> QED
    BY <1>2, <2>1 DEF Counts, Upwards, Active
<1>10. \A w \in Frames : Counts(w)' <=> Counts(w)
  BY <1>1 DEF Counts
<1>11. AllWork(stack') = AllWork(stack) \cup {h}
  BY <1>4, <1>8 DEF AllWork
<1>12. AllWork(stack') = {w \in wrote' : Counts(w)'}
  <2>1. wrote \subseteq Frames
    BY CoreTypes DEF LayerTypes
  <2> QED
    BY <1>1, <1>8, <1>9, <1>10, <1>11, <2>1 DEF Tallied
<1>13. ASSUME NEW f \in Frames, InProgress(f)'
       PROVE  Parted(f)'
  <2>1. InProgress(f) /\ Parted(f) /\ Active(f)
    BY <1>1, <1>8, <1>13, HeldTransaction DEF InProgress, Tallied
  <2>2. OnStack(f)
    BY <1>1, <1>8, <2>1, StackInvIs DEF Saved, InProgress
  <2>3. f \in Upwards(h)
    <3>1. Sent(k) /\ Live(k) /\ Handle(k) = h
      BY <1>1, WireTail DEF Live, Handle, h
    <3> QED
      BY <2>1, <3>1, NoneBelow
  <2>4. ASSUME NEW i \in DOMAIN stack', NEW w \in stack'[i].work
        PROVE  Layer(f)' <= i <=> f \in Upwards(w)
    <3>1. Layer(f)' = Layer(f) /\ Layer(f) \in DOMAIN stack
      BY <1>6, <2>2, LayerFacts
    <3>2. CASE w \in stack[i].work
      BY <1>4, <2>1, <3>1, <3>2 DEF Parted
    <3>3. CASE w \notin stack[i].work
      <4>1. i = n /\ w = h
        BY <1>4, <1>8, <2>4, <3>3
      <4> QED
        BY <1>4, <2>3, <3>1, <4>1
    <3> QED
      BY <3>2, <3>3
  <2> QED
    BY <2>4 DEF Parted
<1> QED
  BY <1>12, <1>13 DEF Tallied

LEMMA WorkOpened ==
    ASSUME Core, StackInv, WorkInv, Next, NEW f \in Frames, Opened(f)
    PROVE  WorkInv'
<1> DEFINE n == Len(stack)
<1>1. stack \in Layers /\ wrote \subseteq Frames
  BY CoreTypes DEF LayerTypes
<1>2. /\ link = "up" /\ phase[f] = "opening" /\ ~Entered(f) /\ Kind[f] = "transaction"
      /\ f = Top => stack = <<>>
      /\ DOMAIN stack' = 1 .. n + 1
      /\ \A i \in DOMAIN stack : stack'[i] = stack[i]
      /\ stack'[n + 1] = [frame |-> f, work |-> {}]
      /\ OnStack(f)' /\ Layer(f)' = n + 1
      /\ \A g : g # f => /\ OnStack(g)' <=> OnStack(g)
                         /\ OnStack(g) => Layer(g)' = Layer(g)
  BY <1>1, StackOpened
<1>3. n \in Nat /\ DOMAIN stack = 1 .. n
  BY <1>1, StackIsSeq
<1>4. /\ phase' = [phase EXCEPT ![f] = "open"] /\ goal' = goal /\ wrote' = wrote /\ link' = link
      /\ \A g : Opened(g) => g = f
  BY DEF Opened, Next1
<1> HIDE DEF n
<1>5. \A w \in wrote : Entered(w) /\ w \in Frames /\ f \notin Upwards(w)
  <2> SUFFICES ASSUME NEW w \in wrote
               PROVE  Entered(w) /\ w \in Frames /\ f \notin Upwards(w)
    OBVIOUS
  <2>1. Entered(w) /\ w \in Frames
    BY <1>1 DEF WorkInv
  <2> QED
    BY <1>2, <2>1, EnteredUpwards
<1>6. SUFFICES ASSUME OnStack(Top)'
               PROVE  Tallied'
  BY WroteEntered DEF WorkInv, Tallied, Parted, InProgress
<1>7. AllWork(stack) = {w \in wrote : Counts(w)} /\ \A g \in Frames : InProgress(g) => OnStack(g) /\ Parted(g)
  <2>1. CASE f = Top
    <3>1. stack = <<>> /\ AllWork(stack) = {}
      BY <1>2, <2>1 DEF AllWork
    <3>2. wrote = {}
      BY <1>5, <2>1, TopIsAbove
    <3>3. \A g \in Frames : ~InProgress(g)
      <4>1. \A g \in Frames \ {Top} : Top \in Above[g]
        BY TopIsAbove DEF Upwards
      <4> QED
        BY <1>2, <2>1, <4>1 DEF InProgress, Core, CallInv
    <3> QED
      BY <3>1, <3>2, <3>3
  <2>2. CASE f # Top
    <3>1. OnStack(Top)
      BY <1>2, <1>6, <2>2
    <3>2. Tallied /\ stack # <<>>
      BY <1>2, <3>1, WorkInvIs DEF OnStack
    <3> QED
      BY <1>2, <3>2, StackInvIs DEF Tallied, Saved, InProgress
  <2> QED
    BY <2>1, <2>2
<1>8. AllWork(stack') = AllWork(stack)
  BY <1>2, <1>3 DEF AllWork
<1>9. \A w \in wrote : Counts(w)' <=> Counts(w)
  <2>1. \A g \in Frames : phase[g] = "closing" => phase'[g] # "over"
    BY <1>4 DEF Core, TypeOK
  <2> QED
    BY <1>5, <2>1, CountsSame
<1>10. AllWork(stack') = {w \in wrote' : Counts(w)'}
  BY <1>4, <1>7, <1>8, <1>9
<1>11. ASSUME NEW g \in Frames, InProgress(g)'
       PROVE  Parted(g)'
  <2>1. ASSUME NEW i \in DOMAIN stack', NEW w \in stack'[i].work
        PROVE  Layer(g)' <= i <=> g \in Upwards(w)
    <3>1. i \in DOMAIN stack /\ w \in stack[i].work
      <4>1. i # n + 1
        BY <1>2, <2>1
      <4> QED
        BY <1>2, <1>3, <2>1, <4>1
    <3>2. w \in wrote
      BY <1>7, <3>1 DEF AllWork
    <3>3. CASE g = f
      BY <1>2, <1>3, <1>5, <3>1, <3>2, <3>3
    <3>4. CASE g # f
      <4>1. InProgress(g)
        BY <1>4, <1>11, <3>4, StillInProgress DEF InProgress
      <4> QED
        BY <1>2, <1>7, <3>1, <3>4, <4>1 DEF Parted
    <3> QED
      BY <3>3, <3>4
  <2> QED
    BY <2>1 DEF Parted
<1> QED
  BY <1>10, <1>11 DEF Tallied

LEMMA WorkReleased ==
    ASSUME Core, StackInv, WorkInv, Next, NEW f \in Frames, SavepointReleased(f), OnStack(f), ~aborted
    PROVE  WorkInv'
<1> DEFINE l == Layer(f)
           n == Len(stack)
<1>1. stack \in Layers /\ wrote \subseteq Frames /\ n \in Nat /\ DOMAIN stack = 1 .. n
  BY CoreTypes, StackIsSeq DEF LayerTypes
<1>2. /\ f # Top /\ link = "up" /\ l \in 1 .. n
      /\ phase' = [phase EXCEPT ![f] = "over"] /\ Distinct
      /\ \A g \in Frames : Kind[g] = "transaction" /\ phase'[g] \in {"open", "closing"} =>
            g # f /\ phase[g] \in {"open", "closing"} /\ OnStack(g) /\ Layer(g) < l
      /\ OnStack(Top) => Layer(Top) < l
  BY <1>1, ClosesFacts DEF SavepointCloses
<1>3. /\ goal' = goal /\ goal[f] = "commit" /\ wrote' = wrote /\ stack' = ReleasedFrom(l)
  BY DEF SavepointReleased
<1>4. /\ DOMAIN stack' = 1 .. l - 1
      /\ \A j \in 1 .. l - 1 : /\ stack'[j].frame = stack[j].frame
                               /\ j < l - 1 => stack'[j].work = stack[j].work
      /\ l > 1 => stack'[l - 1].work = UNION {stack[j].work : j \in l - 1 .. n}
  BY <1>1, <1>2, <1>3, ReleasedFromFacts
<1> HIDE DEF l, n
<1>5. LowestStay(l - 1)
  BY <1>2, <1>4, <1>1 DEF LowestStay, n
<1>6. \A g : /\ OnStack(g)' <=> OnStack(g) /\ Layer(g) <= l - 1
             /\ OnStack(g)' => Layer(g)' = Layer(g)
  BY <1>1, <1>2, <1>5, LowestLayers
<1>7. SUFFICES ASSUME OnStack(Top)'
               PROVE  Tallied'
  BY WroteEntered DEF WorkInv, Tallied, Parted, InProgress
<1>8. Tallied /\ Layer(Top) \in 1 .. n /\ Layer(Top) < l
  BY <1>1, <1>2, <1>6, <1>7, WorkInvIs, LayerFacts
<1>9. l > 1 /\ l - 1 \in 1 .. n
  BY <1>1, <1>2, <1>8
<1>10. AllWork(stack') = AllWork(stack)
  <2>1. ASSUME NEW i \in 1 .. l - 1, NEW w \in stack'[i].work
        PROVE  \E j \in 1 .. n : w \in stack[j].work
    <3>1. CASE i = l - 1
      <4>1. PICK j \in l - 1 .. n : w \in stack[j].work
        BY <1>4, <1>9, <2>1, <3>1
      <4> QED
        BY <1>9, <4>1
    <3>2. CASE i # l - 1
      BY <1>1, <1>2, <1>4, <2>1, <3>2
    <3> QED
      BY <3>1, <3>2
  <2>2. ASSUME NEW j \in 1 .. n, NEW w \in stack[j].work
        PROVE  \E i \in 1 .. l - 1 : w \in stack'[i].work
    <3>1. CASE j < l - 1
      BY <1>1, <1>2, <1>4, <2>2, <3>1
    <3>2. CASE j >= l - 1
      <4>1. j \in l - 1 .. n
        BY <1>1, <1>2, <3>2
      <4>2. w \in stack'[l - 1].work
        BY <1>4, <1>9, <2>2, <4>1
      <4> QED
        BY <1>2, <1>9, <4>2
    <3> QED
      BY <1>2, <3>1, <3>2
  <2> QED
    BY <1>1, <1>4, <2>1, <2>2 DEF AllWork
<1>11. \A w \in wrote : Counts(w)' <=> Counts(w)
  <2>1. \A g \in Frames : phase[g] = "closing" /\ phase'[g] = "over" => goal'[g] = "commit"
    BY <1>2, <1>3 DEF Core, TypeOK
  <2> QED
    BY <1>1, <2>1, CountsSame DEF WorkInv
<1>12. AllWork(stack') = {w \in wrote' : Counts(w)'}
  BY <1>3, <1>8, <1>10, <1>11 DEF Tallied
<1>13. ASSUME NEW g \in Frames, InProgress(g)'
       PROVE  Parted(g)'
  <2>1. /\ InProgress(g) /\ OnStack(g) /\ Layer(g) < l /\ Layer(g) \in 1 .. n /\ Parted(g)
        /\ Layer(g) <= l - 1
    BY <1>1, <1>2, <1>8, <1>13, LayerFacts DEF InProgress, Tallied
  <2>2. Layer(g)' = Layer(g)
    BY <1>6, <2>1
  <2>3. ASSUME NEW i \in DOMAIN stack', NEW w \in stack'[i].work
        PROVE  Layer(g)' <= i <=> g \in Upwards(w)
    <3>1. CASE i = l - 1
      <4>1. PICK j \in l - 1 .. n : w \in stack[j].work
        BY <1>4, <1>9, <2>3, <3>1
      <4>2. j \in DOMAIN stack /\ Layer(g) <= j
        BY <1>1, <1>9, <2>1, <4>1
      <4> QED
        BY <2>1, <2>2, <3>1, <4>1, <4>2 DEF Parted
    <3>2. CASE i # l - 1
      <4>1. i \in DOMAIN stack /\ w \in stack[i].work
        BY <1>1, <1>2, <1>4, <2>3, <3>2
      <4> QED
        BY <2>1, <2>2, <4>1 DEF Parted
    <3> QED
      BY <3>1, <3>2
  <2> QED
    BY <2>3 DEF Parted
<1> QED
  BY <1>12, <1>13 DEF Tallied

LEMMA WorkRolledBack ==
    ASSUME Core, StackInv, WorkInv, Next, NEW f \in Frames, SavepointRolledBack(f), OnStack(f)
    PROVE  WorkInv'
<1> DEFINE l == Layer(f)
           n == Len(stack)
<1>1. stack \in Layers /\ wrote \subseteq Frames /\ n \in Nat /\ DOMAIN stack = 1 .. n
  BY CoreTypes, StackIsSeq DEF LayerTypes
<1>2. /\ f # Top /\ link = "up" /\ l \in 1 .. n /\ phase[f] = "closing" /\ Kind[f] = "transaction"
      /\ phase' = [phase EXCEPT ![f] = "over"] /\ Distinct
      /\ \A g \in Frames : Kind[g] = "transaction" /\ phase'[g] \in {"open", "closing"} =>
            g # f /\ phase[g] \in {"open", "closing"} /\ OnStack(g) /\ Layer(g) < l
  BY <1>1, ClosesFacts DEF SavepointCloses
<1>3. /\ goal' = goal /\ goal[f] = "rollback" /\ wrote' = wrote /\ stack' = RolledBackTo(l)
  BY DEF SavepointRolledBack
<1>4. /\ DOMAIN stack' = 1 .. l
      /\ \A j \in 1 .. l : /\ stack'[j].frame = stack[j].frame
                           /\ j < l => stack'[j].work = stack[j].work
      /\ stack'[l].work = {}
  BY <1>1, <1>2, <1>3, RolledBackToFacts
<1> HIDE DEF l, n
<1>5. LowestStay(l)
  BY <1>2, <1>4, <1>1 DEF LowestStay, n
<1>6. \A g : /\ OnStack(g)' <=> OnStack(g) /\ Layer(g) <= l
             /\ OnStack(g)' => Layer(g)' = Layer(g)
  BY <1>1, <1>2, <1>5, LowestLayers
<1>7. SUFFICES ASSUME OnStack(Top)'
               PROVE  Tallied'
  BY WroteEntered DEF WorkInv, Tallied, Parted, InProgress
<1>8. Tallied /\ InProgress(f) /\ Parted(f)
  BY <1>2, <1>6, <1>7, WorkInvIs DEF Tallied, InProgress
<1>9. AllWork(stack') = {w \in AllWork(stack) : f \notin Upwards(w)}
  <2>1. ASSUME NEW i \in 1 .. l, NEW w \in stack'[i].work
        PROVE  i \in DOMAIN stack /\ w \in stack[i].work /\ f \notin Upwards(w)
    <3>1. i < l
      BY <1>2, <1>4, <2>1
    <3>2. i \in DOMAIN stack /\ w \in stack[i].work
      BY <1>1, <1>2, <1>4, <2>1, <3>1
    <3> QED
      BY <1>2, <1>8, <3>1, <3>2 DEF Parted, l
  <2>2. ASSUME NEW i \in DOMAIN stack, NEW w \in stack[i].work, f \notin Upwards(w)
        PROVE  i \in 1 .. l /\ w \in stack'[i].work
    <3>1. ~(l <= i)
      BY <1>8, <2>2 DEF Parted, l
    <3>2. i \in 1 .. l /\ i < l
      BY <1>1, <1>2, <3>1
    <3> QED
      BY <1>4, <2>2, <3>2
  <2> QED
    BY <1>4, <2>1, <2>2 DEF AllWork
<1>10. \A w \in wrote : Counts(w)' <=> Counts(w) /\ f \notin Upwards(w)
  <2> SUFFICES ASSUME NEW w \in wrote
               PROVE  Counts(w)' <=> Counts(w) /\ f \notin Upwards(w)
    OBVIOUS
  <2>1. /\ f \in DOMAIN phase /\ phase'[f] = "over" /\ goal'[f] = "rollback"
        /\ \A g \in Frames \ {f} : phase'[g] = phase[g]
    BY <1>2, <1>3 DEF Core, TypeOK
  <2>2. \A g \in Upwards(w) : g \in Frames
    BY <1>1, Parents DEF Upwards
  <2> QED
    BY <1>2, <1>3, <2>1, <2>2 DEF Counts
<1>11. AllWork(stack') = {w \in wrote' : Counts(w)'}
  BY <1>3, <1>8, <1>9, <1>10 DEF Tallied
<1>12. ASSUME NEW g \in Frames, InProgress(g)'
       PROVE  Parted(g)'
  <2>1. /\ InProgress(g) /\ OnStack(g) /\ Layer(g) < l /\ Layer(g) \in 1 .. n /\ Parted(g)
        /\ Layer(g) <= l
    BY <1>1, <1>2, <1>8, <1>12, LayerFacts DEF InProgress, Tallied
  <2>2. Layer(g)' = Layer(g)
    BY <1>6, <2>1
  <2>3. ASSUME NEW i \in DOMAIN stack', NEW w \in stack'[i].work
        PROVE  Layer(g)' <= i <=> g \in Upwards(w)
    <3>1. i < l
      BY <1>2, <1>4, <2>3
    <3>2. i \in DOMAIN stack /\ w \in stack[i].work
      BY <1>1, <1>2, <1>4, <2>3, <3>1
    <3> QED
      BY <2>1, <2>2, <3>2 DEF Parted
  <2> QED
    BY <2>3 DEF Parted
<1> QED
  BY <1>11, <1>12 DEF Tallied

LEMMA WorkStep ==
    ASSUME Core, StackInv, WorkInv, Next
    PROVE  WorkInv'
<1>1. CASE ~ServerStep
  BY <1>1, WorkUntouched
<1>2. CASE Disconnect
  <2>1. link' # "up"
    BY <1>2 DEF Disconnect
  <2> QED
    BY <2>1, WroteEntered DEF WorkInv
<1>3. CASE Committed \/ CommitRejected \/ RolledBack
  <2>1. ~OnStack(Top)'
    BY <1>3, StackEmptied DEF OnStack
  <2> QED
    BY <2>1, WroteEntered DEF WorkInv
<1> QED
  BY <1>1, <1>2, <1>3, WorkIsDone, WorkOpened, WorkReleased, WorkRolledBack DEF ServerStep

-----------------------------------------------------------------------------
(* What is durable *)

CommitReported == phase[Top] = "over" /\ goal[Top] = "commit"

LEMMA ReportedByCommit ==
    ASSUME Core, Next, CommitReported', ~CommitReported
    PROVE  Committed
<1>1. Top \in DOMAIN phase /\ Top \in DOMAIN goal /\ Top \in DOMAIN closed /\ Kind[Top] = "transaction" /\ Top \in Frames
  BY TopIsFrame DEF Core, TypeOK
<1>2. phase[Top] # "over" /\ phase'[Top] = "over" /\ goal'[Top] = "commit"
  BY <1>1, Progress DEF CommitReported
<1>3. FrameStep(Top)
  BY <1>1, <1>2, FrameSteps, OneFrame
<1>4. Closed(Top)
  <2>1. phase[Top] \in {"none", "waiting", "opening", "open"} => goal[Top] = "none"
    BY <1>1 DEF Core, CallInv
  <2> QED
    BY <1>1, <1>2, <1>3, <2>1 DEF FrameStep, Called, Asked, Enter, Opened, Missed, EndScope, EndTransaction,
       TurnedBack, Dropped, Becomes
<1>5. closed'[Top] /\ ~closed[Top]
  BY <1>1, <1>4 DEF Closed, Core, CallInv
<1>6. ServerStep
  BY <1>1, <1>4, ClosedByServer
<1>7. ~Disconnect /\ ~CommitRejected /\ \A k : ~WorkDone(k) /\ ~Opened(k)
  BY <1>5 DEF Disconnect, CommitRejected, CommitFails, WorkDone, Opened, frames
<1>8. \A f \in Frames : ~SavepointReleased(f) /\ ~SavepointRolledBack(f)
  BY <1>1, <1>5 DEF SavepointReleased, SavepointRolledBack, CommitFails, RollbackFails
<1>9. ~RolledBack
  BY <1>2 DEF RolledBack
<1> QED
  BY <1>6, <1>7, <1>8, <1>9 DEF ServerStep

\* Once the commit was reported nothing changes any more.
LEMMA NothingAfterCommit ==
    ASSUME Core, WorkInv, DurableInv, Next, CommitReported
    PROVE  /\ CommitReported' /\ closed'[Top] /\ durable' = durable /\ wrote' = wrote
           /\ \A f \in Frames : Kind[f] = "transaction" => ~Held(f)'
           /\ \A w \in wrote : Kept(w)' <=> Kept(w)
<1>1. /\ closed[Top] /\ \A f \in Frames : Kind[f] = "transaction" => ~Held(f)
      /\ phase[Top] = "over" /\ goal[Top] = "commit" /\ Top \in Frames /\ Kind[Top] = "transaction"
  BY TopIsFrame DEF DurableInv, CommitReported
<1>2. CommitReported' /\ closed'[Top]
  BY <1>1, Progress DEF CommitReported
<1>3. ASSUME NEW f \in Frames, Kind[f] = "transaction", Held(f)'
      PROVE  FALSE
  <2>1. FrameStep(f) /\ ~Held(f)
    BY <1>1, <1>3, FrameSteps, OneFrame DEF Held
  <2>2. f # Top
    BY <1>1, <1>3, Progress DEF Held
  <2>3. Asked(f)
    BY <1>3, <2>1, <2>2 DEF FrameStep, Called, Enter, Opened, Missed, EndScope, EndTransaction,
       TurnedBack, Dropped, Closed, Becomes, Held, Core, TypeOK
  <2>4. Top \in Above[f] /\ Owner(f) = f
    BY <1>3, <2>2, TopIsAbove, OwnerIsInnermost DEF Upwards
  <2>5. ClosedAbove(f)
    BY <1>1, <2>4 DEF ClosedAbove
  <2> QED
    BY <2>3, <2>5 DEF Asked, Refused
<1>4. ASSUME NEW k \in Flows, WorkDone(k), InTime(k)
      PROVE  FALSE
  <2>1. Busy /\ Active(via[k]) /\ via[k] \in Frames
    BY <1>4 DEF WorkDone, Busy, InTime, Core, TypeOK
  <2>2. via[k] # Top
    BY <1>1, <2>1 DEF Active
  <2>3. Top \in Above[via[k]] /\ Alive(via[k])
    BY <2>1, <2>2, TopIsAbove DEF Upwards, Active, Alive, Held
  <2>4. Active(Top)
    BY <2>1, <2>3, Below
  <2> QED
    BY <1>1, <2>4 DEF Active
<1>5. durable' = durable /\ wrote' = wrote
  <2>1. ~Committed /\ ~CommitRejected /\ ~RolledBack
    BY <1>1 DEF Committed, CommitRejected, RolledBack
  <2>2. ASSUME Disconnect
        PROVE  durable' = durable /\ wrote' = wrote
    <3>1. ~Sent(Top)
      BY <1>1, SentHasTurn DEF Acts
    <3>2. ~(wire # <<>> /\ Head(wire) = Top)
      BY <1>1, <3>1, HeadIsSent DEF Acts, Core
    <3> QED
      BY <2>2, <3>2 DEF Disconnect
  <2>3. \A f \in Frames : Opened(f) \/ SavepointReleased(f) \/ SavepointRolledBack(f) => durable' = durable /\ wrote' = wrote
    BY DEF Opened, SavepointReleased, SavepointRolledBack
  <2> QED
    BY <1>4, <2>1, <2>2, <2>3, ServerSteps DEF ServerStep
<1>6. ASSUME NEW w \in wrote
      PROVE  Kept(w)' <=> Kept(w)
  <2>1. ASSUME NEW g \in Upwards(w), Kind[g] = "transaction"
        PROVE  goal'[g] = goal[g]
    <3>1. w \in Frames /\ Entered(w)
      BY CoreTypes DEF WorkInv, LayerTypes
    <3>2. Entered(g) /\ g \in Frames
      BY <3>1, EnteredUpwards
    <3>3. phase[g] = "over"
      BY <1>1, <2>1, <3>2 DEF Entered, Held
    <3> QED
      BY <3>2, <3>3, Progress
  <2> QED
    BY <2>1 DEF Kept
<1> QED
  BY <1>2, <1>3, <1>5, <1>6

\* The commit makes exactly the work durable of which every transaction around was committed.
LEMMA CommitIsWhole ==
    ASSUME Core, StackInv, WorkInv, DurableInv, Next, Committed
    PROVE  DurableInv'
<1>1. /\ link = "up" /\ phase[Top] = "closing" /\ goal[Top] = "commit" /\ HasTurn(Top)
      /\ Top \in Frames /\ Kind[Top] = "transaction" /\ Busy
  BY TopIsFrame, AnswerHasTurn DEF Committed, Busy
<1>2. /\ Top \in DOMAIN phase /\ Top \in DOMAIN goal /\ Top \in DOMAIN closed
  BY <1>1 DEF Core, TypeOK
<1>3. /\ phase' = [phase EXCEPT ![Top] = "over"] /\ closed'[Top] /\ link' = link /\ wrote' = wrote
      /\ goal' = [goal EXCEPT ![Top] = CommitOutcome]
      /\ durable' = IF aborted THEN durable ELSE durable \cup AllWork(stack)
  BY <1>2 DEF Committed, Leaves
<1>4. durable = {}
  BY <1>1 DEF DurableInv
<1>5. CASE aborted
  BY <1>2, <1>3, <1>4, <1>5 DEF DurableInv, CommitOutcome
<1>6. CASE ~aborted
  <2>1. phase'[Top] = "over" /\ goal'[Top] = "commit" /\ goal' = goal /\ durable' = AllWork(stack)
    BY <1>1, <1>2, <1>3, <1>4, <1>6 DEF CommitOutcome, Core, TypeOK
  <2>2. \A f \in Frames : Kind[f] = "transaction" /\ Held(f) => f = Top
    BY <1>1, AroundClosing, TransactionsAssumption DEF Upwards
  <2>3. \A f \in Frames : Kind[f] = "transaction" => ~Held(f)'
    BY <1>2, <1>3, <2>2 DEF Held, Core, TypeOK
  <2>4. OnStack(Top)
    BY <1>1, StackInvIs DEF Saved
  <2>5. AllWork(stack) = {w \in wrote : Counts(w)}
    BY <1>1, <2>4, WorkInvIs DEF Tallied
  <2>6. ASSUME NEW w \in wrote
        PROVE  Counts(w) <=> Kept(w)'
    <3>1. ASSUME NEW g \in Upwards(w), Kind[g] = "transaction"
          PROVE  (phase[g] = "over" => goal[g] = "commit") <=> goal'[g] = "commit"
      <4>1. w \in Frames /\ Entered(w)
        BY CoreTypes DEF WorkInv, LayerTypes
      <4>2. Entered(g) /\ g \in Frames
        BY <4>1, EnteredUpwards
      <4>3. g = Top \/ phase[g] = "over"
        BY <2>2, <3>1, <4>2 DEF Entered, Held
      <4> QED
        BY <1>1, <2>1, <4>3
    <3> QED
      BY <3>1 DEF Counts, Kept
  <2>7. durable' = {w \in wrote' : Kept(w)'}
    BY <1>3, <2>1, <2>5, <2>6
  <2> QED
    BY <1>3, <2>1, <2>3, <2>7 DEF DurableInv
<1> QED
  BY <1>5, <1>6

LEMMA DurableStep ==
    ASSUME Core, StackInv, WorkInv, DurableInv, Next
    PROVE  DurableInv'
<1>1. CASE Committed
  BY <1>1, CommitIsWhole
<1>2. CASE ~Committed /\ CommitReported
  BY <1>2, NothingAfterCommit DEF DurableInv, CommitReported
<1>3. CASE ~Committed /\ ~CommitReported
  <2>1. ~CommitReported'
    BY <1>3, ReportedByCommit
  <2>2. durable' # {} => link' = "lost"
    <3>1. durable # {} => link = "lost"
      BY <1>3 DEF DurableInv, CommitReported
    <3>2. ASSUME Disconnect
          PROVE  durable' # {} => link' = "lost"
      <4>1. link = "up"
        BY <3>2 DEF Disconnect
      <4> QED
        BY <3>1, <3>2, <4>1 DEF Disconnect
    <3>3. \A k \in Flows : WorkDone(k) => durable' = durable /\ link' = link
      BY DEF WorkDone
    <3>4. \A f \in Frames : Opened(f) \/ SavepointReleased(f) \/ SavepointRolledBack(f) => durable' = durable /\ link' = link
      BY DEF Opened, SavepointReleased, SavepointRolledBack
    <3>5. CommitRejected \/ RolledBack => durable' = durable /\ link' = link
      BY DEF CommitRejected, RolledBack
    <3> QED
      BY <1>3, <3>1, <3>2, <3>3, <3>4, <3>5, ServerSteps DEF ServerStep
  <2> QED
    BY <2>1, <2>2 DEF DurableInv, CommitReported
<1> QED
  BY <1>1, <1>2, <1>3

-----------------------------------------------------------------------------
(* The invariant, and the theorems *)

LEMMA TransInit == Init => TransInv
<1> SUFFICES ASSUME Init
             PROVE  TransInv
  OBVIOUS
<1>1. \A f \in Frames : phase[f] = "none" /\ goal[f] = "none" /\ ~closed[f] /\ lock[f] = <<>>
  BY DEF Init
<1>2. \A a : ~Sent(a)
  BY DEF Init, Sent
<1>3. TypeOK
  <2>1. lock \in [Frames -> Seq(Frames \cup Flows)] /\ wire \in Seq(Frames \cup Flows)
    BY DEF Init
  <2>2. stack \in Seq([frame: Frames, work: SUBSET Frames])
    BY DEF Init
  <2>3. issued \in [Flows -> 0 .. MaxStatements] /\ left \in 0 .. MaxTroubles
    BY TransactionsAssumption DEF Init
  <2>4. via \in [Flows -> Frames]
    BY TransactionsAssumption DEF Init
  <2> QED
    BY <2>1, <2>2, <2>3, <2>4 DEF Init, TypeOK
<1>4. LockInv
  BY <1>1 DEF LockInv, Once, In, Held
<1>5. WireInv
  BY <1>2 DEF WireInv, Once, Init
<1>6. CallInv
  BY <1>1, TopIsFrame DEF CallInv, Init
<1>7. ChainInv
  BY <1>1 DEF ChainInv, Alive, Held
<1>8. StackInv
  BY <1>1 DEF StackInv, SavepointsNested, Init
<1>9. WorkInv
  BY DEF WorkInv, OnStack, Init
<1>10. DurableInv
  BY <1>1, TopIsFrame DEF DurableInv, Init
<1> QED
  BY <1>3, <1>4, <1>5, <1>6, <1>7, <1>8, <1>9, <1>10 DEF TransInv

LEMMA TransStep == TransInv /\ [Next]_vars => TransInv'
<1>1. ASSUME TransInv, UNCHANGED vars
      PROVE  TransInv'
  <2>1. UNCHANGED <<lock, phase, goal, closed, failedIn, busy, via, issued, wire, link, stack, aborted, durable, wrote, stray, left>>
    BY <1>1 DEF vars, frames, flows, server
  <2>2. TypeOK'
    BY <1>1, <2>1 DEF TransInv, TypeOK
  <2>3. LockInv'
    BY <1>1, <2>1 DEF TransInv, LockInv, Once, In, Wants, Held
  <2>4. WireInv'
    BY <1>1, <2>1 DEF TransInv, WireInv, Once, Sent, HasTurn, Handle
  <2>5. CallInv'
    BY <1>1, <2>1 DEF TransInv, CallInv, Entered
  <2>6. ChainInv'
    BY <1>1, <2>1 DEF TransInv, ChainInv, Busy, LiveSent, Live, InTime, Sent, Alive, Held, Active, IsClosed
  <2>7. StackInv'
    <3>1. (\A f : Entered(f)' <=> Entered(f)) /\ SavepointsNested' = SavepointsNested
      BY <2>1 DEF Entered, SavepointsNested, OnStack, Layer
    <3> QED
      BY <1>1, <2>1, <3>1 DEF TransInv, StackInv
  <2>8. WorkInv'
    BY <1>1, <2>1 DEF TransInv, WorkInv, AllWork, Counts, OnStack, Layer, Entered
  <2>9. DurableInv'
    BY <1>1, <2>1 DEF TransInv, DurableInv, Held, Kept
  <2> QED
    BY <2>2, <2>3, <2>4, <2>5, <2>6, <2>7, <2>8, <2>9 DEF TransInv
<1>2. ASSUME TransInv, Next
      PROVE  TransInv'
  <2>1. Core
    BY <1>2 DEF TransInv, Core
  <2>2. StackInv /\ WorkInv /\ DurableInv
    BY <1>2 DEF TransInv
  <2>3. LockInv'
    BY <1>2, <2>1, MutexSteps DEF MutexesHold
  <2> QED
    BY <1>2, <2>1, <2>2, <2>3, TypeStep, WireStep, CallStep, ChainStep, StackStep, WorkStep, DurableStep DEF TransInv
<1> QED
  BY <1>1, <1>2

\* What a connection's mutexes, frames and statements are, with the server's layers and the
\* work they enclose, holds however transactions and scopes are nested, whatever their
\* callbacks do in parallel and whichever of them are abandoned.
THEOREM TransInvariant == Spec => []TransInv
<1> QED
  BY TransInit, TransStep, PTL DEF Spec

\* The state stays within its types.
THEOREM TransactionsTypeCorrect == Spec => []TypeOK
<1>1. TransInv => TypeOK
  BY DEF TransInv
<1> QED
  BY <1>1, TransInvariant, PTL

\* The mutex that each connection hands out makes parallel nested transactions and scopes
\* take turns: what runs while a frame is open belongs to it or to a frame inside it.
THEOREM StatementsTakeTurns == Spec => []Serialized
<1>1. TransInv => Serialized
  BY TakeTurns DEF TransInv, Core
<1> QED
  BY <1>1, TransInvariant, PTL

\* Whichever nested transactions were released, rolled back or abandoned before, the
\* RELEASE or ROLLBACK TO of one finds its savepoint, above those of the outer ones.
THEOREM SavepointsNest == Spec => []SavepointsNested
<1>1. TransInv => SavepointsNested
  BY DEF TransInv, StackInv, SavepointsNested
<1> QED
  BY <1>1, TransInvariant, PTL

\* Once executeTransaction reports a commit, what is durable is the work of the nested
\* transactions that reported theirs, whole; unless the answer to the COMMIT was lost, a
\* transaction that was not reported as committed has left nothing.
THEOREM CommitIsAllOrNothing == Spec => []AllOrNothing
<1>1. TransInv => AllOrNothing
  BY DEF TransInv, DurableInv, AllOrNothing, Kept
<1> QED
  BY <1>1, TransInvariant, PTL
=============================================================================
