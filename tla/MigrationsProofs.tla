------------------------- MODULE MigrationsProofs -------------------------
(***************************************************************************)
(* Proofs about Migrations, for any callers, migrations and operations.    *)
(***************************************************************************)
EXTENDS Migrations, FiniteSetTheorems, SequenceTheorems, TLAPS

-----------------------------------------------------------------------------
\* Sets of versions in ascending order.

LEMMA RankFacts ==
    ASSUME NEW S \in SUBSET Nat, IsFiniteSet(S), NEW v \in S
    PROVE  /\ Rank(v, S) \in 1 .. Cardinality(S)
           /\ \A w \in S : v < w => Rank(v, S) < Rank(w, S)
<1> DEFINE Upto(w) == {x \in S : x <= w}
<1>1. \A w : IsFiniteSet(Upto(w)) /\ Cardinality(Upto(w)) \in Nat /\ Cardinality(Upto(w)) <= Cardinality(S)
      BY FS_Subset, FS_CardinalityType
<1>2. Cardinality(S) \in Nat
      BY FS_CardinalityType
<1>3. Upto(v) # {}
      OBVIOUS
<1>4. Cardinality(Upto(v)) # 0
      BY <1>1, <1>3, FS_EmptySet
<1>5. ASSUME NEW w \in S, v < w
      PROVE  Cardinality(Upto(v)) < Cardinality(Upto(w))
  <2>0. v \in Nat /\ w \in Nat /\ \A x \in S : x \in Nat
        OBVIOUS
  <2>1. w \notin Upto(v) /\ Upto(v) \cup {w} \subseteq Upto(w)
    <3>1. w \in Upto(w) /\ w \notin Upto(v)
          BY <1>5, <2>0
    <3>2. \A x \in Upto(v) : x \in Upto(w)
          BY <1>5, <2>0
    <3>3. QED
          BY <3>1, <3>2
  <2>2. Cardinality(Upto(v) \cup {w}) = Cardinality(Upto(v)) + 1
        BY <1>1, <2>1, FS_AddElement
  <2>3. Cardinality(Upto(v) \cup {w}) <= Cardinality(Upto(w))
        BY <1>1, <2>1, FS_Subset
  <2>4. QED
        BY <1>1, <2>2, <2>3
<1>6. QED
      BY <1>1, <1>2, <1>4, <1>5 DEF Rank

\* Every position of Sorted(S) holds the version of that rank.
LEMMA SortedFacts ==
    ASSUME NEW S \in SUBSET Nat, IsFiniteSet(S)
    PROVE  /\ Cardinality(S) \in Nat
           /\ Sorted(S) \in [1 .. Cardinality(S) -> S]
           /\ \A i \in 1 .. Cardinality(S) : Rank(Sorted(S)[i], S) = i
           /\ \A v \in S : Rank(v, S) \in 1 .. Cardinality(S) /\ Sorted(S)[Rank(v, S)] = v
<1> DEFINE n == Cardinality(S)
           f == [v \in S |-> Rank(v, S)]
<1>1. n \in Nat
      BY FS_CardinalityType
<1>2. \A v \in S : Rank(v, S) \in 1 .. n
      BY RankFacts
<1>3. \A v, w \in S : Rank(v, S) = Rank(w, S) => v = w
  <2> SUFFICES ASSUME NEW v \in S, NEW w \in S, Rank(v, S) = Rank(w, S)
               PROVE  v = w
      OBVIOUS
  <2>1. ~(v < w) /\ ~(w < v)
        BY <1>1, <1>2, RankFacts
  <2>2. QED
        BY <2>1
<1>4. f \in Injection(S, 1 .. n)
      BY <1>2, <1>3 DEF Injection, IsInjective
<1>5. IsFiniteSet(1 .. n) /\ Cardinality(1 .. n) = n
      BY <1>1, FS_Interval
<1>6. f \in Surjection(S, 1 .. n)
      BY <1>4, <1>5, FS_Injection
<1>7. \A i \in 1 .. n : \E v \in S : Rank(v, S) = i
      BY <1>6 DEF Surjection
<1>8. \A i \in 1 .. n : Sorted(S)[i] \in S /\ Rank(Sorted(S)[i], S) = i
      BY <1>7 DEF Sorted
<1>9. Sorted(S) \in [1 .. n -> S]
      BY <1>8 DEF Sorted
<1>10. QED
      BY <1>1, <1>2, <1>3, <1>8, <1>9


\* Two sets one after the other.
LEMMA SortedUnion ==
    ASSUME NEW S \in SUBSET Nat, IsFiniteSet(S), NEW T \in SUBSET Nat, IsFiniteSet(T),
           \A s \in S, t \in T : s < t
    PROVE  /\ Cardinality(S \cup T) = Cardinality(S) + Cardinality(T)
           /\ \A i \in 1 .. Cardinality(S) + Cardinality(T) :
                 Sorted(S \cup T)[i] =
                    IF i <= Cardinality(S) THEN Sorted(S)[i] ELSE Sorted(T)[i - Cardinality(S)]
<1> DEFINE n == Cardinality(S)
           m == Cardinality(T)
           U == S \cup T
<1>0. n \in Nat /\ m \in Nat
      BY FS_CardinalityType
<1>1. S \cap T = {} /\ U \in SUBSET Nat
      OBVIOUS
<1>2. IsFiniteSet(U) /\ Cardinality(U) = n + m
  <2>1. Cardinality(S \cap T) = 0
        BY <1>1, FS_EmptySet
  <2>2. IsFiniteSet(U) /\ Cardinality(U) = Cardinality(S) + Cardinality(T) - Cardinality(S \cap T)
        BY FS_Union, Zenon
  <2>3. QED
        BY <1>0, <2>1, <2>2
<1>3. \A s \in S : Rank(s, U) = Rank(s, S)
  <2> TAKE s \in S
  <2>1. \A w \in T : s \in Nat /\ w \in Nat /\ ~(w <= s)
        OBVIOUS
  <2>2. {w \in U : w <= s} = {w \in S : w <= s}
        BY <2>1
  <2>3. QED
        BY <2>2 DEF Rank
<1>4. \A t \in T : Rank(t, U) = n + Rank(t, T)
  <2> TAKE t \in T
  <2>0. \A w \in S : t \in Nat /\ w \in Nat /\ w <= t
        OBVIOUS
  <2>1. {w \in U : w <= t} = S \cup {w \in T : w <= t}
        BY <2>0
  <2>2. PICK V \in SUBSET T : V = {w \in T : w <= t}
        OBVIOUS
  <2>3. IsFiniteSet(V) /\ Cardinality(V) \in Nat
        BY FS_Subset, FS_CardinalityType
  <2>4. S \cap V = {} /\ Cardinality(S \cap V) = 0
        BY <1>1, FS_EmptySet
  <2>5. Cardinality(S \cup V) = Cardinality(S) + Cardinality(V) - Cardinality(S \cap V)
        BY <2>3, FS_Union, Zenon
  <2>6. Cardinality(S \cup V) = n + Cardinality(V)
        BY <1>0, <2>3, <2>4, <2>5
  <2>7. QED
        BY <2>1, <2>2, <2>6 DEF Rank
<1>5. ASSUME NEW i \in 1 .. n + m
      PROVE  Sorted(U)[i] = IF i <= n THEN Sorted(S)[i] ELSE Sorted(T)[i - n]
  <2>1. CASE i <= n
    <3>1. Sorted(S)[i] \in S /\ Rank(Sorted(S)[i], S) = i
          BY <1>0, <2>1, SortedFacts
    <3>2. Sorted(S)[i] \in U /\ Rank(Sorted(S)[i], U) = i
          BY <1>3, <3>1
    <3>3. \A v \in U : Sorted(U)[Rank(v, U)] = v
          BY <1>1, <1>2, SortedFacts
    <3>4. QED
          BY <2>1, <3>2, <3>3
  <2>2. CASE i > n
    <3>1. i - n \in 1 .. m
          BY <1>0, <2>2
    <3>2. Sorted(T)[i - n] \in T /\ Rank(Sorted(T)[i - n], T) = i - n
          BY <3>1, SortedFacts
    <3>3. Sorted(T)[i - n] \in U /\ Rank(Sorted(T)[i - n], U) = i
      <4>1. Rank(Sorted(T)[i - n], U) = n + (i - n)
            BY <1>4, <3>2
      <4>2. n + (i - n) = i
            BY <1>0
      <4>3. QED
            BY <3>2, <4>1, <4>2
    <3>4. \A v \in U : Sorted(U)[Rank(v, U)] = v
          BY <1>1, <1>2, SortedFacts
    <3>5. QED
      <4>1. ~(i <= n)
            BY <1>0, <2>2
      <4>2. QED
            BY <3>3, <3>4, <4>1
  <2>3. QED
        BY <1>0, <2>1, <2>2
<1>6. QED
      BY <1>2, <1>5

\* The last version of a set, or 0.
LEMMA NewestFacts ==
    ASSUME NEW S \in SUBSET Nat, IsFiniteSet(S)
    PROVE  Newest(S) \in S \cup {0} /\ \A w \in S : w <= Newest(S)
<1>1. \E v \in S \cup {0} : \A w \in S : w <= v
  <2>1. CASE S = {}
        BY <2>1
  <2>2. CASE S # {}
    <3>1. Cardinality(S) \in 1 .. Cardinality(S)
          BY <2>2, FS_EmptySet, FS_CardinalityType
    <3>2. PICK v \in S : Rank(v, S) = Cardinality(S)
          BY <3>1, SortedFacts
    <3>3. \A w \in S : ~(v < w)
          BY <3>2, RankFacts, SortedFacts
    <3>4. QED
          BY <3>3
  <2>3. QED
        BY <2>1, <2>2
<1>2. QED
      BY <1>1 DEF Newest

LEMMA NewestIs ==
    ASSUME NEW S \in SUBSET Nat, IsFiniteSet(S), NEW v \in S \cup {0}, \A w \in S : w <= v
    PROVE  Newest(S) = v
<1>1. Newest(S) \in S \cup {0} /\ \A w \in S : w <= Newest(S)
      BY NewestFacts
<1>2. Newest(S) \in Nat /\ v \in Nat
  <2>1. S \cup {0} \in SUBSET Nat
        OBVIOUS
  <2>2. QED
        BY <1>1, <2>1
<1>3. Newest(S) <= v /\ v <= Newest(S)
      BY <1>1, <1>2
<1>4. QED
      BY <1>2, <1>3

-----------------------------------------------------------------------------
\* The inductive invariant.

Working == {"running", "saving", "committing"}

\* A snapshot is never ahead of what is committed; one caller at a time has written the
\* row of schema, from a snapshot that nothing has been committed after.
CallInv ==
    /\ op = [c \in Callers |-> op[c]] /\ plan = [c \in Callers |-> plan[c]]
    /\ \A c \in Callers :
        /\ seen[c] <= commits
        /\ pc[c] = "committing" => seen[c] = commits
    /\ \A c, d \in Callers : pc[c] = "committing" /\ pc[d] = "committing" => c = d

\* What a transaction with a current snapshot will write is what it would plan now.
PlanInv ==
    \A c \in Callers : pc[c] \in Working /\ seen[c] = commits =>
        Accepted(op[c]) /\ ~NothingToDo(op[c]) /\ plan[c] = Planned(op[c])

\* The row of schema has a version as soon as anything is executed, and holds nothing
\* before.
BlankInv ==
    /\ IsFiniteSet(Executed)
    /\ schema.version = 0 <=> Executed = {}
    /\ Executed = {} => schema = Blank
    /\ schema.state = sent

MInv == TypeOK /\ CallInv /\ PlanInv /\ BlankInv /\ SchemaIsReplay /\ TablesMatchSchema

-----------------------------------------------------------------------------
\* What is replayed.

\* The modifications of some rows.
LEMMA ModificationsType ==
    ASSUME NEW rows, NEW S \in SUBSET Nat, IsFiniteSet(S),
           S = {v \in DOMAIN rows : rows[v] \in Entities}
    PROVE  /\ Modifications(rows) \in Seq(Entities)
           /\ Cardinality(S) \in Nat
           /\ Len(Modifications(rows)) = Cardinality(S)
           /\ \A i \in 1 .. Cardinality(S) : Modifications(rows)[i] = rows[Sorted(S)[i]]
<1> DEFINE f == [i \in 1 .. Cardinality(S) |-> rows[Sorted(S)[i]]]
<1>1. Cardinality(S) \in Nat /\ Sorted(S) \in [1 .. Cardinality(S) -> S]
      BY SortedFacts
<1>2. Modifications(rows) = f
      BY <1>1 DEF Modifications
<1>3. f \in [1 .. Cardinality(S) -> Entities]
      BY <1>1
<1>4. f \in Seq(Entities)
      BY <1>1, <1>3, SeqDef
<1>5. Len(f) = Cardinality(S)
      BY <1>1, <1>3, <1>4, LenProperties
<1>6. QED
      BY <1>1, <1>2, <1>4, <1>5

\* The versions executed in some rows; rows that others overwrite; others that only add
\* newer versions.
Done(rows) == {v \in Versions : rows[v] # None}
Over(new, old) == [v \in Versions |-> IF v \in DOMAIN new THEN new[v] ELSE old[v]]
Newer(new, old) ==
    /\ IsFiniteSet(DOMAIN new) /\ DOMAIN new \subseteq Versions
    /\ \A v \in DOMAIN new : new[v] \in Contents
    /\ IsFiniteSet(Done(old))
    /\ \A s \in Done(old), v \in DOMAIN new : s < v

\* A replay of them all makes the old modifications and then the new ones.
LEMMA ReplayExtends ==
    ASSUME NEW old \in [Versions -> Contents \cup {None}], NEW new, Newer(new, old)
    PROVE  /\ Modifications(Over(new, old)) = Modifications(old) \o Modifications(new)
           /\ Newest(Done(Over(new, old))) =
                 IF DOMAIN new = {} THEN Newest(Done(old)) ELSE Newest(DOMAIN new)
<1>1. PICK S : S = Done(old)
      OBVIOUS
<1>2. PICK all : all = Over(new, old)
      OBVIOUS
<1>3. /\ S = {v \in Versions : old[v] # None}
      /\ all = [v \in Versions |-> IF v \in DOMAIN new THEN new[v] ELSE old[v]]
      BY <1>1, <1>2 DEF Done, Over
<1>4. /\ IsFiniteSet(DOMAIN new) /\ DOMAIN new \subseteq Versions
      /\ \A v \in DOMAIN new : new[v] \in Contents
      /\ IsFiniteSet(S)
      /\ \A s \in S, v \in DOMAIN new : s < v
      BY <1>1 DEF Newer
<1> USE <1>3, <1>4
<1>5. /\ Versions \subseteq Nat
      /\ None \notin Contents /\ Entities \subseteq Contents
      /\ \A s \in S, v \in DOMAIN new : s < v /\ s # v
  <2>1. Versions \subseteq Nat \ {0} /\ {None, Data, Empty} \cap Entities = {}
        BY MigrationsAssumption
  <2>2. None # Data
        BY DEF None, Data
  <2>3. \A s \in S, v \in DOMAIN new : s \in Nat /\ v \in Nat
        BY <2>1
  <2>4. QED
        BY <2>1, <2>2, <2>3 DEF Contents
<1>6. PICK A : A = {v \in DOMAIN old : old[v] \in Entities}
      OBVIOUS
<1>7. PICK B : B = {v \in DOMAIN new : new[v] \in Entities}
      OBVIOUS
<1>8. A \subseteq S /\ B \subseteq DOMAIN new
  <2>1. None \notin Entities
        BY <1>5
  <2>2. QED
        BY <1>6, <1>7, <2>1
<1>9. A \in SUBSET Nat /\ B \in SUBSET Nat /\ IsFiniteSet(A) /\ IsFiniteSet(B)
      BY <1>5, <1>8, FS_Subset
<1>10. \A a \in A, b \in B : a < b
       BY <1>5, <1>8
<1>11. A \cup B = {v \in DOMAIN all : all[v] \in Entities}
  <2>1. \A v \in A : v \notin DOMAIN new
        BY <1>5, <1>8
  <2>2. \A v \in Versions : v \notin DOMAIN new /\ old[v] \in Entities => v \in A
        BY <1>6
  <2>3. \A v \in Versions : v \in DOMAIN new => (all[v] \in Entities <=> v \in B)
        BY <1>7
  <2>4. \A v \in Versions : v \notin DOMAIN new => (all[v] \in Entities <=> v \in A)
        BY <1>6
  <2>5. \A v \in A \cup B : v \in Versions
        BY <1>6, <1>7
  <2>6. \A v \in B : v \in DOMAIN new
        BY <1>8
  <2>7. DOMAIN all = Versions
        OBVIOUS
  <2>8. \A v \in Versions : v \in A \cup B <=> all[v] \in Entities
        BY <2>1, <2>3, <2>4, <2>6
  <2>9. QED
        BY <2>5, <2>7, <2>8
<1>12. PICK C : C = A \cup B
       OBVIOUS
<1>13. C \in SUBSET Nat /\ IsFiniteSet(C)
       BY <1>9, <1>12, FS_Union
<1>14. /\ Cardinality(C) = Cardinality(A) + Cardinality(B)
       /\ \A i \in 1 .. Cardinality(A) + Cardinality(B) :
             Sorted(C)[i] =
                IF i <= Cardinality(A) THEN Sorted(A)[i] ELSE Sorted(B)[i - Cardinality(A)]
       BY <1>9, <1>10, <1>12, SortedUnion
<1>15. /\ Modifications(old) \in Seq(Entities)
       /\ Cardinality(A) \in Nat
       /\ Len(Modifications(old)) = Cardinality(A)
       /\ \A i \in 1 .. Cardinality(A) : Modifications(old)[i] = old[Sorted(A)[i]]
       BY <1>6, <1>9, ModificationsType
<1>16. /\ Modifications(new) \in Seq(Entities)
       /\ Cardinality(B) \in Nat
       /\ Len(Modifications(new)) = Cardinality(B)
       /\ \A i \in 1 .. Cardinality(B) : Modifications(new)[i] = new[Sorted(B)[i]]
       BY <1>7, <1>9, ModificationsType
<1>17. C = {v \in DOMAIN all : all[v] \in Entities}
       BY <1>11, <1>12
<1>18. /\ Modifications(all) \in Seq(Entities)
       /\ Len(Modifications(all)) = Cardinality(C)
       /\ \A i \in 1 .. Cardinality(C) : Modifications(all)[i] = all[Sorted(C)[i]]
  <2>1. PICK D \in SUBSET Nat : D = C
        BY <1>13
  <2>2. PICK rows : rows = all
        BY Zenon
  <2>3. D = {v \in DOMAIN rows : rows[v] \in Entities} /\ IsFiniteSet(D)
        BY <1>13, <1>17, <2>1, <2>2, Zenon
  <2>4. /\ Modifications(rows) \in Seq(Entities)
        /\ Len(Modifications(rows)) = Cardinality(D)
        /\ \A i \in 1 .. Cardinality(D) : Modifications(rows)[i] = rows[Sorted(D)[i]]
        BY <2>3, ModificationsType, Zenon
  <2>5. QED
        BY <2>1, <2>2, <2>4, Zenon
<1>19. PICK both : both = Modifications(old) \o Modifications(new)
       OBVIOUS
<1>20. /\ both \in Seq(Entities)
       /\ Len(both) = Cardinality(C)
       /\ \A i \in 1 .. Cardinality(C) :
             both[i] = IF i <= Cardinality(A) THEN Modifications(old)[i]
                       ELSE Modifications(new)[i - Cardinality(A)]
  <2>1. PICK s \in Seq(Entities) : s = Modifications(old)
        BY <1>15
  <2>2. PICK t \in Seq(Entities) : t = Modifications(new)
        BY <1>16
  <2>3. /\ s \o t \in Seq(Entities)
        /\ Len(s \o t) = Len(s) + Len(t)
        /\ \A i \in 1 .. Len(s) + Len(t) :
              (s \o t)[i] = IF i <= Len(s) THEN s[i] ELSE t[i - Len(s)]
        BY ConcatProperties, Zenon
  <2>4. both = s \o t /\ Len(s) + Len(t) = Cardinality(C)
        BY <1>14, <1>15, <1>16, <1>19, <2>1, <2>2, Zenon
  <2>5. QED
        BY <1>15, <2>1, <2>2, <2>3, <2>4, Zenon
<1>21. \A i \in 1 .. Cardinality(C) : Modifications(all)[i] = both[i]
  <2> TAKE i \in 1 .. Cardinality(C)
  <2>1. CASE i <= Cardinality(A)
    <3>1. i \in 1 .. Cardinality(A)
          BY <1>14, <1>15, <2>1
    <3>2. Sorted(A)[i] \in A
          BY <1>9, <3>1, SortedFacts, SMTT(20)
    <3>3. Sorted(C)[i] = Sorted(A)[i]
          BY <1>14, <2>1
    <3>4. all[Sorted(A)[i]] = old[Sorted(A)[i]]
          BY <1>5, <1>6, <1>8, <3>2
    <3>5. Modifications(all)[i] = old[Sorted(A)[i]]
          BY <1>18, <3>3, <3>4
    <3>6. both[i] = old[Sorted(A)[i]]
          BY <1>15, <1>20, <2>1, <3>1
    <3>7. QED
          BY <3>5, <3>6
  <2>2. CASE ~(i <= Cardinality(A))
    <3>1. i - Cardinality(A) \in 1 .. Cardinality(B)
          BY <1>14, <1>15, <1>16, <2>2
    <3>2. Sorted(B)[i - Cardinality(A)] \in B
          BY <1>9, <3>1, SortedFacts
    <3>3. Sorted(C)[i] = Sorted(B)[i - Cardinality(A)]
          BY <1>14, <2>2
    <3>4. all[Sorted(B)[i - Cardinality(A)]] = new[Sorted(B)[i - Cardinality(A)]]
          BY <1>8, <3>2
    <3>5. Modifications(all)[i] = new[Sorted(B)[i - Cardinality(A)]]
          BY <1>18, <3>3, <3>4
    <3>6. both[i] = new[Sorted(B)[i - Cardinality(A)]]
          BY <1>16, <1>20, <2>2, <3>1
    <3>7. QED
          BY <3>5, <3>6
  <2>3. QED
        BY <2>1, <2>2
<1>22. Modifications(all) = both
       BY <1>18, <1>20, <1>21, SeqEqual
<1>23. {v \in DOMAIN all : all[v] # None} = S \cup DOMAIN new
       BY <1>5
<1>24. Newest(S \cup DOMAIN new) = IF DOMAIN new = {} THEN Newest(S) ELSE Newest(DOMAIN new)
  <2>1. CASE DOMAIN new = {}
    <3>1. S \cup DOMAIN new = S
          BY <2>1
    <3>2. QED
          BY <2>1, <3>1
  <2>2. CASE DOMAIN new # {}
    <3>1. PICK T : T = DOMAIN new
          OBVIOUS
    <3>2. T \in SUBSET Nat /\ S \in SUBSET Nat /\ IsFiniteSet(S \cup T)
          BY <1>5, <3>1, FS_Union
    <3>3. Newest(T) \in T \cup {0} /\ \A w \in T : w <= Newest(T)
          BY <3>1, <3>2, NewestFacts
    <3>4. PICK w \in T : w \in Versions
          BY <2>2, <3>1
    <3>5. w \in Nat \ {0} /\ w <= Newest(T)
          BY <3>3, <3>4, MigrationsAssumption
    <3>6. Newest(T) \in T
          BY <3>3, <3>5
    <3>7. \A s \in S : s <= Newest(T)
          BY <1>5, <3>1, <3>2, <3>6
    <3>8. \A x \in S \cup T : x <= Newest(T)
          BY <3>3, <3>7
    <3>9. PICK U \in SUBSET Nat : U = S \cup T
          BY <3>2
    <3>10. PICK z \in U \cup {0} : z = Newest(T)
           BY <3>6, <3>9
    <3>11. Newest(U) = z
           BY <3>2, <3>8, <3>9, <3>10, NewestIs
    <3>12. QED
           BY <2>2, <3>1, <3>9, <3>10, <3>11
  <2>3. QED
        BY <2>1, <2>2
<1>25. QED
  <2>1. Done(all) = S \cup DOMAIN new
        BY <1>23 DEF Done
  <2>2. Newest(Done(all)) = IF DOMAIN new = {} THEN Newest(Done(old)) ELSE Newest(DOMAIN new)
        BY <1>1, <1>24, <2>1
  <2>3. Modifications(all) = Modifications(old) \o Modifications(new)
        BY <1>19, <1>22
  <2>4. Modifications(Over(new, old)) = Modifications(all)
        BY <1>2
  <2>5. Newest(Done(Over(new, old))) = Newest(Done(all))
        BY <1>2
  <2>6. QED
        BY <2>2, <2>3, <2>4, <2>5

-----------------------------------------------------------------------------
\* What a transaction plans.

LEMMA BatchVersions ==
    ASSUME NEW b \in Seq(Migration), NEW ms \in SUBSET Range(b),
           NEW V, V = {m.version : m \in ms}
    PROVE  IsFiniteSet(V) /\ V \subseteq Versions /\ ms \subseteq Migration
<1> DEFINE f == [i \in 1 .. Len(b) |-> b[i].version]
           T == {f[i] : i \in 1 .. Len(b)}
<1>1. Len(b) \in Nat /\ DOMAIN b = 1 .. Len(b) /\ \A i \in 1 .. Len(b) : b[i] \in Migration
      BY LenProperties, ElementOfSeq
<1>2. IsFiniteSet(1 .. Len(b))
      BY <1>1, FS_Interval
<1>3. f \in Surjection(1 .. Len(b), T)
      BY DEF Surjection
<1>4. PICK U : U = T
      OBVIOUS
<1>5. IsFiniteSet(U)
      BY <1>2, <1>3, <1>4, FS_Surjection
<1>6. \A m \in ms : \E i \in 1 .. Len(b) : m = b[i]
      BY <1>1 DEF Range
<1>7. V \subseteq U
      BY <1>4, <1>6
<1>8. QED
      BY <1>1, <1>5, <1>6, <1>7, FS_Subset DEF Migration

\* What a set of migrations writes.
WritesAll(o, ms, base, w) ==
    /\ IsFiniteSet(DOMAIN w.rows) /\ DOMAIN w.rows \subseteq Versions
    /\ \A v \in DOMAIN w.rows : w.rows[v] \in Contents
    /\ \A v \in DOMAIN w.rows : \E m \in ms : m.version = v /\ m.content = w.rows[v]
    /\ \A m \in ms : m.version \in DOMAIN w.rows
    /\ w.fresh = DOMAIN w.rows
    /\ w.runs = Modifications(w.rows) /\ w.runs \in Seq(Entities)
    /\ w.saves = [applied |-> base.applied \o w.runs, state |-> StateAfter(o, base),
                  version |-> IF DOMAIN w.rows = {} THEN base.version
                              ELSE Newest(DOMAIN w.rows)]
    /\ IsSchema(w.saves)

LEMMA WritesFacts ==
    ASSUME NEW o, o.state \in States \cup {None},
           NEW b \in Seq(Migration), NEW ms \in SUBSET Range(b), \A m \in ms : m.content # Empty,
           NEW base, IsSchema(base),
           NEW w, w = Writes(o, ms, base)
    PROVE  WritesAll(o, ms, base, w)
<1>1. PICK V : V = {m.version : m \in ms}
      OBVIOUS
<1>2. IsFiniteSet(V) /\ V \subseteq Versions /\ ms \subseteq Migration
      BY <1>1, BatchVersions
<1>3. PICK rows : rows = [v \in V |-> (CHOOSE m \in ms : m.version = v).content]
      OBVIOUS
<1>4. DOMAIN rows = V
      BY <1>3
<1>5. \A v \in V : \E m \in ms : m.version = v /\ m.content = rows[v]
  <2> TAKE v \in V
  <2>1. \E m \in ms : m.version = v
        BY <1>1
  <2>2. PICK m \in ms : m = CHOOSE x \in ms : x.version = v
        BY <2>1
  <2>3. m.version = v /\ rows[v] = m.content
        BY <1>3, <2>1, <2>2
  <2>4. QED
        BY <2>3
<1>6. \A v \in V : rows[v] \in Contents
      BY <1>2, <1>5 DEF Migration
<1>7. /\ w.rows = rows /\ w.fresh = V
      /\ w.runs = Modifications(rows)
      /\ w.saves = [applied |-> base.applied \o Modifications(rows), state |-> StateAfter(o, base),
                    version |-> IF ms = {} THEN base.version ELSE Newest(V)]
      BY <1>1, <1>3, <1>4 DEF Writes
<1>8. ms = {} <=> V = {}
      BY <1>1
<1>9. V \in SUBSET Nat
      BY <1>2, MigrationsAssumption
<1>10. PICK A : A = {v \in DOMAIN rows : rows[v] \in Entities}
       OBVIOUS
<1>11. A \in SUBSET Nat /\ IsFiniteSet(A)
       BY <1>2, <1>4, <1>9, <1>10, FS_Subset
<1>12. Modifications(rows) \in Seq(Entities)
       BY <1>10, <1>11, ModificationsType
<1>13. base.applied \o Modifications(rows) \in Seq(Entities)
       BY <1>12, ConcatProperties DEF IsSchema
<1>14. Newest(V) \in Versions \cup {0}
       BY <1>2, <1>9, NewestFacts
<1>15. StateAfter(o, base) \in States \cup {None}
       BY DEF StateAfter, IsSchema
<1>16. IsSchema(w.saves)
       BY <1>7, <1>13, <1>14, <1>15 DEF IsSchema
<1>17. QED
       BY <1>1, <1>2, <1>4, <1>5, <1>6, <1>7, <1>8, <1>12, <1>16 DEF WritesAll

LEMMA OperationFacts ==
    ASSUME NEW o \in Operations
    PROVE  \/ /\ o.kind = "migrate" /\ Locks(o)
              /\ o.batch \in Seq(Migration) /\ o.state \in States \cup {None}
           \/ /\ o.kind = "snapshot" /\ Locks(o)
              /\ o.batch \in Seq(Migration) /\ o.state \in States \cup {None}
              /\ o.batch # <<>> /\ \A m \in Range(o.batch) : m.content # Empty
           \/ /\ o.kind = "delete" /\ ~Locks(o)
              /\ o.version \in Versions
           \/ /\ o.kind = "modify" /\ ~Locks(o)
              /\ o.version \in Versions /\ o.to \in Versions /\ o.as \in Entities \cup {None}
<1>1. o \in Operation
      BY MigrationsAssumption
<1>2. \/ /\ o.kind = "migrate"
         /\ o.batch \in Seq(Migration) /\ o.state \in States \cup {None}
      \/ /\ o.kind = "snapshot"
         /\ o.batch \in Seq(Migration) /\ o.state \in States \cup {None}
      \/ o.kind = "delete" /\ o.version \in Versions
      \/ /\ o.kind = "modify"
         /\ o.version \in Versions /\ o.to \in Versions /\ o.as \in Entities \cup {None}
      BY <1>1 DEF Operation
<1>3. o.kind = "snapshot" => o.batch # <<>> /\ \A m \in Range(o.batch) : m.content # Empty
      BY MigrationsAssumption
<1>4. QED
      BY <1>2, <1>3 DEF Locks

\* What each kind of call plans, when it is accepted and has anything to do.
LEMMA PlannedFacts ==
    ASSUME MInv, NEW o \in Operations, Accepted(o), ~NothingToDo(o),
           NEW p, p = Planned(o)
    PROVE  /\ IsFiniteSet(DOMAIN p.rows) /\ DOMAIN p.rows \subseteq Versions
           /\ p.fresh \subseteq DOMAIN p.rows
           /\ \A v \in DOMAIN p.rows : p.rows[v] \in Contents \cup {None}
           /\ IsSchema(p.saves) /\ p.runs \in Seq(Entities)
           /\ Locks(o) =>
                 /\ p.fresh = DOMAIN p.rows
                 /\ \A v \in DOMAIN p.rows : p.rows[v] \in Contents /\ v \notin Executed
                 /\ p.runs = Modifications(p.rows)
                 /\ p.saves =
                       [applied |-> schema.applied \o p.runs, state |-> StateAfter(o, schema),
                        version |-> IF DOMAIN p.rows = {} THEN schema.version
                                    ELSE Newest(DOMAIN p.rows)]
                 /\ DOMAIN p.rows = {} => Executed # {}
           /\ ~Locks(o) =>
                 /\ p.runs = <<>>
                 /\ p.saves.version # 0
                 /\ p.saves = Replay([v \in Versions |->
                                         IF v \in DOMAIN p.rows THEN p.rows[v] ELSE registry[v]])
<1>0. IsSchema(schema) /\ registry \in [Versions -> Contents \cup {None}]
      BY DEF MInv, TypeOK
<1>1. CASE o.kind = "migrate"
  <2>0. /\ Locks(o) /\ o.batch \in Seq(Migration) /\ o.state \in States \cup {None}
        BY <1>1, OperationFacts
  <2>1. PICK ms \in SUBSET Range(o.batch) : ms = ToExecute(o)
        BY DEF ToExecute
  <2>2. \A m \in ms : registry[m.version] = None /\ m.content # Empty
        BY <2>1 DEF ToExecute
  <2>3. p = Writes(o, ms, schema)
        BY <1>1, <2>1 DEF Planned
  <2>4. WritesAll(o, ms, schema, p)
    <3>1. PICK b \in Seq(Migration) : b = o.batch
          BY <2>0
    <3>2. ms \in SUBSET Range(b)
          BY <2>1, <3>1
    <3>3. \A m \in ms : m.content # Empty
          BY <2>0, <2>2
    <3>4. QED
          BY <1>0, <2>0, <2>3, <3>2, <3>3, WritesFacts
  <2>5. \A v \in DOMAIN p.rows : v \notin Executed
        BY <2>2, <2>4 DEF WritesAll, Executed
  <2>6. DOMAIN p.rows = {} => Executed # {}
    <3> SUFFICES ASSUME DOMAIN p.rows = {}, Executed = {}
                 PROVE  FALSE
        OBVIOUS
    <3>1. ms = {}
          BY <2>4 DEF WritesAll
    <3>2. schema.version = 0
          BY DEF MInv, BlankInv
    <3>3. QED
          BY <1>1, <2>1, <3>1, <3>2 DEF NothingToDo
  <2>7. QED
        BY <2>0, <2>4, <2>5, <2>6 DEF WritesAll
<1>2. CASE o.kind = "snapshot"
  <2>0. /\ Locks(o) /\ o.batch \in Seq(Migration) /\ o.state \in States \cup {None}
        /\ o.batch # <<>> /\ \A m \in Range(o.batch) : m.content # Empty
        BY <1>2, OperationFacts
  <2>1. PICK ms \in SUBSET Range(o.batch) : ms = Range(o.batch)
        OBVIOUS
  <2>2. Executed = {} /\ schema = Blank
    <3>1. IsBlank
          BY <1>2, <2>0 DEF Accepted, SnapshotAccepted
    <3>2. QED
          BY <3>1 DEF IsBlank, MInv, BlankInv
  <2>3. p = Writes(o, ms, schema)
        BY <1>2, <2>1, <2>2 DEF Planned
  <2>4. WritesAll(o, ms, schema, p)
    <3>1. PICK b \in Seq(Migration) : b = o.batch
          BY <2>0
    <3>2. ms \in SUBSET Range(b)
          BY <2>1, <3>1
    <3>3. \A m \in ms : m.content # Empty
          BY <2>0, <2>1
    <3>4. QED
          BY <1>0, <2>0, <2>3, <3>2, <3>3, WritesFacts
  <2>5. ms # {}
    <3>1. Len(o.batch) \in Nat \ {0} /\ DOMAIN o.batch = 1 .. Len(o.batch)
          BY <2>0, EmptySeq, LenProperties
    <3>2. 1 \in DOMAIN o.batch
          BY <3>1
    <3>3. QED
          BY <2>1, <3>2 DEF Range
  <2>6. DOMAIN p.rows # {}
        BY <2>4, <2>5 DEF WritesAll
  <2>7. QED
        BY <2>0, <2>2, <2>4, <2>6 DEF WritesAll
<1>3. CASE ~Locks(o)
  <2>0. AlterAccepted(o) /\ p = Altered(o)
        BY <1>3 DEF Accepted, Planned, Locks
  <2>1. \/ o.kind = "delete" /\ o.version \in Versions
        \/ /\ o.kind = "modify"
           /\ o.version \in Versions /\ o.to \in Versions /\ o.as \in Entities \cup {None}
        BY <1>3, OperationFacts
  <2>2. registry[o.version] # None /\ p.saves.version # 0
        BY <2>0 DEF AlterAccepted
  <2>3. PICK rows : rows = AlteredRows(o)
        OBVIOUS
  <2>4. PICK over : over = [v \in Versions |-> IF v \in DOMAIN rows THEN rows[v] ELSE registry[v]]
        OBVIOUS
  <2>5. /\ p.rows = rows /\ p.runs = <<>> /\ p.saves = Replay(over)
        /\ p.fresh = IF o.kind = "delete" THEN {} ELSE {o.to} \ {o.version}
        BY <2>0, <2>3, <2>4 DEF Altered
  <2>6. /\ DOMAIN rows \subseteq Versions /\ IsFiniteSet(DOMAIN rows)
        /\ p.fresh \subseteq DOMAIN rows
        /\ \A v \in DOMAIN rows : rows[v] \in Contents \cup {None}
    <3>1. CASE o.kind = "delete"
      <4>1. rows = [v \in {o.version} |-> None]
            BY <2>3, <3>1 DEF AlteredRows
      <4>2. DOMAIN rows = {o.version} /\ \A v \in DOMAIN rows : rows[v] = None
            BY <4>1
      <4>3. IsFiniteSet({o.version})
            BY FS_Singleton
      <4>4. QED
            BY <2>1, <2>5, <3>1, <4>2, <4>3
    <3>2. CASE o.kind = "modify"
      <4>1. rows = [v \in {o.version, o.to} |-> IF v = o.to THEN Modified(o) ELSE None]
            BY <2>3, <3>2 DEF AlteredRows
      <4>2. Modified(o) \in Contents \cup {None}
            BY <1>0, <2>1, <3>2 DEF Modified, Contents
      <4>3. IsFiniteSet({o.version} \cup {o.to})
            BY FS_Singleton, FS_AddElement
      <4>4. {o.version} \cup {o.to} = {o.version, o.to}
            OBVIOUS
      <4>5. DOMAIN rows = {o.version, o.to} /\ \A v \in DOMAIN rows : rows[v] \in Contents \cup {None}
            BY <4>1, <4>2
      <4>6. QED
            BY <2>1, <2>5, <3>2, <4>3, <4>4, <4>5
    <3>3. QED
          BY <2>1, <3>1, <3>2
  <2>7. over \in [Versions -> Contents \cup {None}]
        BY <1>0, <2>4, <2>6
  <2>8. PICK A : A = {v \in DOMAIN over : over[v] \in Entities}
        OBVIOUS
  <2>9. PICK S : S = {v \in DOMAIN over : over[v] # None}
        OBVIOUS
  <2>10. S \in SUBSET Nat /\ S \subseteq Versions /\ IsFiniteSet(S)
    <3>1. S \subseteq Executed \cup DOMAIN rows
          BY <2>4, <2>7, <2>9 DEF Executed
    <3>2. IsFiniteSet(Executed \cup DOMAIN rows)
          BY <2>6, FS_Union DEF MInv, BlankInv
    <3>3. QED
          BY <2>7, <2>9, <3>1, <3>2, FS_Subset, MigrationsAssumption
  <2>11. A \in SUBSET Nat /\ IsFiniteSet(A)
    <3>1. A \subseteq S
          BY <2>8, <2>9, MigrationsAssumption
    <3>2. QED
          BY <2>10, <3>1, FS_Subset
  <2>12. IsSchema(p.saves)
    <3>1. Modifications(over) \in Seq(Entities)
          BY <2>8, <2>11, ModificationsType
    <3>2. Newest(S) \in Versions \cup {0}
          BY <2>10, NewestFacts
    <3>3. p.saves = [applied |-> Modifications(over), state |-> None, version |-> Newest(S)]
          BY <2>5, <2>9 DEF Replay
    <3>4. QED
          BY <3>1, <3>2, <3>3 DEF IsSchema
  <2>13. <<>> \in Seq(Entities)
         BY EmptySeq
  <2>14. QED
         BY <1>3, <2>2, <2>4, <2>5, <2>6, <2>12, <2>13
<1>4. QED
      BY <1>1, <1>2, <1>3, OperationFacts

-----------------------------------------------------------------------------
\* A commit.

DataInv ==
    /\ registry \in [Versions -> Contents \cup {None}] /\ IsSchema(schema)
    /\ tables \in Seq(Entities) /\ commits \in Nat
    /\ disorder \in BOOLEAN /\ sent \in States \cup {None} /\ altered \in BOOLEAN

LEMMA Commits ==
    ASSUME MInv, NEW c \in Callers, pc[c] = "committing", Applied(c)
    PROVE  /\ DataInv' /\ BlankInv' /\ SchemaIsReplay' /\ TablesMatchSchema'
           /\ commits' = commits + 1
<1>0. /\ registry \in [Versions -> Contents \cup {None}] /\ IsSchema(schema)
      /\ tables \in Seq(Entities) /\ commits \in Nat
      /\ disorder \in BOOLEAN /\ sent \in States \cup {None} /\ altered \in BOOLEAN
      BY DEF MInv, TypeOK
<1>1. PICK o : o = op[c]
      OBVIOUS
<1>2. PICK p : p = plan[c]
      OBVIOUS
<1>3. o \in Operations /\ Accepted(o) /\ ~NothingToDo(o) /\ p = Planned(o)
  <2>1. pc[c] \in Working /\ seen[c] = commits /\ op[c] \in Operations
        BY DEF MInv, CallInv, TypeOK, Working
  <2>2. QED
        BY <1>1, <1>2, <2>1 DEF MInv, PlanInv
<1>4. /\ IsFiniteSet(DOMAIN p.rows) /\ DOMAIN p.rows \subseteq Versions
      /\ p.fresh \subseteq DOMAIN p.rows
      /\ \A v \in DOMAIN p.rows : p.rows[v] \in Contents \cup {None}
      /\ IsSchema(p.saves) /\ p.runs \in Seq(Entities)
      BY <1>3, PlannedFacts
<1>5. Locks(o) =>
         /\ p.fresh = DOMAIN p.rows
         /\ \A v \in DOMAIN p.rows : p.rows[v] \in Contents /\ v \notin Executed
         /\ p.runs = Modifications(p.rows)
         /\ p.saves =
               [applied |-> schema.applied \o p.runs, state |-> StateAfter(o, schema),
                version |-> IF DOMAIN p.rows = {} THEN schema.version
                            ELSE Newest(DOMAIN p.rows)]
         /\ DOMAIN p.rows = {} => Executed # {}
      BY <1>3, PlannedFacts
<1>6. ~Locks(o) =>
         /\ p.runs = <<>>
         /\ p.saves.version # 0
         /\ p.saves = Replay([v \in Versions |->
                                 IF v \in DOMAIN p.rows THEN p.rows[v] ELSE registry[v]])
      BY <1>3, PlannedFacts
<1>7. PICK all : all = [v \in Versions |-> IF v \in DOMAIN p.rows THEN p.rows[v] ELSE registry[v]]
      OBVIOUS
<1>8. /\ registry' = all /\ schema' = p.saves
      /\ tables' = tables \o p.runs /\ commits' = commits + 1
      /\ disorder' = (Locks(o) /\ (disorder \/ \E v \in p.fresh, w \in Executed : v < w))
      /\ sent' = (IF Locks(o) THEN StateAfter(o, [state |-> sent]) ELSE None)
      /\ altered' = (altered \/ ~Locks(o))
      BY <1>1, <1>2, <1>7 DEF Applied
<1>9. PICK S : S = Executed
      OBVIOUS
<1>10. PICK T : T = {v \in Versions : all[v] # None}
       OBVIOUS
<1>11. Executed' = T
       BY <1>8, <1>10 DEF Executed
<1>12. /\ S = {v \in Versions : registry[v] # None} /\ IsFiniteSet(S) /\ S \subseteq Versions
       /\ schema.version = 0 <=> S = {}
       /\ S = {} => schema = Blank
       /\ schema.state = sent
       BY <1>9 DEF MInv, BlankInv, Executed
<1>13. Versions \subseteq Nat \ {0} /\ None \notin Contents
  <2>1. Versions \subseteq Nat \ {0} /\ {None, Data, Empty} \cap Entities = {}
        BY MigrationsAssumption
  <2>2. None # Data
        BY DEF None, Data
  <2>3. QED
        BY <2>1, <2>2 DEF Contents
<1>14. IsFiniteSet(T) /\ T \subseteq Versions /\ T \in SUBSET Nat
  <2>1. T \subseteq S \cup DOMAIN p.rows
        BY <1>7, <1>10, <1>12
  <2>2. IsFiniteSet(S \cup DOMAIN p.rows)
        BY <1>4, <1>12, FS_Union
  <2>3. QED
        BY <1>10, <1>13, <2>1, <2>2, FS_Subset
<1>15. all \in [Versions -> Contents \cup {None}] /\ DOMAIN all = Versions
       BY <1>0, <1>4, <1>7
<1>16. IsSchema(schema')
       BY <1>4, <1>8
<1>17. Locks(o) => o.state \in States \cup {None}
       BY <1>3, OperationFacts
<1>18. sent' \in States \cup {None}
       BY <1>0, <1>8, <1>17 DEF StateAfter
<1>19. DataInv'
  <2>1. registry' \in [Versions -> Contents \cup {None}]
        BY <1>8, <1>15
  <2>2. tables' \in Seq(Entities)
        BY <1>0, <1>4, <1>8, ConcatProperties
  <2>3. commits' \in Nat /\ disorder' \in BOOLEAN /\ altered' \in BOOLEAN
        BY <1>0, <1>8
  <2>4. QED
        BY <1>16, <1>18, <2>1, <2>2, <2>3 DEF DataInv
<1>20. Locks(o) => T = S \cup DOMAIN p.rows
       BY <1>4, <1>5, <1>7, <1>10, <1>12, <1>13
<1>21. schema'.version = 0 <=> T = {}
  <2>1. CASE ~Locks(o)
    <3>1. p.saves = Replay(all) /\ p.saves.version # 0
          BY <1>6, <1>7, <2>1
    <3>2. p.saves.version = Newest(T)
          BY <1>10, <1>15, <3>1 DEF Replay
    <3>3. Newest(T) \in T \cup {0}
          BY <1>14, NewestFacts
    <3>4. QED
          BY <1>8, <3>1, <3>2, <3>3
  <2>2. CASE Locks(o) /\ DOMAIN p.rows = {}
    <3>1. schema'.version = schema.version
          BY <1>5, <1>8, <2>2
    <3>2. T = S
          BY <1>20, <2>2
    <3>3. QED
          BY <1>12, <3>1, <3>2
  <2>3. CASE Locks(o) /\ DOMAIN p.rows # {}
    <3>1. schema'.version = Newest(DOMAIN p.rows)
          BY <1>5, <1>8, <2>3
    <3>2. PICK V \in SUBSET Nat : V = DOMAIN p.rows
          BY <1>4, <1>13
    <3>3. Newest(V) \in V \cup {0} /\ \A w \in V : w <= Newest(V)
          BY <1>4, <3>2, NewestFacts
    <3>4. PICK w \in V : w \in Nat \ {0}
          BY <1>4, <1>13, <2>3, <3>2
    <3>5. Newest(V) # 0
          BY <3>3, <3>4
    <3>6. T # {}
          BY <1>20, <2>3
    <3>7. QED
          BY <3>1, <3>2, <3>5, <3>6
  <2>4. QED
        BY <2>1, <2>2, <2>3
<1>22. T # {}
  <2>1. CASE ~Locks(o)
        BY <1>6, <1>8, <1>21, <2>1
  <2>2. CASE Locks(o)
        BY <1>5, <1>9, <1>20, <2>2
  <2>3. QED
        BY <2>1, <2>2
<1>23. schema'.state = sent'
  <2>1. CASE ~Locks(o)
        BY <1>6, <1>8, <2>1 DEF Replay
  <2>2. CASE Locks(o)
        BY <1>5, <1>8, <1>12, <2>2 DEF StateAfter
  <2>3. QED
        BY <2>1, <2>2
<1>24. BlankInv'
       BY <1>11, <1>14, <1>21, <1>22, <1>23 DEF BlankInv
<1>25. TablesMatchSchema'
  <2> SUFFICES ASSUME ~altered'
               PROVE  tables' = schema'.applied
      BY DEF TablesMatchSchema
  <2>1. Locks(o) /\ ~altered
        BY <1>8
  <2>2. tables = schema.applied
        BY <2>1 DEF MInv, TablesMatchSchema
  <2>3. QED
    <3>1. p.saves.applied = schema.applied \o p.runs
      <4>1. Locks(o)
            BY <2>1
      <4>2. PICK a : a = schema.applied \o p.runs
            OBVIOUS
      <4>3. PICK n : p.saves = [applied |-> a, state |-> StateAfter(o, schema), version |-> n]
            BY <1>5, <4>1, <4>2
      <4>4. p.saves.applied = a
            BY <4>3
      <4>5. QED
            BY <4>2, <4>4, Zenon
    <3>2. QED
          BY <1>8, <2>2, <3>1
<1>26. SchemaIsReplay'
  <2> SUFFICES ASSUME ~disorder'
               PROVE  schema' = [Replay(all) EXCEPT !.state = sent']
      BY <1>8 DEF SchemaIsReplay
  <2>1. CASE ~Locks(o)
    <3>1. schema' = Replay(all) /\ sent' = None
          BY <1>6, <1>7, <1>8, <2>1
    <3>2. QED
          BY <3>1 DEF Replay
  <2>2. CASE Locks(o)
    <3>1. ~disorder /\ \A v \in p.fresh, w \in S : ~(v < w)
          BY <1>8, <1>9, <2>2
    <3>2. \A s \in S, v \in DOMAIN p.rows : s < v
      <4> TAKE s \in S, v \in DOMAIN p.rows
      <4>1. s \in Nat /\ v \in Nat
            BY <1>4, <1>12, <1>13
      <4>2. s # v /\ ~(v < s)
            BY <1>5, <1>9, <2>2, <3>1
      <4>3. QED
            BY <4>1, <4>2
    <3>3. schema = [Replay(registry) EXCEPT !.state = sent]
          BY <3>1 DEF MInv, SchemaIsReplay
    <3>4. PICK old \in [Versions -> Contents \cup {None}] : old = registry
          BY <1>0
    <3>5. PICK new : new = p.rows
          OBVIOUS
    <3>6. S = Done(old) /\ all = Over(new, old) /\ Newer(new, old)
          BY <1>4, <1>5, <1>7, <1>12, <2>2, <3>2, <3>4, <3>5 DEF Over, Done, Newer
    <3>7. /\ Modifications(all) = Modifications(old) \o Modifications(new)
          /\ Newest(Done(all)) = IF DOMAIN new = {} THEN Newest(S) ELSE Newest(DOMAIN new)
          BY <3>6, ReplayExtends
    <3>8. DOMAIN old = Versions
          OBVIOUS
    <3>9. schema = [applied |-> Modifications(old), state |-> sent, version |-> Newest(S)]
      <4>1. S = {v \in DOMAIN registry : registry[v] # None}
            BY <3>4, <3>6, <3>8 DEF Done
      <4>2. QED
            BY <3>3, <3>4, <4>1 DEF Replay
    <3>10. Replay(all) =
              [applied |-> Modifications(all), state |-> None,
               version |-> IF DOMAIN new = {} THEN Newest(S) ELSE Newest(DOMAIN new)]
           BY <1>15, <3>7 DEF Replay, Done
    <3>11. schema' = [applied |-> Modifications(old) \o Modifications(new),
                      state |-> StateAfter(o, schema),
                      version |-> IF DOMAIN new = {} THEN Newest(S) ELSE Newest(DOMAIN new)]
           BY <1>5, <1>8, <2>2, <3>5, <3>9
    <3>12. sent' = StateAfter(o, schema)
           BY <1>8, <1>12, <2>2 DEF StateAfter
    <3>13. QED
      <4>1. PICK n : n = IF DOMAIN new = {} THEN Newest(S) ELSE Newest(DOMAIN new)
            OBVIOUS
      <4>2. PICK m : m = Modifications(all)
            OBVIOUS
      <4>3. Replay(all) = [applied |-> m, state |-> None, version |-> n]
            BY <3>10, <4>1, <4>2
      <4>4. schema' = [applied |-> m, state |-> sent', version |-> n]
            BY <3>7, <3>11, <3>12, <4>1, <4>2
      <4>5. QED
            BY <4>3, <4>4
  <2>3. QED
        BY <2>1, <2>2
<1>27. QED
       BY <1>8, <1>19, <1>24, <1>25, <1>26

-----------------------------------------------------------------------------
\* The steps of the calls.

CallTypes ==
    /\ lock \in Callers \cup {None}
    /\ pc \in [Callers -> Places]
    /\ \A c \in Callers : pc[c] # "idle" => op[c] \in Operations
    /\ attempt \in [Callers -> 1 .. MaxAttempts]
    /\ seen \in [Callers -> Nat]
    /\ \A c \in Callers : pc[c] \in Working =>
        /\ DOMAIN plan[c].rows \subseteq Versions
        /\ plan[c].fresh \subseteq DOMAIN plan[c].rows
        /\ IsSchema(plan[c].saves)
        /\ plan[c].runs \in Seq(Entities)
    /\ answer \in [Callers -> {None, "ok", "error"}]
    /\ left \in 0 .. MaxTroubles

LEMMA Types == TypeOK <=> DataInv /\ CallTypes
BY DEF TypeOK, DataInv, CallTypes, Working

\* One caller makes a step.
Moves(c) ==
    /\ lock' \in Callers \cup {None} /\ left' \in 0 .. MaxTroubles
    /\ pc' \in [Callers -> Places] /\ attempt' \in [Callers -> 1 .. MaxAttempts]
    /\ seen' \in [Callers -> Nat] /\ answer' \in [Callers -> {None, "ok", "error"}]
    /\ op' = [d \in Callers |-> op'[d]] /\ plan' = [d \in Callers |-> plan'[d]]
    /\ \A d \in Callers \ {c} :
        pc'[d] = pc[d] /\ op'[d] = op[d] /\ seen'[d] = seen[d] /\ plan'[d] = plan[d]
    /\ pc'[c] # "idle" => op'[c] \in Operations
    /\ seen'[c] <= commits

\* What a call would do depends on what is committed only.
LEMMA SameAnswers ==
    ASSUME NEW o, registry' = registry, schema' = schema
    PROVE  /\ Accepted(o)' <=> Accepted(o)
           /\ NothingToDo(o)' <=> NothingToDo(o)
           /\ Planned(o)' = Planned(o)
<1>1. ToExecute(o)' = ToExecute(o) /\ Executed' = Executed
      BY DEF ToExecute, Executed
<1>2. AlteredRows(o)' = AlteredRows(o)
      BY DEF AlteredRows, Modified
<1>3. Altered(o)' = Altered(o)
      BY <1>2 DEF Altered
<1>4. MigrateAccepted(o)' <=> MigrateAccepted(o)
      BY <1>1 DEF MigrateAccepted, Skippable, Follows, AfterSchema
<1>5. SnapshotAccepted(o)' <=> SnapshotAccepted(o)
      BY <1>1 DEF SnapshotAccepted, IsBlank
<1>6. QED
      BY <1>1, <1>3, <1>4, <1>5 DEF Accepted, NothingToDo, Planned, AlterAccepted

\* Nothing is committed: what was planned from the current snapshot still holds.
LEMMA DataKept ==
    ASSUME MInv, UNCHANGED dataVars, UNCHANGED history
    PROVE  DataInv' /\ BlankInv' /\ SchemaIsReplay' /\ TablesMatchSchema'
<1>1. DataInv /\ BlankInv /\ SchemaIsReplay /\ TablesMatchSchema
      BY Types DEF MInv
<1>2. /\ registry' = registry /\ schema' = schema /\ tables' = tables /\ commits' = commits
      /\ disorder' = disorder /\ sent' = sent /\ altered' = altered
      BY DEF dataVars, history
<1>3. Executed' = Executed
      BY <1>2 DEF Executed
<1>4. DataInv' /\ BlankInv'
      BY <1>1, <1>2, <1>3 DEF DataInv, BlankInv
<1>5. SchemaIsReplay'
      BY <1>1, <1>2 DEF SchemaIsReplay
<1>6. TablesMatchSchema'
      BY <1>1, <1>2 DEF TablesMatchSchema
<1>7. QED
      BY <1>4, <1>5, <1>6

LEMMA PlansKept ==
    ASSUME MInv, NEW c \in Callers, UNCHANGED dataVars, Moves(c),
           pc'[c] \in Working =>
              \/ /\ Accepted(op'[c]) /\ ~NothingToDo(op'[c])
                 /\ plan'[c] = Planned(op'[c])
              \/ /\ pc[c] \in Working /\ op'[c] = op[c]
                 /\ plan'[c] = plan[c] /\ seen'[c] = seen[c],
           pc'[c] = "committing" => seen'[c] = commits /\ \A d \in Callers : pc[d] # "committing"
    PROVE  CallTypes' /\ CallInv' /\ PlanInv'
<1>0. /\ registry' = registry /\ schema' = schema /\ commits' = commits
      BY DEF dataVars
<1>1. CallTypes /\ CallInv /\ PlanInv /\ commits \in Nat
      BY Types DEF MInv, DataInv
<1>2. /\ lock' \in Callers \cup {None} /\ left' \in 0 .. MaxTroubles
      /\ pc' \in [Callers -> Places] /\ attempt' \in [Callers -> 1 .. MaxAttempts]
      /\ seen' \in [Callers -> Nat] /\ answer' \in [Callers -> {None, "ok", "error"}]
      /\ op' = [d \in Callers |-> op'[d]] /\ plan' = [d \in Callers |-> plan'[d]]
      /\ \A d \in Callers \ {c} :
          pc'[d] = pc[d] /\ op'[d] = op[d] /\ seen'[d] = seen[d] /\ plan'[d] = plan[d]
      /\ pc'[c] # "idle" => op'[c] \in Operations
      /\ seen'[c] <= commits
      BY DEF Moves
<1>3. \A d \in Callers : pc'[d] # "idle" => op'[d] \in Operations
      BY <1>1, <1>2 DEF CallTypes
<1>4. \A d \in Callers : pc'[d] \in Working =>
          /\ DOMAIN plan'[d].rows \subseteq Versions
          /\ plan'[d].fresh \subseteq DOMAIN plan'[d].rows
          /\ IsSchema(plan'[d].saves)
          /\ plan'[d].runs \in Seq(Entities)
  <2> SUFFICES ASSUME NEW d \in Callers, pc'[d] \in Working
               PROVE  /\ DOMAIN plan'[d].rows \subseteq Versions
                      /\ plan'[d].fresh \subseteq DOMAIN plan'[d].rows
                      /\ IsSchema(plan'[d].saves)
                      /\ plan'[d].runs \in Seq(Entities)
      OBVIOUS
  <2>1. CASE pc[d] \in Working /\ plan'[d] = plan[d]
        BY <1>1, <2>1 DEF CallTypes
  <2>2. CASE ~(pc[d] \in Working /\ plan'[d] = plan[d])
    <3>1. d = c
          BY <1>2, <2>2
    <3>2. Accepted(op'[c]) /\ ~NothingToDo(op'[c]) /\ plan'[c] = Planned(op'[c])
          BY <2>2, <3>1
    <3>3. PICK o : o = op'[c]
          OBVIOUS
    <3>4. PICK p : p = plan'[c]
          OBVIOUS
    <3>5. o \in Operations
          BY <1>2, <3>1, <3>3 DEF Working
    <3>6. Accepted(o) /\ ~NothingToDo(o) /\ p = Planned(o)
          BY <3>2, <3>3, <3>4
    <3>7. /\ DOMAIN p.rows \subseteq Versions /\ p.fresh \subseteq DOMAIN p.rows
          /\ IsSchema(p.saves) /\ p.runs \in Seq(Entities)
          BY <3>5, <3>6, PlannedFacts
    <3>8. QED
          BY <3>1, <3>4, <3>7
  <2>3. QED
        BY <2>1, <2>2
<1>5. CallTypes'
      BY <1>2, <1>3, <1>4 DEF CallTypes, IsSchema
<1>6. \A d \in Callers : seen'[d] <= commits /\ (pc'[d] = "committing" => seen'[d] = commits)
      BY <1>1, <1>2 DEF CallInv
<1>7. \A d, e \in Callers : pc'[d] = "committing" /\ pc'[e] = "committing" => d = e
      BY <1>1, <1>2 DEF CallInv
<1>8. CallInv'
      BY <1>0, <1>2, <1>6, <1>7 DEF CallInv
<1>9. ASSUME NEW d \in Callers, pc'[d] \in Working, seen'[d] = commits
      PROVE  Accepted(op[d])' /\ ~NothingToDo(op[d])' /\ plan'[d] = Planned(op[d])'
  <2>1. PICK o : o = op'[d]
        OBVIOUS
  <2>2. Accepted(o) /\ ~NothingToDo(o) /\ plan'[d] = Planned(o)
    <3>1. CASE d = c
          BY <1>1, <1>9, <2>1, <3>1 DEF PlanInv
    <3>2. CASE d # c
          BY <1>1, <1>2, <1>9, <2>1, <3>2 DEF PlanInv
    <3>3. QED
          BY <3>1, <3>2
  <2>3. /\ Accepted(o)' <=> Accepted(o)
        /\ NothingToDo(o)' <=> NothingToDo(o)
        /\ Planned(o)' = Planned(o)
        BY <1>0, SameAnswers
  <2>4. Accepted(o)' /\ ~NothingToDo(o)' /\ plan'[d] = Planned(o)'
        BY <2>2, <2>3
  <2>5. QED
        BY <2>1, <2>4
<1>10. PlanInv'
       BY <1>0, <1>9 DEF PlanInv
<1>11. QED
       BY <1>5, <1>8, <1>10

\* A commit makes every other snapshot an old one.
LEMMA PlansOutdated ==
    ASSUME MInv, NEW c \in Callers, pc[c] = "committing", commits' = commits + 1, Moves(c),
           seen'[c] = seen[c], pc'[c] \notin Working
    PROVE  CallTypes' /\ CallInv' /\ PlanInv'
<1>1. CallTypes /\ CallInv /\ PlanInv /\ commits \in Nat
      BY Types DEF MInv, DataInv
<1>2. /\ lock' \in Callers \cup {None} /\ left' \in 0 .. MaxTroubles
      /\ pc' \in [Callers -> Places] /\ attempt' \in [Callers -> 1 .. MaxAttempts]
      /\ seen' \in [Callers -> Nat] /\ answer' \in [Callers -> {None, "ok", "error"}]
      /\ op' = [d \in Callers |-> op'[d]] /\ plan' = [d \in Callers |-> plan'[d]]
      /\ \A d \in Callers \ {c} :
          pc'[d] = pc[d] /\ op'[d] = op[d] /\ seen'[d] = seen[d] /\ plan'[d] = plan[d]
      /\ pc'[c] # "idle" => op'[c] \in Operations
      BY DEF Moves
<1>3. CallTypes'
      BY <1>1, <1>2 DEF CallTypes, IsSchema
<1>4. \A d \in Callers : seen'[d] < commits'
  <2> TAKE d \in Callers
  <2>1. seen'[d] = seen[d] /\ seen[d] \in Nat /\ seen[d] <= commits
        BY <1>1, <1>2 DEF CallInv, CallTypes
  <2>2. QED
        BY <1>1, <2>1
<1>5. \A d \in Callers : pc'[d] # "committing"
      BY <1>1, <1>2 DEF CallInv, Working
<1>6. CallInv'
  <2>1. \A d \in Callers : seen'[d] <= commits'
        BY <1>1, <1>2, <1>4
  <2>2. QED
        BY <1>2, <1>5, <2>1 DEF CallInv
<1>7. PlanInv'
  <2>1. \A d \in Callers : seen'[d] # commits'
        BY <1>1, <1>2, <1>4
  <2>2. QED
        BY <2>1 DEF PlanInv
<1>8. QED
      BY <1>3, <1>6, <1>7

\* Each step of a caller keeps its variables typed and leaves the others alone.
LEMMA StepMoves ==
    ASSUME MInv, NEW c \in Callers, Step(c)
    PROVE  Moves(c)
<1>1. /\ lock \in Callers \cup {None} /\ left \in 0 .. MaxTroubles
      /\ pc \in [Callers -> Places] /\ attempt \in [Callers -> 1 .. MaxAttempts]
      /\ seen \in [Callers -> Nat] /\ answer \in [Callers -> {None, "ok", "error"}]
      /\ op = [d \in Callers |-> op[d]] /\ plan = [d \in Callers |-> plan[d]]
      /\ pc[c] # "idle" => op[c] \in Operations
      /\ seen[c] <= commits /\ commits \in Nat
      BY DEF MInv, TypeOK, CallInv
<1>2. MaxAttempts \in Nat \ {0} /\ MaxTroubles \in Nat
      BY MigrationsAssumption
<1>3. ASSUME NEW kind, Spend(kind)
      PROVE  left' \in 0 .. MaxTroubles
      BY <1>1, <1>2, <1>3 DEF Spend
<1>4. ASSUME MeetsConflict(c), pc[c] # "idle", UNCHANGED op
      PROVE  /\ pc' \in [Callers -> Places] /\ attempt' \in [Callers -> 1 .. MaxAttempts]
             /\ seen' \in [Callers -> Nat] /\ answer' \in [Callers -> {None, "ok", "error"}]
             /\ op' = [d \in Callers |-> op'[d]] /\ plan' = [d \in Callers |-> plan'[d]]
             /\ \A d \in Callers \ {c} :
                 pc'[d] = pc[d] /\ op'[d] = op[d] /\ seen'[d] = seen[d] /\ plan'[d] = plan[d]
             /\ op'[c] \in Operations
             /\ seen'[c] <= commits
  <2>1. CASE MayRetry(c) /\ Retries(c)
    <3>1. attempt[c] + 1 \in 1 .. MaxAttempts
          BY <1>1, <1>2, <2>1 DEF MayRetry
    <3>2. attempt' \in [Callers -> 1 .. MaxAttempts]
          BY <1>1, <2>1, <3>1 DEF Retries
    <3>3. QED
          BY <1>1, <1>4, <2>1, <3>2 DEF Retries, Places
  <2>2. CASE Leaves(c, "error") /\ UNCHANGED <<attempt, seen>>
        BY <1>1, <1>4, <2>2 DEF Leaves, Places
  <2>3. QED
        BY <1>4, <2>1, <2>2 DEF MeetsConflict
<1>5. CASE Call(c)
  <2>1. PICK o \in Operations :
          /\ op' = [op EXCEPT ![c] = o]
          /\ pc' = [pc EXCEPT ![c] = IF Locks(o) THEN "locking" ELSE "starting"]
        BY <1>5 DEF Call
  <2>2. UNCHANGED <<lock, attempt, seen, plan, answer, left>>
        BY <1>5 DEF Call
  <2>3. QED
        BY <1>1, <2>1, <2>2 DEF Moves, Places
<1>6. CASE TakeLock(c)
      BY <1>1, <1>6 DEF TakeLock, Moves, Places
<1>7. CASE Begin(c)
  <2>1. /\ seen' = [seen EXCEPT ![c] = commits] /\ UNCHANGED <<lock, op, attempt, left>>
        /\ pc[c] # "idle"
        BY <1>7 DEF Begin
  <2>2. CASE Accepted(op[c]) /\ ~NothingToDo(op[c])
    <3>1. /\ plan' = [plan EXCEPT ![c] = Planned(op[c])]
          /\ pc' = [pc EXCEPT ![c] = "running"] /\ UNCHANGED answer
          BY <1>7, <2>2 DEF Begin
    <3>2. QED
          BY <1>1, <2>1, <3>1, SMTT(20) DEF Moves, Places
  <2>3. CASE ~(Accepted(op[c]) /\ ~NothingToDo(op[c]))
    <3>1. PICK what \in {"ok", "error"} : Leaves(c, what)
          BY <1>7, <2>3 DEF Begin
    <3>2. QED
      <4>1. answer' = [answer EXCEPT ![c] = what] /\ answer' \in [Callers -> {None, "ok", "error"}]
            BY <1>1, <3>1 DEF Leaves
      <4>2. /\ plan' = [plan EXCEPT ![c] = [rows |-> <<>>]]
            /\ pc' = [pc EXCEPT ![c] = IF lock = c THEN "unlocking" ELSE "done"]
            BY <3>1 DEF Leaves
      <4>3. pc' \in [Callers -> Places] /\ \A d \in Callers \ {c} : pc'[d] = pc[d]
            BY <1>1, <4>2 DEF Places
      <4>4. /\ plan' = [d \in Callers |-> plan'[d]]
            /\ \A d \in Callers \ {c} : plan'[d] = plan[d]
            BY <1>1, <4>2
      <4>5. /\ seen' \in [Callers -> Nat] /\ seen'[c] <= commits
            /\ \A d \in Callers \ {c} : seen'[d] = seen[d]
            BY <1>1, <2>1
      <4>6. QED
            BY <1>1, <2>1, <4>1, <4>3, <4>4, <4>5 DEF Moves
  <2>4. QED
        BY <2>2, <2>3
<1>8. CASE RunSql(c)
  <2>1. /\ UNCHANGED <<lock, op, attempt, seen, left>> /\ pc[c] = "running"
        /\ \/ pc' = [pc EXCEPT ![c] = "saving"] /\ UNCHANGED <<plan, answer>>
           \/ Leaves(c, "error")
        BY <1>8 DEF RunSql
  <2>2. QED
        BY <1>1, <2>1 DEF Leaves, Moves, Places
<1>9. CASE SaveSchema(c)
  <2>1. UNCHANGED <<lock, op, left>> /\ pc[c] = "saving"
        BY <1>9 DEF SaveSchema
  <2>2. CASE Current(c)
    <3>1. pc' = [pc EXCEPT ![c] = "committing"] /\ UNCHANGED <<attempt, seen, plan, answer>>
          BY <1>9, <2>2 DEF SaveSchema
    <3>2. QED
          BY <1>1, <2>1, <3>1 DEF Moves, Places
  <2>3. CASE ~Current(c)
    <3>1. MeetsConflict(c)
          BY <1>9, <2>3 DEF SaveSchema
    <3>2. QED
          BY <1>1, <1>4, <2>1, <3>1 DEF Moves
  <2>4. QED
        BY <2>2, <2>3
<1>10. CASE Commit(c)
       BY <1>1, <1>10 DEF Commit, Leaves, Moves, Places
<1>11. CASE Unlock(c)
       BY <1>1, <1>11 DEF Unlock, Moves, Places
<1>12. CASE SqlFails(c)
  <2>1. left' \in 0 .. MaxTroubles
        BY <1>3, <1>12 DEF SqlFails
  <2>2. QED
        BY <1>1, <1>12, <2>1 DEF SqlFails, Leaves, Moves, Places
<1>13. CASE LockFails(c)
  <2>1. left' \in 0 .. MaxTroubles
        BY <1>3, <1>13 DEF LockFails
  <2>2. MeetsConflict(c) /\ pc[c] # "idle" /\ UNCHANGED <<op, lock>>
        BY <1>13 DEF LockFails
  <2>3. QED
        BY <1>1, <1>4, <2>1, <2>2 DEF Moves
<1>14. CASE ConnectionLost(c)
  <2>1. left' \in 0 .. MaxTroubles
        BY <1>3, <1>14 DEF ConnectionLost
  <2>2. lock' \in Callers \cup {None}
        BY <1>1, <1>14 DEF ConnectionLost
  <2>3. /\ answer' = [answer EXCEPT ![c] = "error"]
        /\ pc' = [pc EXCEPT ![c] = "done"]
        /\ plan' = [plan EXCEPT ![c] = [rows |-> <<>>]]
        /\ UNCHANGED <<op, attempt, seen>> /\ pc[c] # "idle"
        BY <1>14 DEF ConnectionLost
  <2>4. QED
        BY <1>1, <2>1, <2>2, <2>3 DEF Moves, Places
<1>15. QED
       BY <1>5, <1>6, <1>7, <1>8, <1>9, <1>10, <1>11, <1>12, <1>13, <1>14 DEF Step, Proceeds

\* A step either commits what was planned, or keeps the data and the plans.
LEMMA StepData ==
    ASSUME MInv, NEW c \in Callers, Step(c)
    PROVE  \/ /\ pc[c] = "committing" /\ Applied(c)
              /\ seen'[c] = seen[c] /\ pc'[c] \notin Working
           \/ /\ UNCHANGED dataVars /\ UNCHANGED history
              /\ pc'[c] \in Working =>
                    \/ /\ Accepted(op'[c]) /\ ~NothingToDo(op'[c])
                       /\ plan'[c] = Planned(op'[c])
                    \/ /\ pc[c] \in Working /\ op'[c] = op[c]
                       /\ plan'[c] = plan[c] /\ seen'[c] = seen[c]
              /\ pc'[c] = "committing" =>
                    seen'[c] = commits /\ \A d \in Callers : pc[d] # "committing"
<1>1. /\ pc \in [Callers -> Places]
      /\ seen \in [Callers -> Nat]
      /\ op = [d \in Callers |-> op[d]] /\ plan = [d \in Callers |-> plan[d]]
      BY DEF MInv, TypeOK, CallInv
<1>2. ASSUME NEW what, Leaves(c, what)
      PROVE  pc'[c] \notin Working
      BY <1>1, <1>2 DEF Leaves, Working
<1>3. ASSUME MeetsConflict(c)
      PROVE  pc'[c] \notin Working
  <2>1. CASE MayRetry(c) /\ Retries(c)
        BY <1>1, <2>1 DEF Retries, Working
  <2>2. CASE Leaves(c, "error")
        BY <1>2, <2>2
  <2>3. QED
        BY <1>3, <2>1, <2>2 DEF MeetsConflict
<1>4. CASE Call(c)
  <2>1. PICK o \in Operations :
          /\ op' = [op EXCEPT ![c] = o]
          /\ pc' = [pc EXCEPT ![c] = IF Locks(o) THEN "locking" ELSE "starting"]
        BY <1>4 DEF Call
  <2>2. pc'[c] \notin Working
        BY <1>1, <2>1 DEF Working
  <2>3. QED
        BY <1>4, <2>2 DEF Call, Working
<1>5. CASE TakeLock(c)
  <2>1. pc'[c] \notin Working
        BY <1>1, <1>5 DEF TakeLock, Working
  <2>2. QED
        BY <1>5, <2>1 DEF TakeLock, Working
<1>6. CASE Begin(c)
  <2>1. UNCHANGED dataVars /\ UNCHANGED history /\ op' = op
        BY <1>6 DEF Begin
  <2>2. CASE Accepted(op[c]) /\ ~NothingToDo(op[c])
    <3>1. plan' = [plan EXCEPT ![c] = Planned(op[c])] /\ pc' = [pc EXCEPT ![c] = "running"]
          BY <1>6, <2>2 DEF Begin
    <3>2. plan'[c] = Planned(op[c]) /\ pc'[c] # "committing"
          BY <1>1, <3>1
    <3>3. Accepted(op'[c]) /\ ~NothingToDo(op'[c]) /\ plan'[c] = Planned(op'[c])
          BY <2>1, <2>2, <3>2
    <3>4. QED
          BY <2>1, <3>2, <3>3
  <2>3. CASE ~(Accepted(op[c]) /\ ~NothingToDo(op[c]))
    <3>1. PICK what \in {"ok", "error"} : Leaves(c, what)
          BY <1>6, <2>3 DEF Begin
    <3>2. QED
          BY <1>2, <2>1, <3>1 DEF Working
  <2>4. QED
        BY <2>2, <2>3
<1>7. CASE RunSql(c)
  <2>1. CASE Leaves(c, "error")
        BY <1>2, <1>7, <2>1 DEF RunSql, Working
  <2>2. CASE pc' = [pc EXCEPT ![c] = "saving"] /\ UNCHANGED <<plan, answer>>
        BY <1>1, <1>7, <2>2 DEF RunSql, Working
  <2>3. QED
        BY <1>7, <2>1, <2>2 DEF RunSql
<1>8. CASE SaveSchema(c)
  <2>1. CASE Current(c)
        BY <1>1, <1>8, <2>1 DEF SaveSchema, Current, Working
  <2>2. CASE ~Current(c)
        BY <1>3, <1>8, <2>2 DEF SaveSchema, Working
  <2>3. QED
        BY <2>1, <2>2
<1>9. CASE Commit(c)
      BY <1>2, <1>9 DEF Commit
<1>10. CASE Unlock(c)
  <2>1. pc'[c] \notin Working
        BY <1>1, <1>10 DEF Unlock, Working
  <2>2. QED
        BY <1>10, <2>1 DEF Unlock, Working
<1>11. CASE SqlFails(c)
       BY <1>2, <1>11 DEF SqlFails, Working
<1>12. CASE LockFails(c)
       BY <1>3, <1>12 DEF LockFails, Working
<1>13. CASE ConnectionLost(c)
  <2>1. pc'[c] \notin Working /\ seen'[c] = seen[c]
        BY <1>1, <1>13 DEF ConnectionLost, Working
  <2>2. QED
        BY <1>13, <2>1 DEF ConnectionLost, Working
<1>14. QED
       BY <1>4, <1>5, <1>6, <1>7, <1>8, <1>9, <1>10, <1>11, <1>12, <1>13 DEF Step, Proceeds

-----------------------------------------------------------------------------
\* The invariant, and the properties it gives.

LEMMA MInvInit == Init => MInv
<1> SUFFICES ASSUME Init
             PROVE  MInv
    OBVIOUS
<1>1. /\ registry = [v \in Versions |-> None] /\ schema = Blank /\ tables = <<>> /\ commits = 0
      /\ lock = None /\ pc = [c \in Callers |-> "idle"]
      /\ op = [c \in Callers |-> [kind |-> None]] /\ attempt = [c \in Callers |-> 1]
      /\ seen = [c \in Callers |-> 0] /\ plan = [c \in Callers |-> [rows |-> <<>>]]
      /\ answer = [c \in Callers |-> None]
      /\ disorder = FALSE /\ sent = None /\ altered = FALSE /\ left = MaxTroubles
      BY DEF Init
<1>2. MaxAttempts \in Nat \ {0} /\ MaxTroubles \in Nat
      BY MigrationsAssumption
<1>3. <<>> \in Seq(Entities)
      BY EmptySeq
<1>4. DataInv
      BY <1>1, <1>3 DEF DataInv, IsSchema, Blank
<1>5. CallTypes
      BY <1>1, <1>2 DEF CallTypes, Places, Working
<1>6. CallInv
      BY <1>1 DEF CallInv
<1>7. PlanInv
      BY <1>1 DEF PlanInv, Working
<1>8. Executed = {}
      BY <1>1 DEF Executed
<1>9. BlankInv
      BY <1>1, <1>8, FS_EmptySet DEF BlankInv, Blank
<1>10. PICK S \in SUBSET Nat : S = {}
       OBVIOUS
<1>11. IsFiniteSet(S) /\ Cardinality(S) = 0
       BY <1>10, FS_EmptySet
<1>12. Replay(registry) = Blank
  <2>1. None \notin Entities
        BY MigrationsAssumption
  <2>2. S = {v \in DOMAIN registry : registry[v] \in Entities}
        BY <1>1, <1>10, <2>1
  <2>3. S = {v \in DOMAIN registry : registry[v] # None}
        BY <1>1, <1>10
  <2>4. Modifications(registry) \in Seq(Entities) /\ Len(Modifications(registry)) = 0
        BY <1>11, <2>2, ModificationsType
  <2>5. Modifications(registry) = <<>>
        BY <2>4, EmptySeq
  <2>6. Newest(S) = 0
        BY <1>10, <1>11, NewestFacts
  <2>7. QED
        BY <2>3, <2>5, <2>6 DEF Replay, Blank
<1>13. SchemaIsReplay
       BY <1>1, <1>12 DEF SchemaIsReplay, Blank
<1>14. TablesMatchSchema
       BY <1>1 DEF TablesMatchSchema, Blank
<1>15. QED
       BY <1>4, <1>5, <1>6, <1>7, <1>9, <1>13, <1>14, Types DEF MInv

LEMMA MInvStep == MInv /\ [Next]_vars => MInv'
<1> SUFFICES ASSUME MInv, [Next]_vars
             PROVE  MInv'
    OBVIOUS
<1>1. ASSUME NEW c \in Callers, Step(c)
      PROVE  MInv'
  <2>1. Moves(c)
        BY <1>1, StepMoves
  <2>2. CASE /\ pc[c] = "committing" /\ Applied(c)
             /\ seen'[c] = seen[c] /\ pc'[c] \notin Working
    <3>1. /\ DataInv' /\ BlankInv' /\ SchemaIsReplay' /\ TablesMatchSchema'
          /\ commits' = commits + 1
          BY <2>2, Commits
    <3>2. CallTypes' /\ CallInv' /\ PlanInv'
          BY <2>1, <2>2, <3>1, PlansOutdated
    <3>3. TypeOK'
          BY <3>1, <3>2, Types, PTL
    <3>4. QED
          BY <3>1, <3>2, <3>3 DEF MInv
  <2>3. CASE /\ UNCHANGED dataVars /\ UNCHANGED history
             /\ pc'[c] \in Working =>
                   \/ /\ Accepted(op'[c]) /\ ~NothingToDo(op'[c])
                      /\ plan'[c] = Planned(op'[c])
                   \/ /\ pc[c] \in Working /\ op'[c] = op[c]
                      /\ plan'[c] = plan[c] /\ seen'[c] = seen[c]
             /\ pc'[c] = "committing" =>
                   seen'[c] = commits /\ \A d \in Callers : pc[d] # "committing"
    <3>1. DataInv' /\ BlankInv' /\ SchemaIsReplay' /\ TablesMatchSchema'
          BY <2>3, DataKept
    <3>2. CallTypes' /\ CallInv' /\ PlanInv'
          BY <2>1, <2>3, PlansKept
    <3>3. TypeOK'
          BY <3>1, <3>2, Types, PTL
    <3>4. QED
          BY <3>1, <3>2, <3>3 DEF MInv
  <2>4. QED
        BY <1>1, <2>2, <2>3, StepData
<1>2. CASE UNCHANGED vars
  <2>1. UNCHANGED dataVars /\ UNCHANGED history
        BY <1>2 DEF vars
  <2>2. /\ lock' = lock /\ pc' = pc /\ op' = op /\ attempt' = attempt /\ seen' = seen
        /\ plan' = plan /\ answer' = answer /\ left' = left
        /\ registry' = registry /\ schema' = schema /\ commits' = commits
        BY <1>2 DEF vars, callVars, dataVars
  <2>3. DataInv' /\ BlankInv' /\ SchemaIsReplay' /\ TablesMatchSchema'
        BY <2>1, DataKept
  <2>4. CallTypes /\ CallInv /\ PlanInv
        BY Types DEF MInv
  <2>5. CallTypes' /\ CallInv'
        BY <2>2, <2>4 DEF CallTypes, CallInv, IsSchema
  <2>6. PlanInv'
    <3> SUFFICES ASSUME NEW c \in Callers, pc'[c] \in Working, seen'[c] = commits'
                 PROVE  Accepted(op[c])' /\ ~NothingToDo(op[c])' /\ plan'[c] = Planned(op[c])'
        BY DEF PlanInv
    <3>1. PICK o : o = op[c]
          OBVIOUS
    <3>2. Accepted(o) /\ ~NothingToDo(o) /\ plan[c] = Planned(o)
          BY <2>2, <2>4, <3>1 DEF PlanInv
    <3>3. /\ Accepted(o)' <=> Accepted(o)
          /\ NothingToDo(o)' <=> NothingToDo(o)
          /\ Planned(o)' = Planned(o)
          BY <2>2, SameAnswers
    <3>4. op'[c] = o /\ plan'[c] = plan[c]
          BY <2>2, <3>1
    <3>5. QED
          BY <3>2, <3>3, <3>4
  <2>7. TypeOK'
        BY <2>3, <2>5, Types, PTL
  <2>8. QED
        BY <2>3, <2>5, <2>6, <2>7 DEF MInv
<1>3. QED
      BY <1>1, <1>2 DEF Next

\* Whatever the mutations do, with or without the advisory lock, and whatever fails: a
\* plan made from a current snapshot stays right, and only such a plan is committed.
THEOREM MigrationsInvariant == Spec => []MInv
<1>1. QED
      BY MInvInit, MInvStep, PTL DEF Spec

\* Rows, schemas, plans and places have their types.
THEOREM MigrationsTypeCorrect == Spec => []TypeOK
<1>1. MInv => TypeOK
      BY DEF MInv
<1>2. QED
      BY <1>1, MigrationsInvariant, PTL

\* The stored schema, which migrate extends from its snapshot, is what a replay of the
\* registry gives, unless an older migration was forced in: schema.build and the row of
\* schema never disagree, for any mutations that run together.
THEOREM StoredSchemaIsReplay == Spec => []SchemaIsReplay
<1>1. MInv => SchemaIsReplay
      BY DEF MInv
<1>2. QED
      BY <1>1, MigrationsInvariant, PTL

\* The tables of the stages are those of the stored schema, unless the registry is edited.
THEOREM TablesAreOfTheSchema == Spec => []TablesMatchSchema
<1>1. MInv => TablesMatchSchema
      BY DEF MInv
<1>2. QED
      BY <1>1, MigrationsInvariant, PTL

-----------------------------------------------------------------------------
\* What an answer means.

\* The migrations of an accepted call are executed once its plan is.
LEMMA AcceptedIsExecuted ==
    ASSUME MInv, NEW o \in Operations, o.kind = "migrate", MigrateAccepted(o),
           NEW m \in Range(o.batch), m.content # Empty,
           NEW all, all = Over(Planned(o).rows, registry)
    PROVE  all[m.version] # None /\ m.content \in {all[m.version], Data}
<1>1. o.batch \in Seq(Migration)
      BY OperationFacts
<1>2. m \in Migration
      BY <1>1, RangeOfSeq
<1>3. m.version \in Versions /\ m.content \in Contents
      BY <1>2 DEF Migration
<1>4. PICK ms : ms = ToExecute(o)
      OBVIOUS
<1>5. PICK rows : rows = [v \in {x.version : x \in ms} |->
                            (CHOOSE x \in ms : x.version = v).content]
      OBVIOUS
<1>6. Planned(o).rows = rows
      BY <1>4, <1>5 DEF Planned, Writes
<1>7. DOMAIN rows = {x.version : x \in ms}
      BY <1>5
<1>8. all[m.version] = IF m.version \in DOMAIN rows THEN rows[m.version] ELSE registry[m.version]
      BY <1>3, <1>6 DEF Over
<1>9. CASE registry[m.version] # None
  <2>1. m.version \notin DOMAIN rows
        BY <1>4, <1>7, <1>9 DEF ToExecute
  <2>2. m.content \in {registry[m.version], Data}
        BY <1>9 DEF MigrateAccepted, Skippable
  <2>3. QED
        BY <1>8, <1>9, <2>1, <2>2
<1>10. CASE registry[m.version] = None
  <2>1. m \in ms /\ m.version \in DOMAIN rows
        BY <1>4, <1>7, <1>10 DEF ToExecute
  <2>2. PICK n \in ms : n = CHOOSE x \in ms : x.version = m.version
        BY <2>1
  <2>3. n.version = m.version /\ rows[m.version] = n.content
        BY <1>5, <2>1, <2>2
  <2>4. n = m
    <3>1. PICK i \in DOMAIN o.batch : o.batch[i] = m
          BY DEF Range
    <3>2. n \in Range(o.batch)
          BY <1>4 DEF ToExecute
    <3>3. PICK j \in DOMAIN o.batch : o.batch[j] = n
          BY <3>2 DEF Range
    <3>4. OncePerVersion(o.batch, ms)
          BY <1>4 DEF MigrateAccepted
    <3>5. {o.batch[i], o.batch[j]} \subseteq ms
          BY <2>1, <3>1, <3>3
    <3>6. i = j
          BY <2>3, <3>1, <3>3, <3>4, <3>5 DEF OncePerVersion
    <3>7. QED
          BY <3>1, <3>3, <3>6
  <2>5. None \notin Contents
    <3>1. None \notin Entities /\ None # Data
          BY MigrationsAssumption DEF None, Data
    <3>2. QED
          BY <3>1 DEF Contents
  <2>6. QED
        BY <1>3, <1>8, <2>1, <2>3, <2>4, <2>5
<1>11. QED
       BY <1>9, <1>10

LEMMA OkStep ==
    ASSUME MInv, NEW c \in Callers, Step(c),
           NEW d \in Callers, answer[d] = None, answer'[d] = "ok", op[d].kind = "migrate",
           NEW m \in Range(op[d].batch), m.content # Empty
    PROVE  registry'[m.version] # None /\ m.content \in {registry'[m.version], Data}
<1>1. /\ answer \in [Callers -> {None, "ok", "error"}]
      /\ registry \in [Versions -> Contents \cup {None}]
      /\ pc[c] # "idle" => op[c] \in Operations
      BY DEF MInv, TypeOK
<1>2. "ok" # None
      BY DEF None
<1>3. d = c /\ \/ Commit(c)
               \/ /\ Begin(c) /\ Accepted(op[c]) /\ NothingToDo(op[c])
  <2>1. ASSUME NEW what, Leaves(c, what)
        PROVE  d = c /\ what = "ok"
        BY <1>1, <1>2, <2>1 DEF Leaves
  <2>2. ~(answer' = answer)
        BY <1>2
  <2>3. ~MeetsConflict(c)
        BY <2>1, <2>2 DEF MeetsConflict, Retries
  <2>4. CASE Begin(c)
    <3>1. CASE Accepted(op[c]) /\ ~NothingToDo(op[c])
          BY <2>2, <2>4, <3>1 DEF Begin
    <3>2. CASE ~(Accepted(op[c]) /\ ~NothingToDo(op[c]))
      <4>1. Leaves(c, IF Accepted(op[c]) THEN "ok" ELSE "error")
            BY <2>4, <3>2 DEF Begin
      <4>2. d = c /\ Accepted(op[c])
            BY <2>1, <4>1
      <4>3. QED
            BY <2>4, <3>2, <4>2
    <3>3. QED
          BY <3>1, <3>2
  <2>5. CASE Commit(c)
        BY <2>1, <2>5 DEF Commit
  <2>6. ~ConnectionLost(c)
        BY <1>1, <1>2 DEF ConnectionLost
  <2>7. ~SqlFails(c) /\ ~RunSql(c)
        BY <2>1, <2>2 DEF SqlFails, RunSql
  <2>8. ~LockFails(c) /\ ~SaveSchema(c)
        BY <2>2, <2>3 DEF LockFails, SaveSchema
  <2>9. ~Call(c) /\ ~TakeLock(c) /\ ~Unlock(c)
        BY <2>2 DEF Call, TakeLock, Unlock
  <2>10. QED
         BY <2>4, <2>5, <2>6, <2>7, <2>8, <2>9 DEF Step, Proceeds
<1>4. PICK o : o = op[c]
      OBVIOUS
<1>5. o.kind = "migrate" /\ m \in Range(o.batch)
      BY <1>3, <1>4
<1>6. CASE Commit(c)
  <2>1. pc[c] = "committing" /\ Applied(c)
        BY <1>6 DEF Commit
  <2>2. o \in Operations /\ Accepted(o) /\ plan[c] = Planned(o)
    <3>1. pc[c] \in Working /\ seen[c] = commits /\ op[c] \in Operations
          BY <1>1, <2>1 DEF MInv, CallInv, Working
    <3>2. QED
          BY <1>4, <3>1 DEF MInv, PlanInv
  <2>3. MigrateAccepted(o)
        BY <1>5, <2>2 DEF Accepted, Locks
  <2>4. registry' = Over(Planned(o).rows, registry)
        BY <2>1, <2>2 DEF Applied, Over
  <2>5. QED
        BY <1>5, <2>2, <2>3, <2>4, AcceptedIsExecuted
<1>7. CASE Begin(c) /\ Accepted(op[c]) /\ NothingToDo(op[c])
  <2>1. MigrateAccepted(o) /\ ToExecute(o) = {} /\ registry' = registry
        BY <1>4, <1>5, <1>7 DEF Accepted, Locks, NothingToDo, Begin, dataVars
  <2>2. registry[m.version] # None
        BY <1>5, <2>1 DEF ToExecute
  <2>3. m.content \in {registry[m.version], Data}
        BY <1>5, <2>1, <2>2 DEF MigrateAccepted, Skippable
  <2>4. QED
        BY <2>1, <2>2, <2>3
<1>8. QED
      BY <1>3, <1>6, <1>7

\* migrate answers ok only when each of its migrations is executed with its content, by
\* itself or by another call, whichever calls and conflicts came in between; one of data
\* counts by its version, and one without modifications needs nothing.
THEOREM OkIsExecuted == Spec => OkMeansExecuted
<1>1. MInv /\ [Next]_vars =>
        [\A c \in Callers : answer[c] = None /\ answer'[c] = "ok" /\ op[c].kind = "migrate" =>
            \A m \in Range(op[c].batch) :
                \/ m.content = Empty
                \/ registry'[m.version] # None /\ m.content \in {registry'[m.version], Data}]_vars
  <2> SUFFICES ASSUME MInv, Next,
                      NEW d \in Callers, answer[d] = None, answer'[d] = "ok",
                      op[d].kind = "migrate",
                      NEW m \in Range(op[d].batch), m.content # Empty
               PROVE  registry'[m.version] # None /\ m.content \in {registry'[m.version], Data}
      OBVIOUS
  <2>1. PICK c \in Callers : Step(c)
        BY DEF Next
  <2>2. QED
        BY <2>1, OkStep
<1>2. QED
      BY <1>1, MigrationsInvariant, PTL DEF Spec, OkMeansExecuted
=============================================================================
