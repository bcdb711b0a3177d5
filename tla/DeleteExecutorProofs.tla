----------------------- MODULE DeleteExecutorProofs -----------------------
(***************************************************************************)
(* Proofs about DeleteExecutor, for every schema, database and mutation.   *)
(***************************************************************************)
EXTENDS DeleteExecutor, SequenceTheorems, FiniteSetTheorems, TLAPS

InTransaction == pc \notin {"begin", "ended"}
RowsOf(cells) == {c[1] : c \in cells}

\* What others did not touch is what the snapshot says.
Agree ==
    \A r \in Rows \ touched :
       /\ r \in committed.rows <=> r \in snapshot.rows
       /\ \A c \in Cells : c[1] = r => committed.ref[c] = snapshot.ref[c]

\* A row that points at a planned one with a relation that cascades or is set
\* to null is accounted for, or the call that planned the other will ask for it.
Covered ==
    \A c \in Cells :
       c[1] \in Seen.rows /\ Seen.ref[c] \in planned /\ onDelete[c[2]] # "restrict" =>
          \/ c[1] \in planned
          \/ onDelete[c[2]] = "setNull" /\ c \in cleared
          \/ \E k \in DOMAIN stack : Seen.ref[c] \in stack[k].rows /\ c[2] \in stack[k].pending

Phases ==
    /\ answer # "none" => pc = "ended"
    /\ pc \in {"lookup", "deleting", "commit"} => ~failed /\ stack = <<>>
    /\ pc \in {"lookup", "commit"} => planned = {} /\ deleteQueue = <<>>
    /\ pc # "ended" => Sound(committed)
    /\ answer = "ok" => gone \subseteq Reported

Planning ==
    /\ Sound(snapshot)
    /\ Agree
    /\ (gone \cup RowsOf(nulled)) \cap touched = {}
    /\ planned \cup gone \cup RowsOf(nulled) \cup RowsOf(cleared) \subseteq snapshot.allowed
    /\ \A k \in DOMAIN deleteQueue : deleteQueue[k] \subseteq planned
    /\ planned \cup gone \subseteq Reported
    /\ ~failed => Covered

DInv == TypeOK /\ Phases /\ (InTransaction => Planning)

-----------------------------------------------------------------------------
\* Operators.

LEMMA WithoutType ==
    ASSUME NEW db \in Database, NEW g, NEW n
    PROVE  Without(db, g, n) \in Database
BY DEF Without, Database

LEMMA SeenIs ==
    /\ Seen = Without(snapshot, gone, nulled)
    /\ Latest = Without(committed, gone, nulled)
    /\ Younger = touched
BY DEF Seen, Latest, Isolation, Younger

\* The rows of a cascade are the least set that is closed under it.
LEMMA CascadedIsLeast ==
    ASSUME NEW db, NEW D, D \subseteq db.rows
    PROVE  /\ D \subseteq Cascaded(db, D)
           /\ Cascaded(db, D) \subseteq db.rows
           /\ Follows(db, Cascaded(db, D), "cascade") \subseteq Cascaded(db, D)
           /\ \A S \in SUBSET db.rows :
                 D \subseteq S /\ Follows(db, S, "cascade") \subseteq S => Cascaded(db, D) \subseteq S
<1> DEFINE closed == {S \in SUBSET db.rows : D \subseteq S /\ Follows(db, S, "cascade") \subseteq S}
           C == Cascaded(db, D)
<1>1. C = {r \in db.rows : \A S \in closed : r \in S}
      BY DEF Cascaded
<1>2. D \subseteq C /\ C \subseteq db.rows
      BY <1>1
<1>3. \A S \in closed : C \subseteq S
      BY <1>1
<1>4. ASSUME NEW x \in Follows(db, C, "cascade") PROVE x \in C
  <2>1. PICK rel \in Relations : onDelete[rel] = "cascade" /\ x \in Referring(db, rel, C)
        BY <1>4 DEF Follows
  <2>2. x \in db.rows
        BY <2>1 DEF Referring
  <2>3. ASSUME NEW S \in closed PROVE x \in S
        <3>1. x \in Referring(db, rel, S)
              BY <2>1, <1>3 DEF Referring
        <3>2. x \in Follows(db, S, "cascade")
              BY <3>1, <2>1 DEF Follows
        <3>3. QED
              BY <3>2
  <2>4. QED
        BY <1>1, <2>2, <2>3
<1>5. QED
      BY <1>2, <1>3, <1>4

LEMMA SeenIsSound == TypeOK /\ Sound(snapshot) =>
    /\ Seen \in Database
    /\ \A c \in Cells : Seen.ref[c] \in Rows => EntityOf[Seen.ref[c]] = Target[c[2]]
<1> SUFFICES ASSUME TypeOK, Sound(snapshot)
             PROVE /\ Seen \in Database
                   /\ \A c \in Cells : Seen.ref[c] \in Rows => EntityOf[Seen.ref[c]] = Target[c[2]]
    OBVIOUS
<1>1. Seen \in Database
      BY SeenIs, WithoutType DEF TypeOK
<1>2. ASSUME NEW c \in Cells, Seen.ref[c] \in Rows
      PROVE  EntityOf[Seen.ref[c]] = Target[c[2]]
  <2>1. Seen.ref[c] = snapshot.ref[c]
        BY <1>2, SeenIs, DeleteAssumption DEF Without
  <2>2. QED
        BY <1>2, <2>1, DeleteAssumption DEF Sound
<1>3. QED
      BY <1>1, <1>2

LEMMA NatCases == \A n \in Nat : n # 0 => n = 1 \/ n > 1
OBVIOUS

\* Sequences of calls.
LEMMA StackFacts ==
    ASSUME NEW s \in Seq(Frame), s # <<>>
    PROVE  /\ Last(s) \in Frame
           /\ Front(s) \in Seq(Frame)
           /\ Len(Front(s)) = Len(s) - 1
           /\ Len(s) \in Nat \ {0}
           /\ \A k \in 1..(Len(s) - 1) : Front(s)[k] = s[k]
<1>1. Len(s) \in Nat /\ Len(s) # 0
      OBVIOUS
<1>2. Last(s) \in Frame
      BY <1>1 DEF Last
<1>a. \A k \in 1..(Len(s) - 1) : s[k] \in Frame
      BY <1>1
<1>b. DEFINE n == Len(s) - 1
<1>c. n \in Int /\ 1 \in Int /\ \A k \in 1..n : s[k] \in Frame
      BY <1>1, <1>a
<1>d. /\ SubSeq(s, 1, n) \in Seq(Frame)
      /\ Len(SubSeq(s, 1, n)) = IF 1 <= n THEN n - 1 + 1 ELSE 0
      /\ \A k \in 1..(n - 1 + 1) : SubSeq(s, 1, n)[k] = s[1 + k - 1]
      BY <1>c, SubSeqProperties
<1>3. Front(s) \in Seq(Frame) /\ Len(Front(s)) = Len(s) - 1
  <2>1. Front(s) = SubSeq(s, 1, n)
        BY DEF Front
  <2>2. Len(SubSeq(s, 1, n)) = Len(s) - 1
    <3>1. CASE Len(s) = 1
          BY <3>1, <1>d
    <3>2. CASE Len(s) > 1
          BY <3>2, <1>1, <1>d
    <3>3. QED
          BY <1>1, <3>1, <3>2, NatCases
  <2>3. QED
        BY <2>1, <2>2, <1>d
<1>4. ASSUME NEW k \in 1..(Len(s) - 1) PROVE Front(s)[k] = s[k]
  <2>1. k \in 1..(n - 1 + 1) /\ 1 + k - 1 = k
        BY <1>1
  <2>2. SubSeq(s, 1, n)[k] = s[k]
        BY <2>1, <1>d
  <2>3. QED
        BY <2>2 DEF Front
<1>5. QED
      BY <1>1, <1>2, <1>3, <1>4

LEMMA WithoutRelationType ==
    ASSUME TypeOK, stack # <<>>, NEW rel
    PROVE  WithoutRelation(rel) \in Seq(Frame)
<1>1. Front(stack) \in Seq(Frame) /\ Last(stack) \in Frame
      BY StackFacts DEF TypeOK
<1>2. [Call EXCEPT !.pending = @ \ {rel}] \in Frame
      BY <1>1 DEF Call, Frame
<1>3. QED
      BY <1>1, <1>2 DEF WithoutRelation

LEMMA ProcessType ==
    ASSUME TypeOK, NEW entity, NEW rows \in SUBSET Rows, NEW calls \in Seq(Frame),
           Process(entity, rows, calls)
    PROVE  planned' \subseteq Rows /\ reports' \in [Rows -> Nat] /\ stack' \in Seq(Frame)
<1>1. planned' \subseteq Rows /\ reports' \in [Rows -> Nat]
      BY DEF Process, TypeOK
<1>2. Seen \in Database
      BY SeenIs, WithoutType DEF TypeOK
<1>3. OrphansOf(rows) \in [Entities -> SUBSET Rows]
      BY <1>2 DEF OrphansOf, Database
<1>4. [rows |-> rows, pending |-> RelationsTo(entity), orphans |-> OrphansOf(rows)] \in Frame
      BY <1>3 DEF Frame, RelationsTo
<1>5. stack' \in Seq(Frame)
      BY <1>4 DEF Process
<1>6. QED
      BY <1>1, <1>5

\* What Collect found: rows of the entity that are there and not planned.
CollectFound(entity, ids) == Unplanned({r \in Seen.rows \cap ids : EntityOf[r] = entity})

LEMMA CollectCases ==
    ASSUME TypeOK, NEW entity, NEW ids, Collect(entity, ids)
    PROVE  /\ CollectFound(entity, ids) \in SUBSET Rows
           /\ \/ /\ failed' = TRUE
                 /\ deleteQueue' = Append(deleteQueue, {})
                 /\ UNCHANGED <<planned, reports, stack>>
              \/ /\ failed' = failed
                 /\ Permitted(CollectFound(entity, ids))
                 /\ deleteQueue' = Append(deleteQueue, CollectFound(entity, ids))
                 /\ Process(entity, CollectFound(entity, ids), stack)
<1> DEFINE found == {r \in Seen.rows \cap ids : EntityOf[r] = entity}
           rows == Unplanned(found)
           ok == found # {} /\ Permitted(rows)
<1>1. Seen \in Database
      BY SeenIs, WithoutType DEF TypeOK
<1>2. rows \in SUBSET Rows /\ rows = CollectFound(entity, ids)
      BY <1>1 DEF Unplanned, Database, CollectFound
<1>3. failed' = (failed \/ ~ok) /\ deleteQueue' = Append(deleteQueue, IF ok THEN rows ELSE {})
      BY DEF Collect
<1>4. IF ok THEN Process(entity, rows, stack) ELSE UNCHANGED <<planned, reports, stack>>
      BY DEF Collect
<1>5. CASE ok
      BY <1>2, <1>3, <1>4, <1>5 DEF TypeOK
<1>6. CASE ~ok
      BY <1>2, <1>3, <1>4, <1>6 DEF TypeOK
<1>7. QED
      BY <1>5, <1>6

LEMMA CollectType ==
    ASSUME TypeOK, NEW entity, NEW ids, Collect(entity, ids)
    PROVE  /\ planned' \subseteq Rows /\ reports' \in [Rows -> Nat] /\ stack' \in Seq(Frame)
           /\ deleteQueue' \in Seq(SUBSET Rows) /\ failed' \in BOOLEAN
<1>1. CollectFound(entity, ids) \in SUBSET Rows /\ {} \in SUBSET Rows
      BY CollectCases
<1>2. deleteQueue' \in Seq(SUBSET Rows) /\ failed' \in BOOLEAN
  <2>1. deleteQueue \in Seq(SUBSET Rows) /\ failed \in BOOLEAN
        BY DEF TypeOK
  <2>2. \A S \in SUBSET Rows : Append(deleteQueue, S) \in Seq(SUBSET Rows)
        BY <2>1
  <2>3. deleteQueue' = Append(deleteQueue, {}) \/ deleteQueue' = Append(deleteQueue, CollectFound(entity, ids))
        BY CollectCases
  <2>4. failed' \in BOOLEAN
        BY <2>1, CollectCases
  <2>5. QED
        BY <1>1, <2>2, <2>3, <2>4
<1>3. CASE UNCHANGED <<planned, reports, stack>>
      BY <1>3, <1>2 DEF TypeOK
<1>4. CASE Process(entity, CollectFound(entity, ids), stack)
      BY <1>4, <1>1, <1>2, ProcessType DEF TypeOK
<1>5. QED
      BY <1>3, <1>4, CollectCases

LEMMA DatabaseChanges ==
    ASSUME TypeOK
    PROVE  /\ Latest \in Database
           /\ \A r \in Rows : Without(committed, {r}, {}) \in Database
           /\ \A r \in Rows : \A ref \in [Columns(r) -> Rows \cup {NoRow}], ok \in BOOLEAN :
                 [rows |-> committed.rows \cup {r},
                  ref |-> [c \in Cells |-> IF c[1] = r THEN ref[c] ELSE committed.ref[c]],
                  allowed |-> committed.allowed \cup (IF ok THEN {r} ELSE {})] \in Database
           /\ \A c \in Cells, to \in Rows \cup {NoRow} : [committed EXCEPT !.ref[c] = to] \in Database
           /\ \A r \in Rows, granted \in BOOLEAN :
                 [committed EXCEPT !.allowed = IF granted THEN @ \cup {r} ELSE @ \ {r}] \in Database
<1>1. committed \in Database
      BY DEF TypeOK
<1>2. Latest \in Database /\ \A r \in Rows : Without(committed, {r}, {}) \in Database
      BY <1>1, SeenIs, WithoutType
<1>3. ASSUME NEW r \in Rows, NEW ref \in [Columns(r) -> Rows \cup {NoRow}], NEW ok \in BOOLEAN
      PROVE  [rows |-> committed.rows \cup {r},
              ref |-> [c \in Cells |-> IF c[1] = r THEN ref[c] ELSE committed.ref[c]],
              allowed |-> committed.allowed \cup (IF ok THEN {r} ELSE {})] \in Database
      BY <1>1 DEF Database, Columns
<1>4. \A c \in Cells, to \in Rows \cup {NoRow} : [committed EXCEPT !.ref[c] = to] \in Database
      BY <1>1 DEF Database
<1>5. \A r \in Rows, granted \in BOOLEAN :
         [committed EXCEPT !.allowed = IF granted THEN @ \cup {r} ELSE @ \ {r}] \in Database
      BY <1>1 DEF Database
<1>6. QED
      BY <1>2, <1>3, <1>4, <1>5

\* What a commit of another transaction does.
LEMMA OtherCases ==
    ASSUME TypeOK, OtherCommits
    PROVE  \E db \in Database, R \in SUBSET Rows :
              /\ Other(db, R)
              /\ \A s \in Rows \ R :
                    /\ s \in db.rows <=> s \in committed.rows
                    /\ \A c \in Cells : c[1] = s => db.ref[c] = committed.ref[c]
<1> DEFINE Differs(db, R) ==
              \A s \in Rows \ R :
                    /\ s \in db.rows <=> s \in committed.rows
                    /\ \A c \in Cells : c[1] = s => db.ref[c] = committed.ref[c]
<1>0. committed \in Database
      BY DEF TypeOK
<1>1. ASSUME NEW r \in Rows, OtherInserts(r)
      PROVE  \E db \in Database : Other(db, {r}) /\ Differs(db, {r})
  <2>1. PICK ref \in [Columns(r) -> (Rows \ gone) \cup {NoRow}], ok \in BOOLEAN :
               Other([rows |-> committed.rows \cup {r},
                      ref |-> [c \in Cells |-> IF c[1] = r THEN ref[c] ELSE committed.ref[c]],
                      allowed |-> committed.allowed \cup (IF ok THEN {r} ELSE {})], {r})
        BY <1>1 DEF OtherInserts
  <2> DEFINE db == [rows |-> committed.rows \cup {r},
                    ref |-> [c \in Cells |-> IF c[1] = r THEN ref[c] ELSE committed.ref[c]],
                    allowed |-> committed.allowed \cup (IF ok THEN {r} ELSE {})]
  <2>2. ref \in [Columns(r) -> Rows \cup {NoRow}]
        OBVIOUS
  <2>3. db \in Database
        BY <2>2, DatabaseChanges
  <2>4. Differs(db, {r})
        OBVIOUS
  <2>5. QED
        BY <2>1, <2>3, <2>4
<1>2. ASSUME NEW r \in Rows, OtherRemoves(r)
      PROVE  \E db \in Database : Other(db, {r}) /\ Differs(db, {r})
  <2>1. Differs(Without(committed, {r}, {}), {r})
        BY DEF Without
  <2>2. QED
        BY <1>2, <2>1, DatabaseChanges DEF OtherRemoves
<1>3. ASSUME NEW r \in Rows, OtherPermits(r)
      PROVE  \E db \in Database, R \in SUBSET {r} : Other(db, R) /\ Differs(db, R)
  <2>1. PICK granted \in BOOLEAN, R \in SUBSET {r} :
               Other([committed EXCEPT !.allowed = IF granted THEN @ \cup {r} ELSE @ \ {r}], R)
        BY <1>3 DEF OtherPermits
  <2>2. PICK db : db = [committed EXCEPT !.allowed = IF granted THEN @ \cup {r} ELSE @ \ {r}]
        OBVIOUS
  <2>3. db \in Database
        BY <2>2, DatabaseChanges
  <2>4. Differs(db, R)
        BY <1>0, <2>2 DEF Database
  <2>5. Other(db, R)
        BY <2>1, <2>2, Zenon
  <2>6. QED
        BY <2>3, <2>4, <2>5
<1>4. ASSUME NEW x \in Cells, OtherMoves(x)
      PROVE  \E db \in Database : Other(db, {x[1]}) /\ Differs(db, {x[1]})
  <2>1. PICK to \in Rows \cup {NoRow} : Other([committed EXCEPT !.ref[x] = to], {x[1]})
        BY <1>4 DEF OtherMoves
  <2>2. Differs([committed EXCEPT !.ref[x] = to], {x[1]})
        BY <1>0 DEF Database
  <2>3. QED
        BY <2>1, <2>2, DatabaseChanges
<1>5. \A x \in Cells : x[1] \in Rows
      BY DEF Cells
<1>6. CASE \E r \in Rows : OtherInserts(r) \/ OtherRemoves(r) \/ OtherPermits(r)
  <2>1. PICK r \in Rows : OtherInserts(r) \/ OtherRemoves(r) \/ OtherPermits(r)
        BY <1>6
  <2>2. \E db \in Database, R \in SUBSET {r} : Other(db, R) /\ Differs(db, R)
    <3>1. CASE OtherInserts(r) \/ OtherRemoves(r)
      <4>1. \E db \in Database : Other(db, {r}) /\ Differs(db, {r})
            BY <3>1, <1>1, <1>2
      <4>2. {r} \in SUBSET {r}
            OBVIOUS
      <4>3. QED
            BY <4>1, <4>2
    <3>2. CASE OtherPermits(r)
          BY <3>2, <1>3
    <3>3. QED
          BY <2>1, <3>1, <3>2
  <2>3. QED
        BY <2>2
<1>7. CASE \E x \in Cells : OtherMoves(x)
  <2>1. PICK x \in Cells : OtherMoves(x)
        BY <1>7
  <2>2. PICK db \in Database : Other(db, {x[1]}) /\ Differs(db, {x[1]})
        BY <2>1, <1>4
  <2>3. QED
        BY <2>2, <1>5
<1>8. QED
      BY <1>6, <1>7 DEF OtherCommits

LEMMA TypeStep == TypeOK /\ [Next]_vars => TypeOK'
<1> SUFFICES ASSUME TypeOK, [Next]_vars
             PROVE  TypeOK'
    OBVIOUS
<1>1. CASE Begin
  <2>1. /\ committed' \in Database /\ snapshot' \in Database
        /\ onDelete' \in [Relations -> {"restrict", "cascade", "setNull"}]
        /\ answer' \in {"none", "ok", "refused", "conflict"}
        BY <1>1 DEF Begin, TypeOK, request
  <2>2. stack' \in Seq(Frame) /\ deleteQueue' \in Seq(SUBSET Rows) /\ reports' \in [Rows -> Nat]
        BY <1>1 DEF Begin
  <2>3. QED
        BY <1>1, <2>1, <2>2 DEF Begin, TypeOK
<1>2. CASE NotFound
      BY <1>2 DEF NotFound, Ends, TypeOK, others, request, transaction, plan, report, changes
<1>3. CASE AlreadyDeleted
      BY <1>3 DEF AlreadyDeleted, NextDelete, TypeOK, others, request, changes, report
<1>4. CASE Start
      BY <1>4, CollectType DEF Start, TypeOK, others, request, transaction, changes
<1>5. ASSUME NEW rel \in Relations, CollectRestrict(rel)
      PROVE  TypeOK'
  <2>1. stack' \in Seq(Frame)
        BY <1>5, WithoutRelationType DEF CollectRestrict, Looks
  <2>2. failed' \in BOOLEAN
        BY <1>5 DEF CollectRestrict, TypeOK
  <2>3. QED
        BY <1>5, <2>1, <2>2 DEF CollectRestrict, Looks, TypeOK, others, request, transaction,
                                changes, report
<1>6. ASSUME NEW rel \in Relations, CollectCascade(rel)
      PROVE  TypeOK'
  <2>1. WithoutRelation(rel) \in Seq(Frame)
        BY <1>6, WithoutRelationType DEF CollectCascade, Looks
  <2>2. Found(rel) \in SUBSET Rows
    <3>1. Seen \in Database
          BY SeenIs, WithoutType DEF TypeOK
    <3>2. QED
          BY <3>1 DEF Found, Unplanned, Referring, Database
  <2>3. planned' \subseteq Rows /\ reports' \in [Rows -> Nat] /\ stack' \in Seq(Frame)
    <3>1. CASE Permitted(Found(rel))
      <4>1. Process(Owner[rel], Found(rel), WithoutRelation(rel))
            BY <1>6, <3>1 DEF CollectCascade
      <4>2. QED
            BY <4>1, <2>1, <2>2, ProcessType
    <3>2. CASE ~Permitted(Found(rel))
          BY <1>6, <3>2, <2>1 DEF CollectCascade, TypeOK
    <3>3. QED
          BY <3>1, <3>2
  <2>4. failed' \in BOOLEAN
        BY <1>6 DEF CollectCascade, TypeOK
  <2>5. QED
        BY <1>6, <2>3, <2>4 DEF CollectCascade, Looks, TypeOK, others, request, transaction, changes
<1>7. ASSUME NEW rel \in Relations, CollectSetNull(rel)
      PROVE  TypeOK'
  <2>1. stack' \in Seq(Frame)
        BY <1>7, WithoutRelationType DEF CollectSetNull, Looks
  <2>2. Found(rel) \X {rel} \subseteq Cells
    <3>1. Seen \in Database
          BY SeenIs, WithoutType DEF TypeOK
    <3>2. QED
          BY <3>1 DEF Found, Unplanned, Referring, Database, Cells
  <2>3. cleared' \subseteq Cells
        BY <1>7, <2>2 DEF CollectSetNull, TypeOK
  <2>4. failed' \in BOOLEAN
        BY <1>7 DEF CollectSetNull, TypeOK
  <2>5. QED
        BY <1>7, <2>1, <2>3, <2>4 DEF CollectSetNull, Looks, TypeOK, others, request, transaction,
                                      changes
<1>8. CASE Return
      BY <1>8, StackFacts DEF Return, TypeOK, others, request, transaction, changes, report
<1>9. CASE Refuse
      BY <1>9 DEF Refuse, Ends, TypeOK, others, request, transaction, plan, report, changes
<1>10. CASE CollectOrphans
  <2>1. /\ planned' \subseteq Rows /\ reports' \in [Rows -> Nat] /\ stack' \in Seq(Frame)
        /\ deleteQueue' \in Seq(SUBSET Rows) /\ failed' \in BOOLEAN
    <3>1. CASE UNCHANGED <<stack, planned, deleteQueue, failed, reports>>
          BY <3>1 DEF TypeOK
    <3>2. CASE \E entity, ids : Collect(entity, ids)
          BY <3>2, CollectType
    <3>3. QED
          BY <1>10, <3>1, <3>2 DEF CollectOrphans
  <2>2. QED
        BY <1>10, <2>1 DEF CollectOrphans, TypeOK, others, request, transaction, changes
<1>11. CASE PlanReady
       BY <1>11 DEF PlanReady, TypeOK, others, request, transaction, plan, report, changes
<1>12. CASE DeleteRows
  <2>1. CASE SerializationFailure \/ Ends("refused")
        BY <2>1 DEF SerializationFailure, Ends, TypeOK, others, request, transaction, plan, report,
                    changes
  <2>2. CASE /\ gone' \subseteq gone \cup Latest.rows
             /\ nulled' \subseteq Cells
             /\ deleteQueue # <<>> /\ deleteQueue' = Tail(deleteQueue)
             /\ UNCHANGED <<others, request, attempts, snapshot, deleted, at, pc, stack, planned,
                            orphans, failed, report, answer>>
    <3>1. Latest \in Database
          BY DatabaseChanges
    <3>2. gone' \subseteq Rows
          BY <2>2, <3>1 DEF TypeOK, Database
    <3>3. deleteQueue' \in Seq(SUBSET Rows)
          BY <2>2 DEF TypeOK
    <3>4. QED
          BY <2>2, <3>2, <3>3 DEF TypeOK, others, request, report
  <2>3. QED
    <3>1. \A D : Cascaded(Latest, D) \subseteq Latest.rows
          BY DEF Cascaded
    <3>2. \A D : SetToNull(Latest, D) \subseteq Cells
          BY DEF SetToNull
    <3>3. nulled \subseteq Cells
          BY DEF TypeOK
    <3>4. QED
          BY <1>12, <2>1, <2>2, <3>1, <3>2, <3>3 DEF DeleteRows
<1>13. CASE Confirm
       BY <1>13 DEF Confirm, NextDelete, TypeOK, others, request, changes, report
<1>14. CASE Commit
  <2>1. CASE Ends("refused")
        BY <2>1 DEF Ends, TypeOK, others, request, transaction, plan, report,
                    changes
  <2>2. CASE /\ committed' = Latest
             /\ pc' = "ended"
             /\ answer' = "ok"
             /\ UNCHANGED <<touched, writes, request, transaction, plan, report>>
        BY <2>2, DatabaseChanges DEF TypeOK, request, transaction, plan, report, changes
  <2>3. QED
        BY <1>14, <2>1, <2>2 DEF Commit
<1>15. CASE OtherCommits
  <2>1. PICK db \in Database, R \in SUBSET Rows : Other(db, R)
        BY <1>15, OtherCases
  <2>2. QED
        BY <2>1 DEF Other, TypeOK, request, transaction, plan, report, changes
<1>16. CASE UNCHANGED vars
       BY <1>16 DEF vars, TypeOK, others, request, transaction, plan, report, changes
<1>17. QED
       BY <1>1, <1>2, <1>3, <1>4, <1>5, <1>6, <1>7, <1>8, <1>9, <1>10, <1>11, <1>12, <1>13, <1>14,
          <1>15, <1>16 DEF Next, Ended

-----------------------------------------------------------------------------
\* The phases of a mutation.

LEMMA PhasesStep == DInv /\ [Next]_vars => Phases'
<1> SUFFICES ASSUME DInv, [Next]_vars
             PROVE  Phases'
    OBVIOUS
<1>0. TypeOK /\ Phases /\ (InTransaction => Planning)
      BY DEF DInv
<1>a. ASSUME Ends("refused") \/ Ends("conflict")
      PROVE  Phases'
      BY <1>0, <1>a DEF Ends, Phases, report, transaction, changes
<1>b. ASSUME SerializationFailure, pc # "ended"
      PROVE  Phases'
  <2>1. CASE Ends("conflict")
        BY <2>1, <1>a
  <2>2. CASE pc' = "begin" /\ UNCHANGED <<others, answer>>
        BY <2>2, <1>0, <1>b DEF Phases, Sound, others
  <2>3. QED
        BY <1>b, <2>1, <2>2 DEF SerializationFailure
<1>c. ASSUME pc' = "planning", pc # "ended", UNCHANGED <<answer, committed>>
      PROVE  Phases'
      BY <1>0, <1>c DEF Phases, Sound
<1>d. ASSUME NextDelete, pc \in {"lookup", "deleting"}, UNCHANGED <<answer, committed, failed>>
      PROVE  Phases'
      BY <1>0, <1>d DEF Phases, Sound, NextDelete
<1>1. CASE Begin
      BY <1>0, <1>1 DEF Begin, Phases, Sound
<1>2. CASE NotFound
      BY <1>2, <1>a DEF NotFound
<1>3. CASE AlreadyDeleted
      BY <1>3, <1>d DEF AlreadyDeleted, others
<1>4. CASE Start
      BY <1>4, <1>c DEF Start, others
<1>5. ASSUME NEW rel \in Relations, CollectRestrict(rel) \/ CollectCascade(rel) \/ CollectSetNull(rel)
      PROVE  Phases'
  <2>1. PICK kind : Looks(rel, kind)
        BY <1>5 DEF CollectRestrict, CollectCascade, CollectSetNull
  <2>2. QED
        BY <2>1, <1>c DEF Looks, others
<1>6. CASE Return
      BY <1>6, <1>c DEF Return, others
<1>7. CASE Refuse
      BY <1>7, <1>a DEF Refuse
<1>8. CASE CollectOrphans
      BY <1>8, <1>c DEF CollectOrphans, others
<1>9. CASE PlanReady
      BY <1>0, <1>9 DEF PlanReady, Phases, Sound, others, plan
<1>10. CASE DeleteRows
  <2>1. CASE SerializationFailure \/ Ends("refused")
        BY <2>1, <1>a, <1>b, <1>10 DEF DeleteRows
  <2>2. CASE UNCHANGED <<others, pc, stack, planned, failed, answer>>
        BY <2>2, <1>0, <1>10 DEF DeleteRows, Phases, Sound, others
  <2>3. QED
        BY <1>10, <2>1, <2>2 DEF DeleteRows
<1>11. CASE Confirm
       BY <1>11, <1>d DEF Confirm, others
<1>12. CASE Commit
  <2>1. CASE Ends("refused")
        BY <2>1, <1>a
  <2>2. CASE pc' = "ended" /\ UNCHANGED <<transaction, plan, report>>
    <3>1. gone \subseteq Reported
          BY <1>0, <1>12 DEF Commit, InTransaction, Planning
    <3>2. gone' \subseteq Reported'
          BY <2>2, <3>1 DEF Reported, transaction, changes, report
    <3>3. QED
          BY <2>2, <3>2 DEF Phases
  <2>3. QED
        BY <1>12, <2>1, <2>2 DEF Commit
<1>13. CASE OtherCommits
  <2>1. PICK db, R : Other(db, R)
        BY <1>13, <1>0, OtherCases
  <2>2. Sound(committed)'
        BY <2>1 DEF Other, Sound
  <2>3. QED
        BY <2>1, <2>2, <1>0 DEF Other, Phases, plan
<1>14. CASE UNCHANGED vars
       BY <1>0, <1>14 DEF vars, Phases, Sound, Reported, others, transaction, plan, report, changes
<1>15. QED
       BY <1>1, <1>2, <1>3, <1>4, <1>5, <1>6, <1>7, <1>8, <1>9, <1>10, <1>11, <1>12, <1>13, <1>14
          DEF Next, Ended

-----------------------------------------------------------------------------
\* Planning and deleting.

\* What the transaction sees changes with its snapshot and its own changes only.
LEMMA SeenUnchanged == UNCHANGED <<snapshot, gone, nulled>> => Seen' = Seen
BY DEF Seen, Isolation, Without

LEMMA Kept ==
    ASSUME Planning,
           UNCHANGED <<committed, snapshot, touched, gone, nulled>>,
           planned' \cup RowsOf(cleared') \subseteq snapshot.allowed,
           \A k \in DOMAIN deleteQueue' : deleteQueue'[k] \subseteq planned',
           planned' \cup gone \subseteq Reported',
           ~failed' => Covered'
    PROVE  Planning'
<1>1. Sound(snapshot)' /\ Agree'
      BY DEF Planning, Sound, Agree
<1>2. ((gone \cup RowsOf(nulled)) \cap touched = {})'
      BY DEF Planning, RowsOf
<1>3. (planned \cup gone \cup RowsOf(nulled) \cup RowsOf(cleared) \subseteq snapshot.allowed)'
      BY DEF Planning, RowsOf
<1>4. QED
      BY <1>1, <1>2, <1>3 DEF Planning

\* Processing covers what points at the processed rows, if calls cover the rest.
LEMMA ProcessCovers ==
    ASSUME TypeOK, Sound(snapshot),
           NEW entity, NEW rows \in SUBSET Rows, NEW calls \in Seq(Frame),
           \A r \in rows : EntityOf[r] = entity,
           Process(entity, rows, calls),
           UNCHANGED <<snapshot, gone, nulled, onDelete, cleared>>,
           \A c \in Cells :
              c[1] \in Seen.rows /\ Seen.ref[c] \in planned /\ onDelete[c[2]] # "restrict" =>
                 \/ c[1] \in planned \cup rows
                 \/ onDelete[c[2]] = "setNull" /\ c \in cleared
                 \/ \E k \in DOMAIN calls : Seen.ref[c] \in calls[k].rows /\ c[2] \in calls[k].pending
    PROVE  Covered'
<1> DEFINE frame == [rows |-> rows, pending |-> RelationsTo(entity), orphans |-> OrphansOf(rows)]
           At(c, s) == \E k \in DOMAIN s : Seen.ref[c] \in s[k].rows /\ c[2] \in s[k].pending
<1>1. planned' = planned \cup rows
      BY DEF Process
<1>2. rows # {} => stack' = Append(calls, frame)
      BY DEF Process
<1>3. rows = {} => stack' = calls
      BY DEF Process
<1>4. ASSUME NEW c \in Cells, At(c, calls)
      PROVE  At(c, stack')
  <2>1. PICK k \in DOMAIN calls : Seen.ref[c] \in calls[k].rows /\ c[2] \in calls[k].pending
        BY <1>4
  <2>2. CASE rows # {}
    <3>1. k \in DOMAIN stack' /\ stack'[k] = calls[k]
          BY <2>2, <1>2
    <3>2. QED
          BY <2>1, <3>1
  <2>3. QED
        BY <2>1, <2>2, <1>3
<1>5. ASSUME NEW c \in Cells, Seen.ref[c] \in rows
      PROVE  At(c, stack')
  <2>1. EntityOf[Seen.ref[c]] = Target[c[2]]
        BY <1>5, SeenIsSound
  <2>2. c[2] \in RelationsTo(entity)
        BY <1>5, <2>1 DEF RelationsTo, Cells
  <2>3. Len(calls) + 1 \in DOMAIN stack' /\ stack'[Len(calls) + 1] = frame
        BY <1>5, <1>2
  <2>4. QED
        BY <1>5, <2>2, <2>3
<1>6. Seen' = Seen
      BY SeenUnchanged
<1>7. SUFFICES ASSUME NEW c \in Cells, c[1] \in Seen.rows, Seen.ref[c] \in planned', onDelete[c[2]] # "restrict"
               PROVE  \/ c[1] \in planned'
                      \/ onDelete[c[2]] = "setNull" /\ c \in cleared
                      \/ At(c, stack')
      BY <1>6 DEF Covered
<1>8. CASE Seen.ref[c] \in rows
      BY <1>5, <1>8
<1>9. CASE Seen.ref[c] \in planned
      BY <1>9, <1>7, <1>1, <1>4
<1>10. QED
       BY <1>8, <1>9, <1>1, <1>7

LEMMA ProcessKeeps ==
    ASSUME TypeOK, planned \cup gone \subseteq Reported, planned \subseteq snapshot.allowed,
           NEW entity, NEW rows \in SUBSET Rows, NEW calls,
           Permitted(rows), Process(entity, rows, calls)
    PROVE  /\ planned' = planned \cup rows
           /\ planned' \subseteq snapshot.allowed
           /\ planned' \cup gone \subseteq Reported'
<1>1. planned' = planned \cup rows
      BY DEF Process
<1>2. Seen.allowed \subseteq snapshot.allowed
      BY SeenIs DEF Without
<1>3. reports \in [Rows -> Nat] /\ planned \subseteq Rows /\ gone \subseteq Rows
      BY DEF TypeOK
<1>4. reports' = [r \in Rows |-> IF r \in rows THEN reports[r] + 1 ELSE reports[r]]
      BY DEF Process
<1>5. \A r \in Rows : r \in rows \/ reports[r] > 0 => reports'[r] > 0
      BY <1>3, <1>4
<1>6. planned' \cup gone \subseteq Reported'
      BY <1>1, <1>3, <1>5 DEF Reported
<1>7. QED
      BY <1>1, <1>2, <1>6 DEF Permitted

LEMMA CollectKeeps ==
    ASSUME TypeOK, Planning, NEW entity, NEW ids, Collect(entity, ids),
           UNCHANGED <<committed, snapshot, touched, gone, nulled, onDelete, cleared>>
    PROVE  Planning'
<1> DEFINE rows == CollectFound(entity, ids)
<1>1. rows \in SUBSET Rows
      BY CollectCases
<1>2. deleteQueue \in Seq(SUBSET Rows) /\ stack \in Seq(Frame)
      BY DEF TypeOK
<1>3. CASE /\ failed' = TRUE
           /\ deleteQueue' = Append(deleteQueue, {})
           /\ UNCHANGED <<planned, reports, stack>>
  <2>1. \A k \in DOMAIN deleteQueue' : deleteQueue'[k] \subseteq planned'
        BY <1>2, <1>3 DEF Planning
  <2>2. planned' \cup gone \subseteq Reported'
        BY <1>3 DEF Planning, Reported
  <2>3. QED
        BY <1>3, <2>1, <2>2, Kept DEF Planning
<1>4. CASE /\ failed' = failed
           /\ Permitted(rows)
           /\ deleteQueue' = Append(deleteQueue, rows)
           /\ Process(entity, rows, stack)
  <2>1. /\ planned' = planned \cup rows
        /\ planned' \subseteq snapshot.allowed
        /\ planned' \cup gone \subseteq Reported'
        BY <1>1, <1>4, ProcessKeeps DEF Planning
  <2>2. \A k \in DOMAIN deleteQueue' : deleteQueue'[k] \subseteq planned'
        BY <1>2, <1>4, <2>1 DEF Planning
  <2>3. ASSUME ~failed' PROVE Covered'
    <3>1. \A r \in rows : EntityOf[r] = entity
          BY DEF CollectFound, Unplanned
    <3>2. Covered
          BY <1>4, <2>3 DEF Planning
    <3>3. \A c \in Cells :
              c[1] \in Seen.rows /\ Seen.ref[c] \in planned /\ onDelete[c[2]] # "restrict" =>
                 \/ c[1] \in planned \cup rows
                 \/ onDelete[c[2]] = "setNull" /\ c \in cleared
                 \/ \E k \in DOMAIN stack : Seen.ref[c] \in stack[k].rows /\ c[2] \in stack[k].pending
          BY <3>2 DEF Covered
    <3>4. QED
          BY <1>1, <1>2, <1>4, <3>1, <3>3, ProcessCovers DEF Planning
  <2>4. QED
        BY <2>1, <2>2, <2>3, Kept DEF Planning, RowsOf
<1>5. QED
      BY <1>3, <1>4, CollectCases

\* After a call has looked at a relation, the rows found take its place.
LEMMA AfterRelation ==
    ASSUME TypeOK, Covered, stack # <<>>, NEW rel \in Relations
    PROVE  \A c \in Cells :
              c[1] \in Seen.rows /\ Seen.ref[c] \in planned /\ onDelete[c[2]] # "restrict" =>
                 \/ c[1] \in planned
                 \/ onDelete[c[2]] = "setNull" /\ c \in cleared
                 \/ c[2] = rel /\ c[1] \in Found(rel)
                 \/ \E k \in DOMAIN WithoutRelation(rel) :
                       /\ Seen.ref[c] \in WithoutRelation(rel)[k].rows
                       /\ c[2] \in WithoutRelation(rel)[k].pending
<1> SUFFICES ASSUME NEW c \in Cells,
                    c[1] \in Seen.rows, Seen.ref[c] \in planned, onDelete[c[2]] # "restrict",
                    c[1] \notin planned, ~(onDelete[c[2]] = "setNull" /\ c \in cleared)
             PROVE  \/ c[2] = rel /\ c[1] \in Found(rel)
                    \/ \E k \in DOMAIN WithoutRelation(rel) :
                          /\ Seen.ref[c] \in WithoutRelation(rel)[k].rows
                          /\ c[2] \in WithoutRelation(rel)[k].pending
    OBVIOUS
<1>1. PICK k \in DOMAIN stack : Seen.ref[c] \in stack[k].rows /\ c[2] \in stack[k].pending
      BY DEF Covered
<1> DEFINE w == WithoutRelation(rel)
           last == [Call EXCEPT !.pending = @ \ {rel}]
<1>2. /\ Front(stack) \in Seq(Frame) /\ Len(Front(stack)) = Len(stack) - 1
      /\ Len(stack) \in Nat \ {0}
      /\ \A j \in 1..(Len(stack) - 1) : Front(stack)[j] = stack[j]
      /\ Last(stack) \in Frame
      BY StackFacts DEF TypeOK
<1>3. w = Append(Front(stack), last)
      BY DEF WithoutRelation
<1>4. /\ Len(w) = Len(stack) /\ DOMAIN w = 1..Len(stack)
      /\ w[Len(stack)] = last
      /\ \A j \in 1..(Len(stack) - 1) : w[j] = stack[j]
      BY <1>2, <1>3
<1>5. DOMAIN stack = 1..Len(stack)
      BY DEF TypeOK
<1>6. CASE k # Len(stack)
      BY <1>1, <1>2, <1>4, <1>5, <1>6
<1>7. CASE k = Len(stack)
  <2>1. Seen.ref[c] \in Call.rows /\ c[2] \in Call.pending
        BY <1>1, <1>7 DEF Call, Last
  <2>2. CASE c[2] = rel
    <3>1. c = <<c[1], rel>> /\ EntityOf[c[1]] = Owner[rel]
          BY <2>2 DEF Cells
    <3>2. c[1] \in Referring(Seen, rel, Call.rows)
          BY <2>1, <3>1 DEF Referring
    <3>3. QED
          BY <2>2, <3>2 DEF Found, Unplanned
  <2>3. CASE c[2] # rel
    <3>1. last.rows = Call.rows /\ last.pending = Call.pending \ {rel}
          BY <1>2 DEF Call, Frame
    <3>2. Len(stack) \in DOMAIN w
          BY <1>2, <1>4
    <3>3. Seen.ref[c] \in w[Len(stack)].rows /\ c[2] \in w[Len(stack)].pending
          BY <1>4, <2>1, <2>3, <3>1
    <3>4. QED
          BY <3>2, <3>3
  <2>4. QED
        BY <2>2, <2>3
<1>8. QED
      BY <1>6, <1>7

LEMMA CoveredAtEnd ==
    ASSUME Covered, stack = <<>>, NEW c \in Cells,
           c[1] \in Seen.rows, Seen.ref[c] \in planned, onDelete[c[2]] # "restrict"
    PROVE  c[1] \in planned \/ (onDelete[c[2]] = "setNull" /\ c \in cleared)
<1>1. ~ \E k \in DOMAIN stack : Seen.ref[c] \in stack[k].rows /\ c[2] \in stack[k].pending
      OBVIOUS
<1>2. QED
      BY <1>1 DEF Covered

LEMMA DeleteKeeps ==
    ASSUME TypeOK, Planning, Covered, stack = <<>>, deleteQueue # <<>>,
           NEW rows, rows = Cascaded(Latest, Head(deleteQueue) \cap Latest.rows),
           NEW cells, cells = SetToNull(Latest, rows),
           (Head(deleteQueue) \cup rows \cup RowsOf(cells)) \cap touched = {},
           gone' = gone \cup rows, nulled' = nulled \cup cells,
           deleteQueue' = Tail(deleteQueue),
           UNCHANGED <<committed, snapshot, touched, onDelete, stack, planned, failed, reports, cleared>>
    PROVE  Planning'
<1> DEFINE D == Head(deleteQueue) \cap Latest.rows
           S == rows \cap planned
<1>0. Latest \in Database /\ Seen \in Database
      BY SeenIs, WithoutType DEF TypeOK
<1>1. D \subseteq planned
  <2>1. Head(deleteQueue) = deleteQueue[1] /\ 1 \in DOMAIN deleteQueue
        BY DEF TypeOK
  <2>2. QED
        BY <2>1 DEF Planning
<1>2. /\ D \subseteq rows /\ rows \subseteq Latest.rows
      /\ Follows(Latest, rows, "cascade") \subseteq rows
      /\ \A T \in SUBSET Latest.rows :
            D \subseteq T /\ Follows(Latest, T, "cascade") \subseteq T => rows \subseteq T
      BY CascadedIsLeast
\* For what is not touched, PostgreSQL sees what the plan saw.
<1>3. ASSUME NEW c \in Cells, c[1] \notin touched, c[1] \in Latest.rows, Latest.ref[c] \in planned
      PROVE  c[1] \in Seen.rows /\ Seen.ref[c] = Latest.ref[c]
  <2>1. c[1] \in Rows
        BY DEF Cells
  <2>2. c[1] \in committed.rows <=> c[1] \in snapshot.rows
        BY <1>3, <2>1 DEF Planning, Agree
  <2>3. committed.ref[c] = snapshot.ref[c]
        BY <1>3, <2>1 DEF Planning, Agree
  <2>4. QED
        BY <1>3, <2>2, <2>3, SeenIs DEF Without
<1>4. ASSUME NEW c \in Cells, c[1] \notin touched, c[1] \in Latest.rows, Latest.ref[c] \in planned,
             onDelete[c[2]] # "restrict"
      PROVE  c[1] \in planned \/ (onDelete[c[2]] = "setNull" /\ c \in cleared)
  <2>1. c[1] \in Seen.rows /\ Seen.ref[c] \in planned
        BY <1>3, <1>4
  <2>2. QED
        BY <1>4, <2>1, CoveredAtEnd
<1>5. ASSUME NEW x \in Follows(Latest, S, "cascade")
      PROVE  x \in S
  <2>1. PICK rel \in Relations : onDelete[rel] = "cascade" /\ x \in Referring(Latest, rel, S)
        BY <1>5 DEF Follows
  <2>2. x \in Follows(Latest, rows, "cascade")
    <3>1. x \in Referring(Latest, rel, rows)
          BY <2>1 DEF Referring
    <3>2. QED
          BY <2>1, <3>1 DEF Follows
  <2>3. x \in rows
        BY <1>2, <2>2
  <2>4. <<x, rel>> \in Cells /\ x \in Latest.rows /\ Latest.ref[<<x, rel>>] \in planned
        BY <1>0, <2>1 DEF Referring, Cells, Database
  <2>5. x \notin touched
        BY <2>3
  <2>6. x \in planned
        BY <1>4, <2>1, <2>4, <2>5
  <2>7. QED
        BY <2>3, <2>6
<1>6. rows \subseteq planned
  <2>1. S \in SUBSET Latest.rows /\ D \subseteq S
        BY <1>1, <1>2
  <2>2. QED
        BY <1>2, <1>5, <2>1
<1>7. cells \subseteq Cells /\ RowsOf(cells) \subseteq planned \cup RowsOf(cleared)
  <2>1. ASSUME NEW c \in cells PROVE c[1] \in planned \cup RowsOf(cleared)
    <3>1. c \in Cells /\ c[1] \in Latest.rows /\ onDelete[c[2]] = "setNull" /\ Latest.ref[c] \in rows
          BY <2>1 DEF SetToNull
    <3>2. c[1] \notin touched
          BY <2>1 DEF RowsOf
    <3>3. c[1] \in planned \/ c \in cleared
          BY <1>4, <1>6, <3>1, <3>2
    <3>4. QED
          BY <3>3 DEF RowsOf
  <2>2. QED
        BY <2>1 DEF SetToNull, RowsOf
<1>8. (Sound(snapshot) /\ Agree)'
      BY DEF Planning, Sound, Agree
<1>9. ((gone \cup RowsOf(nulled)) \cap touched = {})'
      BY ZenonT(30) DEF Planning, RowsOf
<1>10. (planned \cup gone \cup RowsOf(nulled) \cup RowsOf(cleared) \subseteq snapshot.allowed)'
  <2>1. gone' \subseteq snapshot.allowed
        BY <1>6 DEF Planning
  <2>2. RowsOf(nulled') \subseteq RowsOf(nulled) \cup RowsOf(cells)
        BY DEF RowsOf
  <2>3. RowsOf(nulled') \subseteq snapshot.allowed
        BY <1>7, <2>2 DEF Planning
  <2>4. QED
        BY <2>1, <2>3 DEF Planning, RowsOf
<1>11. (\A k \in DOMAIN deleteQueue : deleteQueue[k] \subseteq planned)'
  <2>1. deleteQueue \in Seq(SUBSET Rows)
        BY DEF TypeOK
  <2>2. \A k \in DOMAIN Tail(deleteQueue) :
            k + 1 \in DOMAIN deleteQueue /\ Tail(deleteQueue)[k] = deleteQueue[k + 1]
        BY <2>1
  <2>3. QED
        BY <2>2 DEF Planning
<1>12. (planned \cup gone \subseteq Reported)'
       BY <1>6 DEF Planning, Reported
<1>13. Covered'
  <2>1. /\ Seen' = Without(snapshot, gone', nulled')
        /\ Seen = Without(snapshot, gone, nulled)
        BY DEF Seen, Isolation, Without
  <2>2. ASSUME NEW c \in Cells
        PROVE  /\ c[1] \in Seen'.rows => c[1] \in Seen.rows
               /\ Seen'.ref[c] # NoRow => Seen'.ref[c] = Seen.ref[c]
        BY <2>1 DEF Without
  <2>3. NoRow \notin planned
        BY DeleteAssumption DEF TypeOK
  <2>4. QED
        BY <2>2, <2>3 DEF Covered
<1>14. QED
       BY <1>8, <1>9, <1>10, <1>11, <1>12, <1>13 DEF Planning

LEMMA PlanningStep == DInv /\ [Next]_vars /\ TypeOK' => (InTransaction => Planning)'
<1> SUFFICES ASSUME DInv, [Next]_vars, InTransaction'
             PROVE  Planning'
    OBVIOUS
<1>0. TypeOK /\ Phases /\ (InTransaction => Planning)
      BY DEF DInv
<1>a. ASSUME Planning, NextDelete,
             UNCHANGED <<committed, snapshot, touched, gone, nulled, cleared, reports>>
      PROVE  Planning'
  <2>1. planned' = {} /\ DOMAIN deleteQueue' = {}
        BY <1>a DEF NextDelete
  <2>2. Covered'
        BY <2>1 DEF Covered
  <2>3. QED
        BY <1>a, <2>1, <2>2, Kept DEF Planning, Reported
<1>b. ASSUME Planning, UNCHANGED <<committed, snapshot, touched, gone, nulled, cleared, reports, planned, deleteQueue>>,
             ~failed' => Covered'
      PROVE  Planning'
      BY <1>b, Kept DEF Planning, Reported
<1>1. CASE Begin
  <2>1. planned' = {} /\ gone' = {} /\ nulled' = {} /\ cleared' = {} /\ DOMAIN deleteQueue' = {}
        BY <1>1 DEF Begin
  <2>2. Covered'
        BY <2>1 DEF Covered
  <2>3. Sound(snapshot)' /\ Agree'
        BY <1>0, <1>1 DEF Begin, Phases, Sound, Agree
  <2>4. QED
        BY <2>1, <2>2, <2>3 DEF Planning, RowsOf
<1>2. CASE NotFound \/ Refuse
      BY <1>2 DEF NotFound, Refuse, Ends, InTransaction
<1>3. CASE AlreadyDeleted
      BY <1>0, <1>3, <1>a DEF AlreadyDeleted, InTransaction, others, report, changes
<1>4. CASE Start
      BY <1>0, <1>4, CollectKeeps DEF Start, InTransaction, others, request, transaction, changes
<1>5. ASSUME NEW rel \in Relations, CollectRestrict(rel)
      PROVE  Planning'
  <2>1. /\ onDelete[rel] = "restrict" /\ stack # <<>> /\ stack' = WithoutRelation(rel) /\ Planning
        /\ UNCHANGED <<committed, snapshot, touched, gone, nulled, cleared, reports, planned,
                       deleteQueue, onDelete>>
        BY <1>0, <1>5 DEF CollectRestrict, Looks, InTransaction, others, request, transaction, changes,
                          report
  <2>2. failed' = (failed \/ (~deferred /\ Found(rel) # {}))
        BY <1>5 DEF CollectRestrict
  <2>3. ASSUME ~failed' PROVE Covered'
    <3>1. Covered
          BY <2>1, <2>2, <2>3 DEF Planning
    <3>2. Seen' = Seen
          BY <2>1, SeenUnchanged
    <3>3. QED
          BY <1>0, <2>1, <3>1, <3>2, AfterRelation DEF Covered
  <2>4. QED
        BY <1>b, <2>1, <2>3
<1>6. ASSUME NEW rel \in Relations, CollectCascade(rel)
      PROVE  Planning'
  <2>1. /\ stack # <<>> /\ Planning
        /\ UNCHANGED <<committed, snapshot, touched, gone, nulled, cleared, deleteQueue, onDelete>>
        BY <1>0, <1>6 DEF CollectCascade, Looks, InTransaction, others, request, transaction, changes
  <2>2. Found(rel) \in SUBSET Rows /\ \A r \in Found(rel) : EntityOf[r] = Owner[rel]
    <3>1. Seen \in Database
          BY <1>0, SeenIs, WithoutType DEF TypeOK
    <3>2. QED
          BY <3>1 DEF Found, Unplanned, Referring, Database
  <2>3. WithoutRelation(rel) \in Seq(Frame)
        BY <1>0, <2>1, WithoutRelationType
  <2>4. CASE ~Permitted(Found(rel))
        BY <1>6, <2>1, <2>4, <1>b DEF CollectCascade
  <2>5. CASE Permitted(Found(rel))
    <3>1. Process(Owner[rel], Found(rel), WithoutRelation(rel)) /\ failed' = (failed \/ FALSE)
          BY <1>6, <2>5 DEF CollectCascade
    <3>2. /\ planned' = planned \cup Found(rel)
          /\ planned' \subseteq snapshot.allowed
          /\ planned' \cup gone \subseteq Reported'
          BY <1>0, <2>1, <2>2, <2>5, <3>1, ProcessKeeps DEF Planning
    <3>3. ASSUME ~failed' PROVE Covered'
      <4>1. Covered
            BY <2>1, <3>1, <3>3 DEF Planning
      <4>2. \A c \in Cells :
               c[1] \in Seen.rows /\ Seen.ref[c] \in planned /\ onDelete[c[2]] # "restrict" =>
                  \/ c[1] \in planned \cup Found(rel)
                  \/ onDelete[c[2]] = "setNull" /\ c \in cleared
                  \/ \E k \in DOMAIN WithoutRelation(rel) :
                        /\ Seen.ref[c] \in WithoutRelation(rel)[k].rows
                        /\ c[2] \in WithoutRelation(rel)[k].pending
            BY <1>0, <2>1, <4>1, AfterRelation
      <4>3. QED
            BY <1>0, <2>1, <2>2, <2>3, <3>1, <4>2, ProcessCovers DEF Planning
    <3>4. \A k \in DOMAIN deleteQueue' : deleteQueue'[k] \subseteq planned'
          BY <2>1, <3>2 DEF Planning
    <3>5. planned' \cup RowsOf(cleared') \subseteq snapshot.allowed
          BY <2>1, <3>2 DEF Planning, RowsOf
    <3>6. QED
          BY <2>1, <3>2, <3>3, <3>4, <3>5, Kept
  <2>6. QED
        BY <2>4, <2>5
<1>7. ASSUME NEW rel \in Relations, CollectSetNull(rel)
      PROVE  Planning'
  <2>1. /\ stack # <<>> /\ Planning /\ stack' = WithoutRelation(rel) /\ onDelete[rel] = "setNull"
        /\ UNCHANGED <<committed, snapshot, touched, gone, nulled, planned, reports, deleteQueue, onDelete>>
        BY <1>0, <1>7 DEF CollectSetNull, Looks, InTransaction, others, request, transaction, changes
  <2>2. CASE ~Permitted(Found(rel))
        BY <1>7, <2>1, <2>2, <1>b DEF CollectSetNull
  <2>3. CASE Permitted(Found(rel))
    <3>1. failed' = (failed \/ FALSE) /\ cleared' = cleared \cup (Found(rel) \X {rel})
          BY <1>7, <2>3 DEF CollectSetNull
    <3>2. RowsOf(cleared') \subseteq RowsOf(cleared) \cup Found(rel)
          BY <3>1 DEF RowsOf
    <3>3. Found(rel) \subseteq snapshot.allowed
          BY <2>3, SeenIs DEF Permitted, Without
    <3>4. planned' \cup RowsOf(cleared') \subseteq snapshot.allowed
          BY <2>1, <3>2, <3>3 DEF Planning
    <3>5. ASSUME ~failed' PROVE Covered'
      <4>1. Covered
            BY <2>1, <3>1, <3>5 DEF Planning
      <4>2. Seen' = Seen
            BY <2>1, SeenUnchanged
      <4>3. \A c \in Cells : c[2] = rel /\ c[1] \in Found(rel) => c \in cleared'
            BY <3>1 DEF Cells
      <4>4. QED
            BY <1>0, <2>1, <3>1, <4>1, <4>2, <4>3, AfterRelation DEF Covered
    <3>6. planned' \cup gone \subseteq Reported'
          BY <2>1 DEF Planning, Reported
    <3>7. \A k \in DOMAIN deleteQueue' : deleteQueue'[k] \subseteq planned'
          BY <2>1 DEF Planning
    <3>8. QED
          BY <2>1, <3>4, <3>5, <3>6, <3>7, Kept
  <2>4. QED
        BY <2>2, <2>3
<1>8. CASE Return
  <2>1. /\ stack # <<>> /\ Call.pending = {} /\ stack' = Front(stack) /\ Planning
        /\ UNCHANGED <<committed, snapshot, touched, gone, nulled, cleared, reports, planned,
                       deleteQueue, onDelete, failed>>
        BY <1>0, <1>8 DEF Return, InTransaction, others, request, transaction, changes, report
  <2>2. ASSUME ~failed' PROVE Covered'
    <3>1. Covered
          BY <2>1, <2>2 DEF Planning
    <3>2. Seen' = Seen
          BY <2>1, SeenUnchanged
    <3>3. /\ Len(stack') = Len(stack) - 1 /\ Len(stack) \in Nat \ {0} /\ stack' \in Seq(Frame)
          /\ \A k \in 1..(Len(stack) - 1) : stack'[k] = stack[k]
          BY <1>0, <2>1, StackFacts DEF TypeOK
    <3>4. DOMAIN stack = 1..Len(stack) /\ DOMAIN stack' = 1..(Len(stack) - 1)
          BY <1>0, <3>3 DEF TypeOK
    <3>5. stack[Len(stack)].pending = {}
          BY <2>1 DEF Call, Last
    <3>6. \A k \in DOMAIN stack : stack[k].pending # {} => k \in DOMAIN stack' /\ stack'[k] = stack[k]
          BY <3>3, <3>4, <3>5
    <3>7. QED
          BY <2>1, <3>1, <3>2, <3>6 DEF Covered
  <2>3. QED
        BY <1>b, <2>1, <2>2
<1>9. CASE CollectOrphans
  <2>1. /\ Planning
        /\ UNCHANGED <<committed, snapshot, touched, gone, nulled, onDelete, cleared>>
        BY <1>0, <1>9 DEF CollectOrphans, InTransaction, others, request, transaction, changes
  <2>2. CASE UNCHANGED <<stack, planned, deleteQueue, failed, reports>>
    <3>1. Seen' = Seen
          BY <2>1, SeenUnchanged
    <3>2. ~failed' => Covered'
          BY <2>1, <2>2, <3>1 DEF Planning, Covered
    <3>3. QED
          BY <1>b, <2>1, <2>2, <3>2
  <2>3. CASE \E entity, ids : Collect(entity, ids)
        BY <1>0, <2>1, <2>3, CollectKeeps
  <2>4. QED
        BY <1>9, <2>2, <2>3 DEF CollectOrphans
<1>10. CASE PlanReady
  <2>1. /\ Planning
        /\ UNCHANGED <<committed, snapshot, touched, gone, nulled, cleared, reports, planned,
                       deleteQueue, onDelete, failed, stack>>
        BY <1>0, <1>10 DEF PlanReady, InTransaction, others, request, transaction, changes, plan, report
  <2>2. ~failed' => Covered'
        BY <2>1, SeenUnchanged DEF Planning, Covered
  <2>3. QED
        BY <1>b, <2>1, <2>2
<1>11. CASE DeleteRows
  <2> DEFINE rows == Cascaded(Latest, Head(deleteQueue) \cap Latest.rows)
             cells == SetToNull(Latest, rows)
             moved == Head(deleteQueue) \cup rows \cup {c[1] : c \in cells}
  <2>1. CASE SerializationFailure
        BY <2>1 DEF SerializationFailure, Ends, InTransaction
  <2>2. CASE Ends("refused")
        BY <2>2 DEF Ends, InTransaction
  <2>3. CASE /\ moved \cap Younger = {}
             /\ gone' = gone \cup rows
             /\ nulled' = nulled \cup cells
             /\ deleteQueue' = Tail(deleteQueue)
             /\ UNCHANGED <<others, request, attempts, snapshot, deleted, at, pc, stack, planned,
                            orphans, failed, report, answer>>
    <3>1. Planning /\ Covered /\ stack = <<>> /\ deleteQueue # <<>>
          BY <1>0, <1>11 DEF DeleteRows, InTransaction, Phases, Planning
    <3>2. (Head(deleteQueue) \cup rows \cup RowsOf(cells)) \cap touched = {}
          BY <2>3, SeenIs DEF RowsOf
    <3>3. UNCHANGED <<committed, snapshot, touched, onDelete, stack, planned, failed, reports, cleared>>
          BY <2>3 DEF others, request, report
    <3>4. QED
          BY <1>0, <2>3, <3>1, <3>2, <3>3, DeleteKeeps
  <2>4. QED
        BY <1>11, <2>1, <2>2, <2>3 DEF DeleteRows
<1>12. CASE Confirm
       BY <1>0, <1>12, <1>a DEF Confirm, InTransaction, others, report, changes
<1>13. CASE Commit
       BY <1>13 DEF Commit, Ends, InTransaction
<1>14. CASE OtherCommits
  <2>1. PICK db \in Database, R \in SUBSET Rows :
               /\ Other(db, R)
               /\ \A s \in Rows \ R :
                     /\ s \in db.rows <=> s \in committed.rows
                     /\ \A c \in Cells : c[1] = s => db.ref[c] = committed.ref[c]
        BY <1>0, <1>14, OtherCases
  <2>2. /\ Planning /\ committed' = db /\ touched' = touched \cup R /\ R \cap Locked = {}
        /\ UNCHANGED <<snapshot, gone, nulled, cleared, reports, planned, deleteQueue, onDelete, failed,
                       stack>>
        BY <1>0, <2>1 DEF Other, InTransaction, request, transaction, changes, plan, report
  <2>3. Agree'
        BY <2>1, <2>2 DEF Planning, Agree
  <2>4. (gone' \cup RowsOf(nulled')) \cap touched' = {}
        BY <2>2 DEF Planning, Locked, RowsOf
  <2>5. ~failed' => Covered'
        BY <2>2, SeenUnchanged DEF Planning, Covered
  <2>6. QED
        BY <2>2, <2>3, <2>4, <2>5 DEF Planning, Sound, RowsOf, Reported
<1>15. CASE UNCHANGED vars
  <2>1. /\ Planning
        /\ UNCHANGED <<committed, snapshot, touched, gone, nulled, cleared, reports, planned,
                       deleteQueue, onDelete, failed, stack>>
        BY <1>0, <1>15 DEF vars, InTransaction, others, request, transaction, changes, plan, report
  <2>2. ~failed' => Covered'
        BY <2>1, SeenUnchanged DEF Planning, Covered
  <2>3. QED
        BY <1>b, <2>1, <2>2
<1>16. QED
       BY <1>1, <1>2, <1>3, <1>4, <1>5, <1>6, <1>7, <1>8, <1>9, <1>10, <1>11, <1>12, <1>13, <1>14,
          <1>15 DEF Next, Ended

-----------------------------------------------------------------------------
\* Theorems.

LEMMA DInvInit == Init => DInv
<1> SUFFICES ASSUME Init
             PROVE  DInv
    OBVIOUS
<1>1. committed \in Database /\ Sound(committed) /\ onDelete \in [Relations -> {"restrict", "cascade", "setNull"}]
      BY DeleteAssumption DEF Init
<1>2. TypeOK
  <2>1. stack \in Seq(Frame) /\ deleteQueue \in Seq(SUBSET Rows) /\ reports \in [Rows -> Nat]
        BY DEF Init
  <2>2. snapshot \in Database /\ pc = "begin" /\ answer = "none" /\ failed = FALSE
        BY <1>1 DEF Init
  <2>3. /\ touched = {} /\ gone = {} /\ nulled = {} /\ deleted = {}
        /\ planned = {} /\ cleared = {}
        BY DEF Init
  <2>4. QED
        BY <1>1, <2>1, <2>2, <2>3 DEF TypeOK
<1>3. Phases
      BY <1>1 DEF Init, Phases
<1>4. ~InTransaction
      BY DEF Init, InTransaction
<1>5. QED
      BY <1>2, <1>3, <1>4 DEF DInv

LEMMA DInvStep == DInv /\ [Next]_vars => DInv'
<1> SUFFICES ASSUME DInv, [Next]_vars
             PROVE  DInv'
    OBVIOUS
<1>1. TypeOK'
      BY TypeStep DEF DInv
<1>2. Phases'
      BY PhasesStep
<1>3. (InTransaction => Planning)'
      BY <1>1, PlanningStep
<1>4. QED
      BY <1>1, <1>2, <1>3 DEF DInv

\* The inductive invariant of a mutation with deletes: between its first query
\* and its commit, whatever points at a planned row is planned, noted as set to
\* null or still asked for, and what others did not touch is as in its snapshot.
THEOREM DeleteInvariant == Spec => []DInv
BY DInvInit, DInvStep, PTL DEF Spec

\* Every variable of a mutation with deletes keeps its type, whatever the schema.
THEOREM DeleteTypeCorrect == Spec => []TypeOK
<1>1. DInv => TypeOK
      BY DEF DInv
<1>2. QED
      BY <1>1, DeleteInvariant, PTL

\* Only a commit makes a mutation a success; then nothing changes any more.
LEMMA OkByCommit ==
    ASSUME DInv, [Next]_vars, answer' = "ok"
    PROVE  UNCHANGED vars \/ (Commit /\ InTransaction)
<1>1. TypeOK /\ Phases
      BY DEF DInv
<1>2. CASE Commit
      BY <1>2 DEF Commit, InTransaction
<1>3. CASE OtherCommits
  <2>1. PICK db, R : Other(db, R)
        BY <1>1, <1>3, OtherCases
  <2>2. QED
        BY <1>1, <2>1 DEF Other, Phases
<1>4. CASE ~Commit /\ ~OtherCommits
  <2>1. answer # "ok" \/ pc = "ended"
        BY <1>1 DEF Phases
  <2>2. QED
        BY <1>4, <2>1 DEF Next, Begin, NotFound, AlreadyDeleted, Start, CollectRestrict, CollectCascade,
           CollectSetNull, Looks, Return, Refuse, CollectOrphans, PlanReady, DeleteRows, Confirm, Ended,
           Ends, SerializationFailure, report
<1>5. QED
      BY <1>2, <1>3, <1>4

\* What a committed mutation changed (rows deleted by a statement of executeDeletes or by a
\* cascade of it, and cells set to null) was permitted in the snapshot that the plan read,
\* in rows that nobody has changed since: PostgreSQL's cascade never leaves the plan.
THEOREM PermittedChanges == Spec => []ChangedAsPermitted
<1>1. Init => ChangedAsPermitted
      BY DEF Init, ChangedAsPermitted
<1>2. DInv /\ ChangedAsPermitted /\ [Next]_vars => ChangedAsPermitted'
  <2> SUFFICES ASSUME DInv, ChangedAsPermitted, [Next]_vars, answer' = "ok"
               PROVE  (gone \cup {c[1] : c \in nulled} \subseteq snapshot.allowed \ touched)'
      BY DEF ChangedAsPermitted
  <2>1. CASE UNCHANGED vars
        BY <2>1 DEF ChangedAsPermitted, vars, others, transaction, changes
  <2>2. CASE Commit /\ InTransaction
    <3>1. Planning
          BY <2>2 DEF DInv
    <3>2. UNCHANGED <<gone, nulled, snapshot, touched>>
          BY <2>2 DEF Commit, Ends, others, transaction, changes
    <3>3. gone \cup RowsOf(nulled) \subseteq snapshot.allowed \ touched
          BY <3>1 DEF Planning
    <3>4. QED
          BY <3>2, <3>3 DEF RowsOf
  <2>3. QED
        BY <2>1, <2>2, OkByCommit
<1>3. QED
      BY <1>1, <1>2, DeleteInvariant, PTL DEF Spec

-----------------------------------------------------------------------------
\* The reports: what is planned is what should go, and what is planned goes.

\* What a delete of the mutation leads to, by the definition.
GoesWith(j) == ShouldGo(snapshot, {deletes[j].row})

\* Why a mutation may be refused: what was found while planning,
Reason ==
    LET rows == ShouldGo(snapshot, NamedRows)
    IN  \/ ~(NamedRows \subseteq snapshot.rows)
        \/ \E j, k \in DOMAIN deletes :
              /\ j < k /\ ~deletes[k].checked
              /\ deletes[k].row \in ShouldGo(snapshot, {deletes[j].row})
        \/ ~(rows \cup Follows(snapshot, rows, "setNull") \subseteq snapshot.allowed)
        \/ Follows(snapshot, rows, "restrict") # {}
        \/ at > 1 /\ touched \cap rows # {}

\* or what others have made point at rows that should go.
RestrictedByOthers == Follows(committed, ShouldGo(snapshot, NamedRows), "restrict") \cap touched # {}

\* The variables of a delete, in their order.
Books ==
    /\ at \in Nat \ {0}
    /\ pc = "commit" => at > Len(deletes)
    /\ pc # "commit" => at \in DOMAIN deletes
    /\ orphanQueue \in Seq(Entities) /\ orphanIds \in [Entities -> SUBSET Rows]
    /\ pc # "planning" => orphanQueue = <<>>
    /\ pc = "planning" => planned \cap gone = {}
    /\ \A k \in DOMAIN stack : stack[k].rows \subseteq planned
    /\ Reported = planned \cup deleted
    /\ \A e \in Entities : orphanIds[e] # {} => \E n \in DOMAIN orphanQueue : orphanQueue[n] = e

\* An orphan of the entity e that is still to be looked at.
Awaited(r, e) == r \in orphanIds[e] \/ \E k \in DOMAIN stack : r \in stack[k].orphans[e]

\* Nothing is planned, or about to be, that should not go.
Within ==
    /\ \A r \in planned : r \in GoesWith(at)
    /\ \A e \in Entities, r \in Rows : Awaited(r, e) =>
          /\ r \in GoesWith(at) /\ EntityOf[r] = e
          /\ \E c \in Cells : c[1] \in planned /\ Seen.ref[c] = r
    /\ \A r \in deleted : \E j \in DOMAIN deletes : j < at /\ r \in GoesWith(j)

\* What the transaction has set to null, and what it left pointing at deleted rows.
Pointers ==
    /\ \A c \in nulled : onDelete[c[2]] = "setNull" /\ snapshot.ref[c] \in gone
    /\ \A c \in cleared : onDelete[c[2]] = "setNull"
    /\ \A c \in Cells : c[1] \in Seen.rows /\ Seen.ref[c] \in gone =>
          c[1] \in touched \/ onDelete[c[2]] = "restrict"

\* The rows of the deletes that are over are all that these lead to; of the current one,
\* all but what its calls and its queue of orphans will still ask for.
Complete ==
    /\ \A j \in DOMAIN deletes : j < at => deletes[j].row \in deleted
    /\ pc \in {"planning", "deleting"} /\ ~failed => Named \in planned
    /\ \A c \in Cells :
          c[1] \in snapshot.rows /\ onDelete[c[2]] = "cascade" /\ snapshot.ref[c] \in deleted => c[1] \in deleted
    /\ \A c \in Cells :
          c[1] \in deleted /\ c[2] \in OrphanRemoval /\ snapshot.ref[c] # NoRow => snapshot.ref[c] \in deleted
    /\ ~failed => \A c \in Cells :
          c[1] \in planned /\ c[2] \in OrphanRemoval /\ snapshot.ref[c] # NoRow =>
             snapshot.ref[c] \in planned \cup deleted \/ Awaited(snapshot.ref[c], Target[c[2]])

\* No other transaction has changed a row of the report.
Calm == touched \cap (Reported \cup RowsOf(cleared)) = {}

\* What the first statements of the queue will delete.
Roots(j) == UNION {deleteQueue[k] : k \in 1 .. j}
Goes(j) == Cascaded(Seen, Roots(j) \cap Seen.rows)

\* What they leave pointing at deleted rows was reported as set to null.
NullsReported(j) ==
    \A c \in Cells : onDelete[c[2]] = "setNull" /\ Seen.ref[c] \in Goes(j) => c[1] \in Goes(j) \/ c \in cleared

\* The statements delete what is planned, each row by the first that comes to it, and set to
\* null what was reported as such.
Applied ==
    Calm =>
       /\ \A r \in Rows : reports[r] <= 1
       /\ deleted \subseteq gone
       /\ nulled \subseteq cleared
       /\ \A c \in cleared : c \in nulled \/ c[1] \in gone \/ Seen.ref[c] \in planned \ gone
       /\ planned \subseteq gone \cup Goes(Len(deleteQueue))
       /\ ~failed => \A j \in DOMAIN deleteQueue :
             j < Len(deleteQueue) \/ pc = "deleting" => NullsReported(j)

Tracing ==
    /\ Books /\ Within /\ Pointers /\ Complete /\ Applied
    /\ failed => Reason

RInv ==
    /\ deletes \in Seq([row : Rows, checked : BOOLEAN]) \ {<<>>}
    /\ InTransaction => Tracing
    /\ ReportIsExact
    /\ RefusedForAReason

-----------------------------------------------------------------------------
\* Operators.

LEMMA ShouldGoIsLeast ==
    ASSUME NEW db, NEW R, \A c \in Cells : db.ref[c] # NoRow => db.ref[c] \in db.rows
    PROVE  /\ ShouldGo(db, R) \subseteq db.rows
           /\ R \cap db.rows \subseteq ShouldGo(db, R)
           /\ Follows(db, ShouldGo(db, R), "cascade") \subseteq ShouldGo(db, R)
           /\ \A c \in Cells : c[1] \in ShouldGo(db, R) /\ c[2] \in OrphanRemoval /\ db.ref[c] # NoRow =>
                 db.ref[c] \in ShouldGo(db, R)
           /\ \A S \in SUBSET db.rows :
                 /\ R \subseteq S
                 /\ Follows(db, S, "cascade") \subseteq S
                 /\ \A c \in Cells : c[1] \in S /\ c[2] \in OrphanRemoval /\ db.ref[c] # NoRow => db.ref[c] \in S
                 => ShouldGo(db, R) \subseteq S
<1> DEFINE left(S) == {db.ref[c] : c \in {x \in Cells : x[1] \in S /\ x[2] \in OrphanRemoval}}
           closed == {S \in SUBSET db.rows : /\ R \subseteq S
                                             /\ Follows(db, S, "cascade") \subseteq S
                                             /\ left(S) \ {NoRow} \subseteq S}
           G == ShouldGo(db, R)
<1>1. G = {r \in db.rows : \A S \in closed : r \in S}
      BY DEF ShouldGo
<1>2. \A S \in closed : G \subseteq S
      BY <1>1
<1>3. \A S : left(S) \ {NoRow} \subseteq S <=>
              \A c \in Cells : c[1] \in S /\ c[2] \in OrphanRemoval /\ db.ref[c] # NoRow => db.ref[c] \in S
      OBVIOUS
<1>4. ASSUME NEW x \in Follows(db, G, "cascade") PROVE x \in G
  <2>1. PICK rel \in Relations : onDelete[rel] = "cascade" /\ x \in Referring(db, rel, G)
        BY <1>4 DEF Follows
  <2>2. x \in db.rows
        BY <2>1 DEF Referring
  <2>3. ASSUME NEW S \in closed PROVE x \in S
        <3>1. x \in Referring(db, rel, S)
              BY <2>1, <1>2 DEF Referring
        <3>2. x \in Follows(db, S, "cascade")
              BY <3>1, <2>1 DEF Follows
        <3>3. QED
              BY <3>2
  <2>4. QED
        BY <1>1, <2>2, <2>3
<1>5. ASSUME NEW c \in Cells, c[1] \in G, c[2] \in OrphanRemoval, db.ref[c] # NoRow
      PROVE  db.ref[c] \in G
  <2>1. ASSUME NEW S \in closed PROVE db.ref[c] \in S
        BY <1>2, <1>3, <1>5
  <2>2. QED
        BY <1>1, <1>5, <2>1
<1>6. QED
      BY <1>1, <1>2, <1>3, <1>4, <1>5

LEMMA ShouldGoGrows ==
    ASSUME NEW db, NEW R, NEW T, R \subseteq T
    PROVE  ShouldGo(db, R) \subseteq ShouldGo(db, T)
BY DEF ShouldGo

LEMMA CascadedGrows ==
    ASSUME NEW db, NEW R, NEW T, R \subseteq T
    PROVE  Cascaded(db, R) \subseteq Cascaded(db, T)
BY DEF Cascaded

\* The sequence of a finite set has its elements.
LEMMA SequenceOfSet ==
    ASSUME NEW S, IsFiniteSet(S)
    PROVE  SetToSeq(S) \in Seq(S) /\ \A x \in S : \E n \in DOMAIN SetToSeq(S) : SetToSeq(S)[n] = x
<1> DEFINE n == Cardinality(S)
           f == SetToSeq(S)
<1>1. PICK m \in Nat : ExistsBijection(1 .. m, S)
      BY FS_NatBijection
<1>2. n = m
      BY <1>1, FS_CountingElements
<1>3. \E g \in [1 .. n -> S] : IsInjective(g)
      BY <1>1, <1>2 DEF ExistsBijection, Bijection, Injection
<1>4. f \in [1 .. n -> S] /\ IsInjective(f)
      BY <1>3 DEF SetToSeq
<1>5. f \in Injection(1 .. n, S)
      BY <1>4 DEF Injection
<1>6. Cardinality(1 .. n) = n
      BY <1>1, <1>2, FS_Interval
<1>7. f \in Surjection(1 .. n, S)
      BY <1>5, <1>6, FS_Injection
<1>8. f \in Seq(S)
      BY <1>1, <1>2, <1>4
<1>9. QED
      BY <1>4, <1>7, <1>8 DEF Surjection

-----------------------------------------------------------------------------
\* What stays as it is during a transaction.

LEMMA SnapshotRefs ==
    ASSUME TypeOK, Sound(snapshot), NEW c \in Cells, snapshot.ref[c] # NoRow
    PROVE  /\ c[1] \in snapshot.rows /\ snapshot.ref[c] \in snapshot.rows
           /\ EntityOf[snapshot.ref[c]] = Target[c[2]]
BY DEF Sound

LEMMA SeenRefs ==
    ASSUME TypeOK, Sound(snapshot)
    PROVE  /\ Seen.rows = snapshot.rows \ gone
           /\ Seen.allowed = snapshot.allowed \ gone
           /\ \A c \in Cells :
                 /\ Seen.ref[c] # NoRow =>
                       /\ c[1] \in Seen.rows /\ c \notin nulled
                       /\ Seen.ref[c] = snapshot.ref[c] /\ Seen.ref[c] \in snapshot.rows
                 /\ c[1] \notin gone /\ c \notin nulled => Seen.ref[c] = snapshot.ref[c]
<1>1. Seen.rows = snapshot.rows \ gone /\ Seen.allowed = snapshot.allowed \ gone
      BY SeenIs DEF Without
<1>2. \A c \in Cells : Seen.ref[c] = IF c \in nulled \/ c[1] \in gone THEN NoRow ELSE snapshot.ref[c]
      BY SeenIs DEF Without
<1>3. QED
      BY <1>1, <1>2, SnapshotRefs

LEMMA ReferringIs ==
    ASSUME NEW db, NEW rel \in Relations, NEW T, db.rows \subseteq Rows
    PROVE  \A x : x \in Referring(db, rel, T) <=>
              /\ x \in db.rows /\ <<x, rel>> \in Cells /\ db.ref[<<x, rel>>] \in T
BY DEF Referring, Cells

LEMMA FollowsIs ==
    ASSUME NEW db, NEW T, NEW kind, db.rows \subseteq Rows
    PROVE  \A x : x \in Follows(db, T, kind) <=>
              \E c \in Cells : /\ c[1] = x /\ x \in db.rows
                               /\ db.ref[c] \in T /\ onDelete[c[2]] = kind
<1>1. ASSUME NEW x, x \in Follows(db, T, kind)
      PROVE  \E c \in Cells : c[1] = x /\ x \in db.rows /\ db.ref[c] \in T /\ onDelete[c[2]] = kind
  <2>1. PICK rel \in Relations : onDelete[rel] = kind /\ x \in Referring(db, rel, T)
        BY <1>1 DEF Follows
  <2>2. x \in db.rows /\ <<x, rel>> \in Cells /\ db.ref[<<x, rel>>] \in T
        BY <2>1, ReferringIs
  <2>3. QED
        BY <2>1, <2>2
<1>2. ASSUME NEW c \in Cells, c[1] \in db.rows, db.ref[c] \in T, onDelete[c[2]] = kind
      PROVE  c[1] \in Follows(db, T, kind)
  <2>1. c[2] \in Relations /\ c = <<c[1], c[2]>>
        BY DEF Cells
  <2>2. c[1] \in Referring(db, c[2], T)
        BY <1>2, <2>1, ReferringIs
  <2>3. QED
        BY <1>2, <2>1, <2>2 DEF Follows
<1>3. QED
      BY <1>1, <1>2

LEMMA Same ==
    ASSUME UNCHANGED <<snapshot, deletes, onDelete>>
    PROVE  /\ \A j : GoesWith(j)' = GoesWith(j)
           /\ \A db, R : Cascaded(db, R)' = Cascaded(db, R)
           /\ \A db, R, kind : Follows(db, R, kind)' = Follows(db, R, kind)
           /\ NamedRows' = NamedRows
           /\ ShouldGo(snapshot, NamedRows)' = ShouldGo(snapshot, NamedRows)
<1>1. \A db, R, kind : Follows(db, R, kind)' = Follows(db, R, kind)
      BY DEF Follows
<1>2. \A db, R : Cascaded(db, R)' = Cascaded(db, R)
      BY <1>1 DEF Cascaded
<1>3. \A db, R : ShouldGo(db, R)' = ShouldGo(db, R)
      BY <1>1 DEF ShouldGo
<1>4. NamedRows' = NamedRows
      BY DEF NamedRows
<1>5. \A j : GoesWith(j)' = GoesWith(j)
  <2>1. SUFFICES ASSUME NEW j PROVE GoesWith(j)' = GoesWith(j)
        OBVIOUS
  <2>2. GoesWith(j)' = ShouldGo(snapshot, {deletes[j].row})'
        BY DEF GoesWith
  <2>3. QED
        BY <1>1 DEF GoesWith, ShouldGo
<1>6. ShouldGo(snapshot, NamedRows)' = ShouldGo(snapshot, NamedRows)
      BY <1>1, <1>4 DEF ShouldGo
<1>7. QED
      BY <1>1, <1>2, <1>4, <1>5, <1>6

LEMMA ReasonLasts ==
    ASSUME UNCHANGED <<snapshot, deletes, onDelete>>, touched \subseteq touched',
           at \in Nat, at' \in Nat, at <= at', Reason
    PROVE  Reason'
<1>1. \A j : ShouldGo(snapshot, {deletes[j].row})' = ShouldGo(snapshot, {deletes[j].row})
      BY Same DEF GoesWith
<1>2. /\ NamedRows' = NamedRows /\ ShouldGo(snapshot, NamedRows)' = ShouldGo(snapshot, NamedRows)
      /\ \A db, R, kind : Follows(db, R, kind)' = Follows(db, R, kind)
      BY Same
<1>3. at > 1 => at' > 1
      OBVIOUS
<1>4. QED
      BY <1>1, <1>2, <1>3 DEF Reason

LEMMA GoesWithIs ==
    ASSUME TypeOK, Sound(snapshot), NEW j \in DOMAIN deletes
    PROVE  /\ GoesWith(j) \subseteq ShouldGo(snapshot, NamedRows)
           /\ GoesWith(j) \subseteq snapshot.rows
           /\ deletes[j].row \in snapshot.rows => deletes[j].row \in GoesWith(j)
           /\ \A c \in Cells :
                 /\ onDelete[c[2]] = "cascade" /\ snapshot.ref[c] \in GoesWith(j) => c[1] \in GoesWith(j)
                 /\ c[1] \in GoesWith(j) /\ c[2] \in OrphanRemoval /\ snapshot.ref[c] # NoRow
                       => snapshot.ref[c] \in GoesWith(j)
<1>1. \A c \in Cells : snapshot.ref[c] # NoRow => snapshot.ref[c] \in snapshot.rows
      BY SnapshotRefs
<1>2. snapshot.rows \subseteq Rows /\ NoRow \notin Rows
      BY DeleteAssumption DEF TypeOK, Database
<1>3. deletes[j].row \in NamedRows
      BY DEF NamedRows
<1>4. GoesWith(j) \subseteq ShouldGo(snapshot, NamedRows)
      BY <1>3, ShouldGoGrows DEF GoesWith
<1>5. /\ GoesWith(j) \subseteq snapshot.rows
      /\ {deletes[j].row} \cap snapshot.rows \subseteq GoesWith(j)
      /\ Follows(snapshot, GoesWith(j), "cascade") \subseteq GoesWith(j)
      /\ \A c \in Cells : c[1] \in GoesWith(j) /\ c[2] \in OrphanRemoval /\ snapshot.ref[c] # NoRow
             => snapshot.ref[c] \in GoesWith(j)
      BY <1>1, ShouldGoIsLeast DEF GoesWith
<1>6. ASSUME NEW c \in Cells, onDelete[c[2]] = "cascade", snapshot.ref[c] \in GoesWith(j)
      PROVE  c[1] \in GoesWith(j)
  <2>1. c[1] \in snapshot.rows
        BY <1>2, <1>5, <1>6, SnapshotRefs
  <2>2. c[1] \in Follows(snapshot, GoesWith(j), "cascade")
        BY <1>2, <1>6, <2>1, FollowsIs
  <2>3. QED
        BY <1>5, <2>2
<1>7. QED
      BY <1>4, <1>5, <1>6

LEMMA OrphansOfIs ==
    ASSUME TypeOK, NEW rows, NEW e \in Entities, NEW r
    PROVE  r \in OrphansOf(rows)[e] <=>
              \E c \in Cells : /\ c[1] \in rows /\ c[2] \in OrphanRemoval /\ Target[c[2]] = e
                               /\ Seen.ref[c] = r /\ r # NoRow
BY DEF OrphansOf

-----------------------------------------------------------------------------
\* A step of planning, whichever it is: it plans rows and clears cells.

Plans(rows, cells) ==
    /\ pc \in {"lookup", "planning"} /\ pc' = "planning"
    /\ UNCHANGED <<snapshot, gone, nulled, touched, deletes, onDelete, deleted, at>>
    /\ rows \subseteq Seen.rows \ planned
    /\ rows \subseteq GoesWith(at)
    /\ planned' = planned \cup rows
    /\ reports' = [r \in Rows |-> IF r \in rows THEN reports[r] + 1 ELSE reports[r]]
    /\ \A c \in cells : c \in Cells /\ onDelete[c[2]] = "setNull" /\ Seen.ref[c] \in planned
    /\ cleared' = cleared \cup cells
    /\ ~failed' => ~failed /\ Named \in planned'

\* The calls and the orphans that await a look are kept, but for what was planned.
KeepsCalls(rows) ==
    /\ \A k \in DOMAIN stack' :
          \/ \E m \in DOMAIN stack : stack'[k].rows = stack[m].rows /\ stack'[k].orphans = stack[m].orphans
          \/ stack'[k].rows = rows /\ stack'[k].orphans = OrphansOf(rows)
    /\ rows # {} => \E k \in DOMAIN stack' : stack'[k].orphans = OrphansOf(rows)
    /\ orphanQueue' \in Seq(Entities) /\ orphanIds' \in [Entities -> SUBSET Rows]
    /\ \A e \in Entities :
          /\ \A r \in orphanIds'[e] : Awaited(r, e)
          /\ orphanIds'[e] # {} => \E n \in DOMAIN orphanQueue' : orphanQueue'[n] = e
          /\ ~failed' => \A r : Awaited(r, e) => Awaited(r, e)' \/ r \in planned' \cup gone

\* What was planned joins the queue, or is what a statement of the queue will come to.
Queues(rows) ==
    \/ deleteQueue' = deleteQueue /\ (Calm => rows \subseteq Goes(Len(deleteQueue)))
    \/ deleteQueue' = Append(deleteQueue, rows) /\ stack = <<>> /\ ~failed

PlanStep(rows, cells) == Plans(rows, cells) /\ KeepsCalls(rows) /\ Queues(rows)

LEMMA NotGone ==
    ASSUME DInv, Tracing, pc \in {"lookup", "planning"}
    PROVE  /\ Planning /\ Phases /\ TypeOK
           /\ planned \cap gone = {} /\ planned \subseteq Seen.rows
           /\ at \in DOMAIN deletes
<1>1. Planning /\ Phases /\ TypeOK
      BY DEF DInv, InTransaction
<1>2. planned \cap gone = {}
      BY <1>1 DEF Phases, Tracing, Books
<1>3. at \in DOMAIN deletes
      BY DEF Tracing, Books
<1>4. GoesWith(at) \subseteq snapshot.rows
      BY <1>1, <1>3, GoesWithIs DEF Planning
<1>5. planned \subseteq Seen.rows
      BY <1>1, <1>2, <1>4, SeenRefs DEF Tracing, Within, Planning
<1>6. QED
      BY <1>1, <1>2, <1>3, <1>5

LEMMA PlansReports ==
    ASSUME TypeOK, NEW rows, NEW cells, Plans(rows, cells)
    PROVE  /\ Reported' = Reported \cup rows
           /\ \A r \in Rows : r \notin rows => reports'[r] = reports[r]
           /\ \A r \in rows : reports'[r] = reports[r] + 1
           /\ Seen' = Seen
           /\ Calm' => Calm
<1>1. rows \subseteq Rows
  <2>1. Seen \in Database
        BY SeenIs, WithoutType DEF TypeOK
  <2>2. QED
        BY <2>1 DEF Plans, Database
<1>2. reports \in [Rows -> Nat]
      BY DEF TypeOK
<1>3. /\ \A r \in Rows : r \notin rows => reports'[r] = reports[r]
      /\ \A r \in rows : reports'[r] = reports[r] + 1
      BY <1>1, <1>2 DEF Plans
<1>4. Reported' = {r \in Rows : reports'[r] > 0}
      BY DEF Reported
<1>5. \A r \in Rows : reports'[r] > 0 <=> (r \in rows \/ reports[r] > 0)
      BY <1>2, <1>3
<1>6. Reported' = Reported \cup rows
      BY <1>1, <1>4, <1>5 DEF Reported
<1>7. Seen' = Seen
      BY SeenUnchanged DEF Plans
<1>8. Calm' => Calm
      BY <1>6 DEF Calm, Plans, RowsOf
<1>9. QED
      BY <1>3, <1>6, <1>7, <1>8

LEMMA PlanBooks ==
    ASSUME DInv, Tracing, NEW rows, NEW cells, PlanStep(rows, cells)
    PROVE  Books'
<1>1. /\ Plans(rows, cells) /\ KeepsCalls(rows) /\ TypeOK
      /\ planned \cap gone = {} /\ at \in DOMAIN deletes
      BY NotGone DEF PlanStep, Plans
<1>2. Reported' = planned' \cup deleted'
  <2>1. Reported = planned \cup deleted
        BY DEF Tracing, Books
  <2>2. Reported' = Reported \cup rows
        BY <1>1, PlansReports
  <2>3. planned' = planned \cup rows /\ deleted' = deleted
        BY <1>1 DEF Plans
  <2>4. QED
        BY <2>1, <2>2, <2>3
<1>3. planned' \cap gone' = {}
  <2>1. Seen.rows \cap gone = {}
        BY SeenIs DEF Without
  <2>2. QED
        BY <1>1, <2>1 DEF Plans
<1>4. \A k \in DOMAIN stack' : stack'[k].rows \subseteq planned'
      BY <1>1 DEF Plans, KeepsCalls, Tracing, Books
<1>5. at' \in Nat \ {0} /\ at' \in DOMAIN deletes'
      BY <1>1 DEF Plans, Tracing, Books
<1>6. QED
      BY <1>1, <1>2, <1>3, <1>4, <1>5 DEF Books, Plans, KeepsCalls

LEMMA AwaitedType ==
    ASSUME TypeOK, Tracing, NEW e \in Entities, NEW r, Awaited(r, e)
    PROVE  r \in Rows
<1>1. orphanIds[e] \subseteq Rows
      BY DEF Tracing, Books
<1>2. \A k \in DOMAIN stack : stack[k].orphans[e] \subseteq Rows
  <2>1. \A k \in DOMAIN stack : stack[k] \in Frame
        BY DEF TypeOK
  <2>2. QED
        BY <2>1 DEF Frame
<1>3. QED
      BY <1>1, <1>2 DEF Awaited

LEMMA PlanWithin ==
    ASSUME DInv, Tracing, NEW rows, NEW cells, PlanStep(rows, cells)
    PROVE  Within'
<1>1. /\ Plans(rows, cells) /\ KeepsCalls(rows) /\ TypeOK /\ Planning
      /\ at \in DOMAIN deletes
      BY NotGone DEF PlanStep, Plans
<1>2. GoesWith(at)' = GoesWith(at) /\ Seen' = Seen /\ \A j : GoesWith(j)' = GoesWith(j)
  <2>1. UNCHANGED <<snapshot, deletes, onDelete, at>>
        BY <1>1 DEF Plans
  <2>2. QED
        BY <1>1, <2>1, Same, PlansReports DEF GoesWith
<1>3. \A r \in planned' : r \in GoesWith(at)
      BY <1>1 DEF Plans, Tracing, Within
<1>4. ASSUME NEW e \in Entities, NEW r \in Rows, Awaited(r, e)'
      PROVE  /\ r \in GoesWith(at) /\ EntityOf[r] = e
             /\ \E c \in Cells : c[1] \in planned' /\ Seen.ref[c] = r
  <2>1. CASE Awaited(r, e)
    <3>1. /\ r \in GoesWith(at) /\ EntityOf[r] = e
          /\ \E c \in Cells : c[1] \in planned /\ Seen.ref[c] = r
          BY <2>1 DEF Tracing, Within
    <3>2. QED
          BY <1>1, <3>1 DEF Plans
  <2>2. CASE r \in OrphansOf(rows)[e]
    <3>1. PICK c \in Cells : /\ c[1] \in rows /\ c[2] \in OrphanRemoval /\ Target[c[2]] = e
                             /\ Seen.ref[c] = r /\ r # NoRow
          BY <1>1, <2>2, OrphansOfIs
    <3>2. r = snapshot.ref[c] /\ c[1] \in GoesWith(at) /\ c[1] \in planned'
          BY <1>1, <3>1, SeenRefs DEF Plans, Planning
    <3>3. QED
          BY <1>1, <3>1, <3>2, GoesWithIs, SnapshotRefs DEF Planning
  <2>3. QED
    <3>1. r \in orphanIds'[e] => Awaited(r, e)
          BY <1>1 DEF KeepsCalls
    <3>2. \A k \in DOMAIN stack' : r \in stack'[k].orphans[e] => Awaited(r, e) \/ r \in OrphansOf(rows)[e]
          BY <1>1 DEF KeepsCalls, Awaited
    <3>3. QED
          BY <1>4, <2>1, <2>2, <3>1, <3>2 DEF Awaited
<1>5. \A r \in deleted' : \E j \in DOMAIN deletes' : j < at' /\ r \in GoesWith(j)
      BY <1>1 DEF Plans, Tracing, Within
<1>6. QED
      BY <1>2, <1>3, <1>4, <1>5 DEF Within

LEMMA PlanPointers ==
    ASSUME DInv, Tracing, NEW rows, NEW cells, PlanStep(rows, cells)
    PROVE  Pointers'
<1>1. Plans(rows, cells) /\ TypeOK /\ Seen' = Seen
      BY NotGone, PlansReports DEF PlanStep, Plans
<1>2. UNCHANGED <<snapshot, gone, nulled, touched, onDelete>>
      BY <1>1 DEF Plans
<1>3. \A c \in cleared' : onDelete[c[2]] = "setNull"
      BY <1>1 DEF Plans, Tracing, Pointers
<1>4. QED
      BY <1>1, <1>2, <1>3 DEF Tracing, Pointers

LEMMA PlanComplete ==
    ASSUME DInv, Tracing, NEW rows, NEW cells, PlanStep(rows, cells)
    PROVE  Complete'
<1>1. /\ Plans(rows, cells) /\ KeepsCalls(rows) /\ TypeOK /\ Planning
      /\ at \in DOMAIN deletes
      BY NotGone DEF PlanStep, Plans
<1>2. UNCHANGED <<snapshot, gone, nulled, deletes, onDelete, deleted, at>>
      BY <1>1 DEF Plans
<1>3. gone \subseteq planned \cup deleted
      BY <1>1 DEF Planning, Tracing, Books
<1>4. ASSUME ~failed', NEW c \in Cells, c[1] \in planned', c[2] \in OrphanRemoval,
             NEW r, r = snapshot.ref[c], r # NoRow,
             NEW e \in Entities, e = Target[c[2]]
      PROVE  r \in planned' \cup deleted \/ Awaited(r, e)'
  <2>1. CASE c[1] \in planned
    <3>1. r \in planned \cup deleted \/ Awaited(r, e)
          BY <1>1, <1>4, <2>1 DEF Plans, Tracing, Complete
    <3>2. Awaited(r, e) => Awaited(r, e)' \/ r \in planned' \cup gone
          BY <1>1, <1>4 DEF KeepsCalls
    <3>3. QED
          BY <1>1, <1>3, <3>1, <3>2 DEF Plans
  <2>2. CASE c[1] \in rows
    <3>1. c \in nulled => r \in gone
          BY <1>4 DEF Tracing, Pointers
    <3>2. c \notin nulled => Seen.ref[c] = r
          BY <1>1, <1>4, <2>2, SeenRefs DEF Plans, Planning
    <3>3. c \notin nulled => r \in OrphansOf(rows)[e]
          BY <1>1, <1>4, <2>2, <3>2, OrphansOfIs
    <3>4. c \notin nulled => Awaited(r, e)'
          BY <1>1, <1>2, <2>2, <3>3 DEF KeepsCalls, Awaited
    <3>5. QED
          BY <1>1, <1>3, <3>1, <3>4 DEF Plans
  <2>3. QED
        BY <1>1, <1>4, <2>1, <2>2 DEF Plans
<1>5. ~failed' => Named' \in planned'
      BY <1>1, <1>2 DEF Plans, Named
<1>6. ASSUME ~failed', NEW c \in Cells, c[1] \in planned', c[2] \in OrphanRemoval, snapshot'.ref[c] # NoRow
      PROVE  snapshot'.ref[c] \in planned' \cup deleted' \/ Awaited(snapshot.ref[c], Target[c[2]])'
  <2>1. Target[c[2]] \in Entities
        BY DeleteAssumption DEF Cells
  <2>2. snapshot' = snapshot /\ deleted' = deleted
        BY <1>2
  <2>3. QED
        BY <1>4, <1>6, <2>1, <2>2
<1>7. QED
      BY <1>2, <1>5, <1>6 DEF Complete, Tracing

LEMMA GoesIs ==
    ASSUME TypeOK, Sound(snapshot), NEW j
    PROVE  /\ Roots(j) \cap Seen.rows \subseteq Goes(j) /\ Goes(j) \subseteq Seen.rows
           /\ \A c \in Cells : onDelete[c[2]] = "cascade" /\ Seen.ref[c] \in Goes(j) => c[1] \in Goes(j)
           /\ \A S \in SUBSET Seen.rows :
                 /\ Roots(j) \cap Seen.rows \subseteq S
                 /\ \A c \in Cells : onDelete[c[2]] = "cascade" /\ Seen.ref[c] \in S => c[1] \in S
                 => Goes(j) \subseteq S
<1>1. Seen.rows \subseteq Rows /\ NoRow \notin Rows
      BY SeenIsSound, DeleteAssumption DEF Database
<1>2. /\ Roots(j) \cap Seen.rows \subseteq Goes(j)
      /\ Goes(j) \subseteq Seen.rows
      /\ Follows(Seen, Goes(j), "cascade") \subseteq Goes(j)
      /\ \A S \in SUBSET Seen.rows :
            Roots(j) \cap Seen.rows \subseteq S /\ Follows(Seen, S, "cascade") \subseteq S => Goes(j) \subseteq S
      BY CascadedIsLeast DEF Goes
<1>3. \A c \in Cells : Seen.ref[c] \in Rows => c[1] \in Seen.rows
      BY <1>1, SeenRefs
<1>4. ASSUME NEW S \in SUBSET Seen.rows
      PROVE  Follows(Seen, S, "cascade") \subseteq S <=>
                \A c \in Cells : onDelete[c[2]] = "cascade" /\ Seen.ref[c] \in S => c[1] \in S
      BY <1>1, <1>3, FollowsIs
<1>5. QED
      BY <1>2, <1>4

\* When all calls have returned, what the queue comes to is what is planned.
LEMMA AllLooked ==
    ASSUME TypeOK, Planning, Covered, stack = <<>>,
           planned \subseteq gone \cup Goes(Len(deleteQueue))
    PROVE  /\ Goes(Len(deleteQueue)) \subseteq planned
           /\ NullsReported(Len(deleteQueue))
<1> DEFINE n == Len(deleteQueue)
           S == planned \cap Seen.rows
<1>1. Roots(n) \subseteq planned
  <2>1. DOMAIN deleteQueue = 1 .. n
        BY DEF TypeOK
  <2>2. QED
        BY <2>1 DEF Roots, Planning
<1>2. \A c \in Cells : Seen.ref[c] \in planned => c[1] \in Seen.rows
  <2>1. NoRow \notin planned
        BY DeleteAssumption DEF TypeOK
  <2>2. QED
        BY <2>1, SeenRefs DEF Planning
<1>3. \A c \in Cells : onDelete[c[2]] = "cascade" /\ Seen.ref[c] \in S => c[1] \in S
      BY <1>2, CoveredAtEnd
<1>4. Goes(n) \subseteq S
      BY <1>1, <1>3, GoesIs DEF Planning
<1>5. NullsReported(n)
  <2>1. SUFFICES ASSUME NEW c \in Cells, onDelete[c[2]] = "setNull", Seen.ref[c] \in Goes(n)
                 PROVE  c[1] \in Goes(n) \/ c \in cleared
        BY DEF NullsReported
  <2>2. c[1] \in Seen.rows /\ (c[1] \in planned \/ c \in cleared)
        BY <1>2, <1>4, <2>1, CoveredAtEnd
  <2>3. c[1] \notin gone
        BY <2>2, SeenIs DEF Without
  <2>4. QED
        BY <2>2, <2>3
<1>6. QED
      BY <1>4, <1>5

LEMMA AppendRoots ==
    ASSUME TypeOK, NEW rows \in SUBSET Rows, deleteQueue' = Append(deleteQueue, rows),
           NEW n, n = Len(deleteQueue)
    PROVE  /\ Len(deleteQueue') = n + 1 /\ n \in Nat
           /\ DOMAIN deleteQueue = 1 .. n /\ DOMAIN deleteQueue' = 1 .. (n + 1)
           /\ \A j \in 0 .. n : Roots(j)' = Roots(j)
           /\ Roots(n + 1)' = Roots(n) \cup rows
<1>1. deleteQueue \in Seq(SUBSET Rows)
      BY DEF TypeOK
<1>2. /\ Len(deleteQueue') = n + 1 /\ n \in Nat
      /\ DOMAIN deleteQueue = 1 .. n /\ DOMAIN deleteQueue' = 1 .. (n + 1)
      /\ \A k \in 1 .. n : deleteQueue'[k] = deleteQueue[k]
      /\ deleteQueue'[n + 1] = rows
      BY <1>1
<1>3. ASSUME NEW j \in 0 .. n
      PROVE  Roots(j)' = Roots(j)
  <2>1. \A k \in 1 .. j : k \in 1 .. n
        BY <1>2
  <2>2. QED
        BY <1>2, <2>1 DEF Roots
<1>4. Roots(n + 1)' = UNION {deleteQueue'[k] : k \in 1 .. (n + 1)}
      BY DEF Roots
<1>5. 1 .. (n + 1) = 1 .. n \cup {n + 1}
      BY <1>2
<1>6. QED
      BY <1>2, <1>3, <1>4, <1>5 DEF Roots

LEMMA GoesKept ==
    ASSUME Seen' = Seen, UNCHANGED <<snapshot, deletes, onDelete>>, NEW j
    PROVE  /\ Goes(j)' = Cascaded(Seen, Roots(j)' \cap Seen.rows)
           /\ Roots(j)' = Roots(j) => Goes(j)' = Goes(j)
<1>1. \A db, R : Cascaded(db, R)' = Cascaded(db, R)
      BY Same
<1>2. Goes(j)' = Cascaded(Seen, Roots(j)' \cap Seen.rows)
      BY <1>1 DEF Goes
<1>3. QED
      BY <1>2 DEF Goes

LEMMA PlanApplied ==
    ASSUME DInv, Tracing, NEW rows, NEW cells, PlanStep(rows, cells)
    PROVE  Applied'
<1>1. /\ Plans(rows, cells) /\ Queues(rows) /\ TypeOK /\ Planning /\ Phases
      /\ planned \cap gone = {}
      BY NotGone DEF PlanStep, Plans
<1>2. /\ UNCHANGED <<snapshot, gone, nulled, deletes, onDelete, deleted>>
      /\ planned' = planned \cup rows /\ pc' = "planning"
      BY <1>1 DEF Plans
<1>3. Seen' = Seen
      BY <1>1, PlansReports
<1>4. SUFFICES ASSUME Calm'
               PROVE  /\ \A r \in Rows : reports'[r] <= 1
                      /\ deleted' \subseteq gone'
                      /\ nulled' \subseteq cleared'
                      /\ \A c \in cleared' : c \in nulled' \/ c[1] \in gone' \/ Seen'.ref[c] \in planned' \ gone'
                      /\ planned' \subseteq gone' \cup Goes(Len(deleteQueue))'
                      /\ ~failed' => \A j \in DOMAIN deleteQueue' :
                            j < Len(deleteQueue') \/ pc' = "deleting" => NullsReported(j)'
      BY DEF Applied
<1>5. /\ \A r \in Rows : reports[r] <= 1
      /\ deleted \subseteq gone
      /\ nulled \subseteq cleared
      /\ \A c \in cleared : c \in nulled \/ c[1] \in gone \/ Seen.ref[c] \in planned \ gone
      /\ planned \subseteq gone \cup Goes(Len(deleteQueue))
      /\ ~failed => \A j \in DOMAIN deleteQueue :
             j < Len(deleteQueue) \/ pc = "deleting" => NullsReported(j)
      BY <1>1, <1>4, PlansReports DEF Tracing, Applied
<1>6. rows \subseteq Seen.rows \ planned /\ rows \cap gone = {} /\ rows \in SUBSET Rows
  <2>1. Seen \in Database
        BY <1>1, SeenIs, WithoutType DEF TypeOK
  <2>2. QED
        BY <1>1, <2>1, SeenIs DEF Plans, Without, Database
<1>7. \A r \in Rows : reports'[r] <= 1
  <2>1. ASSUME NEW r \in rows PROVE reports'[r] <= 1
    <3>1. r \notin Reported /\ r \in Rows
          BY <1>5, <1>6 DEF Tracing, Books
    <3>2. reports[r] \in Nat /\ ~(reports[r] > 0)
          BY <1>1, <3>1 DEF Reported, TypeOK
    <3>3. reports'[r] = reports[r] + 1
          BY <1>1, PlansReports
    <3>4. QED
          BY <3>2, <3>3
  <2>2. QED
        BY <1>1, <1>5, <2>1, PlansReports
<1>8. nulled' \subseteq cleared'
      BY <1>1, <1>2, <1>5 DEF Plans
<1>9. \A c \in cleared' : c \in nulled' \/ c[1] \in gone' \/ Seen'.ref[c] \in planned' \ gone'
      BY <1>1, <1>2, <1>3, <1>5 DEF Plans
<1>10. PICK n : n = Len(deleteQueue)
       OBVIOUS
<1>11. \A j : Roots(j)' = Roots(j) /\ NullsReported(j) => NullsReported(j)'
  <2>1. SUFFICES ASSUME NEW j, Roots(j)' = Roots(j), NullsReported(j) PROVE NullsReported(j)'
        OBVIOUS
  <2>2. Goes(j)' = Goes(j)
        BY <1>2, <1>3, <2>1, GoesKept
  <2>3. QED
        BY <1>1, <1>2, <1>3, <2>1, <2>2 DEF NullsReported, Plans
<1>12. CASE deleteQueue' = deleteQueue /\ (Calm => rows \subseteq Goes(Len(deleteQueue)))
  <2>1. \A j : Roots(j)' = Roots(j)
        BY <1>12 DEF Roots
  <2>2. Goes(Len(deleteQueue))' = Goes(Len(deleteQueue))
    <3>1. Goes(n)' = Goes(n)
          BY <1>2, <1>3, <2>1, GoesKept
    <3>2. QED
          BY <1>10, <1>12, <3>1
  <2>3. planned' \subseteq gone' \cup Goes(Len(deleteQueue))'
        BY <1>1, <1>2, <1>4, <1>5, <1>12, <2>2, PlansReports
  <2>4. ~failed' => \A j \in DOMAIN deleteQueue' : j < Len(deleteQueue') \/ pc' = "deleting" => NullsReported(j)'
        BY <1>1, <1>2, <1>5, <1>11, <1>12, <2>1 DEF Plans
  <2>5. QED
        BY <1>2, <1>5, <1>7, <1>8, <1>9, <2>3, <2>4
<1>13. CASE deleteQueue' = Append(deleteQueue, rows) /\ stack = <<>> /\ ~failed
  <2>1. /\ Len(deleteQueue') = n + 1 /\ n \in Nat
        /\ DOMAIN deleteQueue = 1 .. n /\ DOMAIN deleteQueue' = 1 .. (n + 1)
        /\ \A j \in 0 .. n : Roots(j)' = Roots(j)
        /\ Roots(n + 1)' = Roots(n) \cup rows
        BY <1>1, <1>6, <1>10, <1>13, AppendRoots
  <2>2. Goes(n + 1)' = Cascaded(Seen, (Roots(n) \cup rows) \cap Seen.rows)
        BY <1>2, <1>3, <2>1, GoesKept
  <2>3. Goes(n) \subseteq Goes(n + 1)'
    <3>1. Roots(n) \cap Seen.rows \subseteq (Roots(n) \cup rows) \cap Seen.rows
          OBVIOUS
    <3>2. QED
          BY <2>2, <3>1, CascadedGrows DEF Goes
  <2>4. rows \subseteq Goes(n + 1)'
    <3>1. rows \subseteq (Roots(n) \cup rows) \cap Seen.rows
          BY <1>6
    <3>2. (Roots(n) \cup rows) \cap Seen.rows \subseteq Goes(n + 1)'
          BY <2>2, CascadedIsLeast
    <3>3. QED
          BY <3>1, <3>2
  <2>5. planned' \subseteq gone' \cup Goes(Len(deleteQueue))'
    <3>1. Goes(Len(deleteQueue))' = Goes(n + 1)'
          BY <2>1
    <3>2. QED
          BY <1>2, <1>5, <1>10, <2>3, <2>4, <3>1
  <2>6. NullsReported(n)
    <3>1. Covered
          BY <1>1, <1>13 DEF Planning
    <3>2. QED
          BY <1>1, <1>5, <1>10, <1>13, <3>1, AllLooked
  <2>7. ASSUME NEW j \in DOMAIN deleteQueue', j < Len(deleteQueue')
        PROVE  NullsReported(j)'
    <3>1. j \in 1 .. n /\ j \in 0 .. n
          BY <2>1, <2>7
    <3>2. NullsReported(j)
          BY <1>5, <1>10, <1>13, <2>1, <2>6, <3>1
    <3>3. QED
          BY <1>11, <2>1, <3>1, <3>2
  <2>8. QED
        BY <1>2, <1>5, <1>7, <1>8, <1>9, <2>5, <2>7
<1>14. QED
       BY <1>1, <1>12, <1>13 DEF Queues

LEMMA PlanTraces ==
    ASSUME DInv, Tracing, NEW rows, NEW cells, PlanStep(rows, cells), failed' => failed \/ Reason
    PROVE  Tracing'
<1>1. failed' => Reason
      BY DEF Tracing
<1>2. /\ UNCHANGED <<snapshot, deletes, onDelete, touched, at>>
      /\ at \in Nat
      BY DEF PlanStep, Plans, Tracing, Books
<1>3. failed' => Reason'
      BY <1>1, <1>2, ReasonLasts
<1>4. QED
      BY <1>3, PlanBooks, PlanWithin, PlanPointers, PlanComplete, PlanApplied DEF Tracing

-----------------------------------------------------------------------------
\* The steps of planning.

\* The call looks at a relation: the other calls stay, and it keeps its rows and orphans.
LEMMA SameCalls ==
    ASSUME TypeOK, stack # <<>>, NEW rel
    PROVE  /\ Len(stack) \in DOMAIN stack /\ Call = stack[Len(stack)]
           /\ WithoutRelation(rel) \in Seq(Frame)
           /\ DOMAIN WithoutRelation(rel) = DOMAIN stack
           /\ \A k \in DOMAIN stack : /\ WithoutRelation(rel)[k].rows = stack[k].rows
                                      /\ WithoutRelation(rel)[k].orphans = stack[k].orphans
<1> DEFINE last == [Call EXCEPT !.pending = @ \ {rel}]
           w == WithoutRelation(rel)
<1>1. /\ Front(stack) \in Seq(Frame) /\ Len(Front(stack)) = Len(stack) - 1
      /\ Len(stack) \in Nat \ {0}
      /\ \A j \in 1..(Len(stack) - 1) : Front(stack)[j] = stack[j]
      /\ Last(stack) \in Frame
      BY StackFacts DEF TypeOK
<1>2. w = Append(Front(stack), last) /\ w \in Seq(Frame)
      BY WithoutRelationType DEF WithoutRelation
<1>3. /\ DOMAIN w = 1..Len(stack)
      /\ w[Len(stack)] = last
      /\ \A j \in 1..(Len(stack) - 1) : w[j] = stack[j]
      BY <1>1, <1>2
<1>4. DOMAIN stack = 1..Len(stack)
      BY DEF TypeOK
<1>5. Call = stack[Len(stack)] /\ last.rows = Call.rows /\ last.orphans = Call.orphans
      BY <1>1 DEF Call, Last, Frame
<1>6. \A k \in DOMAIN stack : w[k].rows = stack[k].rows /\ w[k].orphans = stack[k].orphans
  <2>1. SUFFICES ASSUME NEW k \in DOMAIN stack
                 PROVE  w[k].rows = stack[k].rows /\ w[k].orphans = stack[k].orphans
        OBVIOUS
  <2>2. CASE k = Len(stack)
        BY <1>3, <1>5, <2>2
  <2>3. CASE k \in 1..(Len(stack) - 1)
        BY <1>1, <1>3, <2>3
  <2>4. QED
        BY <1>1, <1>4, <2>2, <2>3
<1>7. QED
      BY <1>1, <1>2, <1>3, <1>4, <1>5, <1>6

\* What the call finds follows from what is planned.
LEMMA FoundIs ==
    ASSUME DInv, Tracing, NEW rel \in Relations, NEW kind, Looks(rel, kind)
    PROVE  /\ Found(rel) \subseteq Seen.rows \ planned /\ Found(rel) \cap gone = {}
           /\ \A x \in Found(rel) : /\ <<x, rel>> \in Cells
                                    /\ Seen.ref[<<x, rel>>] \in planned \ gone
                                    /\ snapshot.ref[<<x, rel>>] = Seen.ref[<<x, rel>>]
           /\ kind = "cascade" => Found(rel) \subseteq GoesWith(at)
           /\ Found(rel) \subseteq Follows(snapshot, ShouldGo(snapshot, NamedRows), kind)
<1>1. /\ pc = "planning" /\ stack # <<>> /\ onDelete[rel] = kind
      BY DEF Looks
<1>2. /\ TypeOK /\ Planning /\ planned \cap gone = {} /\ planned \subseteq Seen.rows
      /\ at \in DOMAIN deletes
      BY <1>1, NotGone
<1>3. Seen \in Database /\ NoRow \notin Rows /\ snapshot.rows \subseteq Rows
      BY <1>2, SeenIs, WithoutType, DeleteAssumption DEF TypeOK, Database
<1>4. Call.rows \subseteq planned
      BY <1>1, <1>2, SameCalls DEF Tracing, Books
<1>5. Found(rel) \subseteq Seen.rows \ planned /\ Found(rel) \cap gone = {}
  <2>1. Seen.rows \cap gone = {}
        BY SeenIs DEF Without
  <2>2. Found(rel) \subseteq Seen.rows \ planned
        BY DEF Found, Unplanned, Referring
  <2>3. QED
        BY <2>1, <2>2
<1>6. ASSUME NEW x \in Found(rel)
      PROVE  /\ <<x, rel>> \in Cells
             /\ Seen.ref[<<x, rel>>] \in planned \ gone
             /\ snapshot.ref[<<x, rel>>] = Seen.ref[<<x, rel>>]
             /\ x \in snapshot.rows
  <2>1. x \in Referring(Seen, rel, Call.rows)
        BY DEF Found, Unplanned
  <2>2. <<x, rel>> \in Cells /\ Seen.ref[<<x, rel>>] \in Call.rows
        BY <1>3, <2>1, ReferringIs DEF Database
  <2>3. Seen.ref[<<x, rel>>] \in planned \ gone /\ Seen.ref[<<x, rel>>] # NoRow
        BY <1>2, <1>3, <1>4, <2>2 DEF TypeOK
  <2>4. QED
        BY <1>2, <1>5, <2>2, <2>3, SeenRefs DEF Planning
<1>7. planned \subseteq GoesWith(at) /\ planned \subseteq ShouldGo(snapshot, NamedRows)
      BY <1>2, GoesWithIs DEF Planning, Tracing, Within
<1>8. kind = "cascade" => Found(rel) \subseteq GoesWith(at)
  <2>1. ASSUME kind = "cascade", NEW x \in Found(rel) PROVE x \in GoesWith(at)
    <3>1. PICK c \in Cells : c = <<x, rel>>
          BY <1>6
    <3>2. c[1] = x /\ c[2] = rel /\ snapshot.ref[c] \in GoesWith(at)
          BY <1>6, <1>7, <3>1
    <3>3. QED
          BY <1>1, <1>2, <2>1, <3>2, GoesWithIs DEF Planning
  <2>2. QED
        BY <2>1
<1>9. Found(rel) \subseteq Follows(snapshot, ShouldGo(snapshot, NamedRows), kind)
  <2>1. ASSUME NEW x \in Found(rel) PROVE x \in Follows(snapshot, ShouldGo(snapshot, NamedRows), kind)
    <3>1. PICK c \in Cells : c = <<x, rel>>
          BY <1>6
    <3>2. c[1] = x /\ c[2] = rel /\ snapshot.ref[c] \in ShouldGo(snapshot, NamedRows) /\ x \in snapshot.rows
          BY <1>6, <1>7, <3>1
    <3>3. QED
          BY <1>1, <1>3, <3>2, FollowsIs
  <2>2. QED
        BY <2>1
<1>10. QED
       BY <1>5, <1>6, <1>8, <1>9

LEMMA Forbidden ==
    ASSUME TypeOK, Sound(snapshot), NEW S, S \subseteq Seen.rows, ~Permitted(S),
           S \subseteq ShouldGo(snapshot, NamedRows)
                          \cup Follows(snapshot, ShouldGo(snapshot, NamedRows), "setNull")
    PROVE  Reason
<1>1. PICK x \in S : x \notin Seen.allowed
      BY DEF Permitted
<1>2. x \notin snapshot.allowed
      BY <1>1, SeenRefs
<1>3. QED
      BY <1>1, <1>2 DEF Reason

\* A call looks at a relation and plans nothing.
LEMMA LooksOnly ==
    ASSUME DInv, Tracing, NEW rel \in Relations, NEW kind, NEW cells, Looks(rel, kind),
           stack' = WithoutRelation(rel), UNCHANGED <<planned, reports>>,
           \A c \in cells : c \in Cells /\ onDelete[c[2]] = "setNull" /\ Seen.ref[c] \in planned,
           cleared' = cleared \cup cells,
           failed' => failed \/ Reason, failed => failed'
    PROVE  Tracing'
<1>1. /\ pc = "planning" /\ stack # <<>> /\ pc' = "planning" /\ deleteQueue' = deleteQueue
      /\ UNCHANGED <<snapshot, gone, nulled, touched, deletes, onDelete, deleted, at, orphanQueue, orphanIds>>
      BY DEF Looks, others, request, transaction, changes, orphans
<1>2. TypeOK
      BY DEF DInv
<1>3. failed \in BOOLEAN /\ (~failed => Named \in planned)
      BY <1>1, <1>2 DEF Tracing, Complete, TypeOK
<1>4. Plans({}, cells)
  <2>1. reports' = [r \in Rows |-> IF r \in {} THEN reports[r] + 1 ELSE reports[r]]
        BY <1>2 DEF TypeOK
  <2>2. QED
        BY <1>1, <1>3, <2>1 DEF Plans
<1>5. KeepsCalls({})
  <2>1. /\ DOMAIN stack' = DOMAIN stack
        /\ \A k \in DOMAIN stack : stack'[k].rows = stack[k].rows /\ stack'[k].orphans = stack[k].orphans
        BY <1>1, <1>2, SameCalls
  <2>2. \A e \in Entities : \A r : Awaited(r, e)' <=> Awaited(r, e)
        BY <1>1, <2>1 DEF Awaited
  <2>3. QED
        BY <1>1, <2>1, <2>2 DEF KeepsCalls, Tracing, Books, Awaited
<1>6. Queues({})
      BY <1>1 DEF Queues
<1>7. QED
      BY <1>4, <1>5, <1>6, PlanTraces DEF PlanStep

LEMMA RestrictTraces ==
    ASSUME DInv, Tracing, NEW rel \in Relations, CollectRestrict(rel)
    PROVE  Tracing'
<1>1. Looks(rel, "restrict") /\ stack' = WithoutRelation(rel) /\ UNCHANGED <<planned, reports, cleared>>
      BY DEF CollectRestrict, report
<1>2. Found(rel) # {} => Reason
      BY <1>1, FoundIs DEF Reason
<1>3. failed' = (failed \/ (~deferred /\ Found(rel) # {}))
      BY DEF CollectRestrict
<1>4. PICK cells : cells = {}
      OBVIOUS
<1>5. (failed' => failed \/ Reason) /\ (failed => failed')
      BY <1>2, <1>3
<1>6. /\ \A c \in cells : c \in Cells /\ onDelete[c[2]] = "setNull" /\ Seen.ref[c] \in planned
      /\ cleared' = cleared \cup cells
      BY <1>1, <1>4
<1>7. QED
      BY <1>1, <1>5, <1>6, LooksOnly

LEMMA SetNullTraces ==
    ASSUME DInv, Tracing, NEW rel \in Relations, CollectSetNull(rel)
    PROVE  Tracing'
<1>1. Looks(rel, "setNull") /\ stack' = WithoutRelation(rel) /\ UNCHANGED <<planned, reports>>
      BY DEF CollectSetNull
<1>2. TypeOK /\ Planning
      BY <1>1, NotGone DEF Looks
<1>3. ~Permitted(Found(rel)) => Reason
      BY <1>1, <1>2, FoundIs, Forbidden DEF Planning
<1>4. failed' = (failed \/ ~Permitted(Found(rel)))
      BY DEF CollectSetNull
<1> DEFINE cells == IF Permitted(Found(rel)) THEN Found(rel) \X {rel} ELSE {}
<1>5. cleared' = cleared \cup cells
      BY DEF CollectSetNull
<1>6. onDelete[rel] = "setNull"
      BY <1>1 DEF Looks
<1>7. ASSUME NEW c \in cells
      PROVE  c \in Cells /\ onDelete[c[2]] = "setNull" /\ Seen.ref[c] \in planned
  <2>1. PICK x \in Found(rel) : c = <<x, rel>>
        OBVIOUS
  <2>2. c \in Cells /\ Seen.ref[c] \in planned
        BY <1>1, <2>1, FoundIs
  <2>3. QED
        BY <1>6, <2>1, <2>2
<1>8. (failed' => failed \/ Reason) /\ (failed => failed')
      BY <1>3, <1>4
<1> HIDE DEF cells
<1>9. QED
      BY <1>1, <1>5, <1>7, <1>8, LooksOnly

LEMMA CascadeTraces ==
    ASSUME DInv, Tracing, NEW rel \in Relations, CollectCascade(rel)
    PROVE  Tracing'
<1>1. /\ Looks(rel, "cascade") /\ UNCHANGED cleared
      /\ failed' = (failed \/ ~Permitted(Found(rel)))
      BY DEF CollectCascade
<1>2. TypeOK /\ Planning /\ planned \subseteq Seen.rows /\ at \in DOMAIN deletes
      BY <1>1, NotGone DEF Looks
<1>3. CASE ~Permitted(Found(rel))
  <2>1. Reason
    <3>1. Found(rel) \subseteq ShouldGo(snapshot, NamedRows)
          BY <1>1, <1>2, FoundIs, GoesWithIs DEF Planning
    <3>2. QED
          BY <1>1, <1>2, <1>3, <3>1, FoundIs, Forbidden DEF Planning
  <2>2. stack' = WithoutRelation(rel) /\ UNCHANGED <<planned, reports>>
        BY <1>1, <1>3 DEF CollectCascade
  <2>3. (failed' => failed \/ Reason) /\ (failed => failed')
        BY <1>1, <2>1
  <2>4. PICK cells : cells = {}
        OBVIOUS
  <2>5. /\ \A c \in cells : c \in Cells /\ onDelete[c[2]] = "setNull" /\ Seen.ref[c] \in planned
        /\ cleared' = cleared \cup cells
        BY <1>1, <2>4
  <2>6. QED
        BY <1>1, <2>2, <2>3, <2>5, LooksOnly
<1>4. CASE Permitted(Found(rel))
  <2> DEFINE rows == Found(rel)
             calls == WithoutRelation(rel)
  <2>1. Process(Owner[rel], rows, calls) /\ failed' = (failed \/ FALSE)
        BY <1>1, <1>4 DEF CollectCascade
  <2>2. /\ pc = "planning" /\ stack # <<>> /\ pc' = "planning" /\ deleteQueue' = deleteQueue
        /\ UNCHANGED <<snapshot, gone, nulled, touched, deletes, onDelete, deleted, at, orphanQueue, orphanIds>>
        BY <1>1 DEF Looks, others, request, transaction, changes, orphans
  <2>3. rows \subseteq Seen.rows \ planned /\ rows \subseteq GoesWith(at)
        BY <1>1, FoundIs
  <2>4. failed \in BOOLEAN /\ (~failed => Named \in planned)
        BY <1>2, <2>2 DEF Tracing, Complete, TypeOK
  <2>5. Plans(rows, {})
        BY <1>1, <2>1, <2>2, <2>3, <2>4 DEF Plans, Process
  <2>6. /\ calls \in Seq(Frame) /\ DOMAIN calls = DOMAIN stack
        /\ \A k \in DOMAIN stack : calls[k].rows = stack[k].rows /\ calls[k].orphans = stack[k].orphans
        BY <1>2, <2>2, SameCalls
  <2>7. KeepsCalls(rows)
    <3> DEFINE frame == [rows |-> rows, pending |-> RelationsTo(Owner[rel]), orphans |-> OrphansOf(rows)]
    <3>1. rows = {} => stack' = calls
          BY <2>1 DEF Process
    <3>2. rows # {} => stack' = Append(calls, frame)
          BY <2>1 DEF Process
    <3>3. \A k \in DOMAIN calls : k \in DOMAIN stack' /\ stack'[k] = calls[k]
          BY <2>6, <3>1, <3>2
    <3>4. \A k \in DOMAIN stack' : k \in DOMAIN calls \/ (stack'[k] = frame /\ rows # {})
          BY <2>6, <3>1, <3>2
    <3>5. rows # {} => \E k \in DOMAIN stack' : stack'[k] = frame
      <4>1. rows # {} => Len(calls) + 1 \in DOMAIN stack' /\ stack'[Len(calls) + 1] = frame
            BY <2>6, <3>2
      <4>2. QED
            BY <4>1
    <3>6. \A e \in Entities : \A r : Awaited(r, e) => Awaited(r, e)'
          BY <2>2, <2>6, <3>3 DEF Awaited
    <3>7. \A k \in DOMAIN stack' :
             \/ \E m \in DOMAIN stack : stack'[k].rows = stack[m].rows /\ stack'[k].orphans = stack[m].orphans
             \/ stack'[k].rows = rows /\ stack'[k].orphans = OrphansOf(rows)
          BY <2>6, <3>3, <3>4
    <3>8. QED
          BY <2>2, <3>5, <3>6, <3>7 DEF KeepsCalls, Tracing, Books, Awaited
  <2>8. Queues(rows)
    <3>1. ASSUME Calm, NEW x \in rows PROVE x \in Goes(Len(deleteQueue))
      <4>1. PICK c \in Cells : c = <<x, rel>> /\ Seen.ref[c] \in planned \ gone
            BY <1>1, FoundIs
      <4>2. Seen.ref[c] \in Goes(Len(deleteQueue)) /\ onDelete[c[2]] = "cascade" /\ c[1] = x
            BY <1>1, <3>1, <4>1 DEF Tracing, Applied, Looks
      <4>3. QED
            BY <1>2, <4>2, GoesIs DEF Planning
    <3>2. QED
          BY <2>2, <3>1 DEF Queues
  <2>9. QED
        BY <2>1, <2>4, <2>5, <2>7, <2>8, PlanTraces DEF PlanStep
<1>5. QED
      BY <1>3, <1>4

LEMMA ReturnTraces ==
    ASSUME DInv, Tracing, Return
    PROVE  Tracing'
<1>1. /\ pc = "planning" /\ pc' = "planning" /\ stack # <<>> /\ stack' = Front(stack)
      /\ UNCHANGED <<snapshot, gone, nulled, touched, deletes, onDelete, deleted, at,
                     planned, reports, cleared, deleteQueue, failed>>
      BY DEF Return, others, request, transaction, changes, report
<1>2. TypeOK
      BY DEF DInv
<1>3. failed \in BOOLEAN /\ (~failed => Named \in planned)
      BY <1>1, <1>2 DEF Tracing, Complete, TypeOK
<1>4. Plans({}, {})
  <2>1. reports' = [r \in Rows |-> IF r \in {} THEN reports[r] + 1 ELSE reports[r]]
        BY <1>1, <1>2 DEF TypeOK
  <2>2. QED
        BY <1>1, <1>3, <2>1 DEF Plans
<1>5. KeepsCalls({})
  <2>1. /\ Front(stack) \in Seq(Frame) /\ Len(Front(stack)) = Len(stack) - 1
        /\ Len(stack) \in Nat \ {0}
        /\ \A k \in 1..(Len(stack) - 1) : Front(stack)[k] = stack[k]
        /\ Call \in Frame /\ Call = stack[Len(stack)] /\ Len(stack) \in DOMAIN stack
        BY <1>1, <1>2, StackFacts, SameCalls DEF TypeOK, Call
  <2>2. /\ DOMAIN stack = 1 .. Len(stack)
        /\ \A k \in DOMAIN stack' : k \in DOMAIN stack /\ stack'[k] = stack[k]
        /\ \A k \in DOMAIN stack : k = Len(stack) \/ (k \in DOMAIN stack' /\ stack'[k] = stack[k])
    <3>1. DOMAIN stack = 1 .. Len(stack) /\ DOMAIN stack' = 1 .. (Len(stack) - 1)
          BY <1>1, <1>2, <2>1 DEF TypeOK
    <3>2. \A k \in 1 .. Len(stack) : k = Len(stack) \/ k \in 1 .. (Len(stack) - 1)
          BY <2>1
    <3>3. \A k \in 1 .. (Len(stack) - 1) : k \in 1 .. Len(stack) /\ stack'[k] = stack[k]
          BY <1>1, <2>1
    <3>4. QED
          BY <3>1, <3>2, <3>3
  <2>3. Call.orphans \in [Entities -> SUBSET Rows]
        BY <2>1 DEF Frame
  <2> DEFINE new == {e \in Entities : Call.orphans[e] # {} /\ orphanIds[e] = {}}
  <2>4. SetToSeq(new) \in Seq(new) /\ \A x \in new : \E n \in DOMAIN SetToSeq(new) : SetToSeq(new)[n] = x
    <3>1. IsFiniteSet(new)
          BY DeleteAssumption, FS_Subset
    <3>2. QED
          BY <3>1, SequenceOfSet
  <2>5. orphanQueue' = orphanQueue \o SetToSeq(new) /\ orphanQueue \in Seq(Entities)
        BY DEF Return, Tracing, Books
  <2> HIDE DEF new
  <2>6. PICK s : s = SetToSeq(new)
        OBVIOUS
  <2>7. s \in Seq(Entities)
    <3>1. new \subseteq Entities
          BY DEF new
    <3>2. QED
          BY <2>4, <2>6, <3>1
  <2>8. /\ orphanQueue' \in Seq(Entities)
        /\ \A n \in DOMAIN orphanQueue : n \in DOMAIN orphanQueue' /\ orphanQueue'[n] = orphanQueue[n]
        /\ \A n \in DOMAIN s : Len(orphanQueue) + n \in DOMAIN orphanQueue' /\ orphanQueue'[Len(orphanQueue) + n] = s[n]
        BY <2>5, <2>6, <2>7
  <2>9. orphanIds' = [e \in Entities |-> orphanIds[e] \cup Call.orphans[e]] /\ orphanIds \in [Entities -> SUBSET Rows]
        BY DEF Return, Tracing, Books
  <2>10. orphanIds' \in [Entities -> SUBSET Rows]
        BY <2>3, <2>9
  <2>11. ASSUME NEW e \in Entities
         PROVE  /\ \A r \in orphanIds'[e] : Awaited(r, e)
                /\ orphanIds'[e] # {} => \E n \in DOMAIN orphanQueue' : orphanQueue'[n] = e
                /\ \A r : Awaited(r, e) => Awaited(r, e)'
    <3>1. orphanIds'[e] = orphanIds[e] \cup stack[Len(stack)].orphans[e]
          BY <2>1, <2>9
    <3>2. \A r \in orphanIds'[e] : Awaited(r, e)
          BY <2>1, <3>1 DEF Awaited
    <3>3. \A r : Awaited(r, e) => Awaited(r, e)'
          BY <2>2, <3>1 DEF Awaited
    <3>4. ASSUME orphanIds[e] # {}
          PROVE  \E n \in DOMAIN orphanQueue' : orphanQueue'[n] = e
      <4>1. PICK n \in DOMAIN orphanQueue : orphanQueue[n] = e
            BY <3>4 DEF Tracing, Books
      <4>2. QED
            BY <2>8, <4>1
    <3>5. ASSUME orphanIds[e] = {}, orphanIds'[e] # {}
          PROVE  \E n \in DOMAIN orphanQueue' : orphanQueue'[n] = e
      <4>1. e \in new
            BY <2>1, <3>1, <3>5 DEF new
      <4>2. PICK n \in DOMAIN s : s[n] = e
            BY <2>4, <2>6, <4>1
      <4>3. QED
            BY <2>8, <4>2
    <3>6. QED
          BY <3>2, <3>3, <3>4, <3>5
  <2>12. QED
        BY <1>1, <2>2, <2>8, <2>10, <2>11 DEF KeepsCalls
<1>6. Queues({})
      BY <1>1 DEF Queues
<1>7. QED
      BY <1>1, <1>4, <1>5, <1>6, PlanTraces DEF PlanStep

\* The rows that collectDeleteInfo fetches.
Candidates(entity, ids) == {r \in Seen.rows \cap ids : EntityOf[r] = entity}

\* Why collectDeleteInfo fails.
LEMMA CollectOutcome ==
    ASSUME TypeOK, ~failed, NEW entity, NEW ids, Collect(entity, ids),
           NEW found, found = Candidates(entity, ids)
    PROVE  \/ /\ failed' = TRUE
              /\ deleteQueue' = Append(deleteQueue, {})
              /\ UNCHANGED <<planned, reports, stack>>
              /\ found = {} \/ ~Permitted(found \ planned)
           \/ /\ ~failed' /\ found # {}
              /\ deleteQueue' = Append(deleteQueue, found \ planned)
              /\ Process(entity, found \ planned, stack)
<1> DEFINE rows == Unplanned(found)
           ok == found # {} /\ Permitted(rows)
<1>1. rows = found \ planned
      BY DEF Unplanned
<1>0. found = {r \in Seen.rows \cap ids : EntityOf[r] = entity}
      BY DEF Candidates
<1>2. failed' = (failed \/ ~ok) /\ deleteQueue' = Append(deleteQueue, IF ok THEN rows ELSE {})
      BY <1>0 DEF Collect
<1>3. IF ok THEN Process(entity, rows, stack) ELSE UNCHANGED <<planned, reports, stack>>
      BY <1>0 DEF Collect
<1>4. CASE ok
  <2>1. ~failed'
        BY <1>2, <1>4
  <2>2. deleteQueue' = Append(deleteQueue, rows)
        BY <1>2, <1>4
  <2>3. Process(entity, rows, stack)
        BY <1>3, <1>4
  <2>4. QED
        BY <1>1, <1>4, <2>1, <2>2, <2>3
<1>5. CASE ~ok
      BY <1>1, <1>2, <1>3, <1>5 DEF TypeOK
<1>6. QED
      BY <1>4, <1>5

LEMMA CollectTraces ==
    ASSUME DInv, Tracing, pc \in {"lookup", "planning"}, pc' = "planning", stack = <<>>, ~failed,
           NEW entity \in Entities, NEW ids, Collect(entity, ids),
           UNCHANGED <<snapshot, gone, nulled, touched, deletes, onDelete, deleted, at, cleared>>,
           orphanQueue' \in Seq(Entities), orphanIds' \in [Entities -> SUBSET Rows],
           NEW found, found = Candidates(entity, ids),
           found \subseteq GoesWith(at), found = {} => Reason,
           found # {} => Named \in planned \cup found,
           \A e \in Entities :
              /\ orphanIds'[e] \subseteq orphanIds[e]
              /\ orphanIds'[e] # {} => \E n \in DOMAIN orphanQueue' : orphanQueue'[n] = e
              /\ \A r \in orphanIds[e] : r \in orphanIds'[e] \cup planned \cup gone \cup found
    PROVE  Tracing'
<1>1. TypeOK /\ Planning /\ at \in DOMAIN deletes
      BY NotGone
<1>2. \A e \in Entities : \A r : Awaited(r, e) <=> r \in orphanIds[e]
      BY DEF Awaited
<1>0. found = {r \in Seen.rows \cap ids : EntityOf[r] = entity}
      BY DEF Candidates
<1>3. CASE /\ failed' = TRUE
           /\ deleteQueue' = Append(deleteQueue, {})
           /\ UNCHANGED <<planned, reports, stack>>
           /\ found = {} \/ ~Permitted(found \ planned)
  <2>1. Reason
    <3>1. found \subseteq ShouldGo(snapshot, NamedRows) /\ found \subseteq Seen.rows
          BY <1>0, <1>1, GoesWithIs DEF Planning
    <3>2. ~Permitted(found \ planned) => Reason
          BY <1>1, <3>1, Forbidden DEF Planning
    <3>3. QED
          BY <1>3, <3>2
  <2>2. Plans({}, {})
    <3>1. reports' = [r \in Rows |-> IF r \in {} THEN reports[r] + 1 ELSE reports[r]]
          BY <1>1, <1>3 DEF TypeOK
    <3>2. QED
          BY <1>3, <3>1 DEF Plans
  <2>3. KeepsCalls({})
        BY <1>2, <1>3 DEF KeepsCalls
  <2>4. Queues({})
        BY <1>3 DEF Queues
  <2>5. QED
        BY <2>1, <2>2, <2>3, <2>4, PlanTraces DEF PlanStep
<1>4. CASE /\ ~failed' /\ found # {}
           /\ deleteQueue' = Append(deleteQueue, found \ planned)
           /\ Process(entity, found \ planned, stack)
  <2> DEFINE frame(rows) == [rows |-> rows, pending |-> RelationsTo(entity), orphans |-> OrphansOf(rows)]
  <2>0. PICK rows : rows = found \ planned
        OBVIOUS
  <2>1. /\ planned' = planned \cup rows /\ found \subseteq planned'
        /\ reports' = [r \in Rows |-> IF r \in rows THEN reports[r] + 1 ELSE reports[r]]
        /\ rows = {} => stack' = <<>>
        /\ rows # {} => stack' = <<frame(rows)>>
    <3>1. Process(entity, rows, stack)
          BY <1>4, <2>0
    <3>2. Append(<<>>, frame(rows)) = <<frame(rows)>>
          OBVIOUS
    <3>3. stack' = IF rows = {} THEN stack ELSE Append(stack, frame(rows))
          BY <3>1 DEF Process
    <3>4. planned' = planned \cup rows /\ reports' = [r \in Rows |-> IF r \in rows THEN reports[r] + 1 ELSE reports[r]]
          BY <3>1 DEF Process
    <3>5. QED
          BY <2>0, <3>2, <3>3, <3>4
  <2>2. Plans(rows, {})
        BY <1>0, <1>4, <2>0, <2>1 DEF Plans
  <2>3. KeepsCalls(rows)
    <3>1. \A k \in DOMAIN stack' : rows # {} /\ stack'[k] = frame(rows)
          BY <2>1
    <3>2. rows # {} => 1 \in DOMAIN stack' /\ stack'[1] = frame(rows)
          BY <2>1
    <3>3. \A e \in Entities : \A r : r \in orphanIds'[e] => Awaited(r, e)'
          BY DEF Awaited
    <3>4. \A e \in Entities : \A r : Awaited(r, e) => Awaited(r, e)' \/ r \in planned' \cup gone
          BY <1>2, <2>1, <3>3
    <3>5. QED
          BY <1>2, <3>1, <3>2, <3>4 DEF KeepsCalls
  <2>4. Queues(rows)
        BY <1>4, <2>0 DEF Queues
  <2>5. QED
        BY <1>4, <2>2, <2>3, <2>4, PlanTraces DEF PlanStep
<1>5. \/ /\ failed' = TRUE
         /\ deleteQueue' = Append(deleteQueue, {})
         /\ UNCHANGED <<planned, reports, stack>>
         /\ found = {} \/ ~Permitted(found \ planned)
      \/ /\ ~failed' /\ found # {}
         /\ deleteQueue' = Append(deleteQueue, found \ planned)
         /\ Process(entity, found \ planned, stack)
      BY <1>1, CollectOutcome
<1>6. QED
      BY <1>3, <1>4, <1>5

\* In lookup, only earlier deletes have deleted rows.
LEMMA LookupFacts ==
    ASSUME DInv, Tracing, pc = "lookup", deletes \in Seq([row : Rows, checked : BOOLEAN])
    PROVE  /\ TypeOK /\ Planning /\ ~failed /\ stack = <<>> /\ planned = {}
           /\ at \in DOMAIN deletes /\ Named \in Rows /\ Named \in NamedRows
           /\ deletes[at].checked \in BOOLEAN
           /\ gone \subseteq deleted
<1>1. TypeOK /\ Planning /\ Phases /\ at \in DOMAIN deletes
      BY NotGone
<1>2. ~failed /\ stack = <<>> /\ planned = {}
      BY <1>1 DEF Phases
<1>3. deletes[at] \in [row : Rows, checked : BOOLEAN]
  <2>1. PICK D : D = [row : Rows, checked : BOOLEAN]
        OBVIOUS
  <2>2. deletes \in Seq(D) /\ at \in 1 .. Len(deletes)
        BY <1>1, <2>1
  <2>3. deletes[at] \in D
        BY <2>2, ElementOfSeq
  <2>4. QED
        BY <2>1, <2>3
<1>4. gone \subseteq deleted
      BY <1>1, <1>2 DEF Planning, Tracing, Books
<1>5. QED
      BY <1>1, <1>2, <1>3, <1>4 DEF Named, NamedRows

LEMMA StartTraces ==
    ASSUME DInv, Tracing, deletes \in Seq([row : Rows, checked : BOOLEAN]), Start
    PROVE  Tracing'
<1>1. /\ pc = "lookup" /\ pc' = "planning" /\ IsFound /\ ~WasDeleted
      /\ Collect(EntityOf[Named], {Named})
      /\ UNCHANGED <<snapshot, gone, nulled, touched, deletes, onDelete, deleted, at, cleared,
                     orphanQueue, orphanIds>>
      BY DEF Start, others, request, transaction, changes, orphans
<1>2. /\ TypeOK /\ Planning /\ ~failed /\ stack = <<>> /\ planned = {}
      /\ at \in DOMAIN deletes /\ Named \in Rows /\ Named \in NamedRows /\ gone \subseteq deleted
      BY <1>1, LookupFacts
<1>3. EntityOf[Named] \in Entities
      BY <1>2, DeleteAssumption
<1>4. PICK found : found = Candidates(EntityOf[Named], {Named})
      OBVIOUS
<1>5. found \subseteq {Named} \cap Seen.rows /\ (Named \in Seen.rows => Named \in found)
      BY <1>4 DEF Candidates
<1>6. found \subseteq GoesWith(at)
  <2>1. Named \in snapshot.rows => Named \in GoesWith(at)
        BY <1>2, GoesWithIs DEF Planning, Named
  <2>2. Seen.rows \subseteq snapshot.rows
        BY SeenIs DEF Without
  <2>3. QED
        BY <1>5, <2>1, <2>2
<1>7. found = {} => Reason
  <2>1. SUFFICES ASSUME found = {} PROVE Reason
        OBVIOUS
  <2>2. Named \notin Seen.rows /\ Named \notin gone
        BY <1>1, <1>2, <1>5, <2>1 DEF WasDeleted
  <2>3. Named \notin snapshot.rows
        BY <2>2, SeenIs DEF Without
  <2>4. QED
        BY <1>2, <2>3 DEF Reason
<1>8. found # {} => Named \in planned \cup found
      BY <1>5
<1>9. orphanQueue' \in Seq(Entities) /\ orphanIds' \in [Entities -> SUBSET Rows]
      BY <1>1 DEF Tracing, Books
<1>10. \A e \in Entities :
          /\ orphanIds'[e] \subseteq orphanIds[e]
          /\ orphanIds'[e] # {} => \E n \in DOMAIN orphanQueue' : orphanQueue'[n] = e
          /\ \A r \in orphanIds[e] : r \in orphanIds'[e] \cup planned \cup gone \cup found
      BY <1>1 DEF Tracing, Books
<1>11. PICK entity, ids : entity = EntityOf[Named] /\ ids = {Named}
       OBVIOUS
<1>12. Collect(entity, ids) /\ found = Candidates(entity, ids) /\ entity \in Entities
       BY <1>1, <1>3, <1>4, <1>11
<1>13. QED
       BY <1>1, <1>2, <1>6, <1>7, <1>8, <1>9, <1>10, <1>12, CollectTraces

\* An orphan that an earlier delete of the mutation has deleted although a planned row still
\* points at it: the relation restricts deletes, or another transaction changed the row.
LEMMA OrphanIsGone ==
    ASSUME DInv, Tracing, pc = "planning", deletes \in Seq([row : Rows, checked : BOOLEAN]),
           NEW e \in Entities, NEW r \in Rows, Awaited(r, e), r \in gone
    PROVE  Reason
<1>1. /\ TypeOK /\ Planning /\ planned \cap gone = {} /\ planned \subseteq Seen.rows
      /\ at \in DOMAIN deletes
      BY NotGone
<1>2. PICK c \in Cells : c[1] \in planned /\ Seen.ref[c] = r /\ r \in GoesWith(at)
      BY DEF Tracing, Within
<1>3. r # NoRow /\ snapshot.ref[c] = r /\ c[1] \in snapshot.rows
      BY <1>1, <1>2, DeleteAssumption, SeenRefs DEF Planning
<1>4. c[1] \in ShouldGo(snapshot, NamedRows) /\ r \in ShouldGo(snapshot, NamedRows)
      BY <1>1, <1>2, GoesWithIs DEF Planning, Tracing, Within
<1>5. c[1] \in touched \/ onDelete[c[2]] = "restrict"
      BY <1>1, <1>2 DEF Tracing, Pointers
<1>6. CASE onDelete[c[2]] = "restrict"
  <2>1. c[1] \in Follows(snapshot, ShouldGo(snapshot, NamedRows), "restrict")
    <3>1. snapshot.rows \subseteq Rows
          BY <1>1 DEF TypeOK, Database
    <3>2. QED
          BY <1>3, <1>4, <1>6, <3>1, FollowsIs
  <2>2. QED
        BY <2>1 DEF Reason
<1>7. CASE c[1] \in touched
  <2>1. r \in deleted
        BY <1>1 DEF Planning, Tracing, Books
  <2>2. PICK j \in DOMAIN deletes : j < at
        BY <2>1 DEF Tracing, Within
  <2>3. at > 1
    <3>1. at \in Nat /\ j \in Nat \ {0}
          BY DEF Tracing, Books
    <3>2. QED
          BY <2>2, <3>1
  <2>4. QED
        BY <1>4, <1>7, <2>3 DEF Reason
<1>8. QED
      BY <1>5, <1>6, <1>7

LEMMA OrphansTrace ==
    ASSUME DInv, Tracing, deletes \in Seq([row : Rows, checked : BOOLEAN]), CollectOrphans
    PROVE  Tracing'
<1>1. /\ pc = "planning" /\ pc' = "planning" /\ stack = <<>> /\ ~failed /\ orphanQueue # <<>>
      /\ UNCHANGED <<snapshot, gone, nulled, touched, deletes, onDelete, deleted, at, cleared>>
      /\ orphanQueue' = Tail(orphanQueue)
      BY DEF CollectOrphans, others, request, transaction, changes
<1>2. /\ TypeOK /\ Planning /\ planned \cap gone = {}
      /\ at \in DOMAIN deletes
      BY <1>1, NotGone
<1>3. orphanQueue \in Seq(Entities) /\ orphanIds \in [Entities -> SUBSET Rows]
      BY DEF Tracing, Books
<1>4. PICK entity \in Entities : entity = orphanQueue[1] /\ entity = Head(orphanQueue)
      BY <1>1, <1>3
<1>5. orphanIds' = [orphanIds EXCEPT ![entity] = {}]
      BY <1>4 DEF CollectOrphans
<1>6. PICK ids : ids = Unplanned(orphanIds[entity])
      OBVIOUS
<1>7. ids = orphanIds[entity] \ planned
      BY <1>6 DEF Unplanned
<1>8. IF ids = {} THEN UNCHANGED <<stack, planned, deleteQueue, failed, reports>> ELSE Collect(entity, ids)
      BY <1>4, <1>6 DEF CollectOrphans
<1>9. Named \in planned
      BY <1>1 DEF Tracing, Complete
<1>10. \A e \in Entities : \A r : Awaited(r, e) <=> r \in orphanIds[e]
       BY <1>1 DEF Awaited
<1>11. orphanQueue' \in Seq(Entities) /\ orphanIds' \in [Entities -> SUBSET Rows]
       BY <1>1, <1>3, <1>5
<1>12. ASSUME NEW e \in Entities, orphanIds'[e] # {}
       PROVE  \E n \in DOMAIN orphanQueue' : orphanQueue'[n] = e
  <2>1. e # entity /\ orphanIds[e] # {}
        BY <1>3, <1>5, <1>12
  <2>2. PICK n \in DOMAIN orphanQueue : orphanQueue[n] = e
        BY <2>1 DEF Tracing, Books
  <2>3. n # 1
        BY <1>4, <2>1, <2>2
  <2>4. n - 1 \in DOMAIN Tail(orphanQueue) /\ Tail(orphanQueue)[n - 1] = orphanQueue[n]
        BY <1>1, <1>3, <2>2, <2>3
  <2>5. QED
        BY <1>1, <2>2, <2>4
<1>13. \A e \in Entities : orphanIds'[e] \subseteq orphanIds[e] /\ (e # entity => orphanIds'[e] = orphanIds[e])
       BY <1>3, <1>5
<1>14. CASE ids = {}
  <2>1. UNCHANGED <<stack, planned, deleteQueue, failed, reports>>
        BY <1>8, <1>14
  <2>2. Plans({}, {})
    <3>1. reports' = [r \in Rows |-> IF r \in {} THEN reports[r] + 1 ELSE reports[r]]
          BY <1>2, <2>1 DEF TypeOK
    <3>2. QED
          BY <1>1, <1>9, <2>1, <3>1 DEF Plans
  <2>3. KeepsCalls({})
    <3>1. \A e \in Entities : \A r : r \in orphanIds'[e] => Awaited(r, e)'
          BY DEF Awaited
    <3>2. \A e \in Entities : \A r : Awaited(r, e) => Awaited(r, e)' \/ r \in planned' \cup gone
          BY <1>7, <1>10, <1>13, <1>14, <2>1, <3>1
    <3>3. QED
          BY <1>1, <1>10, <1>11, <1>12, <1>13, <2>1, <3>2 DEF KeepsCalls
  <2>4. Queues({})
        BY <2>1 DEF Queues
  <2>5. QED
        BY <1>1, <2>1, <2>2, <2>3, <2>4, PlanTraces DEF PlanStep
<1>15. CASE ids # {}
  <2>1. Collect(entity, ids)
        BY <1>8, <1>15
  <2>2. PICK found : found = Candidates(entity, ids)
        OBVIOUS
  <2>3. found = {r \in Seen.rows \cap ids : EntityOf[r] = entity}
        BY <2>2 DEF Candidates
  <2>4. \A r \in orphanIds[entity] : Awaited(r, entity) /\ r \in Rows /\ r \in GoesWith(at) /\ EntityOf[r] = entity
        BY <1>3, <1>10 DEF Tracing, Within
  <2>5. \A r \in orphanIds[entity] : r \in planned \cup gone \cup found
    <3>1. GoesWith(at) \subseteq snapshot.rows
          BY <1>2, GoesWithIs DEF Planning
    <3>2. Seen.rows = snapshot.rows \ gone
          BY SeenIs DEF Without
    <3>3. QED
          BY <1>7, <2>3, <2>4, <3>1, <3>2
  <2>6. found \subseteq GoesWith(at)
        BY <1>7, <2>3, <2>4
  <2>7. found = {} => Reason
    <3>1. SUFFICES ASSUME found = {} PROVE Reason
          OBVIOUS
    <3>2. PICK r \in orphanIds[entity] : r \notin planned
          BY <1>7, <1>15
    <3>3. r \in gone
          BY <2>5, <3>1, <3>2
    <3>4. QED
          BY <1>1, <2>4, <3>3, OrphanIsGone
  <2>8. \A e \in Entities :
           /\ orphanIds'[e] \subseteq orphanIds[e]
           /\ orphanIds'[e] # {} => \E n \in DOMAIN orphanQueue' : orphanQueue'[n] = e
           /\ \A r \in orphanIds[e] : r \in orphanIds'[e] \cup planned \cup gone \cup found
        BY <1>12, <1>13, <2>5
  <2>9. found # {} => Named \in planned \cup found
        BY <1>9
  <2>10. QED
        BY <1>1, <1>11, <2>1, <2>2, <2>6, <2>7, <2>8, <2>9, CollectTraces
<1>16. QED
       BY <1>14, <1>15

\* Nothing of the transaction changes, though others may commit.
LEMMA OnlyOthers ==
    ASSUME TypeOK, Tracing, touched \subseteq touched',
           UNCHANGED <<snapshot, gone, nulled, deleted, at, deletes, onDelete, stack, planned, orphanQueue,
                       orphanIds, reports, cleared, deleteQueue, failed>>
    PROVE  /\ Within' /\ Pointers' /\ (failed => Reason)'
           /\ Seen' = Seen /\ (Calm' => Calm)
           /\ \A j : Goes(j)' = Goes(j) /\ NullsReported(j)' = NullsReported(j)
           /\ Reported' = Reported
           /\ \A e, r : Awaited(r, e)' <=> Awaited(r, e)
           /\ Goes(Len(deleteQueue))' = Goes(Len(deleteQueue))
<1>1. Seen' = Seen
      BY SeenUnchanged
<1>2. /\ \A j : GoesWith(j)' = GoesWith(j)
      /\ \A j : Roots(j)' = Roots(j)
      BY Same DEF Roots
<1>3. \A j : Goes(j)' = Goes(j)
      BY <1>1, <1>2, GoesKept
<1>4. \A j : NullsReported(j)' = NullsReported(j)
      BY <1>1, <1>3 DEF NullsReported
<1>5. Reported' = Reported
      BY DEF Reported
<1>6. Calm' => Calm
      BY <1>5 DEF Calm, RowsOf
<1>7. \A e, r : Awaited(r, e)' <=> Awaited(r, e)
      BY DEF Awaited
<1>8. Within'
  <2>1. GoesWith(at)' = GoesWith(at)
        BY Same DEF GoesWith
  <2>2. QED
        BY <1>1, <1>2, <1>7, <2>1 DEF Tracing, Within
<1>9. Pointers'
      BY <1>1 DEF Tracing, Pointers
<1>10. (failed => Reason)'
  <2>1. at \in Nat
        BY DEF Tracing, Books
  <2>2. Reason => Reason'
        BY <2>1, ReasonLasts
  <2>3. QED
        BY <2>2 DEF Tracing
<1>11. Goes(Len(deleteQueue))' = Goes(Len(deleteQueue))
  <2>1. PICK n : n = Len(deleteQueue)
        OBVIOUS
  <2>2. Goes(n)' = Goes(n)
        BY <1>3
  <2>3. QED
        BY <2>1, <2>2
<1>12. QED
       BY <1>1, <1>3, <1>4, <1>5, <1>6, <1>7, <1>8, <1>9, <1>10, <1>11

LEMMA OthersTrace ==
    ASSUME TypeOK, Tracing, touched \subseteq touched',
           UNCHANGED <<snapshot, gone, nulled, deleted, at, deletes, onDelete, stack, planned, orphanQueue,
                       orphanIds, reports, cleared, deleteQueue, failed, pc>>
    PROVE  Tracing'
<1>1. Books'
      BY OnlyOthers DEF Tracing, Books
<1>2. Complete'
      BY OnlyOthers DEF Tracing, Complete, Awaited, Named
<1>3. Applied'
  <2>1. /\ Seen' = Seen /\ (Calm' => Calm)
        /\ \A j : NullsReported(j)' = NullsReported(j)
        /\ Goes(Len(deleteQueue))' = Goes(Len(deleteQueue))
        BY OnlyOthers
  <2>2. QED
        BY <2>1 DEF Tracing, Applied
<1>4. QED
      BY <1>1, <1>2, <1>3, OnlyOthers DEF Tracing

LEMMA PlanReadyTraces ==
    ASSUME DInv, Tracing, PlanReady
    PROVE  Tracing'
<1>1. /\ pc = "planning" /\ pc' = "deleting" /\ stack = <<>> /\ ~failed /\ orphanQueue = <<>>
      /\ UNCHANGED <<snapshot, gone, nulled, deleted, at, deletes, onDelete, stack, planned, orphanQueue,
                     orphanIds, reports, cleared, deleteQueue, failed, touched>>
      BY DEF PlanReady, others, request, transaction, changes, plan, orphans, report
<1>2. TypeOK /\ Planning
      BY <1>1, NotGone
<1>3. Books'
      BY <1>1, <1>2, OnlyOthers DEF Tracing, Books
<1>4. Complete'
      BY <1>1, <1>2, OnlyOthers DEF Tracing, Complete, Awaited, Named
<1>5. Applied'
  <2>1. SUFFICES ASSUME Calm' PROVE Applied'
        BY DEF Applied
  <2>2. /\ Seen' = Seen /\ Calm
        /\ \A j : NullsReported(j)' = NullsReported(j)
        /\ Goes(Len(deleteQueue))' = Goes(Len(deleteQueue))
        BY <1>1, <1>2, <2>1, OnlyOthers
  <2>3. NullsReported(Len(deleteQueue))
    <3>1. planned \subseteq gone \cup Goes(Len(deleteQueue))
          BY <2>2 DEF Tracing, Applied
    <3>2. Covered
          BY <1>1, <1>2 DEF Planning
    <3>3. QED
          BY <1>1, <1>2, <3>1, <3>2, AllLooked
  <2>4. \A j \in DOMAIN deleteQueue : NullsReported(j)
    <3>1. \A j \in DOMAIN deleteQueue : j < Len(deleteQueue) \/ j = Len(deleteQueue)
          BY <1>2 DEF TypeOK
    <3>2. QED
          BY <1>1, <2>2, <2>3, <3>1 DEF Tracing, Applied
  <2>5. QED
        BY <1>1, <2>2, <2>4 DEF Tracing, Applied
<1>6. QED
      BY <1>1, <1>2, <1>3, <1>4, <1>5, OnlyOthers DEF Tracing

-----------------------------------------------------------------------------
\* The steps from one delete to the next.

LEMMA BeginTraces ==
    ASSUME deletes \in Seq([row : Rows, checked : BOOLEAN]) \ {<<>>}, Begin
    PROVE  Tracing'
<1>1. /\ pc' = "lookup" /\ at' = 1 /\ UNCHANGED <<deletes, onDelete>>
      /\ gone' = {} /\ nulled' = {} /\ deleted' = {} /\ planned' = {} /\ cleared' = {}
      /\ stack' = <<>> /\ deleteQueue' = <<>> /\ failed' = FALSE /\ orphanQueue' = <<>>
      /\ orphanIds' = [e \in Entities |-> {}] /\ reports' = [r \in Rows |-> 0]
      BY DEF Begin, request
<1>2. 1 \in DOMAIN deletes /\ DOMAIN deletes \subseteq Nat \ {0}
      OBVIOUS
<1>3. DOMAIN stack' = {} /\ DOMAIN deleteQueue' = {}
      BY <1>1
<1>4. Reported' = {}
      BY <1>1 DEF Reported
<1>5. \A e \in Entities, r \in Rows : ~Awaited(r, e)'
      BY <1>1, <1>3 DEF Awaited
<1>6. Books'
  <2>1. orphanQueue' \in Seq(Entities) /\ orphanIds' \in [Entities -> SUBSET Rows]
        BY <1>1
  <2>2. at' \in DOMAIN deletes' /\ at' \in Nat \ {0}
        BY <1>1, <1>2
  <2>3. \A e \in Entities : orphanIds'[e] = {}
        BY <1>1
  <2>4. Reported' = planned' \cup deleted'
        BY <1>1, <1>4
  <2>5. QED
        BY <1>1, <1>3, <2>1, <2>2, <2>3, <2>4 DEF Books
<1>7. Within'
      BY <1>1, <1>5 DEF Within
<1>8. Pointers'
      BY <1>1 DEF Pointers
<1>9. Complete'
      BY <1>1, <1>2 DEF Complete
<1>10. Applied'
      BY <1>1, <1>3 DEF Applied
<1>11. QED
       BY <1>1, <1>6, <1>7, <1>8, <1>9, <1>10 DEF Tracing

\* No statement is left: nothing more will go.
LEMMA NothingGoes ==
    ASSUME TypeOK, Sound(snapshot), deleteQueue = <<>>
    PROVE  Goes(Len(deleteQueue)) = {}
<1>1. Roots(Len(deleteQueue)) = {}
      BY DEF Roots
<1>2. PICK S \in SUBSET Seen.rows : S = {}
      OBVIOUS
<1>3. Goes(Len(deleteQueue)) \subseteq S
      BY <1>1, <1>2, GoesIs
<1>4. QED
      BY <1>2, <1>3

\* Nothing is awaited while rows are deleted.
LEMMA NothingAwaited ==
    ASSUME Tracing, stack = <<>>, orphanQueue = <<>>
    PROVE  \A e \in Entities : \A r : ~Awaited(r, e)
<1>1. \A e \in Entities : orphanIds[e] = {}
      BY DEF Tracing, Books
<1>2. QED
      BY <1>1 DEF Awaited

LEMMA NextTraces ==
    ASSUME DInv, Tracing, deletes \in Seq([row : Rows, checked : BOOLEAN]) \ {<<>>},
           pc \in {"lookup", "deleting"}, deleteQueue = <<>>, Named \in planned \cup deleted,
           NextDelete, deleted' = deleted \cup planned,
           UNCHANGED <<snapshot, gone, nulled, touched, deletes, onDelete, reports, cleared, failed>>
    PROVE  Tracing'
<1>1. /\ TypeOK /\ Planning /\ stack = <<>> /\ ~failed /\ Covered
      BY DEF DInv, InTransaction, Phases, Planning
<1>2. /\ at \in DOMAIN deletes /\ at \in Nat \ {0} /\ Reported = planned \cup deleted
      /\ orphanQueue = <<>>
      BY DEF Tracing, Books
<1>3. /\ stack' = <<>> /\ planned' = {} /\ deleteQueue' = <<>> /\ orphanQueue' = <<>>
      /\ orphanIds' = [e \in Entities |-> {}] /\ at' = at + 1
      /\ pc' = IF at < Len(deletes) THEN "lookup" ELSE "commit"
      BY DEF NextDelete
<1>4. \A e \in Entities : \A r : ~Awaited(r, e)
      BY <1>1, <1>2, NothingAwaited
<1>5. \A e \in Entities : \A r : ~Awaited(r, e)'
      BY <1>3 DEF Awaited
<1>6. Reported' = Reported /\ Seen' = Seen /\ (Calm' => Calm)
  <2>1. Reported' = Reported
        BY DEF Reported
  <2>2. QED
        BY <2>1, SeenUnchanged DEF Calm, RowsOf
<1>7. gone \subseteq planned \cup deleted /\ gone \subseteq deleted'
      BY <1>1, <1>2 DEF Planning
<1>8. Books'
  <2>1. at' \in Nat \ {0} /\ (pc' = "commit" => at' > Len(deletes')) /\ (pc' # "commit" => at' \in DOMAIN deletes')
        BY <1>2, <1>3
  <2>2. orphanQueue' \in Seq(Entities) /\ orphanIds' \in [Entities -> SUBSET Rows]
        BY <1>3
  <2>3. \A e \in Entities : orphanIds'[e] = {}
        BY <1>3
  <2>4. Reported' = planned' \cup deleted'
        BY <1>2, <1>3, <1>6
  <2>5. QED
        BY <1>3, <2>1, <2>2, <2>3, <2>4 DEF Books
<1>9. Within'
  <2>1. \A j : GoesWith(j)' = GoesWith(j)
        BY Same
  <2>2. ASSUME NEW r \in deleted'
        PROVE  \E j \in DOMAIN deletes : j < at + 1 /\ r \in GoesWith(j)
    <3>1. CASE r \in planned
          BY <1>2, <3>1 DEF Tracing, Within
    <3>2. CASE r \in deleted
      <4>1. PICK j \in DOMAIN deletes : j < at /\ r \in GoesWith(j)
            BY <3>2 DEF Tracing, Within
      <4>2. j \in Nat
            OBVIOUS
      <4>3. QED
            BY <1>2, <4>1, <4>2
    <3>3. QED
          BY <2>2, <3>1, <3>2
  <2>3. QED
        BY <1>3, <1>5, <2>1, <2>2 DEF Within
<1>10. Pointers'
       BY <1>6 DEF Tracing, Pointers
<1>11. Complete'
  <2>1. ASSUME NEW j \in DOMAIN deletes, j < at + 1
        PROVE  deletes[j].row \in deleted'
    <3>1. j \in Nat /\ (j < at \/ j = at)
          BY <1>2, <2>1
    <3>2. CASE j < at
          BY <3>2 DEF Tracing, Complete
    <3>3. CASE j = at
          BY <3>3 DEF Named
    <3>4. QED
          BY <3>1, <3>2, <3>3
  <2>2. ASSUME NEW c \in Cells, c[1] \in snapshot.rows, onDelete[c[2]] = "cascade", snapshot.ref[c] \in deleted'
        PROVE  c[1] \in deleted'
    <3>1. CASE snapshot.ref[c] \in deleted
          BY <2>2, <3>1 DEF Tracing, Complete
    <3>2. CASE snapshot.ref[c] \in planned /\ c[1] \notin gone
      <4>1. c \notin nulled
            BY <2>2 DEF Tracing, Pointers
      <4>2. c[1] \in Seen.rows /\ Seen.ref[c] \in planned
            BY <1>1, <2>2, <3>2, <4>1, SeenRefs DEF Planning
      <4>3. QED
            BY <1>1, <2>2, <4>2, CoveredAtEnd
    <3>3. QED
          BY <1>7, <2>2, <3>1, <3>2
  <2>3. ASSUME NEW c \in Cells, c[1] \in deleted', c[2] \in OrphanRemoval, snapshot.ref[c] # NoRow
        PROVE  snapshot.ref[c] \in deleted'
    <3>1. CASE c[1] \in deleted
          BY <2>3, <3>1 DEF Tracing, Complete
    <3>2. CASE c[1] \in planned
      <4>1. Target[c[2]] \in Entities
            BY DeleteAssumption DEF Cells
      <4>2. snapshot.ref[c] \in planned \cup deleted
            BY <1>1, <1>4, <2>3, <3>2, <4>1 DEF Tracing, Complete
      <4>3. QED
            BY <4>2
    <3>3. QED
          BY <2>3, <3>1, <3>2
  <2>4. pc' \notin {"planning", "deleting"}
        BY <1>3
  <2>5. QED
        BY <1>3, <2>1, <2>2, <2>3, <2>4 DEF Complete
<1>12. Applied'
  <2>1. SUFFICES ASSUME Calm' PROVE Applied'
        BY DEF Applied
  <2>2. planned \subseteq gone
        BY <1>1, <1>6, <2>1, NothingGoes DEF Planning, Tracing, Applied
  <2>3. DOMAIN deleteQueue' = {}
        BY <1>3
  <2>4. QED
        BY <1>3, <1>6, <2>1, <2>2, <2>3 DEF Tracing, Applied
<1>13. QED
       BY <1>1, <1>8, <1>9, <1>10, <1>11, <1>12 DEF Tracing

LEMMA ConfirmTraces ==
    ASSUME DInv, Tracing, deletes \in Seq([row : Rows, checked : BOOLEAN]) \ {<<>>}, Confirm
    PROVE  Tracing'
<1>1. /\ pc = "deleting" /\ deleteQueue = <<>> /\ NextDelete /\ deleted' = deleted \cup planned
      /\ UNCHANGED <<snapshot, gone, nulled, touched, deletes, onDelete, reports, cleared, failed>>
      BY DEF Confirm, others, request, changes, report
<1>2. Named \in planned
      BY <1>1 DEF DInv, Phases, Tracing, Complete
<1>3. QED
      BY <1>1, <1>2, NextTraces

LEMMA AlreadyDeletedTraces ==
    ASSUME DInv, Tracing, deletes \in Seq([row : Rows, checked : BOOLEAN]) \ {<<>>}, AlreadyDeleted
    PROVE  Tracing'
<1>1. /\ pc = "lookup" /\ Named \in deleted /\ NextDelete /\ deleted' = deleted
      /\ UNCHANGED <<snapshot, gone, nulled, touched, deletes, onDelete, reports, cleared, failed>>
      BY DEF AlreadyDeleted, WasDeleted, others, request, changes, report
<1>2. planned = {} /\ deleteQueue = <<>>
      BY <1>1 DEF DInv, Phases
<1>3. QED
      BY <1>1, <1>2, NextTraces

-----------------------------------------------------------------------------
\* The statements.

\* What others did not touch is to PostgreSQL what it is to the plan.
LEMMA Untouched ==
    ASSUME TypeOK, Planning
    PROVE  /\ \A r \in Rows : r \notin touched => (r \in Latest.rows <=> r \in Seen.rows)
           /\ \A c \in Cells : c[1] \notin touched => Latest.ref[c] = Seen.ref[c]
           /\ \A c \in Cells : Latest.ref[c] # NoRow => c[1] \notin gone /\ c \notin nulled
           /\ Latest.rows \subseteq Rows /\ Seen.rows \subseteq Rows
<1>1. /\ Seen = Without(snapshot, gone, nulled) /\ Latest = Without(committed, gone, nulled)
      /\ snapshot.rows \subseteq Rows /\ committed.rows \subseteq Rows
      BY SeenIs DEF TypeOK, Database
<1>2. \A c \in Cells : c[1] \in Rows
      BY DEF Cells
<1>3. \A r \in Rows : r \notin touched => (r \in Latest.rows <=> r \in Seen.rows)
      BY <1>1 DEF Without, Planning, Agree
<1>4. \A c \in Cells : c[1] \notin touched => committed.ref[c] = snapshot.ref[c]
      BY <1>2 DEF Planning, Agree
<1>5. \A c \in Cells : /\ Seen.ref[c] = IF c \in nulled \/ c[1] \in gone THEN NoRow ELSE snapshot.ref[c]
                       /\ Latest.ref[c] = IF c \in nulled \/ c[1] \in gone THEN NoRow ELSE committed.ref[c]
      BY <1>1 DEF Without
<1>6. Latest.rows \subseteq Rows /\ Seen.rows \subseteq Rows
      BY <1>1 DEF Without
<1>7. QED
      BY <1>3, <1>4, <1>5, <1>6

\* A statement deletes planned rows, and sets to null what points at them.
LEMMA DeletesPlanned ==
    ASSUME TypeOK, Planning, Covered, stack = <<>>, deleteQueue # <<>>,
           NEW rows, rows = Cascaded(Latest, Head(deleteQueue) \cap Latest.rows),
           (Head(deleteQueue) \cup rows) \cap touched = {}
    PROVE  /\ rows \subseteq planned /\ rows \subseteq Latest.rows /\ rows \subseteq Seen.rows
           /\ Head(deleteQueue) \cap Seen.rows \subseteq rows
           /\ \A c \in Cells : onDelete[c[2]] = "cascade" /\ Latest.ref[c] \in rows /\ c[1] \in Latest.rows => c[1] \in rows
           /\ \A S \in SUBSET Latest.rows :
                 /\ Head(deleteQueue) \cap Latest.rows \subseteq S
                 /\ \A c \in Cells :
                       onDelete[c[2]] = "cascade" /\ c[1] \in Latest.rows /\ Latest.ref[c] \in S => c[1] \in S
                 => rows \subseteq S
<1> DEFINE D == Head(deleteQueue) \cap Latest.rows
           S == rows \cap planned
<1>1. /\ Head(deleteQueue) \subseteq planned /\ planned \subseteq Rows
      /\ Latest.rows \subseteq Rows
  <2>1. Head(deleteQueue) = deleteQueue[1] /\ 1 \in DOMAIN deleteQueue
        BY DEF TypeOK
  <2>2. QED
        BY <2>1, Untouched DEF Planning, TypeOK
<1>2. /\ D \subseteq rows /\ rows \subseteq Latest.rows
      /\ Follows(Latest, rows, "cascade") \subseteq rows
      /\ \A T \in SUBSET Latest.rows :
            D \subseteq T /\ Follows(Latest, T, "cascade") \subseteq T => rows \subseteq T
      BY CascadedIsLeast
<1>3. ASSUME NEW T
      PROVE  Follows(Latest, T, "cascade") \subseteq T <=>
                \A c \in Cells :
                   onDelete[c[2]] = "cascade" /\ c[1] \in Latest.rows /\ Latest.ref[c] \in T => c[1] \in T
  <2>1. \A x : x \in Follows(Latest, T, "cascade") <=>
              \E c \in Cells : /\ c[1] = x /\ x \in Latest.rows
                               /\ Latest.ref[c] \in T /\ onDelete[c[2]] = "cascade"
        BY <1>1, FollowsIs
  <2>2. QED
        BY <2>1
<1>4. \A c \in Cells : onDelete[c[2]] = "cascade" /\ Latest.ref[c] \in rows /\ c[1] \in Latest.rows => c[1] \in rows
      BY <1>2, <1>3
<1>5. ASSUME NEW c \in Cells, onDelete[c[2]] = "cascade", c[1] \in Latest.rows, Latest.ref[c] \in S
      PROVE  c[1] \in S
  <2>1. c[1] \in rows /\ c[1] \notin touched /\ c[1] \in Rows
        BY <1>1, <1>4, <1>5
  <2>2. c[1] \in Seen.rows /\ Seen.ref[c] \in planned
        BY <1>5, <2>1, Untouched
  <2>3. QED
        BY <1>5, <2>1, <2>2, CoveredAtEnd
<1>6. rows \subseteq S
  <2>1. S \in SUBSET Latest.rows /\ D \subseteq S
        BY <1>1, <1>2
  <2>2. QED
        BY <1>2, <1>3, <1>5, <2>1
<1>7. \A r \in Head(deleteQueue) \cup rows : r \in Latest.rows <=> r \in Seen.rows
      BY <1>1, <1>2, Untouched
<1>8. QED
      BY <1>2, <1>3, <1>4, <1>6, <1>7

\* The cells that the statement sets to null.
LEMMA NullsUntouched ==
    ASSUME TypeOK, Planning, NEW rows, rows \subseteq Latest.rows,
           NEW cells, cells = SetToNull(Latest, rows), RowsOf(cells) \cap touched = {}
    PROVE  /\ \A c \in cells : /\ c \in Cells /\ c[1] \in Seen.rows \ rows /\ c[1] \notin touched
                               /\ onDelete[c[2]] = "setNull" /\ Seen.ref[c] \in rows
           /\ \A c \in Cells :
                 c[1] \notin touched /\ onDelete[c[2]] = "setNull" /\ Seen.ref[c] \in rows /\ c[1] \in Seen.rows
                    => c \in cells \/ c[1] \in rows
<1>1. \A c \in Cells : c \in cells <=> /\ c[1] \in Latest.rows \ rows /\ onDelete[c[2]] = "setNull"
                                       /\ Latest.ref[c] \in rows
      BY DEF SetToNull
<1>2. cells \subseteq Cells /\ \A c \in Cells : c[1] \in Rows
      BY DEF SetToNull, Cells
<1>3. \A c \in cells : c[1] \notin touched
      BY DEF RowsOf
<1>4. \A c \in cells : /\ c \in Cells /\ c[1] \in Seen.rows \ rows /\ c[1] \notin touched
                       /\ onDelete[c[2]] = "setNull" /\ Seen.ref[c] \in rows
      BY <1>1, <1>2, <1>3, Untouched
<1>5. ASSUME NEW c \in Cells, c[1] \notin touched, onDelete[c[2]] = "setNull",
             Seen.ref[c] \in rows, c[1] \in Seen.rows
      PROVE  c \in cells \/ c[1] \in rows
  <2>1. Latest.ref[c] = Seen.ref[c] /\ c[1] \in Latest.rows
        BY <1>2, <1>5, Untouched
  <2>2. QED
        BY <1>1, <1>5, <2>1
<1>6. QED
      BY <1>4, <1>5

\* A statement that deletes rows and sets cells to null.
Deletes(rows, cells) ==
    /\ pc = "deleting" /\ deleteQueue # <<>>
    /\ rows = Cascaded(Latest, Head(deleteQueue) \cap Latest.rows)
    /\ cells = SetToNull(Latest, rows)
    /\ (Head(deleteQueue) \cup rows \cup RowsOf(cells)) \cap touched = {}
    /\ gone' = gone \cup rows /\ nulled' = nulled \cup cells
    /\ deleteQueue' = Tail(deleteQueue)
    /\ UNCHANGED <<snapshot, deleted, at, deletes, onDelete, stack, planned, orphanQueue, orphanIds,
                   reports, cleared, failed, touched, pc>>

LEMMA DeletesFacts ==
    ASSUME DInv, Tracing, NEW rows, NEW cells, Deletes(rows, cells)
    PROVE  /\ TypeOK /\ Planning /\ Covered /\ stack = <<>> /\ ~failed /\ orphanQueue = <<>>
           /\ rows \subseteq planned /\ rows \subseteq Latest.rows /\ rows \subseteq Seen.rows
           /\ rows \subseteq Rows /\ NoRow \notin Rows /\ rows \cap touched = {}
           /\ \A c \in Cells : onDelete[c[2]] = "cascade" /\ Latest.ref[c] \in rows /\ c[1] \in Latest.rows => c[1] \in rows
           /\ \A c \in cells : /\ c \in Cells /\ c[1] \in Seen.rows \ rows /\ c[1] \notin touched
                               /\ onDelete[c[2]] = "setNull" /\ Seen.ref[c] \in rows
           /\ \A c \in Cells :
                 c[1] \notin touched /\ onDelete[c[2]] = "setNull" /\ Seen.ref[c] \in rows /\ c[1] \in Seen.rows
                    => c \in cells \/ c[1] \in rows
<1>1. TypeOK /\ Planning /\ Covered /\ stack = <<>> /\ ~failed /\ orphanQueue = <<>>
      BY DEF Deletes, DInv, InTransaction, Phases, Planning, Tracing, Books
<1>2. (Head(deleteQueue) \cup rows) \cap touched = {} /\ RowsOf(cells) \cap touched = {}
      BY DEF Deletes
<1>3. /\ rows \subseteq planned /\ rows \subseteq Latest.rows /\ rows \subseteq Seen.rows
      /\ \A c \in Cells : onDelete[c[2]] = "cascade" /\ Latest.ref[c] \in rows /\ c[1] \in Latest.rows => c[1] \in rows
      BY <1>1, <1>2, DeletesPlanned DEF Deletes
<1>4. rows \subseteq Rows /\ NoRow \notin Rows
      BY <1>1, <1>3, DeleteAssumption DEF TypeOK
<1>5. /\ \A c \in cells : /\ c \in Cells /\ c[1] \in Seen.rows \ rows /\ c[1] \notin touched
                          /\ onDelete[c[2]] = "setNull" /\ Seen.ref[c] \in rows
      /\ \A c \in Cells :
            c[1] \notin touched /\ onDelete[c[2]] = "setNull" /\ Seen.ref[c] \in rows /\ c[1] \in Seen.rows
               => c \in cells \/ c[1] \in rows
  <2>1. cells = SetToNull(Latest, rows)
        BY DEF Deletes
  <2>2. QED
        BY <1>1, <1>2, <1>3, <2>1, NullsUntouched
<1>6. QED
      BY <1>1, <1>2, <1>3, <1>4, <1>5

\* What the mutation sees after the statement.
LEMMA SeenAfter ==
    ASSUME DInv, Tracing, NEW rows, NEW cells, Deletes(rows, cells)
    PROVE  /\ Seen'.rows = Seen.rows \ rows
           /\ \A c \in Cells : Seen'.ref[c] = IF c \in cells \/ c[1] \in rows THEN NoRow ELSE Seen.ref[c]
<1>1. Seen' = Without(snapshot, gone', nulled')
      BY DEF Seen, Isolation, Without, Deletes
<1>2. Seen = Without(snapshot, gone, nulled)
      BY SeenIs
<1>3. gone' = gone \cup rows /\ nulled' = nulled \cup cells
      BY DEF Deletes
<1>4. QED
      BY <1>1, <1>2, <1>3 DEF Without

LEMMA DeletesPointers ==
    ASSUME DInv, Tracing, NEW rows, NEW cells, Deletes(rows, cells)
    PROVE  Pointers'
<1>1. /\ TypeOK /\ Planning /\ rows \subseteq Rows /\ NoRow \notin Rows
      /\ \A c \in Cells : onDelete[c[2]] = "cascade" /\ Latest.ref[c] \in rows /\ c[1] \in Latest.rows => c[1] \in rows
      /\ \A c \in cells : c \in Cells /\ onDelete[c[2]] = "setNull" /\ Seen.ref[c] \in rows
      /\ \A c \in Cells :
            c[1] \notin touched /\ onDelete[c[2]] = "setNull" /\ Seen.ref[c] \in rows /\ c[1] \in Seen.rows
               => c \in cells \/ c[1] \in rows
      BY DeletesFacts
<1>2. gone' = gone \cup rows /\ nulled' = nulled \cup cells /\ UNCHANGED <<snapshot, onDelete, touched, cleared>>
      BY DEF Deletes
<1>3. ASSUME NEW c \in nulled'
      PROVE  onDelete[c[2]] = "setNull" /\ snapshot.ref[c] \in gone'
  <2>1. CASE c \in nulled
        BY <1>2, <2>1 DEF Tracing, Pointers
  <2>2. CASE c \in cells
        BY <1>1, <1>2, <2>2, SeenRefs DEF Planning
  <2>3. QED
        BY <1>2, <1>3, <2>1, <2>2
<1>4. ASSUME NEW c \in Cells, c[1] \in Seen'.rows, Seen'.ref[c] \in gone', c[1] \notin touched
      PROVE  onDelete[c[2]] = "restrict"
  <2>1. gone \subseteq Rows /\ c[1] \in Rows /\ c[2] \in Relations
        BY <1>1 DEF TypeOK, Cells
  <2>2. c[1] \in Seen.rows \ rows /\ c \notin cells /\ Seen.ref[c] \in gone \cup rows
        BY <1>1, <1>2, <1>4, <2>1, SeenAfter
  <2>3. CASE Seen.ref[c] \in gone
        BY <1>4, <2>2, <2>3 DEF Tracing, Pointers
  <2>4. CASE Seen.ref[c] \in rows
    <3>1. onDelete[c[2]] # "setNull"
          BY <1>1, <1>4, <2>2, <2>4
    <3>2. Latest.ref[c] \in rows /\ c[1] \in Latest.rows
          BY <1>1, <1>4, <2>1, <2>2, <2>4, Untouched
    <3>3. onDelete[c[2]] # "cascade"
          BY <1>1, <2>2, <3>2
    <3>4. onDelete[c[2]] \in {"restrict", "cascade", "setNull"}
          BY <1>1, <2>1 DEF TypeOK
    <3>5. QED
          BY <3>1, <3>3, <3>4
  <2>5. QED
        BY <2>2, <2>3, <2>4
<1>5. QED
      BY <1>2, <1>3, <1>4 DEF Tracing, Pointers

\* If nobody touched the rows of the report, the statement deletes what the plan says.
LEMMA DeletesAsPlanned ==
    ASSUME DInv, Tracing, NEW rows, NEW cells, Deletes(rows, cells), Calm
    PROVE  rows = Goes(1)
<1>1. /\ TypeOK /\ Planning /\ Covered /\ stack = <<>> /\ rows \subseteq planned /\ rows \subseteq Seen.rows
      /\ rows \subseteq Latest.rows /\ rows \cap touched = {}
      /\ \A c \in Cells : onDelete[c[2]] = "cascade" /\ Latest.ref[c] \in rows /\ c[1] \in Latest.rows => c[1] \in rows
      BY DeletesFacts
<1>2. PICK D : D = Head(deleteQueue)
      OBVIOUS
<1>3. Roots(1) = D
  <2>1. 1 .. 1 = {1}
        OBVIOUS
  <2>2. Head(deleteQueue) = deleteQueue[1]
        BY <1>1 DEF TypeOK, Deletes
  <2>3. QED
        BY <1>2, <2>1, <2>2 DEF Roots
<1>4. /\ (D \cup rows) \cap touched = {}
      /\ rows = Cascaded(Latest, Head(deleteQueue) \cap Latest.rows)
      BY <1>1, <1>2 DEF Deletes
<1>5. /\ D \cap Seen.rows \subseteq rows
      /\ \A S \in SUBSET Latest.rows :
            /\ D \cap Latest.rows \subseteq S
            /\ \A c \in Cells :
                  onDelete[c[2]] = "cascade" /\ c[1] \in Latest.rows /\ Latest.ref[c] \in S => c[1] \in S
            => rows \subseteq S
      BY <1>1, <1>2, <1>4, DeletesPlanned DEF Deletes
<1>6. D \cap Seen.rows \subseteq Goes(1) /\ Goes(1) \subseteq Seen.rows
      BY <1>1, <1>3, GoesIs DEF Planning
<1>7. rows \subseteq Goes(1)
  <2>1. PICK S : S = rows \cap Goes(1)
        OBVIOUS
  <2>2. D \cap Latest.rows \subseteq S
    <3>1. D \cap Latest.rows \subseteq Seen.rows
          BY <1>1, <1>4, Untouched
    <3>2. QED
          BY <1>5, <1>6, <2>1, <3>1
  <2>3. ASSUME NEW c \in Cells, onDelete[c[2]] = "cascade", c[1] \in Latest.rows, Latest.ref[c] \in S
        PROVE  c[1] \in S
    <3>1. c[1] \in rows
          BY <1>1, <2>1, <2>3
    <3>2. Seen.ref[c] \in Goes(1)
          BY <1>1, <2>1, <2>3, <3>1, Untouched
    <3>3. c[1] \in Goes(1)
          BY <1>1, <2>3, <3>2, GoesIs DEF Planning
    <3>4. QED
          BY <2>1, <3>1, <3>3
  <2>4. S \in SUBSET Latest.rows
        BY <1>1, <2>1
  <2>5. QED
        BY <1>5, <2>1, <2>2, <2>3, <2>4
<1>8. Goes(1) \subseteq rows
  <2>1. ASSUME NEW c \in Cells, onDelete[c[2]] = "cascade", Seen.ref[c] \in rows
        PROVE  c[1] \in rows
    <3>1. c[1] \in Rows /\ NoRow \notin rows
          BY <1>1, DeleteAssumption DEF Cells, TypeOK
    <3>2. c[1] \in Seen.rows
          BY <1>1, <2>1, <3>1, SeenRefs DEF Planning
    <3>3. c[1] \in planned
          BY <1>1, <2>1, <3>2, CoveredAtEnd
    <3>4. c[1] \notin touched
          BY <3>3 DEF Calm, Tracing, Books
    <3>5. c[1] \in Latest.rows /\ Latest.ref[c] \in rows
          BY <1>1, <2>1, <3>1, <3>2, <3>4, Untouched
    <3>6. QED
          BY <1>1, <2>1, <3>5
  <2>2. QED
        BY <1>1, <1>3, <1>5, <2>1, GoesIs DEF Planning
<1>9. QED
      BY <1>7, <1>8

\* What the first statements delete is, after the first one, what the others will.
LEMMA GoesAfter ==
    ASSUME DInv, Tracing, NEW rows, NEW cells, Deletes(rows, cells), Calm,
           NEW j \in Nat, j + 1 <= Len(deleteQueue)
    PROVE  /\ Goes(j + 1) \subseteq rows \cup Goes(j)'
           /\ Goes(j)' \subseteq Goes(j + 1) \ rows
<1>1. /\ TypeOK /\ Planning /\ rows \subseteq Seen.rows /\ rows = Goes(1)
      /\ rows \subseteq Rows /\ NoRow \notin Rows
      /\ \A c \in cells : c \in Cells /\ onDelete[c[2]] = "setNull"
      BY DeletesFacts, DeletesAsPlanned
<1>2. UNCHANGED <<snapshot, deletes, onDelete>> /\ deleteQueue' = Tail(deleteQueue)
      BY DEF Deletes
<1>3. PICK s : s = Seen'
      OBVIOUS
<1>4. /\ s.rows = Seen.rows \ rows /\ s.rows \subseteq Rows
      /\ \A c \in Cells : s.ref[c] = IF c \in cells \/ c[1] \in rows THEN NoRow ELSE Seen.ref[c]
      BY <1>1, <1>3, SeenAfter, Untouched
<1>5. PICK later : later = Goes(j)'
      OBVIOUS
<1>6. PICK R : R = Roots(j)'
      OBVIOUS
<1>7. Roots(j + 1) = Head(deleteQueue) \cup R
  <2>1. deleteQueue \in Seq(SUBSET Rows) /\ deleteQueue # <<>>
        BY <1>1 DEF TypeOK, Deletes
  <2>2. /\ Head(deleteQueue) = deleteQueue[1] /\ 1 .. (j + 1) = {1} \cup {k + 1 : k \in 1 .. j}
        /\ \A k \in 1 .. j : Tail(deleteQueue)[k] = deleteQueue[k + 1]
        BY <2>1, SMTT(20)
  <2>3. R = UNION {Tail(deleteQueue)[k] : k \in 1 .. j}
        BY <1>2, <1>6 DEF Roots
  <2>4. QED
        BY <2>2, <2>3 DEF Roots
<1>8. Roots(1) = Head(deleteQueue)
  <2>1. deleteQueue \in Seq(SUBSET Rows) /\ deleteQueue # <<>>
        BY <1>1 DEF TypeOK, Deletes
  <2>2. Head(deleteQueue) = deleteQueue[1] /\ 1 .. 1 = {1}
        BY <2>1
  <2>3. QED
        BY <2>2 DEF Roots
<1>9. later = Cascaded(s, R \cap s.rows)
  <2>1. Goes(j)' = Cascaded(Seen', Roots(j)' \cap Seen'.rows)
    <3>1. \A db, T : Cascaded(db, T)' = Cascaded(db, T)
          BY <1>2, Same
    <3>2. QED
          BY <1>3, <1>6, <3>1 DEF Goes
  <2>2. QED
        BY <1>3, <1>5, <1>6, <2>1
\* what is later in the new state, in terms of its cells
<1>10. /\ R \cap s.rows \subseteq later /\ later \subseteq s.rows
       /\ Follows(s, later, "cascade") \subseteq later
       /\ \A S \in SUBSET s.rows :
             R \cap s.rows \subseteq S /\ Follows(s, S, "cascade") \subseteq S => later \subseteq S
       BY <1>9, CascadedIsLeast
<1>11. ASSUME NEW T
       PROVE  \A x : x \in Follows(s, T, "cascade") <=>
                 \E c \in Cells : /\ c[1] = x /\ x \in s.rows
                                  /\ s.ref[c] \in T /\ onDelete[c[2]] = "cascade"
       BY <1>4, FollowsIs
<1>12. \A c \in Cells : onDelete[c[2]] = "cascade" /\ s.ref[c] \in later /\ c[1] \in s.rows => c[1] \in later
       BY <1>10, <1>11
<1>13. /\ Roots(j + 1) \cap Seen.rows \subseteq Goes(j + 1)
       /\ \A c \in Cells : onDelete[c[2]] = "cascade" /\ Seen.ref[c] \in Goes(j + 1) => c[1] \in Goes(j + 1)
       /\ \A S \in SUBSET Seen.rows :
             /\ Roots(j + 1) \cap Seen.rows \subseteq S
             /\ \A c \in Cells : onDelete[c[2]] = "cascade" /\ Seen.ref[c] \in S => c[1] \in S
             => Goes(j + 1) \subseteq S
       BY <1>1, GoesIs DEF Planning
<1>14. Goes(j + 1) \subseteq rows \cup later
  <2>1. PICK S : S = rows \cup later
        OBVIOUS
  <2>2. S \in SUBSET Seen.rows
        BY <1>1, <1>4, <1>10, <2>1
  <2>3. Roots(j + 1) \cap Seen.rows \subseteq S
    <3>1. Head(deleteQueue) \cap Seen.rows \subseteq rows
          BY <1>1, <1>8, GoesIs DEF Planning
    <3>2. QED
          BY <1>4, <1>7, <1>10, <2>1, <3>1
  <2>4. ASSUME NEW c \in Cells, onDelete[c[2]] = "cascade", Seen.ref[c] \in S
        PROVE  c[1] \in S
    <3>1. CASE Seen.ref[c] \in rows
          BY <1>1, <2>1, <2>4, <3>1, GoesIs DEF Planning
    <3>2. CASE Seen.ref[c] \in later /\ c[1] \notin rows
      <4>1. c[1] \in Seen.rows /\ c \notin cells
            BY <1>1, <2>2, <2>4, SeenRefs DEF Planning, TypeOK, Database
      <4>2. s.ref[c] \in later /\ c[1] \in s.rows
            BY <1>4, <3>2, <4>1
      <4>3. QED
            BY <1>12, <2>1, <2>4, <4>2
    <3>3. QED
          BY <2>1, <2>4, <3>1, <3>2
  <2>5. QED
        BY <1>13, <2>1, <2>2, <2>3, <2>4
<1>15. later \subseteq Goes(j + 1) \ rows
  <2>1. PICK S : S = Goes(j + 1) \cap s.rows
        OBVIOUS
  <2>2. R \cap s.rows \subseteq S
        BY <1>4, <1>7, <1>13, <2>1
  <2>3. ASSUME NEW c \in Cells, onDelete[c[2]] = "cascade", s.ref[c] \in S, c[1] \in s.rows
        PROVE  c[1] \in S
    <3>1. Seen.ref[c] \in Goes(j + 1)
          BY <1>1, <1>4, <2>1, <2>3
    <3>2. QED
          BY <1>13, <2>1, <2>3, <3>1
  <2>4. Follows(s, S, "cascade") \subseteq S
        BY <1>11, <2>3
  <2>5. S \in SUBSET s.rows
        BY <2>1
  <2>6. later \subseteq S
        BY <1>10, <2>2, <2>4, <2>5
  <2>7. QED
        BY <1>4, <2>1, <2>6
<1>16. QED
       BY <1>5, <1>14, <1>15


LEMMA DeletesApplied ==
    ASSUME DInv, Tracing, NEW rows, NEW cells, Deletes(rows, cells)
    PROVE  Applied'
<1>1. /\ TypeOK /\ Planning /\ rows \subseteq Seen.rows /\ ~failed /\ stack = <<>>
      /\ rows \subseteq Rows /\ NoRow \notin Rows
      /\ \A c \in cells : /\ c \in Cells /\ c[1] \in Seen.rows \ rows /\ c[1] \notin touched
                          /\ onDelete[c[2]] = "setNull" /\ Seen.ref[c] \in rows
      /\ \A c \in Cells :
            c[1] \notin touched /\ onDelete[c[2]] = "setNull" /\ Seen.ref[c] \in rows /\ c[1] \in Seen.rows
               => c \in cells \/ c[1] \in rows
      BY DeletesFacts
<1>2. /\ pc = "deleting" /\ deleteQueue # <<>> /\ deleteQueue' = Tail(deleteQueue) /\ deleteQueue \in Seq(SUBSET Rows)
      /\ gone' = gone \cup rows /\ nulled' = nulled \cup cells
      /\ UNCHANGED <<deleted, planned, reports, cleared, onDelete, touched, failed, pc>>
      BY <1>1 DEF Deletes, TypeOK
<1>3. SUFFICES ASSUME Calm' PROVE Applied'
      BY DEF Applied
<1>4. Calm
      BY <1>2, <1>3 DEF Calm, Reported, RowsOf
<1>5. /\ \A r \in Rows : reports[r] <= 1
      /\ deleted \subseteq gone
      /\ nulled \subseteq cleared
      /\ \A c \in cleared : c \in nulled \/ c[1] \in gone \/ Seen.ref[c] \in planned \ gone
      /\ planned \subseteq gone \cup Goes(Len(deleteQueue))
      /\ \A j \in DOMAIN deleteQueue : NullsReported(j)
      BY <1>1, <1>2, <1>4 DEF Tracing, Applied
<1>6. rows = Goes(1)
      BY <1>4, DeletesAsPlanned
<1>7. PICK m \in Nat : Len(deleteQueue) = m + 1 /\ Len(deleteQueue') = m
  <2>1. Len(deleteQueue) \in Nat /\ Len(deleteQueue) > 0 /\ Len(deleteQueue') = Len(deleteQueue) - 1
        BY <1>2
  <2>2. QED
        BY <2>1
<1>8. DOMAIN deleteQueue = 1 .. (m + 1) /\ DOMAIN deleteQueue' = 1 .. m
      BY <1>2, <1>7
<1>9. PICK s : s = Seen'
      OBVIOUS
<1>10. /\ s.rows = Seen.rows \ rows
       /\ \A c \in Cells : s.ref[c] = IF c \in cells \/ c[1] \in rows THEN NoRow ELSE Seen.ref[c]
       BY <1>9, SeenAfter
<1>11. nulled' \subseteq cleared'
  <2>1. ASSUME NEW c \in cells PROVE c \in cleared
    <3>1. NullsReported(1)
          BY <1>5, <1>8
    <3>2. QED
          BY <1>1, <1>6, <2>1, <3>1 DEF NullsReported
  <2>2. QED
        BY <1>2, <1>5, <2>1
<1>12. \A c \in cleared' : c \in nulled' \/ c[1] \in gone' \/ s.ref[c] \in planned' \ gone'
  <2>1. SUFFICES ASSUME NEW c \in cleared, c \notin nulled, c[1] \notin gone, Seen.ref[c] \in planned \ gone
                 PROVE  c \in nulled' \/ c[1] \in gone' \/ s.ref[c] \in planned' \ gone'
        BY <1>2, <1>5
  <2>2. c \in Cells /\ planned \subseteq Rows
        BY <1>1 DEF TypeOK
  <2>3. CASE Seen.ref[c] \in rows
    <3>1. onDelete[c[2]] = "setNull" /\ c[1] \in Seen.rows
          BY <1>1, <2>1, <2>2, SeenRefs DEF Tracing, Pointers, Planning
    <3>2. c[1] \notin touched
          BY <1>4, <2>1 DEF Calm, RowsOf
    <3>3. QED
          BY <1>1, <1>2, <2>2, <2>3, <3>1, <3>2
  <2>4. CASE Seen.ref[c] \notin rows
        BY <1>2, <1>10, <2>1, <2>2, <2>4
  <2>5. QED
        BY <2>3, <2>4
<1>13. planned' \subseteq gone' \cup Goes(Len(deleteQueue))'
  <2>1. Goes(m + 1) \subseteq rows \cup Goes(m)'
        BY <1>4, <1>7, GoesAfter
  <2>2. planned \subseteq gone \cup Goes(m + 1)
        BY <1>5, <1>7
  <2>3. Goes(Len(deleteQueue))' = Goes(m)'
        BY <1>7
  <2>4. QED
        BY <1>2, <2>1, <2>2, <2>3
<1>14. ASSUME NEW j \in DOMAIN deleteQueue'
       PROVE  NullsReported(j)'
  <2>1. j \in Nat /\ j + 1 \in DOMAIN deleteQueue /\ j + 1 <= Len(deleteQueue)
        BY <1>7, <1>8
  <2>2. PICK later : later = Goes(j)'
        OBVIOUS
  <2>3. Goes(j + 1) \subseteq rows \cup later /\ later \subseteq Goes(j + 1)
        BY <1>4, <2>1, <2>2, GoesAfter
  <2>4. NullsReported(j + 1)
        BY <1>5, <2>1
  <2>5. later \subseteq Seen.rows
        BY <1>1, <2>3, GoesIs DEF Planning
  <2>6. ASSUME NEW c \in Cells, onDelete[c[2]] = "setNull", s.ref[c] \in later
        PROVE  c[1] \in later \/ c \in cleared
    <3>1. Seen.ref[c] \in later /\ c[1] \notin rows
          BY <1>1, <1>10, <2>5, <2>6, Untouched
    <3>2. QED
          BY <2>3, <2>4, <2>6, <3>1 DEF NullsReported
  <2>7. NullsReported(j)' <=> \A c \in Cells : onDelete'[c[2]] = "setNull" /\ Seen'.ref[c] \in Goes(j)'
                                 => c[1] \in Goes(j)' \/ c \in cleared'
        BY DEF NullsReported
  <2>8. QED
        BY <1>2, <1>9, <2>2, <2>6, <2>7
<1>15. QED
       BY <1>2, <1>5, <1>9, <1>11, <1>12, <1>13, <1>14 DEF Applied

LEMMA DeletesTraces ==
    ASSUME DInv, Tracing, NEW rows, NEW cells, Deletes(rows, cells)
    PROVE  Tracing'
<1>1. /\ TypeOK /\ Planning /\ stack = <<>> /\ ~failed /\ orphanQueue = <<>> /\ rows \subseteq planned
      BY DeletesFacts
<1>2. /\ pc = "deleting" /\ pc' = pc
      /\ UNCHANGED <<snapshot, deleted, at, deletes, onDelete, stack, planned, orphanQueue, orphanIds,
                     reports, cleared, failed, touched>>
      BY DEF Deletes
<1>3. \A e, r : Awaited(r, e)' <=> Awaited(r, e)
      BY <1>2 DEF Awaited
<1>4. \A e \in Entities : \A r : ~Awaited(r, e)
      BY <1>1, NothingAwaited
<1>5. Books'
      BY <1>2 DEF Tracing, Books, Reported
<1>6. Within'
  <2>1. \A j : GoesWith(j)' = GoesWith(j)
        BY <1>2, Same
  <2>2. GoesWith(at)' = GoesWith(at)
        BY <1>2, Same DEF GoesWith
  <2>3. QED
        BY <1>2, <1>3, <1>4, <2>1, <2>2 DEF Tracing, Within
<1>7. Complete'
      BY <1>2, <1>3 DEF Tracing, Complete, Named
<1>8. QED
      BY <1>1, <1>2, <1>5, <1>6, <1>7, DeletesPointers, DeletesApplied DEF Tracing


-----------------------------------------------------------------------------
\* The answers.

\* The deletes are over: what they deleted is what the mutation should delete.
LEMMA DeletedIs ==
    ASSUME DInv, Tracing, deletes \in Seq([row : Rows, checked : BOOLEAN]), pc = "commit"
    PROVE  deleted = ShouldGo(snapshot, NamedRows) /\ Reported = deleted /\ gone \subseteq deleted
<1>1. TypeOK /\ Planning /\ planned = {} /\ at > Len(deletes) /\ at \in Nat
      BY DEF DInv, InTransaction, Phases, Tracing, Books
<1>2. Reported = deleted /\ gone \subseteq deleted
      BY <1>1 DEF Tracing, Books, Planning
<1>3. snapshot.rows \subseteq Rows /\ NoRow \notin Rows
      BY <1>1, DeleteAssumption DEF TypeOK, Database
<1>4. deleted \subseteq ShouldGo(snapshot, NamedRows) /\ deleted \subseteq snapshot.rows
      BY <1>1, GoesWithIs DEF Tracing, Within, Planning
<1>5. \A c \in Cells : snapshot.ref[c] # NoRow => snapshot.ref[c] \in snapshot.rows
      BY <1>1, SnapshotRefs DEF Planning
<1>6. Follows(snapshot, deleted, "cascade") \subseteq deleted
  <2>1. \A x : x \in Follows(snapshot, deleted, "cascade") <=>
               \E c \in Cells : /\ c[1] = x /\ x \in snapshot.rows
                                /\ snapshot.ref[c] \in deleted /\ onDelete[c[2]] = "cascade"
        BY <1>3, FollowsIs
  <2>2. QED
        BY <2>1 DEF Tracing, Complete
<1>7. \A c \in Cells : c[1] \in deleted /\ c[2] \in OrphanRemoval /\ snapshot.ref[c] # NoRow => snapshot.ref[c] \in deleted
      BY DEF Tracing, Complete
<1>8. ShouldGo(snapshot, NamedRows) \subseteq deleted
  <2>1. NamedRows \subseteq deleted
    <3>1. \A i \in DOMAIN deletes : deletes[i].row \in deleted
          BY <1>1 DEF Tracing, Complete
    <3>2. QED
          BY <3>1 DEF NamedRows
  <2>2. QED
        BY <1>4, <1>5, <1>6, <1>7, <2>1, ShouldGoIsLeast
<1>9. QED
      BY <1>2, <1>4, <1>8

\* The mutation commits what it reported.
LEMMA CommitIsExact ==
    ASSUME DInv, Tracing, deletes \in Seq([row : Rows, checked : BOOLEAN]), Commit, answer' = "ok"
    PROVE  ReportIsExact'
<1>1. /\ pc = "commit" /\ answer # "ok"
      /\ UNCHANGED <<touched, snapshot, gone, nulled, reports, cleared, onDelete, deletes>>
  <2>1. pc = "commit" /\ answer = "none"
        BY DEF Commit, DInv, Phases
  <2>2. UNCHANGED <<touched, request, transaction, plan, report>>
        BY <2>1 DEF Commit, Ends, others
  <2>3. QED
        BY <2>1, <2>2 DEF request, transaction, changes, report
<1>2. deleted = ShouldGo(snapshot, NamedRows) /\ Reported = deleted /\ gone \subseteq deleted
      BY <1>1, DeletedIs
<1>3. TypeOK /\ planned = {}
      BY <1>1 DEF DInv, Phases
<1>4. ShouldGo(snapshot, NamedRows)' = ShouldGo(snapshot, NamedRows) /\ Reported' = Reported
      BY <1>1, Same DEF Reported
<1>5. ASSUME touched \cap (Reported \cup {c[1] : c \in cleared}) = {}
      PROVE  /\ \A r \in gone : reports[r] = 1
             /\ gone = Reported
             /\ nulled \subseteq cleared
             /\ \A c \in cleared : c \in nulled \/ c[1] \in gone
  <2>1. /\ \A r \in Rows : reports[r] <= 1
        /\ deleted \subseteq gone /\ nulled \subseteq cleared
        /\ \A c \in cleared : c \in nulled \/ c[1] \in gone \/ Seen.ref[c] \in planned \ gone
        BY <1>5 DEF Tracing, Applied, Calm, RowsOf
  <2>2. \A r \in gone : r \in Rows /\ reports[r] \in Nat /\ reports[r] > 0
        BY <1>2, <1>3 DEF Reported, TypeOK
  <2>3. \A r \in gone : reports[r] = 1
        BY <2>1, <2>2
  <2>4. QED
        BY <1>2, <1>3, <2>1, <2>3
<1>6. QED
      BY <1>1, <1>2, <1>4, <1>5 DEF ReportIsExact

\* A row that restricts the delete of one that should go is a reason.
LEMMA Restricted ==
    ASSUME TypeOK, Planning, NEW rows, rows \subseteq ShouldGo(snapshot, NamedRows),
           NEW x, x \in Follows(Latest, rows, "restrict")
    PROVE  Reason \/ RestrictedByOthers
<1>1. Latest.rows \subseteq Rows /\ snapshot.rows \subseteq Rows /\ NoRow \notin Rows
      BY Untouched, DeleteAssumption DEF TypeOK, Database
<1>2. PICK c \in Cells : c[1] = x /\ x \in Latest.rows /\ Latest.ref[c] \in rows /\ onDelete[c[2]] = "restrict"
      BY <1>1, FollowsIs
<1>3. Latest.ref[c] # NoRow
  <2>1. ShouldGo(snapshot, NamedRows) \subseteq snapshot.rows
        BY DEF ShouldGo
  <2>2. QED
        BY <1>1, <1>2, <2>1
<1>4. CASE x \notin touched
  <2>1. Seen.ref[c] = Latest.ref[c] /\ x \in Seen.rows
        BY <1>1, <1>2, <1>4, Untouched
  <2>2. snapshot.ref[c] \in rows /\ x \in snapshot.rows
        BY <1>2, <1>3, <2>1, SeenRefs DEF Planning
  <2>3. x \in Follows(snapshot, ShouldGo(snapshot, NamedRows), "restrict")
        BY <1>1, <1>2, <2>2, FollowsIs
  <2>4. QED
        BY <2>3 DEF Reason
<1>5. CASE x \in touched
  <2>1. committed.rows \subseteq Rows /\ x \in committed.rows /\ committed.ref[c] \in rows
        BY <1>2, <1>3, SeenIs DEF Without, TypeOK, Database
  <2>2. x \in Follows(committed, ShouldGo(snapshot, NamedRows), "restrict")
        BY <1>2, <2>1, FollowsIs
  <2>3. QED
        BY <1>5, <2>2 DEF RestrictedByOthers
<1>6. QED
      BY <1>4, <1>5

\* What a statement gets through before it meets a younger row is planned as well.
LEMMA ReachedPlanned ==
    ASSUME TypeOK, Planning, Covered, stack = <<>>,
           NEW D, D \subseteq planned \cap Latest.rows, D \cap touched = {}
    PROVE  Reached(D) \subseteq planned
<1> DEFINE db == Without(Latest, touched, {})
<1>1. /\ db.rows = Latest.rows \ touched /\ db.rows \subseteq Rows
      /\ \A c \in Cells : c[1] \notin touched => db.ref[c] = Latest.ref[c]
      BY Untouched DEF Without
<1>2. PICK S : S = Cascaded(db, D)
      OBVIOUS
<1>3. /\ D \subseteq S /\ S \subseteq db.rows /\ Follows(db, S, "cascade") \subseteq S
      /\ \A T \in SUBSET db.rows : D \subseteq T /\ Follows(db, T, "cascade") \subseteq T => S \subseteq T
      BY <1>1, <1>2, CascadedIsLeast
<1>4. ASSUME NEW x \in Follows(db, S \cap planned, "cascade")
      PROVE  x \in S \cap planned
  <2>1. PICK c \in Cells : /\ c[1] = x /\ x \in db.rows
                           /\ db.ref[c] \in S \cap planned /\ onDelete[c[2]] = "cascade"
        BY <1>1, <1>4, FollowsIs
  <2>2. x \in S
        BY <1>1, <1>3, <2>1, FollowsIs
  <2>3. c[1] \in Seen.rows /\ Seen.ref[c] \in planned
        BY <1>1, <2>1, Untouched
  <2>4. x \in planned
        BY <2>1, <2>3, CoveredAtEnd
  <2>5. QED
        BY <2>2, <2>4
<1>5. S \subseteq planned
  <2>1. S \cap planned \in SUBSET db.rows /\ D \subseteq S \cap planned
        BY <1>3
  <2>2. QED
        BY <1>3, <1>4, <2>1
<1>6. QED
      BY <1>2, <1>5, SeenIs DEF Reached

\* Whatever refuses the mutation has a reason.
LEMMA RefusedWithReason ==
    ASSUME DInv, Tracing, deletes \in Seq([row : Rows, checked : BOOLEAN]),
           NotFound \/ Refuse \/ DeleteRows \/ Commit, answer' = "refused"
    PROVE  Reason \/ RestrictedByOthers
<1>1. TypeOK /\ Planning /\ Phases /\ answer = "none"
      BY DEF DInv, InTransaction, Phases, NotFound, Refuse, DeleteRows, Commit
<1>2. CASE NotFound
  <2>1. /\ pc = "lookup" /\ ~deletes[at].checked /\ Named \notin Seen.rows /\ at \in DOMAIN deletes
        BY <1>2 DEF NotFound, IsFound, Tracing, Books
  <2>2. CASE Named \notin snapshot.rows
        BY <2>1, <2>2 DEF Reason, NamedRows, Named
  <2>3. CASE Named \in snapshot.rows
    <3>1. Named \in deleted
      <4>1. Named \in gone
            BY <2>1, <2>3, <1>1, SeenRefs DEF Planning
      <4>2. QED
            BY <1>1, <2>1, <4>1 DEF Planning, Phases, Tracing, Books
    <3>2. PICK j \in DOMAIN deletes : j < at /\ Named \in GoesWith(j)
          BY <3>1 DEF Tracing, Within
    <3>3. QED
          BY <2>1, <3>2 DEF Reason, GoesWith, Named
  <2>4. QED
        BY <2>2, <2>3
<1>3. CASE Refuse
      BY <1>3 DEF Refuse, Tracing
<1>4. CASE DeleteRows
  <2>1. pc = "deleting" /\ deleteQueue # <<>> /\ stack = <<>> /\ Covered /\ at \in DOMAIN deletes
        BY <1>1, <1>4 DEF DeleteRows, Phases, Planning, Tracing, Books
  <2>2. PICK D : D = Head(deleteQueue) \cap Latest.rows
        OBVIOUS
  <2>3. Head(deleteQueue) \cap touched = {} /\ Restricting(Reached(D)) # {}
        BY <1>1, <1>4, <2>2, SeenIs DEF DeleteRows, SerializationFailure, Ends, report
  <2>4. D \subseteq planned \cap Latest.rows /\ D \cap touched = {}
    <3>1. Head(deleteQueue) = deleteQueue[1] /\ 1 \in DOMAIN deleteQueue
          BY <1>1, <2>1 DEF TypeOK
    <3>2. QED
          BY <1>1, <2>2, <2>3, <3>1 DEF Planning
  <2>5. Reached(D) \subseteq planned
        BY <1>1, <2>1, <2>4, ReachedPlanned
  <2>6. planned \subseteq ShouldGo(snapshot, NamedRows)
        BY <1>1, <2>1, GoesWithIs DEF Tracing, Within, Planning
  <2>7. PICK R, x : R = Reached(D) /\ x \in Follows(Latest, R, "restrict")
        BY <2>3 DEF Restricting
  <2>8. QED
        BY <1>1, <2>5, <2>6, <2>7, Restricted
<1>5. CASE Commit
  <2>1. pc = "commit" /\ Follows(Latest, gone, "restrict") # {}
        BY <1>1, <1>5 DEF Commit, Ends
  <2>2. PICK x : x \in Follows(Latest, gone, "restrict")
        BY <2>1
  <2>3. gone \subseteq ShouldGo(snapshot, NamedRows)
        BY <2>1, DeletedIs
  <2>4. QED
        BY <1>1, <2>2, <2>3, Restricted
<1>6. QED
      BY <1>2, <1>3, <1>4, <1>5


-----------------------------------------------------------------------------
\* The steps of a mutation.

LEMMA TracingStep ==
    ASSUME DInv, DInv', RInv, [Next]_vars, InTransaction'
    PROVE  Tracing'
<1>1. TypeOK /\ deletes \in Seq([row : Rows, checked : BOOLEAN]) \ {<<>>}
      BY DEF DInv, RInv
<1>2. CASE Begin
      BY <1>1, <1>2, BeginTraces
<1>3. CASE pc = "ended" \/ (pc = "begin" /\ ~Begin)
  <2>1. CASE UNCHANGED vars
        BY <1>3, <2>1 DEF vars, InTransaction
  <2>2. CASE OtherCommits
    <3>1. PICK db, R : Other(db, R)
          BY <1>1, <2>2, OtherCases
    <3>2. QED
          BY <1>3, <3>1 DEF Other
  <2>3. QED
        BY <1>3, <2>1, <2>2 DEF Next, Begin, NotFound, AlreadyDeleted, Start, CollectRestrict, CollectCascade,
           CollectSetNull, Looks, Return, Refuse, CollectOrphans, PlanReady, DeleteRows, Confirm, Commit, Ended
<1>4. CASE InTransaction
  <2>0. Tracing
        BY <1>4 DEF RInv
  <2>1. CASE AlreadyDeleted
        BY <1>1, <2>0, <2>1, AlreadyDeletedTraces
  <2>2. CASE Start
        BY <1>1, <2>0, <2>2, StartTraces
  <2>3. ASSUME NEW rel \in Relations, CollectRestrict(rel) \/ CollectCascade(rel) \/ CollectSetNull(rel)
        PROVE  Tracing'
        BY <2>0, <2>3, RestrictTraces, CascadeTraces, SetNullTraces
  <2>4. CASE Return
        BY <2>0, <2>4, ReturnTraces
  <2>5. CASE CollectOrphans
        BY <1>1, <2>0, <2>5, OrphansTrace
  <2>6. CASE PlanReady
        BY <2>0, <2>6, PlanReadyTraces
  <2>7. CASE DeleteRows
    <3> DEFINE rows == Cascaded(Latest, Head(deleteQueue) \cap Latest.rows)
               cells == SetToNull(Latest, rows)
               moved == Head(deleteQueue) \cup rows \cup {c[1] : c \in cells}
    <3>1. /\ moved \cap Younger = {} /\ pc = "deleting" /\ deleteQueue # <<>>
          /\ gone' = gone \cup rows /\ nulled' = nulled \cup cells /\ deleteQueue' = Tail(deleteQueue)
          /\ UNCHANGED <<others, request, attempts, snapshot, deleted, at, pc, stack, planned,
                         orphans, failed, report, answer>>
          BY <2>7 DEF DeleteRows, SerializationFailure, Ends, InTransaction
    <3>2. moved \cap touched = {}
          BY <3>1, SeenIs
    <3>3. PICK R : R = rows
          OBVIOUS
    <3>4. PICK C : C = cells
          OBVIOUS
    <3>5. Deletes(R, C)
          BY <3>1, <3>2, <3>3, <3>4 DEF Deletes, RowsOf, others, request, orphans, report
    <3>6. QED
          BY <2>0, <3>5, DeletesTraces
  <2>8. CASE Confirm
        BY <1>1, <2>0, <2>8, ConfirmTraces
  <2>9. CASE OtherCommits
    <3>1. PICK db, R : Other(db, R)
          BY <1>1, <2>9, OtherCases
    <3>2. QED
          BY <1>1, <2>0, <3>1, OthersTrace DEF Other, request, transaction, changes, plan, orphans, report
  <2>10. CASE UNCHANGED vars
         BY <1>1, <2>0, <2>10, OthersTrace DEF vars, others, request, transaction, changes, plan, orphans, report
  <2>11. ~NotFound /\ ~Refuse /\ ~Commit /\ ~Ended /\ ~Begin
         BY <1>4 DEF NotFound, Refuse, Commit, SerializationFailure, Ends, Ended, Begin, InTransaction
  <2>12. QED
         BY <2>1, <2>2, <2>3, <2>4, <2>5, <2>6, <2>7, <2>8, <2>9, <2>10, <2>11 DEF Next
<1>5. QED
      BY <1>2, <1>3, <1>4 DEF InTransaction

\* Before the mutation has ended nothing has been answered; then everything stays.
LEMMA AnswerStep ==
    ASSUME DInv, RInv, [Next]_vars
    PROVE  \/ answer' \in {"none", "conflict"}
           \/ Commit /\ answer' = "ok" /\ InTransaction
           \/ (NotFound \/ Refuse \/ DeleteRows \/ Commit) /\ answer' = "refused" /\ InTransaction
           \/ UNCHANGED vars
<1>1. TypeOK /\ Phases
      BY DEF DInv
<1>2. CASE pc = "ended"
  <2>1. ~OtherCommits
    <3>1. ASSUME OtherCommits PROVE FALSE
      <4>1. PICK db, R : Other(db, R)
            BY <1>1, <3>1, OtherCases
      <4>2. QED
            BY <1>2, <4>1 DEF Other
    <3>2. QED
          BY <3>1
  <2>2. QED
        BY <1>2, <2>1 DEF Next, Begin, NotFound, AlreadyDeleted, Start, CollectRestrict, CollectCascade,
           CollectSetNull, Looks, Return, Refuse, CollectOrphans, PlanReady, DeleteRows, Confirm, Commit, Ended
<1>3. CASE pc # "ended"
  <2>1. answer = "none"
        BY <1>1, <1>3 DEF Phases
  <2>2. CASE OtherCommits
    <3>1. PICK db, R : Other(db, R)
          BY <1>1, <2>2, OtherCases
    <3>2. QED
          BY <2>1, <3>1 DEF Other
  <2>3. CASE NotFound \/ Refuse
        BY <2>3 DEF NotFound, Refuse, Ends, InTransaction
  <2>4. CASE DeleteRows
        BY <2>1, <2>4 DEF DeleteRows, SerializationFailure, Ends, InTransaction
  <2>5. CASE Commit
        BY <2>1, <2>5 DEF Commit, Ends, InTransaction
  <2>6. QED
        BY <2>1, <2>2, <2>3, <2>4, <2>5 DEF Next, Begin, AlreadyDeleted, Start, CollectRestrict, CollectCascade,
           CollectSetNull, Looks, Return, CollectOrphans, PlanReady, Confirm, Ended, vars
<1>4. QED
      BY <1>2, <1>3


LEMMA RInvStep == DInv /\ DInv' /\ RInv /\ [Next]_vars => RInv'
<1> SUFFICES ASSUME DInv, DInv', RInv, [Next]_vars
             PROVE  RInv'
    OBVIOUS
<1>1. TypeOK /\ deletes \in Seq([row : Rows, checked : BOOLEAN]) \ {<<>>}
      BY DEF DInv, RInv
<1>2. deletes' = deletes
  <2>1. CASE OtherCommits
    <3>1. PICK db, R : Other(db, R)
          BY <1>1, <2>1, OtherCases
    <3>2. QED
          BY <3>1 DEF Other, request
  <2>2. QED
        BY <2>1 DEF Next, Begin, NotFound, AlreadyDeleted, Start, CollectRestrict, CollectCascade,
           CollectSetNull, Looks, Return, Refuse, CollectOrphans, PlanReady, DeleteRows, Confirm, Commit,
           Ended, Ends, SerializationFailure, vars, request
<1>3. (InTransaction => Tracing)'
      BY TracingStep
<1>4. CASE answer' \in {"none", "conflict"}
      BY <1>1, <1>2, <1>3, <1>4 DEF RInv, ReportIsExact, RefusedForAReason
<1>5. CASE Commit /\ answer' = "ok" /\ InTransaction
  <2>1. ReportIsExact'
        BY <1>1, <1>5, CommitIsExact DEF RInv
  <2>2. QED
        BY <1>1, <1>2, <1>3, <1>5, <2>1 DEF RInv, RefusedForAReason
<1>6. CASE (NotFound \/ Refuse \/ DeleteRows \/ Commit) /\ answer' = "refused" /\ InTransaction
  <2>1. Tracing
        BY <1>6 DEF RInv
  <2>2. Reason \/ RestrictedByOthers
        BY <1>1, <1>6, <2>1, RefusedWithReason
  <2>3. UNCHANGED <<committed, snapshot, deletes, onDelete, touched, at>> /\ at \in Nat
    <3>1. answer = "none"
          BY <1>6 DEF DInv, Phases, InTransaction
    <3>2. Ends("refused")
      <4>1. CASE NotFound \/ Refuse
            BY <4>1 DEF NotFound, Refuse
      <4>2. CASE DeleteRows
            BY <1>6, <3>1, <4>2 DEF DeleteRows, SerializationFailure, Ends, report
      <4>3. CASE Commit
            BY <1>6, <3>1, <4>3 DEF Commit, Ends
      <4>4. QED
            BY <1>6, <4>1, <4>2, <4>3
    <3>3. QED
          BY <2>1, <3>2 DEF Ends, others, request, transaction, Tracing, Books
  <2>4. (Reason \/ RestrictedByOthers)'
    <3>1. CASE Reason
          BY <2>3, <3>1, ReasonLasts
    <3>2. CASE RestrictedByOthers
          BY <2>3, <3>2, Same DEF RestrictedByOthers
    <3>3. QED
          BY <2>2, <3>1, <3>2
  <2>5. RefusedForAReason'
        BY <2>4 DEF Reason, RestrictedByOthers, RefusedForAReason
  <2>6. QED
        BY <1>1, <1>2, <1>3, <1>6, <2>5 DEF RInv, ReportIsExact
<1>7. CASE UNCHANGED vars
  <2>1. UNCHANGED <<committed, snapshot, deletes, onDelete, touched, at, answer, reports, cleared, gone, nulled>>
        BY <1>7 DEF vars, others, request, transaction, changes, report
  <2>2. /\ ShouldGo(snapshot, NamedRows)' = ShouldGo(snapshot, NamedRows)
        /\ NamedRows' = NamedRows
        /\ \A j : ShouldGo(snapshot, {deletes[j].row})' = ShouldGo(snapshot, {deletes[j].row})
        /\ \A db, R, kind : Follows(db, R, kind)' = Follows(db, R, kind)
        BY <2>1, Same DEF GoesWith
  <2>3. ReportIsExact'
        BY <2>1, <2>2 DEF RInv, ReportIsExact, Reported
  <2>4. RefusedForAReason'
        BY <2>1, <2>2 DEF RInv, RefusedForAReason
  <2>5. QED
        BY <1>1, <1>2, <1>3, <2>3, <2>4 DEF RInv
<1>8. QED
      BY <1>4, <1>5, <1>6, <1>7, AnswerStep

LEMMA RInvInit == Init => RInv
<1> SUFFICES ASSUME Init
             PROVE  RInv
    OBVIOUS
<1>1. deletes \in Seq([row : Rows, checked : BOOLEAN]) \ {<<>>}
      BY DeleteAssumption DEF Init
<1>2. answer = "none" /\ pc = "begin"
      BY DEF Init
<1>3. QED
      BY <1>1, <1>2 DEF RInv, InTransaction, ReportIsExact, RefusedForAReason

\* The second inductive invariant: between its first query and its commit a mutation has
\* planned nothing but what its deletes lead to, and what it does not yet have it will still
\* ask for; what it has set to null pointed at a row it deleted; and if nobody touched the
\* rows of the report, its remaining statements delete what is planned and not yet gone.
THEOREM ReportInvariant == Spec => []RInv
<1>1. DInv /\ RInv /\ [Next]_vars => (DInv /\ RInv)'
      BY DInvStep, RInvStep
<1>2. QED
      BY DInvInit, RInvInit, <1>1, PTL DEF Spec

\* What DeleteExecutor.execute reports (its results and the events it fires before the first
\* statement) is what cascades and orphan removal lead to, and without interference of
\* others exactly what PostgreSQL then did.
THEOREM ReportsAreExact == Spec => []ReportIsExact
<1>1. RInv => ReportIsExact
      BY DEF RInv
<1>2. QED
      BY <1>1, ReportInvariant, PTL

\* A mutation is refused (getPrimaryValue finds no row, state.failResult, a foreign key that
\* restricts) for what it found in its snapshot, because others made a row restrict a delete,
\* or because they took rows away between two of its deletes; for nothing else they did.
THEOREM RefusalsHaveReasons == Spec => []RefusedForAReason
<1>1. RInv => RefusedForAReason
      BY DEF RInv
<1>2. QED
      BY <1>1, ReportInvariant, PTL
=============================================================================
