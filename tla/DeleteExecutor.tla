--------------------------- MODULE DeleteExecutor ---------------------------
(* Deletes of the content API                                                *)
(* (engine-content-api/src/mapper/delete/DeleteExecutor.ts and DeleteState.ts,*)
(* run by resolvers/MutationResolver.ts).                                    *)
(*                                                                           *)
(* A mutation is one transaction with one or more deletes, run one after     *)
(* another.  A delete first plans: starting with the named row it asks the   *)
(* database, relation by relation, for the rows that point at rows it is     *)
(* about to delete, and follows cascades, notes columns to be set to null    *)
(* and refuses on a restriction or on a row the identity may not touch.      *)
(* Rows left without their one-to-one owner (orphan removal) are planned     *)
(* next.  Everything planned is reported, as results and as events for       *)
(* actions and the event log.  Only then are the rows deleted, by one DELETE *)
(* per planned set, and PostgreSQL does the cascading by itself.  So the     *)
(* plan and the database have to agree, although other transactions commit   *)
(* in between; the transaction is REPEATABLE READ and is run again when      *)
(* PostgreSQL cannot serialize it.                                           *)
(*                                                                           *)
(* Rows are values and their columns but for the relations are left out.     *)
(* What the ACL says about a row is either that the identity may change it   *)
(* or that it may not; others may turn this round by a change of the row     *)
(* itself or, as the predicates of the ACL follow relations, of other rows.  *)
(* PostgreSQL is external: what its statements do and when it refuses them   *)
(* is modelled from how the code uses it.                                    *)
EXTENDS Integers, Sequences, FiniteSets, SequencesExt

CONSTANTS
    Rows,           (* identifiers of rows                                   *)
    NoRow,          (* a relation that is null                               *)
    Entities,
    EntityOf,       (* the entity of a row                                   *)
    Relations,      (* the owning relations of all entities                  *)
    Position,       (* their order in the schema                             *)
    Owner,          (* the entity whose table has the joining column         *)
    Target,         (* the entity the relation points at                     *)
    OrphanRemoval,  (* the one-to-one relations with orphan removal          *)
    Schemas,        (* possible onDelete: relation -> restrict, cascade, setNull *)
    Databases,      (* possible contents of the database                     *)
    Mutations,      (* possible mutations: the deletes and whether foreign   *)
                    (* keys are deferred (deferForeignKeyConstraints)        *)
    MaxAttempts,    (* maxAttempts of retryTransaction                       *)
    MaxWrites       (* bound: commits of others during one attempt           *)

(* The joining columns: a row and a relation of its entity.                  *)
Cells == {c \in Rows \X Relations : EntityOf[c[1]] = Owner[c[2]]}

(* Foreign keys hold, and a one-to-one relation is one to one.               *)
Sound(db) ==
    /\ \A c \in Cells : db.ref[c] # NoRow =>
          /\ {c[1], db.ref[c]} \subseteq db.rows
          /\ EntityOf[db.ref[c]] = Target[c[2]]
    /\ \A c, d \in Cells :
          c # d /\ c[2] = d[2] /\ c[2] \in OrphanRemoval /\ db.ref[c] = db.ref[d]
             => db.ref[c] = NoRow

(* The contents of a database.                                               *)
Database == [rows : SUBSET Rows, ref : [Cells -> Rows \cup {NoRow}], allowed : SUBSET Rows]

ASSUME DeleteAssumption ==
    /\ NoRow \notin Rows /\ IsFiniteSet(Entities)
    /\ EntityOf \in [Rows -> Entities]
    /\ Owner \in [Relations -> Entities]
    /\ Target \in [Relations -> Entities]
    /\ OrphanRemoval \subseteq Relations
    /\ Schemas \subseteq [Relations -> {"restrict", "cascade", "setNull"}]
    /\ \A db \in Databases : db \in Database /\ Sound(db)
    /\ \A m \in Mutations : m.deletes \in Seq([row : Rows, checked : BOOLEAN]) \ {<<>>}
    /\ MaxAttempts \in Nat \ {0}
    /\ MaxWrites \in Nat

VARIABLES
    committed,    (* the database: rows, ref of every cell, allowed rows     *)
    touched,      (* rows others changed since the snapshot of the mutation  *)
    writes,       (* commits of others during this attempt                   *)
    onDelete,     (* the schema                                              *)
    deletes,      (* the deletes: row, and whether its identifier was        *)
                  (* already looked up (CheckedPrimary)                      *)
    deferred,     (* foreign keys are checked at the commit                  *)
    attempts,     (* runs of the transaction                                 *)
    snapshot,     (* the database as of the first query of the transaction   *)
    gone,         (* rows the transaction deleted                            *)
    nulled,       (* cells the transaction set to null                       *)
    deleted,      (* mapper.deletedEntities                                  *)
    at,           (* the current delete                                      *)
    pc,           (* where the mutation is                                   *)
    stack,        (* calls of processDeleteResult, the innermost last        *)
    planned,      (* state.plannedDelete                                     *)
    orphanQueue,  (* state.plannedOrphanRemovalsEntityQueue                  *)
    orphanIds,    (* state.plannedOrphanRemovals                             *)
    deleteQueue,  (* sets of rows, one DELETE each                           *)
    failed,       (* state.failResult is not empty                           *)
    reports,      (* how often each row was reported as deleted              *)
    cleared,      (* cells reported as set to null                           *)
    answer        (* what the caller is told                                 *)

others == <<committed, touched, writes>>
request == <<onDelete, deletes, deferred>>
changes == <<gone, nulled>>
orphans == <<orphanQueue, orphanIds>>
plan == <<stack, planned, orphans, deleteQueue, failed>>
report == <<reports, cleared>>
transaction == <<attempts, snapshot, changes, deleted, at>>
vars == <<others, request, transaction, pc, plan, report, answer>>

(* A call of processDeleteResult: its rows, the relations it has yet to look *)
(* at, and what its rows own.                                                *)
Frame == [rows : SUBSET Rows, pending : SUBSET Relations, orphans : [Entities -> SUBSET Rows]]

(* The type invariant.                                                       *)
TypeOK ==
    /\ committed \in Database /\ snapshot \in Database
    /\ touched \subseteq Rows
    /\ onDelete \in [Relations -> {"restrict", "cascade", "setNull"}]
    /\ pc \in {"begin", "lookup", "planning", "deleting", "commit", "ended"}
    /\ gone \subseteq Rows /\ nulled \subseteq Cells /\ deleted \subseteq Rows
    /\ stack \in Seq(Frame)
    /\ planned \subseteq Rows
    /\ deleteQueue \in Seq(SUBSET Rows)
    /\ failed \in BOOLEAN
    /\ reports \in [Rows -> Nat] /\ cleared \subseteq Cells
    /\ answer \in {"none", "ok", "refused", "conflict"}

(* A database without the rows g and with the cells n set to null.           *)
Without(db, g, n) ==
    [rows |-> db.rows \ g,
     ref |-> [c \in Cells |-> IF c \in n \/ c[1] \in g THEN NoRow ELSE db.ref[c]],
     allowed |-> db.allowed \ g]

Isolation_default == "read committed"
Isolation == "repeatable read"

(* What a query of the transaction reads, and what is there in fact.         *)
Latest == Without(committed, gone, nulled)
Seen == IF Isolation = "repeatable read" THEN Without(snapshot, gone, nulled) ELSE Latest

(* Rows whose relation rel points at one of the targets.                     *)
Referring(db, rel, targets) ==
    {r \in db.rows : EntityOf[r] = Owner[rel] /\ db.ref[<<r, rel>>] \in targets}

RelationsTo(entity) == {rel \in Relations : Target[rel] = entity}

(* What orphan removal will have to look at when these rows are planned.     *)
OrphansOf(rows) ==
    [e \in Entities |->
        {Seen.ref[c] : c \in {x \in Cells : /\ x[1] \in rows
                                            /\ x[2] \in OrphanRemoval
                                            /\ Target[x[2]] = e}} \ {NoRow}]

Unplanned_all(rows) == rows
Unplanned(rows) == rows \ planned

(* What is about to be done to rows is something the identity may do.        *)
Permitted(rows) == rows \subseteq Seen.allowed

-----------------------------------------------------------------------------
Init ==
    /\ committed \in Databases
    /\ snapshot = committed
    /\ onDelete \in Schemas
    /\ \E m \in Mutations : deletes = m.deletes /\ deferred = m.deferred
    /\ touched = {} /\ writes = 0
    /\ attempts = 0 /\ at = 1 /\ pc = "begin" /\ answer = "none"
    /\ gone = {} /\ nulled = {} /\ deleted = {}
    /\ stack = <<>> /\ planned = {} /\ deleteQueue = <<>> /\ failed = FALSE
    /\ orphanQueue = <<>> /\ orphanIds = [e \in Entities |-> {}]
    /\ reports = [r \in Rows |-> 0] /\ cleared = {}

(* mapperFactory.transaction: a new mapper, a transaction and its snapshot.  *)
Begin ==
    /\ pc = "begin"
    /\ attempts' = attempts + 1
    /\ snapshot' = committed
    /\ touched' = {} /\ writes' = 0
    /\ gone' = {} /\ nulled' = {} /\ deleted' = {} /\ at' = 1
    /\ stack' = <<>> /\ planned' = {} /\ deleteQueue' = <<>> /\ failed' = FALSE
    /\ orphanQueue' = <<>> /\ orphanIds' = [e \in Entities |-> {}]
    /\ reports' = [r \in Rows |-> 0] /\ cleared' = {}
    /\ pc' = "lookup"
    /\ UNCHANGED <<committed, request, answer>>

(* The mutation ends without a commit: the transaction is rolled back.       *)
Ends(how) ==
    /\ pc' = "ended"
    /\ answer' = how
    /\ UNCHANGED <<others, request, transaction, plan, report>>

(* retryTransaction: run it again, or pass the failure on.                   *)
SerializationFailure ==
    IF attempts < MaxAttempts
    THEN pc' = "begin" /\ UNCHANGED <<others, request, transaction, plan, report, answer>>
    ELSE Ends("conflict")

(* The mapper goes on with the next delete of the mutation, or commits.      *)
NextDelete ==
    /\ stack' = <<>> /\ planned' = {} /\ deleteQueue' = <<>>
    /\ orphanQueue' = <<>> /\ orphanIds' = [e \in Entities |-> {}]
    /\ at' = at + 1
    /\ pc' = IF at < Len(deletes) THEN "lookup" ELSE "commit"

-----------------------------------------------------------------------------
(* Planning.                                                                 *)

Named == deletes[at].row

(* getPrimaryValue finds the row, or is given the identifier.                *)
IsFound == deletes[at].checked \/ Named \in Seen.rows

WasDeleted_never == FALSE
WasDeleted == Named \in deleted

(* processDeleteResult: the rows are planned and reported, and a call is     *)
(* pushed on calls that will look at what points at them.                    *)
Process(entity, rows, calls) ==
    /\ planned' = planned \cup rows
    /\ reports' = [r \in Rows |-> IF r \in rows THEN reports[r] + 1 ELSE reports[r]]
    /\ stack' = IF rows = {} THEN calls
                ELSE Append(calls, [rows |-> rows, pending |-> RelationsTo(entity),
                                    orphans |-> OrphansOf(rows)])

(* collectDeleteInfo of rows of one entity that are named or orphans.        *)
Collect(entity, ids) ==
    LET found == {r \in Seen.rows \cap ids : EntityOf[r] = entity}
        rows == Unplanned(found)
        ok == found # {} /\ Permitted(rows)
    IN  /\ failed' = (failed \/ ~ok)
        /\ deleteQueue' = Append(deleteQueue, IF ok THEN rows ELSE {})
        /\ IF ok THEN Process(entity, rows, stack) ELSE UNCHANGED <<planned, reports, stack>>

NotFound ==
    /\ pc = "lookup"
    /\ ~IsFound
    /\ Ends("refused")

AlreadyDeleted ==
    /\ pc = "lookup"
    /\ IsFound
    /\ WasDeleted
    /\ NextDelete
    /\ UNCHANGED <<others, request, attempts, snapshot, changes, deleted, failed, report, answer>>

Start ==
    /\ pc = "lookup"
    /\ IsFound
    /\ ~WasDeleted
    /\ Collect(EntityOf[Named], {Named})
    /\ pc' = "planning"
    /\ UNCHANGED <<others, request, transaction, orphans, cleared, answer>>

Call == Last(stack)

(* The rows that point with a relation at the rows of the call.              *)
Found(rel) == Unplanned(Referring(Seen, rel, Call.rows))

WithoutRelation(rel) == Append(Front(stack), [Call EXCEPT !.pending = @ \ {rel}])

(* The next relation, in the order of the schema, that points at the rows.   *)
Looks(rel, kind) ==
    /\ pc = "planning"
    /\ stack # <<>>
    /\ rel \in Call.pending
    /\ \A other \in Call.pending : Position[rel] <= Position[other]
    /\ onDelete[rel] = kind
    /\ UNCHANGED <<others, request, transaction, pc, orphans, deleteQueue, answer>>

CollectRestrict(rel) ==
    /\ Looks(rel, "restrict")
    /\ failed' = (failed \/ (~deferred /\ Found(rel) # {}))
    /\ stack' = WithoutRelation(rel)
    /\ UNCHANGED <<planned, report>>

CollectCascade(rel) ==
    /\ Looks(rel, "cascade")
    /\ failed' = (failed \/ ~Permitted(Found(rel)))
    /\ IF Permitted(Found(rel)) THEN Process(Owner[rel], Found(rel), WithoutRelation(rel))
       ELSE stack' = WithoutRelation(rel) /\ UNCHANGED <<planned, reports>>
    /\ UNCHANGED cleared

CollectSetNull(rel) ==
    /\ Looks(rel, "setNull")
    /\ failed' = (failed \/ ~Permitted(Found(rel)))
    /\ cleared' = IF Permitted(Found(rel)) THEN cleared \cup (Found(rel) \X {rel}) ELSE cleared
    /\ stack' = WithoutRelation(rel)
    /\ UNCHANGED <<planned, reports>>

(* Every relation was looked at: addOrphanRemoval notes the orphans of the   *)
(* rows, one entry for each entity.                                          *)
Return ==
    /\ pc = "planning"
    /\ stack # <<>>
    /\ Call.pending = {}
    /\ orphanQueue' = orphanQueue \o SetToSeq({e \in Entities : Call.orphans[e] # {} /\ orphanIds[e] = {}})
    /\ orphanIds' = [e \in Entities |-> orphanIds[e] \cup Call.orphans[e]]
    /\ stack' = Front(stack)
    /\ UNCHANGED <<others, request, transaction, pc, planned, deleteQueue, failed, report, answer>>

Refuse ==
    /\ pc = "planning"
    /\ stack = <<>>
    /\ failed
    /\ Ends("refused")

(* fetchOrphanRemovals, and collectDeleteInfo for what is left of the entry. *)
CollectOrphans ==
    /\ pc = "planning"
    /\ stack = <<>>
    /\ ~failed
    /\ orphanQueue # <<>>
    /\ LET entity == Head(orphanQueue)
           ids == Unplanned(orphanIds[entity])
       IN  /\ IF ids = {} THEN UNCHANGED <<stack, planned, deleteQueue, failed, reports>>
              ELSE Collect(entity, ids)
           /\ orphanIds' = [orphanIds EXCEPT ![entity] = {}]
    /\ orphanQueue' = Tail(orphanQueue)
    /\ UNCHANGED <<others, request, transaction, pc, cleared, answer>>

(* The plan is complete: the events of what it reports are fired.            *)
PlanReady ==
    /\ pc = "planning"
    /\ stack = <<>>
    /\ ~failed
    /\ orphanQueue = <<>>
    /\ pc' = "deleting"
    /\ UNCHANGED <<others, request, transaction, plan, report, answer>>

-----------------------------------------------------------------------------
(* Deleting.                                                                 *)

Follows(db, rows, kind) ==
    UNION {Referring(db, rel, rows) : rel \in {x \in Relations : onDelete[x] = kind}}

(* PostgreSQL: a DELETE removes these rows and whatever cascades to them.    *)
Cascaded(db, rows) ==
    LET closed == {S \in SUBSET db.rows : rows \subseteq S /\ Follows(db, S, "cascade") \subseteq S}
    IN  {r \in db.rows : \A S \in closed : r \in S}

(* The cells it sets to null.                                                *)
SetToNull(db, rows) ==
    {c \in Cells : c[1] \in db.rows \ rows /\ onDelete[c[2]] = "setNull" /\ db.ref[c] \in rows}

(* Under REPEATABLE READ a statement fails that would change a row whose     *)
(* version is younger than the snapshot.                                     *)
Younger == IF Isolation = "repeatable read" THEN touched ELSE {}

(* What a DELETE of these rows gets through before it meets a younger row.   *)
Reached(rows) == Cascaded(Without(Latest, Younger, {}), rows)

(* Rows that refuse the delete of others, unless that is left to the commit. *)
Restricting(rows) == IF deferred THEN {} ELSE Follows(Latest, rows, "restrict")

(* PostgreSQL looks up what points at a deleted row as it is now.  So a row  *)
(* that others moved away is not cascaded to; one that they made point at it *)
(* is younger, where the foreign key is to change it, and refuses the delete *)
(* for good, where the foreign key restricts, as that check changes nothing. *)
(* The foreign keys of the deleted rows come in any order.                   *)
DeleteRows ==
    /\ pc = "deleting"
    /\ deleteQueue # <<>>
    /\ LET named == Head(deleteQueue)
           rows == Cascaded(Latest, named \cap Latest.rows)
           cells == SetToNull(Latest, rows)
           moved == named \cup rows \cup {c[1] : c \in cells}
       IN  \/ moved \cap Younger # {} /\ SerializationFailure
           \* a row that restricts the delete of another one and is to be deleted by the
           \* same statement may be found before or after it is
           \/ /\ named \cap Younger = {}
              /\ Restricting(Reached(named \cap Latest.rows)) # {}
              /\ Ends("refused")
           \/ /\ moved \cap Younger = {}
              /\ Restricting(rows) \subseteq rows
              /\ gone' = gone \cup rows
              /\ nulled' = nulled \cup cells
              /\ deleteQueue' = Tail(deleteQueue)
              /\ UNCHANGED <<others, request, attempts, snapshot, deleted, at, pc, stack, planned,
                             orphans, failed, report, answer>>

(* confirmDeleted, and the delete returns its results.                       *)
Confirm ==
    /\ pc = "deleting"
    /\ deleteQueue = <<>>
    /\ deleted' = deleted \cup planned
    /\ NextDelete
    /\ UNCHANGED <<others, request, attempts, snapshot, changes, failed, report, answer>>

(* The commit checks what was deferred, against the database as it is now.   *)
Commit ==
    /\ pc = "commit"
    /\ LET dangling == Follows(Latest, gone, "restrict")
       IN  \/ dangling # {} /\ Ends("refused")
           \/ /\ dangling = {}
              /\ committed' = Latest
              /\ pc' = "ended"
              /\ answer' = "ok"
              /\ UNCHANGED <<touched, writes, request, transaction, plan, report>>

-----------------------------------------------------------------------------
(* Other transactions, each as its commit.  One that needs a row the         *)
(* mutation has changed waits for it; so does one that would point at a      *)
(* deleted row.                                                              *)
Locked == gone \cup {c[1] : c \in nulled}

Other(db, rows) ==
    /\ pc \notin {"begin", "ended"}
    /\ writes < MaxWrites
    /\ rows \cap Locked = {}
    /\ Sound(db)
    /\ committed' = db
    /\ touched' = touched \cup rows
    /\ writes' = writes + 1
    /\ UNCHANGED <<request, transaction, pc, plan, report, answer>>

Columns(r) == {c \in Cells : c[1] = r}

OtherInserts(r) ==
    /\ r \notin committed.rows
    /\ \E ref \in [Columns(r) -> (Rows \ gone) \cup {NoRow}], ok \in BOOLEAN :
          Other([rows |-> committed.rows \cup {r},
                 ref |-> [c \in Cells |-> IF c[1] = r THEN ref[c] ELSE committed.ref[c]],
                 allowed |-> committed.allowed \cup (IF ok THEN {r} ELSE {})], {r})

OtherMoves(c) ==
    /\ c[1] \in committed.rows
    /\ \E to \in (Rows \ gone) \cup {NoRow} :
          /\ to # committed.ref[c]
          /\ Other([committed EXCEPT !.ref[c] = to], {c[1]})

OtherRemoves(r) ==
    /\ r \in committed.rows
    /\ Other(Without(committed, {r}, {}), {r})

(* A permission is granted or withdrawn, by a change of its own row or of    *)
(* one its predicate leads to, which does not make the row itself younger.   *)
OtherPermits(r) ==
    /\ r \in committed.rows
    /\ \E granted \in BOOLEAN, changed \in SUBSET {r} :
          /\ granted # (r \in committed.allowed)
          /\ Other([committed EXCEPT !.allowed = IF granted THEN @ \cup {r} ELSE @ \ {r}], changed)

OtherCommits ==
    \/ \E r \in Rows : OtherInserts(r) \/ OtherRemoves(r) \/ OtherPermits(r)
    \/ \E c \in Cells : OtherMoves(c)

Ended == pc = "ended" /\ UNCHANGED vars

Next ==
    \/ Begin \/ NotFound \/ AlreadyDeleted \/ Start
    \/ \E rel \in Relations : CollectRestrict(rel) \/ CollectCascade(rel) \/ CollectSetNull(rel)
    \/ Return
    \/ Refuse \/ CollectOrphans \/ PlanReady
    \/ DeleteRows \/ Confirm \/ Commit
    \/ OtherCommits
    \/ Ended

Spec == Init /\ [][Next]_vars
-----------------------------------------------------------------------------
(* Properties.                                                               *)

Reported == {r \in Rows : reports[r] > 0}

NamedRows == {deletes[i].row : i \in DOMAIN deletes}

(* The definition the plan is measured against: the named rows, all that     *)
(* cascades to them and all they leave as orphans.                           *)
ShouldGo(db, rows) ==
    LET left(S) == {db.ref[c] : c \in {x \in Cells : x[1] \in S /\ x[2] \in OrphanRemoval}}
        closed == {S \in SUBSET db.rows : /\ rows \subseteq S
                                          /\ Follows(db, S, "cascade") \subseteq S
                                          /\ left(S) \ {NoRow} \subseteq S}
    IN  {r \in db.rows : \A S \in closed : r \in S}

(* What a mutation reports is what it did.  A successful one has reported    *)
(* exactly the rows that cascades and orphan removal lead to, in whatever    *)
(* order and by however many ways, and deleted no other row, although        *)
(* PostgreSQL did the cascading and others committed meanwhile.  Unless      *)
(* another transaction changed one of these rows after the snapshot, each    *)
(* was reported once and is gone, and what is null now was reported as such. *)
ReportIsExact ==
    answer = "ok" =>
       /\ Reported = ShouldGo(snapshot, NamedRows)
       /\ gone \subseteq Reported
       /\ touched \cap (Reported \cup {c[1] : c \in cleared}) = {} =>
             /\ \A r \in gone : reports[r] = 1
             /\ gone = Reported
             /\ nulled \subseteq cleared
             /\ \A c \in cleared : c \in nulled \/ c[1] \in gone

(* A committed mutation changed only rows that its identity was allowed to   *)
(* change when it planned and that nobody has changed since: no row that     *)
(* arrived between the plan and the DELETE gets past the check, nor one      *)
(* whose own columns no longer permit it.  This is all that REPEATABLE READ  *)
(* gives: a permission that depends on related rows may be withdrawn by a    *)
(* change of those after the plan, and the row is deleted all the same.      *)
ChangedAsPermitted ==
    answer = "ok" => gone \cup {c[1] : c \in nulled} \subseteq snapshot.allowed \ touched

(* A mutation is refused for what it found in its snapshot: a row that is    *)
(* not there (or was deleted by an earlier delete of the mutation), one it   *)
(* may not change, or a restriction.  Of what others did meanwhile only two  *)
(* things refuse it, anything else ends in a new attempt: a row they have    *)
(* made restrict the delete (DELETE or COMMIT find it, and the foreign key   *)
(* violation is not retried), and, in a later delete of the mutation, rows   *)
(* that they took away from an earlier one, which are still in its snapshot  *)
(* and may point at rows that are gone.                                      *)
RefusedForAReason ==
    answer = "refused" =>
       LET rows == ShouldGo(snapshot, NamedRows)
       IN  \/ ~(NamedRows \subseteq snapshot.rows)
           \/ \E j, k \in DOMAIN deletes :
                 /\ j < k /\ ~deletes[k].checked
                 /\ deletes[k].row \in ShouldGo(snapshot, {deletes[j].row})
           \/ ~(rows \cup Follows(snapshot, rows, "setNull") \subseteq snapshot.allowed)
           \/ Follows(snapshot, rows, "restrict") # {}
           \/ Follows(committed, rows, "restrict") \cap touched # {}
           \/ at > 1 /\ touched \cap rows # {}
=============================================================================
