---------------------------- MODULE Migrations ----------------------------
(***************************************************************************)
(* The migrations of a project (engine-system-api/model/migrations): the   *)
(* registry schema_migration of what was executed, the single row of       *)
(* schema that every reader of the model uses, and the tables of the       *)
(* stages that the SQL of the migrations creates.  Four mutations change   *)
(* them, each in one REPEATABLE READ transaction: migrate (with or without *)
(* force) and migrateFromSnapshot, under an advisory lock, and             *)
(* migrationModify and migrationDelete, which take none.  With the         *)
(* options of MigrationLockRetry, migrate repeats a transaction that met a *)
(* concurrency conflict.                                                   *)
(*                                                                         *)
(* A schema is the sequence of the modifications applied; one modification *)
(* adds one entity, so a schema is valid when nothing is added twice.  Its *)
(* state (ACL, validation, actions, settings) may also be sent along with  *)
(* migrate, and then overrides what the migrations make of it.             *)
(***************************************************************************)
EXTENDS Naturals, Sequences, FiniteSets, Functions

CONSTANTS
    Callers,        (* the mutations in progress, one call each             *)
    Versions,       (* the versions of migrations                           *)
    Entities,       (* what a migration of the schema may add               *)
    States,         (* the states that may be sent along                    *)
    Operations,     (* the calls that may be made                           *)
    MaxAttempts,    (* the option maxAttempts; 1 stands for no options      *)
    Allowed,        (* the kinds of trouble that may happen                 *)
    MaxTroubles     (* bound: how many of them together                     *)

None == "none"
Data == "data"      \* the content of a migration of type content
Empty == "empty"    \* a migration of the schema without any modification
Contents == Entities \cup {Data}

\* A statement fails; a lock is not granted in time, or PostgreSQL breaks a deadlock;
\* the connection is lost.
Troubles == {"sql", "conflict", "connection"}

Migration == [version : Versions, content : Contents \cup {Empty}]
Operation ==
    [kind : {"migrate"}, batch : Seq(Migration), force : BOOLEAN, state : States \cup {None}]
    \cup [kind : {"snapshot"}, batch : Seq(Migration), state : States \cup {None}]
    \cup [kind : {"delete"}, version : Versions]
    \cup [kind : {"modify"}, version : Versions, to : Versions, as : Entities \cup {None}]

ASSUME MigrationsAssumption ==
    /\ Versions \subseteq Nat \ {0}
    /\ {None, Data, Empty} \cap Entities = {} /\ None \notin Callers \cup States
    /\ Operations \subseteq Operation
    /\ \A o \in Operations : o.kind = "snapshot" =>
        o.batch # <<>> /\ \A m \in Range(o.batch) : m.content # Empty
    /\ MaxAttempts \in Nat \ {0}
    /\ Allowed \subseteq Troubles
    /\ MaxTroubles \in Nat

VARIABLES
    \* What is committed: the content executed as each version, the row of schema (what is
    \* applied, the state if one was sent, the version), the modifications whose SQL ran
    \* on the stages; how often the row of schema was written.
    registry, schema, tables, commits,
    lock,           \* who holds the advisory lock pg_lock_id
    \* of each caller: where it is, its call, its attempt, the value of commits in its
    \* snapshot, what its transaction writes, what it answered
    pc, op, attempt, seen, plan, answer,
    \* history: a version older than an executed one was executed since the last replay;
    \* the state last sent since then; the registry was edited behind the back of the tables
    disorder, sent, altered,
    left

dataVars == <<registry, schema, tables, commits>>
callVars == <<pc, op, attempt, seen, plan, answer>>
history == <<disorder, sent, altered>>
vars == <<dataVars, lock, callVars, history, left>>

-----------------------------------------------------------------------------
(* Helpers *)

Executed == {v \in Versions : registry[v] # None}

\* A set of versions in ascending order, and the last of them.
Rank(v, S) == Cardinality({w \in S : w <= v})
Sorted(S) == [i \in 1 .. Cardinality(S) |-> CHOOSE v \in S : Rank(v, S) = i]
Newest(S) == CHOOSE v \in S \cup {0} : \A w \in S : w <= v

\* The modifications that migrations make, in the order of their versions; those of data
\* make none.
Modifications(rows) ==
    LET versions == Sorted({v \in DOMAIN rows : rows[v] \in Entities})
    IN [i \in DOMAIN versions |-> rows[versions[i]]]

\* SchemaValidator, of which the model keeps that nothing is added twice.
Valid(applied) == IsInjective(applied)

\* emptySchema
Blank == [applied |-> <<>>, state |-> None, version |-> 0]

\* buildSchemaFromMigrations: the executed migrations in the order of their versions.
Replay(rows) ==
    [applied |-> Modifications(rows), state |-> None,
     version |-> Newest({v \in DOMAIN rows : rows[v] # None})]

Spend(kind) ==
    /\ kind \in Allowed
    /\ left > 0
    /\ left' = left - 1

Locks(o) == o.kind \in {"migrate", "snapshot"}

\* The transaction is over: the caller answers, after it has unlocked.
Leaves_unlockingOnSuccess(c, what) ==
    /\ answer' = [answer EXCEPT ![c] = what]
    /\ plan' = [plan EXCEPT ![c] = [rows |-> <<>>]]
    /\ pc' = [pc EXCEPT ![c] = IF lock = c /\ what = "ok" THEN "unlocking" ELSE "done"]
Leaves(c, what) ==
    /\ answer' = [answer EXCEPT ![c] = what]
    /\ plan' = [plan EXCEPT ![c] = [rows |-> <<>>]]
    /\ pc' = [pc EXCEPT ![c] = IF lock = c THEN "unlocking" ELSE "done"]

-----------------------------------------------------------------------------
(* Types and the initial state *)

Places == {"idle", "locking", "starting", "running", "saving", "committing", "unlocking", "done"}

IsSchema(s) ==
    s.applied \in Seq(Entities) /\ s.state \in States \cup {None} /\ s.version \in Versions \cup {0}

TypeOK ==
    /\ registry \in [Versions -> Contents \cup {None}]
    /\ IsSchema(schema)
    /\ tables \in Seq(Entities)
    /\ commits \in Nat
    /\ lock \in Callers \cup {None}
    /\ pc \in [Callers -> Places]
    /\ \A c \in Callers : pc[c] # "idle" => op[c] \in Operations
    /\ attempt \in [Callers -> 1 .. MaxAttempts]
    /\ seen \in [Callers -> Nat]
    /\ \A c \in Callers : pc[c] \in {"running", "saving", "committing"} =>
        /\ DOMAIN plan[c].rows \subseteq Versions
        /\ plan[c].fresh \subseteq DOMAIN plan[c].rows
        /\ IsSchema(plan[c].saves)
        /\ plan[c].runs \in Seq(Entities)
    /\ answer \in [Callers -> {None, "ok", "error"}]
    /\ disorder \in BOOLEAN /\ sent \in States \cup {None} /\ altered \in BOOLEAN
    /\ left \in 0 .. MaxTroubles

Init ==
    /\ registry = [v \in Versions |-> None]
    /\ schema = Blank
    /\ tables = <<>>
    /\ commits = 0
    /\ lock = None
    /\ pc = [c \in Callers |-> "idle"]
    /\ op = [c \in Callers |-> [kind |-> None]]
    /\ attempt = [c \in Callers |-> 1]
    /\ seen = [c \in Callers |-> 0]
    /\ plan = [c \in Callers |-> [rows |-> <<>>]]
    /\ answer = [c \in Callers |-> None]
    /\ disorder = FALSE /\ sent = None /\ altered = FALSE
    /\ left = MaxTroubles

-----------------------------------------------------------------------------
(* What a transaction will write, from its snapshot *)

\* The state that a schema gets from a call.
StateAfter(o, base) == IF o.state # None THEN o.state ELSE base.state

\* The rows, the SQL and the schema that a set of migrations writes on top of a schema.
Writes(o, ms, base) ==
    LET rows == [v \in {m.version : m \in ms} |-> (CHOOSE m \in ms : m.version = v).content]
    IN [rows |-> rows,
        fresh |-> DOMAIN rows,
        runs |-> Modifications(rows),
        saves |-> [applied |-> base.applied \o Modifications(rows),
                   state |-> StateAfter(o, base),
                   version |-> IF ms = {} THEN base.version ELSE Newest(DOMAIN rows)]]

\* The unique column version takes each migration of a batch at most once.
OncePerVersion(batch, ms) ==
    \A i, j \in DOMAIN batch :
        i # j /\ {batch[i], batch[j]} \subseteq ms => batch[i].version # batch[j].version

\* validateMigrations skips what is executed with the same checksum, and every executed
\* migration of data, whatever it holds.
Skippable_always(m) == TRUE
Skippable(m) == m.content \in {registry[m.version], Data}

\* An older version needs the force of migrateForce.
Follows(o, m) == o.force \/ schema.version <= m.version

ToExecute(o) == {m \in Range(o.batch) : registry[m.version] = None /\ m.content # Empty}

\* A migration of data needs a schema before it.
AfterSchema(ms) ==
    schema.version = 0 => \A m \in ms : m.content = Data => \E n \in ms : n.version < m.version

MigrateAccepted(o) ==
    LET fresh == ToExecute(o)
    IN /\ \A m \in Range(o.batch) : IF registry[m.version] # None THEN Skippable(m) ELSE Follows(o, m)
       /\ Valid(Writes(o, fresh, schema).saves.applied)
       /\ OncePerVersion(o.batch, fresh)
       /\ AfterSchema(fresh)

\* A snapshot may only bootstrap a project that has executed nothing.
IsBlank_assumed == TRUE
IsBlank == Executed = {}

SnapshotAccepted(o) ==
    /\ IsBlank
    /\ Valid(Writes(o, Range(o.batch), Blank).saves.applied)
    /\ OncePerVersion(o.batch, Range(o.batch))

\* The row that replaces another: its type does not change, and what the argument leaves
\* out stays.
Modified(o) ==
    IF registry[o.version] = Data \/ o.as = None THEN registry[o.version] ELSE o.as

AlteredRows(o) ==
    IF o.kind = "delete" THEN [v \in {o.version} |-> None]
    ELSE [v \in {o.version, o.to} |-> IF v = o.to THEN Modified(o) ELSE None]

\* deleteMigration and modifyMigration store what a replay of the registry gives.
Altered(o) ==
    LET rows == AlteredRows(o)
    IN [rows |-> rows,
        fresh |-> IF o.kind = "delete" THEN {} ELSE {o.to} \ {o.version},
        runs |-> <<>>,
        saves |-> Replay([v \in Versions |-> IF v \in DOMAIN rows THEN rows[v] ELSE registry[v]])]

\* An empty schema is not saved: the last migration cannot be deleted.
AlterAccepted(o) ==
    /\ registry[o.version] # None
    /\ Altered(o).saves.version # 0

Accepted(o) ==
    \/ o.kind = "migrate" /\ MigrateAccepted(o)
    \/ o.kind = "snapshot" /\ SnapshotAccepted(o)
    \/ ~Locks(o) /\ AlterAccepted(o)

\* Nothing is to be executed, and there is no state, or no row of schema to attach it to.
NothingToDo(o) ==
    /\ o.kind = "migrate" /\ ToExecute(o) = {}
    /\ o.state = None \/ schema.version = 0

Planned(o) ==
    CASE o.kind = "migrate" -> Writes(o, ToExecute(o), schema)
      [] o.kind = "snapshot" -> Writes(o, Range(o.batch), Blank)
      [] OTHER -> Altered(o)

-----------------------------------------------------------------------------
(* The steps of a call *)

\* A mutation arrives.
Call(c) ==
    /\ pc[c] = "idle"
    /\ \E o \in Operations :
        /\ op' = [op EXCEPT ![c] = o]
        /\ pc' = [pc EXCEPT ![c] = IF Locks(o) THEN "locking" ELSE "starting"]
    /\ UNCHANGED <<dataVars, lock, attempt, seen, plan, answer, history, left>>

\* pg_advisory_lock
TakeLock(c) ==
    /\ pc[c] = "locking"
    /\ lock = None
    /\ lock' = c
    /\ pc' = [pc EXCEPT ![c] = "starting"]
    /\ UNCHANGED <<dataVars, op, attempt, seen, plan, answer, history, left>>

\* The transaction starts, and its first statement takes the snapshot: all it reads and
\* validates comes from there.
Begin(c) ==
    /\ pc[c] = "starting"
    /\ seen' = [seen EXCEPT ![c] = commits]
    /\ IF Accepted(op[c]) /\ ~NothingToDo(op[c])
       THEN /\ plan' = [plan EXCEPT ![c] = Planned(op[c])]
            /\ pc' = [pc EXCEPT ![c] = "running"]
            /\ UNCHANGED answer
       ELSE Leaves(c, IF Accepted(op[c]) THEN "ok" ELSE "error")
    /\ UNCHANGED <<dataVars, lock, op, attempt, history, left>>

\* The SQL of the migrations runs and the rows of the registry are written.  A row waits
\* for the transaction that is writing the same version; a new version that another one
\* has committed meanwhile is a violation of the unique column, which nobody retries.
RunSql(c) ==
    /\ pc[c] = "running"
    /\ \A d \in Callers \ {c} : pc[d] \in {"saving", "committing"} =>
        DOMAIN plan[c].rows \cap DOMAIN plan[d].rows = {}
    /\ IF plan[c].fresh \cap Executed = {}
       THEN /\ pc' = [pc EXCEPT ![c] = "saving"]
            /\ UNCHANGED <<plan, answer>>
       ELSE Leaves(c, "error")
    /\ UNCHANGED <<dataVars, lock, op, attempt, seen, history, left>>

\* PostgreSQL refuses to write over what was committed after the snapshot.
Current_unchecked(c) == TRUE
Current(c) == commits = seen[c]

\* MigrationLockRetry: the transaction is rolled back, and migrate starts it again.
Retries(c) ==
    /\ attempt' = [attempt EXCEPT ![c] = @ + 1]
    /\ plan' = [plan EXCEPT ![c] = [rows |-> <<>>]]
    /\ pc' = [pc EXCEPT ![c] = "starting"]
    /\ UNCHANGED <<seen, answer>>

MayRetry(c) == op[c].kind = "migrate" /\ attempt[c] < MaxAttempts

MeetsConflict(c) ==
    IF MayRetry(c) THEN Retries(c)
    ELSE Leaves(c, "error") /\ UNCHANGED <<attempt, seen>>

\* SaveSchemaCommand writes the single row of schema, which waits for the transaction that
\* has written it.
SaveSchema(c) ==
    /\ pc[c] = "saving"
    /\ \A d \in Callers : pc[d] # "committing"
    /\ IF Current(c)
       THEN /\ pc' = [pc EXCEPT ![c] = "committing"]
            /\ UNCHANGED <<attempt, seen, plan, answer>>
       ELSE MeetsConflict(c)
    /\ UNCHANGED <<dataVars, lock, op, history, left>>

\* What COMMIT makes of the data.
Applied(c) ==
    LET rows == plan[c].rows
        older == Locks(op[c]) /\ \E v \in plan[c].fresh, w \in Executed : v < w
    IN /\ registry' = [v \in Versions |-> IF v \in DOMAIN rows THEN rows[v] ELSE registry[v]]
       /\ schema' = plan[c].saves
       /\ tables' = tables \o plan[c].runs
       /\ commits' = commits + 1
       /\ disorder' = (Locks(op[c]) /\ (disorder \/ older))
       /\ sent' = (IF Locks(op[c]) THEN StateAfter(op[c], [state |-> sent]) ELSE None)
       /\ altered' = (altered \/ ~Locks(op[c]))

Commit(c) ==
    /\ pc[c] = "committing"
    /\ Applied(c)
    /\ Leaves(c, "ok")
    /\ UNCHANGED <<lock, op, attempt, seen, left>>

\* pg_advisory_unlock, whatever happened under the lock.
Unlock(c) ==
    /\ pc[c] = "unlocking"
    /\ lock' = None
    /\ pc' = [pc EXCEPT ![c] = "done"]
    /\ UNCHANGED <<dataVars, op, attempt, seen, plan, answer, history, left>>

\* A statement of a migration fails: the transaction is rolled back, without a retry.
SqlFails(c) ==
    /\ pc[c] = "running" /\ Locks(op[c])
    /\ Spend("sql")
    /\ Leaves(c, "error")
    /\ UNCHANGED <<dataVars, lock, op, attempt, seen, history>>

\* A lock that a transaction waits for is not granted in time, or PostgreSQL picks it to
\* break a deadlock.
LockFails(c) ==
    /\ pc[c] \in {"running", "saving"}
    /\ Spend("conflict")
    /\ MeetsConflict(c)
    /\ UNCHANGED <<dataVars, lock, op, history>>

\* The connection is lost: PostgreSQL rolls back and frees the advisory lock.  A COMMIT
\* on its way may have taken effect.
ConnectionLost(c) ==
    /\ pc[c] \notin {"idle", "done"}
    /\ Spend("connection")
    /\ answer' = [answer EXCEPT ![c] = "error"]
    /\ pc' = [pc EXCEPT ![c] = "done"]
    /\ plan' = [plan EXCEPT ![c] = [rows |-> <<>>]]
    /\ lock' = IF lock = c THEN None ELSE lock
    /\ \/ UNCHANGED <<dataVars, history>>
       \/ pc[c] = "committing" /\ Applied(c)
    /\ UNCHANGED <<op, attempt, seen>>

\* What the server and the database do on their own.
Proceeds(c) ==
    \/ TakeLock(c) \/ Begin(c) \/ RunSql(c) \/ SaveSchema(c) \/ Commit(c) \/ Unlock(c)

Step(c) ==
    \/ Call(c) \/ Proceeds(c)
    \/ SqlFails(c) \/ LockFails(c) \/ ConnectionLost(c)

Next == \E c \in Callers : Step(c)

Spec == Init /\ [][Next]_vars
\* PostgreSQL and the server answer.  As everybody has finitely much to do, nothing is
\* assumed of one of them in particular.
FairSpec == Spec /\ WF_vars(\E c \in Callers : Proceeds(c))

-----------------------------------------------------------------------------
(* Properties *)

\* The stored schema, which migrate extends step by step, is what a replay of the
\* registry gives, with the state sent since the last replay, unless a version older than
\* an executed one was forced in: whichever mutations run together, with or without the
\* advisory lock, and whatever is retried.
SchemaIsReplay == ~disorder => schema = [Replay(registry) EXCEPT !.state = sent]

\* The tables are those of the stored schema, as long as nobody edits the registry: the
\* SQL of a migration runs once, in the order of the schema, or not at all.
TablesMatchSchema == ~altered => tables = schema.applied

\* migrate answers ok only when each of its migrations is executed with that content (by
\* itself or by others), or is one of data whose version is, or has no modifications.
OkMeansExecuted ==
    [][\A c \in Callers : answer[c] = None /\ answer'[c] = "ok" /\ op[c].kind = "migrate" =>
        \A m \in Range(op[c].batch) :
            \/ m.content = Empty
            \/ registry'[m.version] # None /\ m.content \in {registry'[m.version], Data}]_vars

\* Every mutation answers, and the advisory lock is free again.
CallsReturn == <>[](lock = None /\ \A c \in Callers : pc[c] \in {"idle", "done"})
=============================================================================
