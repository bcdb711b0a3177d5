--------------------------- MODULE ActionsQueue ---------------------------
(***************************************************************************)
(* The actions (webhook) queue: the table actions_event and the workers,   *)
(* API calls and migrations that share it.                                 *)
(*                                                                         *)
(* A row is its state, its number of retries, whether its visible_at has   *)
(* passed (it is in "due") and whether the last entry of its log is the    *)
(* marker of a hold (it is in "marked").  A dispatcher is one run of       *)
(* EventDispatcher.processBatch at a time; each of its database statements *)
(* is one step, so that statements of several dispatchers, of operators    *)
(* and of setVariables interleave as they do in PostgreSQL.                *)
(*                                                                         *)
(* Time is abstract: Elapse makes a row due, whatever it was waiting for   *)
(* (the retry interval, the ACK timeout of a claim, the re-check of a      *)
(* hold).  "acked", "attempts", "disturbed" and "retired" are history      *)
(* variables: no guard of the code reads them.                             *)
(***************************************************************************)
EXTENDS Naturals, FiniteSets

CONSTANTS
    Events,             (* rows actions_event may come to hold              *)
    Targets,            (* webhook targets of all schema versions           *)
    NoTarget,           (* a dispatcher that works for no target            *)
    Dispatchers,        (* concurrent runs of processBatch                  *)
    Admins,             (* concurrent callers of setVariables               *)
    Vars,               (* variables that targets interpolate               *)
    TargetOf,           (* the target of each event                         *)
    UsedVars,           (* the variables each target interpolates           *)
    BatchSize,          (* batchSize of the targets                         *)
    MaxAttempts,        (* maxAttempts of the targets                       *)
    DefaultMaxAttempts, (* the default where no target is known             *)
    Allowed,            (* the kinds of disturbance that may happen         *)
    MaxDisturbances     (* bound: how many of them together                 *)

Disturbances == {"crash", "lapse", "fault", "operator", "variables", "schema"}

ASSUME QueueAssumption ==
    /\ IsFiniteSet(Events) /\ IsFiniteSet(Dispatchers)
    /\ TargetOf \in [Events -> Targets]
    /\ UsedVars \in [Targets -> SUBSET Vars]
    /\ NoTarget \notin Targets
    /\ BatchSize \in Nat \ {0}
    /\ MaxAttempts \in Nat \ {0}
    /\ DefaultMaxAttempts \in Nat \ {0}
    /\ Allowed \subseteq Disturbances
    /\ MaxDisturbances \in Nat

VARIABLES
    \* the table actions_event
    state, due, retries, marked,
    \* the schema's targets, the variables that have a value
    targets, defined,
    \* one processBatch: where it is, its schema snapshot, its target, the rows
    \* it claimed, num_retries of those rows when claimed, the rows the target
    \* accepted, the variables it found undefined
    pc, seen, target, batch, row, ok, missing,
    \* one setVariables call
    apc,
    \* history
    acked, attempts, disturbed, retired, holderDied,
    \* disturbances left to happen
    left

table == <<state, due, retries, marked>>
config == <<targets, defined>>
local == <<seen, target, batch, row, ok, missing>>
history == <<acked, attempts, disturbed, retired, holderDied>>
vars == <<table, config, pc, local, apc, history, left>>

-----------------------------------------------------------------------------
(* Types *)

EventState == {"absent", "created", "retrying", "processing", "succeed", "failed", "stopped"}
Waiting == {"created", "retrying"}

\* eventsToProcessStateSpecification
Processable_noProcessing == Waiting
Processable == Waiting \cup {"processing"}

Settled == {"succeed", "failed", "stopped"}
PC == {"idle", "fetching", "unknown", "claimed", "batched", "sent", "answered",
       "broken", "undefined", "recheck", "resume"}
\* Where a dispatcher works for a target.
Serving == {"unknown", "claimed", "batched", "sent", "answered", "broken", "undefined"}

TypeOK ==
    /\ state \in [Events -> EventState]
    /\ due \in SUBSET Events
    /\ retries \in [Events -> Nat]
    /\ marked \in SUBSET Events
    /\ targets \in SUBSET Targets
    /\ defined \in SUBSET Vars
    /\ pc \in [Dispatchers -> PC]
    /\ seen \in [Dispatchers -> SUBSET Targets]
    /\ target \in [Dispatchers -> Targets \cup {NoTarget}]
    /\ \A d \in Dispatchers : pc[d] \in Serving => target[d] \in Targets
    /\ batch \in [Dispatchers -> SUBSET Events]
    /\ row \in [Dispatchers -> [Events -> Nat]]
    /\ ok \in [Dispatchers -> SUBSET Events]
    /\ missing \in [Dispatchers -> SUBSET Vars]
    /\ apc \in [Admins -> {"idle", "resume"}]
    /\ acked \in SUBSET Events
    /\ attempts \in [Events -> Nat]
    /\ disturbed \in SUBSET Events
    /\ retired \in SUBSET Targets
    /\ holderDied \in BOOLEAN
    /\ left \in Nat

-----------------------------------------------------------------------------
(* Helpers *)

NoRow == [e \in Events |-> 0]

\* Every row some dispatcher works on.
Claimed == UNION {batch[d] : d \in Dispatchers}

Spend(kind) ==
    /\ kind \in Allowed
    /\ left > 0
    /\ left' = left - 1

At(d, from, to) ==
    /\ pc[d] = from
    /\ pc' = [pc EXCEPT ![d] = to]

\* processBatch returned or threw: nothing of it is left in the process.
Forget(d) ==
    /\ seen' = [seen EXCEPT ![d] = {}]
    /\ target' = [target EXCEPT ![d] = NoTarget]
    /\ batch' = [batch EXCEPT ![d] = {}]
    /\ row' = [row EXCEPT ![d] = NoRow]
    /\ ok' = [ok EXCEPT ![d] = {}]
    /\ missing' = [missing EXCEPT ![d] = {}]

Count(S) == [e \in Events |-> IF e \in S THEN attempts[e] + 1 ELSE attempts[e]]

\* Rows a claim may take.  FOR NO KEY UPDATE SKIP LOCKED leaves out rows another
\* statement holds, so of the due rows any may be the one a LIMIT takes.
Claimable_ignoringVisibility == {e \in Events : state[e] \in Processable}
Claimable == {e \in due : state[e] \in Processable}

\* The update of fetchInternal: visible_at moves ACK_TIMEOUT_MS ahead.
Claim(d, S) ==
    /\ state' = [e \in Events |-> IF e \in S THEN "processing" ELSE state[e]]
    /\ due' = due \ S
    /\ row' = [row EXCEPT ![d] = [e \in Events |-> IF e \in S THEN retries[e] ELSE @[e]]]
    /\ batch' = [batch EXCEPT ![d] = @ \cup S]

\* The rest of a batch: due rows of the primary row's target.
Rest(d) == {e \in Claimable : TargetOf[e] = target[d]}

\* The CASE of requeue.
Requeued(e) == IF retries[e] = 0 THEN "created" ELSE "retrying"

\* Rows markSucceed is given.
Succeeded_wholeBatch(d) == batch[d]
Succeeded(d) == ok[d]

\* What persistProcessed makes of a row of the batch: markSucceed, or markFailed
\* from num_retries as it was when the row was claimed.
Outcome_oneTooEarly(d, e, max) ==
    IF e \in Succeeded(d) THEN "succeed" ELSE IF row[d][e] + 2 >= max THEN "failed" ELSE "retrying"
Outcome(d, e, max) ==
    IF e \in Succeeded(d) THEN "succeed" ELSE IF row[d][e] + 1 >= max THEN "failed" ELSE "retrying"

\* num_retries + 1: of the row for markSucceed, of the claimed copy for markFailed.
RetriesAfter_countedTwice(d, e) == retries[e] + 2
RetriesAfter(d, e) == IF e \in Succeeded(d) THEN retries[e] + 1 ELSE row[d][e] + 1

PersistProcessed(d, max) ==
    /\ state' = [e \in Events |-> IF e \in batch[d] THEN Outcome(d, e, max) ELSE state[e]]
    /\ retries' = [e \in Events |-> IF e \in batch[d] THEN RetriesAfter(d, e) ELSE retries[e]]
    /\ due' = due \ {e \in batch[d] : Outcome(d, e, max) = "retrying"}
    /\ marked' = marked \ (batch[d] \ Succeeded(d))

\* What holdForUndefinedVariables postpones: the batch, and what came due meanwhile.
HeldBack(d) ==
    {e \in Events : \/ e \in batch[d]
                    \/ TargetOf[e] = target[d] /\ e \in due /\ state[e] \in Waiting}

\* What resumeHeldForUndefinedVariables releases.
Held == {e \in marked \ due : state[e] \in Waiting}

\* markFailedOnUnknownTarget: the primary row, and every row of that target any
\* worker is processing.
OfUnknownTarget(d) == batch[d] \cup {e \in Events : state[e] = "processing" /\ TargetOf[e] = target[d]}

-----------------------------------------------------------------------------
(* Initial state: an empty table, some schema, some variables. *)

Init ==
    /\ state = [e \in Events |-> "absent"]
    /\ due = {} /\ marked = {}
    /\ retries = [e \in Events |-> 0]
    /\ targets \in SUBSET Targets
    /\ defined \in SUBSET Vars
    /\ pc = [d \in Dispatchers |-> "idle"]
    /\ seen = [d \in Dispatchers |-> {}]
    /\ target = [d \in Dispatchers |-> NoTarget]
    /\ batch = [d \in Dispatchers |-> {}]
    /\ row = [d \in Dispatchers |-> NoRow]
    /\ ok = [d \in Dispatchers |-> {}]
    /\ missing = [d \in Dispatchers |-> {}]
    /\ apc = [a \in Admins |-> "idle"]
    /\ acked = {} /\ disturbed = {}
    /\ attempts = [e \in Events |-> 0]
    /\ retired = Targets \ targets
    /\ holderDied = FALSE
    /\ left = MaxDisturbances

-----------------------------------------------------------------------------
(* processBatch *)

\* getSchema: a snapshot this run keeps until it ends.
ReadSchema(d) ==
    /\ At(d, "idle", "fetching")
    /\ seen' = [seen EXCEPT ![d] = targets]
    /\ UNCHANGED <<table, config, target, batch, row, ok, missing, apc, history, left>>

\* fetchBatch finds no row: processBatch returns a back-off.  That it finds none because
\* others hold all of them at that moment is left out: it would look again later.
NothingToProcess(d) ==
    /\ At(d, "fetching", "idle")
    /\ Claimable = {}
    /\ Forget(d)
    /\ UNCHANGED <<table, config, apc, history, left>>

\* The primary row; the snapshot decides whether its target exists.
ClaimPrimary(d, e) ==
    /\ e \in Claimable
    /\ At(d, "fetching", IF TargetOf[e] \in seen[d] THEN "claimed" ELSE "unknown")
    /\ Claim(d, {e})
    /\ target' = [target EXCEPT ![d] = TargetOf[e]]
    /\ UNCHANGED <<retries, marked, config, seen, ok, missing, apc, history, left>>

\* markFailedOnUnknownTarget, then the next turn of the loop on the same snapshot.
FailUnknownTarget(d) ==
    /\ At(d, "unknown", "fetching")
    /\ LET F == OfUnknownTarget(d) IN
          /\ state' = [e \in Events |-> IF e \in F THEN "failed" ELSE state[e]]
          /\ retries' = [e \in Events |-> IF e \in F THEN retries[e] + 1 ELSE retries[e]]
          /\ marked' = marked \ F
          /\ attempts' = Count(F)
    /\ target' = [target EXCEPT ![d] = NoTarget]
    /\ batch' = [batch EXCEPT ![d] = {}]
    /\ row' = [row EXCEPT ![d] = NoRow]
    /\ UNCHANGED <<due, config, seen, ok, missing, apc, acked, disturbed, retired, holderDied, left>>

\* Up to batchSize - 1 further rows of the same target (none: no statement is sent).
ClaimRest(d, S) ==
    /\ At(d, "claimed", "batched")
    /\ S \subseteq Rest(d)
    /\ Cardinality(S) < BatchSize
    /\ Claim(d, S)
    /\ UNCHANGED <<retries, marked, config, seen, target, ok, missing, apc, history, left>>

\* fetchVariables, then the handler interpolates the target: with every variable
\* defined the request leaves ...
SendRequest(d) ==
    /\ At(d, "batched", "sent")
    /\ UsedVars[target[d]] \subseteq defined
    /\ attempts' = Count(batch[d])
    /\ UNCHANGED <<table, config, local, apc, acked, disturbed, retired, holderDied, left>>

\* ... otherwise UndefinedVariableError is thrown before any request.
FindUndefined(d) ==
    /\ At(d, "batched", "undefined")
    /\ ~(UsedVars[target[d]] \subseteq defined)
    /\ missing' = [missing EXCEPT ![d] = UsedVars[target[d]] \ defined]
    /\ UNCHANGED <<table, config, seen, target, batch, row, ok, apc, history, left>>

\* The target answers, for the rows in S with success; no answer within timeoutMs,
\* an error status or a malformed body is S = {}.
Respond(d, S) ==
    /\ At(d, "sent", "answered")
    /\ S \subseteq batch[d]
    /\ ok' = [ok EXCEPT ![d] = S]
    /\ acked' = acked \cup S
    /\ UNCHANGED <<table, config, seen, target, batch, row, missing, apc, attempts, disturbed, retired, holderDied, left>>

\* persistProcessed commits and processBatch returns.
Persist(d) ==
    /\ At(d, "answered", "idle")
    /\ PersistProcessed(d, MaxAttempts)
    /\ Forget(d)
    /\ UNCHANGED <<config, apc, history, left>>

\* resolveHandler or fetchVariables throws: the catch block is entered.
BreakBeforeRequest(d) ==
    /\ At(d, "batched", "broken")
    /\ Spend("fault")
    /\ attempts' = Count(batch[d])
    /\ UNCHANGED <<table, config, local, apc, acked, disturbed, retired, holderDied>>

\* persistProcessed throws: rolled back, or committed but the confirmation was lost.
PersistFails(d) ==
    /\ At(d, "answered", "broken")
    /\ Spend("fault")
    /\ \/ PersistProcessed(d, MaxAttempts)
       \/ UNCHANGED table
    /\ ok' = [ok EXCEPT ![d] = {}]
    /\ disturbed' = disturbed \cup batch[d]
    /\ UNCHANGED <<config, seen, target, batch, row, missing, apc, acked, attempts, retired, holderDied>>

\* The catch block records "Internal error" for the whole batch, without a target.
PersistInternalError(d) ==
    /\ At(d, "broken", "idle")
    /\ PersistProcessed(d, DefaultMaxAttempts)
    /\ Forget(d)
    /\ UNCHANGED <<config, apc, history, left>>

\* holdForUndefinedVariables.
Hold(d) ==
    /\ At(d, "undefined", "recheck")
    /\ state' = [e \in Events |-> IF e \in batch[d] THEN Requeued(e) ELSE state[e]]
    /\ due' = due \ HeldBack(d)
    /\ marked' = marked \cup HeldBack(d)
    /\ batch' = [batch EXCEPT ![d] = {}]
    /\ row' = [row EXCEPT ![d] = NoRow]
    /\ UNCHANGED <<retries, config, seen, target, ok, missing, apc, history, left>>

\* The variables are read once more after the hold; were they set meanwhile, its
\* rows must be released here.
NowDefined_neverLooks(d) == FALSE
NowDefined(d) == missing[d] \subseteq defined

RecheckDefined(d) ==
    /\ At(d, "recheck", "resume")
    /\ NowDefined(d)
    /\ UNCHANGED <<table, config, local, apc, history, left>>

RecheckUndefined(d) ==
    /\ At(d, "recheck", "idle")
    /\ ~NowDefined(d)
    /\ Forget(d)
    /\ UNCHANGED <<table, config, apc, history, left>>

\* resumeHeldForUndefinedVariables
ResumeHeld(d) ==
    /\ At(d, "resume", "idle")
    /\ due' = due \cup Held
    /\ Forget(d)
    /\ UNCHANGED <<state, retries, marked, config, apc, history, left>>

\* The worker dies, or processBatch throws out of its catch block and is restarted.
Crash(d) ==
    /\ pc[d] # "idle"
    /\ Spend("crash")
    /\ pc' = [pc EXCEPT ![d] = "idle"]
    /\ Forget(d)
    /\ disturbed' = disturbed \cup batch[d]
    /\ holderDied' = (holderDied \/ pc[d] \in {"recheck", "resume"})
    /\ UNCHANGED <<table, config, apc, acked, attempts, retired>>

-----------------------------------------------------------------------------
(* The others *)

\* A content mutation commits with the rows its triggers inserted.
Enqueue(S) ==
    /\ S # {}
    /\ \A e \in S : state[e] = "absent" /\ TargetOf[e] \in targets
    /\ state' = [e \in Events |-> IF e \in S THEN "created" ELSE state[e]]
    /\ due' = due \cup S
    /\ UNCHANGED <<retries, marked, config, pc, local, apc, history, left>>

\* visible_at passes; if a dispatcher still works on the row, its claim is lost.
Elapse(e) ==
    /\ e \notin due
    /\ state[e] \in Processable
    /\ due' = due \cup {e}
    /\ IF e \in Claimed
          THEN Spend("lapse") /\ disturbed' = disturbed \cup {e}
          ELSE UNCHANGED <<left, disturbed>>
    /\ UNCHANGED <<state, retries, marked, config, pc, local, apc, acked, attempts, retired, holderDied>>

\* stopEvent: markStopped, whatever the state of the row.
StopEvent(e) ==
    /\ state[e] # "absent"
    /\ Spend("operator")
    /\ state' = [state EXCEPT ![e] = "stopped"]
    /\ UNCHANGED <<due, retries, marked, config, pc, local, apc, history>>

\* retryEvent: requeue, whatever the state of the row.
RetryEvent(e) ==
    /\ state[e] # "absent"
    /\ Spend("operator")
    /\ state' = [state EXCEPT ![e] = Requeued(e)]
    /\ due' = due \cup {e}
    /\ disturbed' = disturbed \cup {e}
    /\ UNCHANGED <<retries, marked, config, pc, local, apc, acked, attempts, retired, holderDied>>

\* setVariables: the variables are committed (a value may be set, emptied or, in
\* mode SET, deleted) ...
SetVariables(a, V) ==
    /\ apc[a] = "idle"
    /\ V # defined
    /\ Spend("variables")
    /\ defined' = V
    /\ apc' = [apc EXCEPT ![a] = "resume"]
    /\ UNCHANGED <<table, targets, pc, local, history>>

\* ... and then, in a statement of its own, the held rows are released.
ResumeAfterSet(a) ==
    /\ apc[a] = "resume"
    /\ apc' = [apc EXCEPT ![a] = "idle"]
    /\ due' = due \cup Held
    /\ UNCHANGED <<state, retries, marked, config, pc, local, history, left>>

\* The API process dies between the two.
CrashAfterSet(a) ==
    /\ apc[a] = "resume"
    /\ Spend("crash")
    /\ apc' = [apc EXCEPT ![a] = "idle"]
    /\ holderDied' = TRUE
    /\ UNCHANGED <<table, config, pc, local, acked, attempts, disturbed, retired>>

\* A migration changes which targets the stored schema names.
MigrateSchema(T) ==
    /\ T # targets
    /\ Spend("schema")
    /\ targets' = T
    /\ retired' = retired \cup (Targets \ T)
    /\ UNCHANGED <<table, defined, pc, local, apc, acked, attempts, disturbed, holderDied>>

-----------------------------------------------------------------------------
(* The specification *)

\* What a dispatcher does when nothing goes wrong.
Work(d) ==
    \/ ReadSchema(d)
    \/ NothingToProcess(d)
    \/ \E e \in Events : ClaimPrimary(d, e)
    \/ FailUnknownTarget(d)
    \/ \E S \in SUBSET Events : ClaimRest(d, S)
    \/ SendRequest(d)
    \/ FindUndefined(d)
    \/ \E S \in SUBSET Events : Respond(d, S)
    \/ Persist(d)
    \/ PersistInternalError(d)
    \/ Hold(d)
    \/ RecheckDefined(d)
    \/ RecheckUndefined(d)
    \/ ResumeHeld(d)

Next ==
    \/ \E d \in Dispatchers : Work(d) \/ BreakBeforeRequest(d) \/ PersistFails(d) \/ Crash(d)
    \/ \E S \in SUBSET Events : Enqueue(S)
    \/ \E e \in Events : Elapse(e) \/ StopEvent(e) \/ RetryEvent(e)
    \/ \E a \in Admins : ResumeAfterSet(a) \/ CrashAfterSet(a)
    \/ \E a \in Admins, V \in SUBSET Vars : SetVariables(a, V)
    \/ \E T \in SUBSET Targets : MigrateSchema(T)

Spec == Init /\ [][Next]_vars

\* The supervisor keeps a worker running, a request ends by its timeout, time passes,
\* and a setVariables call that was not interrupted finishes.
Fairness ==
    /\ \A d \in Dispatchers : WF_vars(Work(d))
    /\ \A e \in Events : WF_vars(Elapse(e))
    /\ \A a \in Admins : WF_vars(ResumeAfterSet(a))

FairSpec == Spec /\ Fairness

-----------------------------------------------------------------------------
(* Properties *)

\* A row says "succeed" only if some request for it was answered with success:
\* markSucceed never runs for a row the target did not accept, whoever else held
\* the row, however many times it was claimed.
SucceededWasAcknowledged == \A e \in Events : state[e] = "succeed" => e \in acked

\* While its claim stands (no ACK timeout, crash, failed persist or manual retry) a
\* row is worked on by one dispatcher: fetchInternal's lock and visible_at exclude
\* the others, also when a second statement fills the batch.
ClaimIsExclusive ==
    \A d1, d2 \in Dispatchers :
        d1 # d2 => batch[d1] \cap batch[d2] \subseteq disturbed

\* An event the target already accepted is sent again only if its delivery was
\* disturbed: exactly-once as long as nothing fails.
NoRedelivery == \A d \in Dispatchers : pc[d] = "sent" => batch[d] \cap acked \subseteq disturbed

\* "A batch is delivered to the primary event's target, so it may only take events
\* of that target", and it never exceeds batchSize.
BatchFitsTarget ==
    \A d \in Dispatchers :
        /\ \A e \in batch[d] : TargetOf[e] = target[d]
        /\ Cardinality(batch[d]) <= BatchSize

\* num_retries never counts more than what was tried: requests, internal errors and
\* unknown targets; holding an event for an undefined variable spends no attempt, and
\* two dispatchers that hold the same row do not count it twice.
AttemptsNotOvercounted == \A e \in Events : retries[e] <= attempts[e]

\* An event fails permanently only after its attempts are spent, or because some
\* version of the schema did not name its target.
FailedForAReason ==
    \A e \in Events : state[e] = "failed" =>
        \/ retries[e] >= MaxAttempts
        \/ retries[e] >= DefaultMaxAttempts
        \/ TargetOf[e] \in retired

\* A delivered event stays delivered unless an operator touches it or a dispatcher
\* that lost its claim reports late.  Nothing like it holds for an operator's stop: the
\* result of a worker that holds the event is written over it (markSucceed, markFailed).
SucceedIsFinal ==
    [][\A e \in Events :
          state[e] = "succeed" /\ state'[e] # "succeed" =>
              e \in disturbed' \/ state'[e] = "stopped"]_vars

\* No held event is forgotten, unless who held it or defined its variables died before
\* looking again: once the variables of its target are defined, somebody (the setVariables
\* call or the dispatcher's re-check) is still going to release it, in whatever order
\* setVariables and the hold committed.
NoForgottenHold ==
    ~holderDied =>
        \A e \in Held : UsedVars[TargetOf[e]] \subseteq defined =>
            \/ \E a \in Admins : apc[a] = "resume"
            \/ \E d \in Dispatchers : pc[d] = "resume" \/ (pc[d] = "recheck" /\ missing[d] \subseteq defined)

\* Every event ends delivered, failed or stopped, provided that from some time on all
\* variables are defined: neither crashes nor lost claims nor holds keep one forever.
EventuallySettled ==
    <>[](defined = Vars) =>
        \A e \in Events : state[e] \in Processable ~> state[e] \in Settled

-----------------------------------------------------------------------------
(* Why the properties hold: the inductive invariant of ActionsQueueProofs. *)

\* What processBatch remembers matches where it is.
LocalOK(d) ==
    /\ pc[d] \in {"idle", "fetching", "recheck", "resume"} => batch[d] = {}
    /\ pc[d] = "claimed" => \E e \in Events : batch[d] = {e}
    /\ ok[d] \subseteq batch[d]
    /\ ok[d] # {} => pc[d] = "answered"
    /\ pc[d] # "idle" => Targets \ seen[d] \subseteq retired
    /\ pc[d] = "unknown" => target[d] \notin seen[d]
    /\ pc[d] = "undefined" => missing[d] \subseteq UsedVars[target[d]]

LocalInv == \A d \in Dispatchers : LocalOK(d)

\* A target the current schema lacks counts as retired.
SchemaInv == Targets \ targets \subseteq retired

\* Only rows that exist are claimed or acknowledged.
ExistInv ==
    \A e \in Events : state[e] = "absent" => e \notin acked /\ e \notin Claimed

\* A row whose claim stands belongs to one dispatcher and is not claimable: it is
\* being processed and not yet visible, or was stopped or failed by somebody else.
ClaimInv ==
    \A d \in Dispatchers : \A e \in batch[d] \ disturbed :
        /\ \A d2 \in Dispatchers : e \in batch[d2] => d2 = d
        /\ state[e] \in {"processing", "stopped", "failed"}
        /\ state[e] = "processing" => e \notin due

\* An acknowledgement nothing disturbed is recorded in the table, or in the hands of
\* the dispatcher that got it.
AckInv ==
    /\ \A d \in Dispatchers : ok[d] \subseteq acked
    /\ \A e \in acked \ disturbed : state[e] \in Settled \/ \E d \in Dispatchers : e \in ok[d]
    /\ \A d \in Dispatchers : \A e \in (batch[d] \cap acked) \ disturbed : e \in ok[d]

IInv ==
    /\ TypeOK
    /\ LocalInv
    /\ SchemaInv
    /\ ExistInv
    /\ ClaimInv
    /\ AckInv
    /\ SucceededWasAcknowledged
    /\ BatchFitsTarget
    /\ FailedForAReason
    /\ NoForgottenHold

\* Who has tried the event and has not recorded it: each of them may add one to num_retries,
\* of the row or of the copy it claimed.
Unrecorded(e) == {d \in Dispatchers : pc[d] \in {"sent", "answered"} /\ e \in batch[d]}
InternalError(d) == IF pc[d] = "broken" THEN 1 ELSE 0

CountInv ==
    \A e \in Events :
        /\ retries[e] + Cardinality(Unrecorded(e)) <= attempts[e]
        /\ \A d \in Dispatchers : e \in batch[d] =>
              row[d][e] + Cardinality(Unrecorded(e)) + InternalError(d) <= attempts[e]

-----------------------------------------------------------------------------
(* Refinement *)

\* The abstract specification and the mapping of a row's state to its status.
Status(e) ==
    CASE state[e] = "absent" -> "absent"
      [] state[e] \in Processable -> "open"
      [] state[e] = "succeed" -> "delivered"
      [] OTHER -> "abandoned"

Delivery == INSTANCE AtLeastOnceDelivery WITH status <- [e \in Events |-> Status(e)]

\* Every step of the queue is a step of at-least-once delivery, or changes nothing of it.
\* That specification lets a stopped event be reopened or delivered, as the queue does
\* when a worker reports late.
ImplementsDelivery == Delivery!Spec

-----------------------------------------------------------------------------
(* Claims of the documentation that the code does not keep *)

\* docs, invocation.mdx: "Contember will attempt to send the webhook request a maximum
\* of 10 times before considering it as a failure" (maxAttempts).
AtMostMaxAttempts == \A e \in Events : attempts[e] <= MaxAttempts

\* EventsRepository.fetchBatch: "Events referencing a target that no longer exists in
\* the schema are terminally failed": an event fails early only then.
KnownTargetIsNotFailed ==
    [][\A e \in Events :
          state[e] # "failed" /\ state'[e] = "failed" /\ TargetOf[e] \in targets =>
              retries'[e] >= MaxAttempts]_vars
=============================================================================
