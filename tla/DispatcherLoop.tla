-------------------------- MODULE DispatcherLoop --------------------------
(***************************************************************************)
(* The loop of a project's dispatcher, the listener that wakes it, and the *)
(* supervisor that restarts it: engine-actions/dispatch/                   *)
(* ProjectDispatcher.ts, database/utils/listen.ts and engine-common/       *)
(* runnable/Supervisor.ts.                                                 *)
(*                                                                         *)
(* A run is one call of ProjectDispatcher.run: it acquires a connection,   *)
(* LISTENs, and processes batches until the queue has nothing due; then it *)
(* parks until a notification, a timer or end().  Whatever it throws makes *)
(* the supervisor start the next run after a back-off.                     *)
(*                                                                         *)
(* Of the queue only numbers are kept: rows that are due and rows that     *)
(* become due later (a retry, or the claim of a run that died).  What      *)
(* processBatch does with them is the module ActionsQueue.                 *)
(***************************************************************************)
EXTENDS Naturals

CONSTANTS
    StartupMax,     (* startupMax: failed starts before the first success   *)
    MaxWork,        (* bound: events that are enqueued                      *)
    Allowed,        (* the kinds of trouble that may happen                 *)
    MaxTroubles     (* bound: how many of them together                     *)

Troubles == {"start", "error", "lost"}

ASSUME LoopAssumption ==
    /\ StartupMax \in Nat
    /\ MaxWork \in Nat
    /\ Allowed \subseteq Troubles
    /\ MaxTroubles \in Nat

\* Every run but the last ended by a trouble of its own.
Runs == 1 .. MaxTroubles + 1

VARIABLES
    \* the queue
    due, later,
    \* the supervisor: its loop, the run it is at, innerRunning (0: undefined),
    \* restartCount, wasHealthy, startedAt, and the signal of the abort controller
    sup, run, inner, restarts, healthy, uptime, aborted,
    \* the caller's end(), and the run whose end() it awaits
    ender, awaited,
    \* of each run: where it is, rows of its batch, what it parks for, its own
    \* abort flag, pendingError, whether its connection lives, a NOTIFY on its way
    pc, batch, stop, wait, pendingError, link, inbox,
    \* history: a notification came too early to wake the loop of a run
    missed,
    \* history: the run that was starting when end() was called; failed starts
    late, failedStarts,
    enqueued, left

queue == <<due, later>>
supervisor == <<sup, run, inner, restarts, healthy, uptime, aborted>>
caller == <<ender, awaited>>
session == <<wait, pendingError, link, inbox, missed>>
loop == <<pc, batch, stop, session>>
history == <<late, failedStarts>>
bounds == <<enqueued, left>>
vars == <<queue, supervisor, caller, loop, history, bounds>>

-----------------------------------------------------------------------------
(* Helpers *)

Spend(kind) ==
    /\ kind \in Allowed
    /\ left > 0
    /\ left' = left - 1

\* Inside the while loop, between LISTEN and the first exit.
Looping(r) == pc[r] \in {"fetching", "delivering", "checking", "answered", "parked"}
InBatch(r) == pc[r] \in {"fetching", "delivering", "checking", "answered"}

\* fetchBackOff: 0 if a row is due by now, the time to the next one, or undefined.
BackOff_future == IF later > 0 THEN "retry" ELSE "none"
BackOff == IF due > 0 THEN "now" ELSE IF later > 0 THEN "retry" ELSE "none"

\* The wait is the back-off, MAX_IDLE_SLEEP_MS without one: a parked loop has a timer.
WaitFor_uncapped(backoff) == backoff
WaitFor(backoff) == IF backoff = "none" THEN "idle" ELSE backoff

\* restartCount once the run has ended, with endRun's reset after a stable run.
Failures == (IF uptime = "stable" THEN 0 ELSE restarts) + 1

\* startupMax counts only until the first healthy run; no supervisor here has a max.
GivesUp_always(n) == n > StartupMax
GivesUp(n) == ~healthy /\ n > StartupMax

\* abortableTimeout returns at once when end() was called, and the loop ends with it.
AfterCrash_restarts == "backoff"
AfterCrash == IF aborted THEN "over" ELSE "backoff"

\* The run of the supervisor ended with an error.
RunCrashed ==
    /\ inner' = 0
    /\ uptime' = "none"
    /\ restarts' = Failures
    /\ sup' = IF GivesUp(Failures) THEN "failed" ELSE AfterCrash
    /\ UNCHANGED <<run, healthy, aborted>>

\* onClose: the loop of the supervisor was aborted before.
LoopEnds ==
    /\ sup' = "over"
    /\ uptime' = "none"
    /\ restarts' = IF uptime = "stable" THEN 0 ELSE restarts

RunClosed == LoopEnds /\ UNCHANGED <<run, inner, healthy, aborted>>

\* The loop is left: listener.end(), the scope ends, dispatchFinished resolves, and the
\* variables of the run are gone.
Leaves(r) ==
    /\ pc' = [pc EXCEPT ![r] = "over"]
    /\ wait' = [wait EXCEPT ![r] = "idle"]
    /\ pendingError' = [pendingError EXCEPT ![r] = FALSE]
    /\ link' = [link EXCEPT ![r] = TRUE]
    /\ inbox' = [inbox EXCEPT ![r] = FALSE]
    /\ missed' = [missed EXCEPT ![r] = FALSE]

-----------------------------------------------------------------------------
(* Types and the initial state *)

TypeOK ==
    /\ due \in 0 .. MaxWork /\ later \in 0 .. MaxWork
    /\ sup \in {"starting", "running", "backoff", "over", "failed"}
    /\ run \in Runs /\ inner \in Runs \cup {0}
    /\ restarts \in 0 .. MaxTroubles
    /\ healthy \in BOOLEAN
    /\ uptime \in {"none", "fresh", "stable"}
    /\ aborted \in BOOLEAN
    /\ ender \in {"none", "ending", "ended", "timedOut"} /\ awaited \in Runs \cup {0}
    /\ pc \in [Runs -> {"none", "starting", "fetching", "delivering", "checking", "answered",
                        "parked", "over"}]
    /\ batch \in [Runs -> 0 .. MaxWork]
    /\ wait \in [Runs -> {"idle", "retry"}]
    /\ stop \in [Runs -> BOOLEAN]
    /\ pendingError \in [Runs -> BOOLEAN]
    /\ link \in [Runs -> BOOLEAN]
    /\ inbox \in [Runs -> BOOLEAN]
    /\ missed \in [Runs -> BOOLEAN]
    /\ late \in Runs \cup {0}
    /\ failedStarts \in 0 .. MaxTroubles
    /\ enqueued \in 0 .. MaxWork
    /\ left \in 0 .. MaxTroubles

Init ==
    /\ due = 0 /\ later = 0
    /\ sup = "starting" /\ run = 1 /\ inner = 0
    /\ restarts = 0 /\ healthy = FALSE /\ uptime = "none" /\ aborted = FALSE
    /\ ender = "none" /\ awaited = 0
    /\ pc = [r \in Runs |-> IF r = 1 THEN "starting" ELSE "none"]
    /\ batch = [r \in Runs |-> 0]
    /\ wait = [r \in Runs |-> "idle"]
    /\ stop = [r \in Runs |-> FALSE]
    /\ pendingError = [r \in Runs |-> FALSE]
    /\ link = [r \in Runs |-> TRUE]
    /\ inbox = [r \in Runs |-> FALSE]
    /\ missed = [r \in Runs |-> FALSE]
    /\ late = 0 /\ failedStarts = 0
    /\ enqueued = 0 /\ left = MaxTroubles

-----------------------------------------------------------------------------
(* The supervisor *)

\* run() returned: the connection is acquired, LISTEN answered, the loop begins.
Started(r) ==
    /\ pc[r] = "starting"
    /\ pc' = [pc EXCEPT ![r] = "fetching"]
    /\ sup' = "running" /\ inner' = r
    /\ restarts' = IF healthy THEN restarts ELSE 0
    /\ healthy' = TRUE /\ uptime' = "fresh"
    /\ UNCHANGED <<queue, run, aborted, caller, batch, stop, session, history, bounds>>

\* The connection cannot be acquired, or LISTEN fails: run() rejects.
StartFails(r) ==
    /\ pc[r] = "starting" /\ Spend("start")
    /\ pc' = [pc EXCEPT ![r] = "over"]
    /\ RunCrashed
    /\ failedStarts' = failedStarts + 1
    /\ UNCHANGED <<queue, caller, batch, stop, session, late, enqueued>>

\* The back-off is over.
Restart ==
    /\ sup = "backoff"
    /\ sup' = "starting" /\ run' = run + 1
    /\ pc' = [pc EXCEPT ![run + 1] = "starting"]
    /\ UNCHANGED <<queue, inner, restarts, healthy, uptime, aborted, caller>>
    /\ UNCHANGED <<batch, stop, session, history, bounds>>

\* The run stays up for stableAfter.
BecomesStable ==
    /\ uptime = "fresh"
    /\ uptime' = "stable"
    /\ UNCHANGED <<queue, sup, run, inner, restarts, healthy, aborted, caller, loop, history, bounds>>

-----------------------------------------------------------------------------
(* A batch *)

\* fetchInternal claims rows, or finds none that is due.
FetchRows(r, n) ==
    /\ pc[r] = "fetching" /\ link[r]
    /\ n \in 1 .. due
    /\ due' = due - n
    /\ batch' = [batch EXCEPT ![r] = n]
    /\ pc' = [pc EXCEPT ![r] = "delivering"]
    /\ UNCHANGED <<later, supervisor, caller, stop, session, history, bounds>>

FetchNone(r) ==
    /\ pc[r] = "fetching" /\ link[r]
    /\ due = 0
    /\ pc' = [pc EXCEPT ![r] = "checking"]
    /\ UNCHANGED <<queue, supervisor, caller, batch, stop, session, history, bounds>>

FetchBackOff(r) ==
    /\ pc[r] = "checking" /\ link[r]
    /\ missed' = [missed EXCEPT ![r] = FALSE]
    /\ IF BackOff = "now"  \* a row came in between: the result of an empty batch
          THEN pc' = [pc EXCEPT ![r] = "delivering"] /\ UNCHANGED wait
          ELSE /\ pc' = [pc EXCEPT ![r] = "answered"]
               /\ wait' = [wait EXCEPT ![r] = WaitFor(BackOff)]
    /\ UNCHANGED <<queue, supervisor, caller, batch, stop, pendingError, link, inbox, history, bounds>>

\* After a batch: an error of the listener meanwhile is thrown, end() breaks the loop.
NextRound(r, goesOn) ==
    IF pendingError[r] THEN Leaves(r) /\ RunCrashed
    ELSE IF stop[r] THEN Leaves(r) /\ RunClosed
    ELSE pc' = [pc EXCEPT ![r] = goesOn] /\ UNCHANGED <<supervisor, session>>

\* The batch is persisted, k of its rows to be retried or held; with the back-off 0 the
\* next one follows at once.
Processed(r, k) ==
    /\ pc[r] = "delivering" /\ link[r]
    /\ k \in 0 .. batch[r]
    /\ later' = later + k
    /\ batch' = [batch EXCEPT ![r] = 0]
    /\ NextRound(r, "fetching")
    /\ UNCHANGED <<due, caller, stop, history, bounds>>

\* Nothing was due: park.
Park(r) ==
    /\ pc[r] = "answered"
    /\ NextRound(r, "parked")
    /\ UNCHANGED <<queue, caller, batch, stop, history, bounds>>

\* processBatch throws: its connection is gone, the schema cannot be read, ...  What it
\* claimed lapses some time later.
BatchThrows(r) ==
    /\ pc[r] \in {"fetching", "delivering", "checking"}
    /\ IF link[r] THEN Spend("error") ELSE UNCHANGED left
    /\ later' = later + batch[r]
    /\ batch' = [batch EXCEPT ![r] = 0]
    /\ Leaves(r)
    /\ RunCrashed
    /\ UNCHANGED <<due, caller, stop, history, enqueued>>

-----------------------------------------------------------------------------
(* What wakes a parked loop *)

\* A notification calls resolvePending, which does nothing unless the loop is parked.
Notified(r) ==
    /\ inbox[r] /\ link[r]
    /\ inbox' = [inbox EXCEPT ![r] = FALSE]
    /\ pc' = IF pc[r] = "parked" THEN [pc EXCEPT ![r] = "fetching"] ELSE pc
    /\ missed' = IF pc[r] = "answered" THEN [missed EXCEPT ![r] = TRUE] ELSE missed
    /\ UNCHANGED <<queue, supervisor, caller, batch, wait, stop, pendingError, link, history, bounds>>

WakeTimer(r) ==
    /\ pc[r] = "parked" /\ wait[r] \in {"idle", "retry"}
    /\ pc' = [pc EXCEPT ![r] = "fetching"]
    /\ UNCHANGED <<queue, supervisor, caller, batch, stop, session, history, bounds>>

\* An error of the listener during a batch waits in pendingError for the end of the batch.
\* The event 'end' of the connection brings none (undefined, which is not thrown), but a
\* lost connection emits 'error' before it; only one that its owner ends does not.
ReportsError_atOnce(r) == RunCrashed /\ UNCHANGED <<pc, session>>
ReportsError(r) ==
    /\ pendingError' = [pendingError EXCEPT ![r] = TRUE]
    /\ UNCHANGED <<pc, wait, link, inbox, missed, supervisor>>

\* The listener sees the connection end or fail, by its events or its health check.
ListenerError(r) ==
    /\ ~link[r] /\ Looping(r) /\ ~pendingError[r]
    /\ IF pc[r] = "parked" THEN Leaves(r) /\ RunCrashed ELSE ReportsError(r)
    /\ UNCHANGED <<queue, caller, batch, stop, history, bounds>>

-----------------------------------------------------------------------------
(* end() *)

\* ProjectDispatcher.end: a parked loop is woken and leaves, another goes on to the end of
\* its batch.
EndRun(r) ==
    /\ stop' = [stop EXCEPT ![r] = TRUE]
    /\ IF pc[r] = "parked"
          THEN Leaves(r) /\ LoopEnds
          ELSE UNCHANGED <<pc, session, sup, uptime, restarts>>

\* Supervisor.end: abort, then the end() of innerRunning, if there is one.
End ==
    /\ healthy /\ ender = "none"
    /\ aborted' = TRUE
    /\ awaited' = inner
    /\ late' = IF sup = "starting" THEN run ELSE 0
    /\ \/ /\ inner # 0
          /\ ender' = "ending"
          /\ EndRun(inner)
       \/ /\ inner = 0
          /\ ender' = "ended"
          /\ sup' = IF sup = "backoff" THEN "over" ELSE sup
          /\ UNCHANGED <<pc, stop, session, uptime, restarts>>
    /\ UNCHANGED <<queue, run, inner, healthy, batch, failedStarts, bounds>>

\* dispatchFinished of the run.
Finished_asked(r) == stop[r]
Finished(r) == pc[r] = "over"

\* waitForDispatchToFinish: the loop is over, or END_TIMEOUT_MS has passed.
EndReturns ==
    /\ ender = "ending"
    /\ \/ Finished(awaited) /\ ender' = "ended"
       \/ ender' = "timedOut"
    /\ UNCHANGED <<queue, supervisor, awaited, loop, history, bounds>>

-----------------------------------------------------------------------------
(* The rest of the world *)

\* A mutation commits: its event is due, and the session that listens is notified.
Hears(r) == Looping(r) /\ link[r]

Enqueue ==
    /\ enqueued < MaxWork
    /\ enqueued' = enqueued + 1
    /\ due' = due + 1
    /\ inbox' = [r \in Runs |-> inbox[r] \/ Hears(r)]
    /\ UNCHANGED <<later, supervisor, caller, pc, batch, wait, stop, pendingError, link, missed, history, left>>

\* visible_at passes.
Elapse ==
    /\ later > 0
    /\ later' = later - 1 /\ due' = due + 1
    /\ UNCHANGED <<supervisor, caller, loop, history, bounds>>

LinkLost(r) ==
    /\ Looping(r) /\ link[r] /\ Spend("lost")
    /\ link' = [link EXCEPT ![r] = FALSE]
    /\ inbox' = [inbox EXCEPT ![r] = FALSE]
    /\ UNCHANGED <<queue, supervisor, caller, pc, batch, wait, stop, pendingError, missed, history, enqueued>>

-----------------------------------------------------------------------------
(* The specification *)

Step(r) ==
    \/ Started(r) \/ StartFails(r)
    \/ \E n \in 0 .. MaxWork : FetchRows(r, n) \/ Processed(r, n)
    \/ FetchNone(r) \/ FetchBackOff(r) \/ Park(r) \/ BatchThrows(r)

Next ==
    \/ Restart \/ BecomesStable \/ End \/ EndReturns \/ Enqueue \/ Elapse
    \/ \E r \in Runs : Step(r) \/ Notified(r) \/ WakeTimer(r) \/ ListenerError(r) \/ LinkLost(r)

Spec == Init /\ [][Next]_vars

\* Statements and requests end by their timeouts, timers fire, time passes.  Nothing is
\* assumed of notifications: they may take longer than any timer.
Fairness ==
    /\ \A r \in Runs : WF_vars(Step(r)) /\ WF_vars(WakeTimer(r)) /\ WF_vars(ListenerError(r))
    /\ WF_vars(Restart) /\ WF_vars(Elapse) /\ WF_vars(EndReturns)

FairSpec == Spec /\ Fairness

-----------------------------------------------------------------------------
(* Properties *)

\* A supervisor has one loop at a time: it starts a run only after the last one has left
\* its loop, so that two of them never claim batches side by side.
OneLoop == \A r, s \in Runs : Looping(r) /\ Looping(s) => r = s

\* While rows are due, a parked loop has a NOTIFY on its way, or sleeps for a retry, or
\* the NOTIFY came after the look at the queue and before the park: only in that case the
\* event waits for MAX_IDLE_SLEEP_MS.
NoSleepOnWork ==
    \A r \in Runs : pc[r] = "parked" /\ link[r] /\ due > 0 /\ ~inbox[r] =>
        wait[r] = "retry" \/ missed[r]

\* run() of the supervisor rejects only if no run has started and startupMax is spent.
GivesUpForAReason ==
    sup = "failed" => ~healthy /\ failedStarts = StartupMax + 1 /\ run = failedStarts

\* Once end() has returned in time no batch is running and none will be, except by a run
\* whose start was pending when end() was called: innerRunning is undefined then, and
\* nobody ends that run.
EndedIsQuiet == ender = "ended" => \A r \in Runs : Looping(r) => r = late

\* Due rows are fetched, whatever dies, unless the worker is ended or never starts.
DueIsFetched ==
    \/ due > 0 ~> (due = 0 \/ \E r \in Runs : batch[r] > 0)
    \/ <>(ender # "none")
    \/ <>(sup = "failed")

\* After end() every run comes to its end, also one that end() did not wait for.
EndStops == \A r \in Runs : ender # "none" ~> (pc[r] \in {"none", "over"} \/ late = r)

-----------------------------------------------------------------------------
(* Why the properties hold: the inductive invariant of DispatcherLoopProofs. *)

\* Where the supervisor thinks its run is, and where it is.
PhasesAgree ==
    /\ \A r \in Runs : r # run => ~Looping(r) /\ pc[r] # "starting"
    /\ sup = "starting" => pc[run] = "starting" /\ inner = 0
    /\ sup = "running" => Looping(run) /\ inner = run /\ healthy
    /\ sup \notin {"starting", "running"} => pc[run] = "over"
    /\ sup = "running" <=> uptime # "none"
    /\ sup = "backoff" => inner = 0
    /\ sup = "failed" => ~healthy

\* A row is due, claimed by the run, or due later.
RowsCounted ==
    /\ \A r \in Runs : pc[r] # "delivering" => batch[r] = 0
    /\ due + later + batch[run] <= enqueued

\* Every run that ended badly has had a trouble of its own: what the back-off, the
\* restarts and a lost connection have used up is no longer left.
TroublesCounted ==
    /\ \A r \in Runs : ~Looping(r) => link[r] /\ ~pendingError[r]
    /\ pendingError[run] => ~link[run]
    /\ run + left <= MaxTroubles + 1
    /\ sup = "backoff" \/ ~link[run] => run + left <= MaxTroubles
    /\ restarts + left <= MaxTroubles
    /\ sup = "backoff" => restarts <= run
    /\ sup \in {"starting", "running"} => restarts < run
    /\ failedStarts + left <= MaxTroubles

\* Before the first healthy run, every run was a failed start, and restarts counts them.
StartsCounted ==
    ~healthy =>
        /\ ~aborted
        /\ failedStarts = restarts
        /\ sup = "starting" => run = restarts + 1 /\ restarts <= StartupMax
        /\ sup = "backoff" => run = restarts /\ restarts <= StartupMax
        /\ sup = "failed" => run = restarts /\ restarts = StartupMax + 1
        /\ sup # "over"

\* A loop about to park has looked at the queue: what is due since has notified it, and
\* what was due later gave it the timer of a retry.
ParkedInTime ==
    \A r \in Runs : pc[r] \in {"answered", "parked"} /\ link[r] =>
        /\ due > 0 /\ ~inbox[r] => wait[r] = "retry" \/ missed[r]
        /\ later > 0 => wait[r] = "retry"

\* end() aborts once; nothing restarts after it, and what it awaits is the last run.
EndedOnce ==
    /\ ender = "none" <=> ~aborted
    /\ ~aborted => sup # "over" /\ \A r \in Runs : ~stop[r]
    /\ aborted /\ awaited # 0 => awaited = run /\ sup \in {"running", "over"}
    /\ aborted /\ awaited = 0 => ender = "ended" /\ (sup = "over" \/ run = late)
    /\ aborted => sup # "backoff"
    /\ ender = "ended" /\ awaited # 0 => sup = "over"

LInv ==
    /\ TypeOK
    /\ PhasesAgree
    /\ RowsCounted
    /\ TroublesCounted
    /\ StartsCounted
    /\ ParkedInTime
    /\ EndedOnce
=============================================================================
