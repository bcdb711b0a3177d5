-------------------------- MODULE ProjectWorkers --------------------------
(***************************************************************************)
(* The cached container of a project and the dispatch worker that uses it: *)
(* engine-http/project/ProjectContainerResolver.ts with its store, and     *)
(* engine-actions/dispatch/DispatchWorkerSupervisor.ts.                    *)
(*                                                                         *)
(* Whoever needs the container of a project calls getProjectContainer: it  *)
(* checks the cached one against the tenant database and, when the project *)
(* has changed, destroys it and creates another.  Requests do so, and the  *)
(* handlers that (re)load the workers: one at startup and one for every    *)
(* notification project_updated.  Nothing keeps them apart.                *)
(*                                                                         *)
(* Node runs the continuations of a promise before any other event, so an  *)
(* event (an answer of a database, a new request) waits until no caller    *)
(* has a continuation to run (Quiet).                                      *)
(***************************************************************************)
EXTENDS Naturals

CONSTANTS
    Requests,       (* each calls getProjectContainer once                  *)
    Start,          (* the handler that starts the workers                  *)
    Reloads,        (* the handlers of project_updated                      *)
    Ender,          (* end() of the supervisor of the workers               *)
    Disposer,       (* dispose() of the resolver                            *)
    Allowed,        (* the kinds of trouble that may happen                 *)
    MaxTroubles     (* bound: how many of them together                     *)

\* An update of the project, a container or a worker that does not start, the tracker's
\* connection lost, endAll, dispose.
Troubles == {"update", "init", "start", "deaf", "end", "dispose"}
Handlers == Reloads \cup {Start}
Callers == Requests \cup Handlers
Actors == Callers \cup {Ender, Disposer}
None == "none"

ASSUME WorkersAssumption ==
    /\ Requests \cap Handlers = {} /\ Start \notin Reloads
    /\ Ender \notin Callers /\ Disposer \notin Callers /\ Ender # Disposer
    /\ None \notin Actors
    /\ Allowed \subseteq Troubles
    /\ MaxTroubles \in Nat

\* A caller creates at most one container, and a handler one worker: they bear its name.
Containers == Callers
Workers == Handlers

VARIABLES
    config,         \* the version of the project in the tenant database; 0 when deleted
    \* ProjectContainerResolver: the cached container, the version each was made from,
    \* its promise, those announced by 'create' and not cleaned up, the flag disposed
    cache, version, promise, registered, disposed,
    \* of each actor: where it is, the container it awaits, the version it read, what
    \* getProjectContainer returned
    pc, awaited, read, got,
    \* DispatchWorkerSupervisor: the entry of the project in the map running (its worker
    \* and its container), the workers, those somebody ends, whom a handler waits for,
    \* the 'destroy' listener, the tracker's LISTEN, notifications on their way
    running, base, worker, doomed, waits, listening, tracking, notices,
    \* history: the version when a request came; whether a worker was deprived of its
    \* entry; whether a race or a lost notification (see NoWorkerLost) has happened
    since, misdeleted, unlucky,
    left

cacheVars == <<cache, version, promise, registered, disposed>>
callVars == <<awaited, read, got>>
workerVars == <<running, base, worker, doomed, waits>>
trackerVars == <<listening, tracking, notices>>
history == <<since, misdeleted, unlucky>>
vars == <<config, cacheVars, pc, callVars, workerVars, trackerVars, history, left>>

-----------------------------------------------------------------------------
(* Helpers *)

Spend(kind) ==
    /\ kind \in Allowed
    /\ left > 0
    /\ left' = left - 1

Settled(c) == promise[c] \in {"ready", "failed"}

\* What a handler waits for has ended, if it waits for any worker.
Gone(w) == w \in Workers => worker[w] \in {"over", "failed"}
HasFailed(w) == w \in Workers /\ worker[w] = "failed"

\* The worker that p started can be used, or nobody asks any more whether it can.
Decided(p) == Gone(waits[p]) /\ (worker[p] = "starting" => HasFailed(waits[p]))

\* A continuation of p is in the queue of microtasks.
Continues(p) ==
    \/ pc[p] \in {"awaiting", "destroying", "removing", "joining"} /\ Settled(awaited[p])
    \/ pc[p] = "got"
    \/ pc[p] = "replacing" /\ Decided(p)

Quiet == \A p \in Actors : ~Continues(p)

Goes(p, to) == pc' = [pc EXCEPT ![p] = to]

\* getProjectContainer returns c, or nothing; a handler goes on at once.
Returns(p, c) ==
    /\ got' = [got EXCEPT ![p] = c]
    /\ awaited' = [awaited EXCEPT ![p] = None]
    /\ Goes(p, IF p \in Handlers /\ c # None THEN "got" ELSE "done")

\* It throws: a request fails, a handler ends all workers.
Throws(p) ==
    /\ Goes(p, IF p \in Reloads THEN "failing" ELSE IF p = Start THEN "endTracker" ELSE "failed")
    /\ listening' = IF p \in Handlers THEN FALSE ELSE listening
    /\ tracking' = IF p \in Handlers THEN FALSE ELSE tracking
    /\ notices' = IF p \in Handlers THEN 0 ELSE notices

\* Somebody deletes or replaces the entry of a worker, and ends that worker.
Ending_forgotten(w) == UNCHANGED doomed
Ending(w) == doomed' = doomed \cup ({w} \ {None})

-----------------------------------------------------------------------------
(* Types and the initial state *)

Places == {"idle", "projects", "awaiting", "checking", "destroying", "removing", "reading",
           "creating", "joining", "got", "replacing", "failing", "endAgain", "endTracker",
           "endWorkers", "ended", "done", "failed"}

TypeOK ==
    /\ config \in Nat
    /\ cache \in Containers \cup {None}
    /\ version \in [Containers -> Nat]
    /\ promise \in [Containers -> {"none", "pending", "private", "ready", "failed"}]
    /\ \A c \in Containers : promise[c] # "none" => version[c] > 0   \* never of a deleted project
    /\ registered \subseteq Containers
    /\ disposed \in BOOLEAN
    /\ pc \in [Actors -> Places]
    /\ awaited \in [Actors -> Containers \cup {None}]
    /\ read \in [Actors -> Nat]
    /\ got \in [Actors -> Containers \cup {None}]
    /\ running \in Workers \cup {None}
    /\ base \in Containers \cup {None}
    /\ worker \in [Workers -> {"none", "starting", "live", "over", "failed"}]
    /\ doomed \subseteq Workers
    /\ waits \in [Actors -> Workers \cup {None}]
    /\ listening \in BOOLEAN /\ tracking \in BOOLEAN
    /\ notices \in Nat
    /\ since \in [Requests -> Nat]
    /\ misdeleted \in BOOLEAN /\ unlucky \in BOOLEAN
    /\ left \in 0 .. MaxTroubles

Init ==
    /\ config = 1
    /\ cache = None
    /\ version = [c \in Containers |-> 0]
    /\ promise = [c \in Containers |-> "none"]
    /\ registered = {} /\ disposed = FALSE
    /\ pc = [p \in Actors |-> IF p = Start THEN "projects" ELSE "idle"]
    /\ awaited = [p \in Actors |-> None]
    /\ read = [p \in Actors |-> 0]
    /\ got = [p \in Actors |-> None]
    /\ running = None /\ base = None
    /\ worker = [w \in Workers |-> "none"]
    /\ doomed = {}
    /\ waits = [p \in Actors |-> None]
    /\ listening = TRUE /\ tracking = TRUE /\ notices = 0
    /\ since = [q \in Requests |-> 0]
    /\ misdeleted = FALSE /\ unlucky = FALSE
    /\ left = MaxTroubles

-----------------------------------------------------------------------------
(* getProjectContainer *)

\* Its synchronous beginning.
Looks(p) ==
    IF ~disposed /\ cache # None
        THEN Goes(p, "awaiting") /\ awaited' = [awaited EXCEPT ![p] = cache]
        ELSE Goes(p, "reading") /\ UNCHANGED awaited

Request(q) ==
    /\ Quiet /\ pc[q] = "idle"
    /\ Looks(q)
    /\ since' = [since EXCEPT ![q] = config]
    /\ UNCHANGED <<config, cacheVars, read, got, workerVars, trackerVars, misdeleted, unlucky, left>>

\* The cached container is there: ask the tenant database for its state.
Awaited(p) ==
    /\ pc[p] = "awaiting" /\ Settled(awaited[p])
    /\ IF promise[awaited[p]] = "ready"
          THEN Goes(p, "checking") /\ UNCHANGED trackerVars
          ELSE Throws(p)
    /\ UNCHANGED <<config, cacheVars, callVars, workerVars, history, left>>

\* getProjectState answers: the container is valid, or destroyContainer looks up what is
\* cached by now.
Valid_next(p) == config # 0 /\ config <= version[awaited[p]] + 1
Valid(p) == config # 0 /\ config <= version[awaited[p]]

CheckState(p) ==
    /\ Quiet /\ pc[p] = "checking"
    /\ IF Valid(p)
          THEN Returns(p, awaited[p]) /\ UNCHANGED unlucky
          ELSE /\ awaited' = [awaited EXCEPT ![p] = cache]
               /\ Goes(p, IF cache # None THEN IF config = 0 THEN "removing" ELSE "destroying"
                          ELSE IF config = 0 THEN "done" ELSE "reading")
               /\ unlucky' = (unlucky \/ cache \notin {None, awaited[p]})
               /\ UNCHANGED got
    /\ UNCHANGED <<config, cacheVars, read, workerVars, trackerVars, since, misdeleted, left>>

\* The listener of 'destroy' ends the worker of the project, whatever its container.
DestroyFired ==
    IF listening
        THEN running' = None /\ base' = None /\ Ending(running)
        ELSE UNCHANGED <<running, base, doomed>>

\* destroyContainer once the promise has settled: clean up, announce, remove.
CleanedUp(c) == registered \ {c}

Destroyed(p) ==
    /\ pc[p] \in {"destroying", "removing"} /\ promise[awaited[p]] = "ready"
    /\ registered' = CleanedUp(awaited[p])
    /\ DestroyFired
    /\ cache' = None
    /\ awaited' = [awaited EXCEPT ![p] = None]
    /\ Goes(p, IF pc[p] = "removing" THEN "done" ELSE "reading")
    /\ UNCHANGED <<config, version, promise, disposed, read, got, worker, waits>>
    /\ UNCHANGED <<trackerVars, history, left>>

DestroyThrows(p) ==
    /\ pc[p] \in {"destroying", "removing"} /\ promise[awaited[p]] = "failed"
    /\ IF p = Disposer THEN Goes(p, "done") /\ UNCHANGED trackerVars ELSE Throws(p)
    /\ UNCHANGED <<config, cacheVars, callVars, workerVars, history, left>>

\* getProjectWithSecretsBySlug
Exists == config # 0

ReadProject(p) ==
    /\ Quiet /\ pc[p] = "reading"
    /\ read' = [read EXCEPT ![p] = config]
    /\ Goes(p, IF Exists THEN "creating" ELSE "done")
    /\ UNCHANGED <<config, cacheVars, awaited, got, workerVars, trackerVars, history, left>>

\* createProjectContainer: a disposed resolver caches nothing; otherwise whoever comes
\* second gets the container of the first, from whatever version that was made.
Caches_always == TRUE
Caches == ~disposed

CreateContainer(p) ==
    /\ Quiet /\ pc[p] = "creating"
    /\ Goes(p, "joining")
    /\ read' = [read EXCEPT ![p] = 0]
    /\ IF Caches /\ cache # None
          THEN /\ awaited' = [awaited EXCEPT ![p] = cache]
               /\ unlucky' = (unlucky \/ version[cache] < read[p])
               /\ UNCHANGED <<cache, version, promise>>
          ELSE /\ awaited' = [awaited EXCEPT ![p] = p]
               /\ version' = [version EXCEPT ![p] = read[p]]
               /\ promise' = [promise EXCEPT ![p] = IF Caches THEN "pending" ELSE "private"]
               /\ cache' = IF Caches THEN p ELSE cache
               /\ UNCHANGED unlucky
    /\ UNCHANGED <<config, registered, disposed, got, workerVars, trackerVars>>
    /\ UNCHANGED <<since, misdeleted, left>>

\* initializeContainer ends.  'create' is fired unless the resolver was disposed before.
Initialized(c) ==
    /\ Quiet /\ promise[c] \in {"pending", "private"}
    /\ promise' = [promise EXCEPT ![c] = "ready"]
    /\ registered' = IF promise[c] = "pending" THEN registered \cup {c} ELSE registered
    /\ UNCHANGED <<config, cache, version, disposed, pc, callVars, workerVars, trackerVars, history, left>>

\* When it fails, the entry of the project is deleted.
InitFails(c) ==
    /\ Quiet /\ promise[c] \in {"pending", "private"} /\ Spend("init")
    /\ promise' = [promise EXCEPT ![c] = "failed"]
    /\ cache' = IF promise[c] = "pending" THEN None ELSE cache
    /\ UNCHANGED <<config, version, registered, disposed, pc, callVars, workerVars, trackerVars, history>>

Joined(p) ==
    /\ pc[p] = "joining" /\ Settled(awaited[p])
    /\ IF promise[awaited[p]] = "ready"
          THEN Returns(p, awaited[p]) /\ UNCHANGED trackerVars
          ELSE Throws(p) /\ UNCHANGED <<awaited, got>>
    /\ UNCHANGED <<config, cacheVars, read, workerVars, history, left>>

Dispose ==
    /\ Quiet /\ pc[Disposer] = "idle" /\ Spend("dispose")
    /\ disposed' = TRUE
    /\ IF cache = None
          THEN Goes(Disposer, "done") /\ UNCHANGED awaited
          ELSE Goes(Disposer, "removing") /\ awaited' = [awaited EXCEPT ![Disposer] = cache]
    /\ UNCHANGED <<config, cache, version, promise, registered, read, got>>
    /\ UNCHANGED <<workerVars, trackerVars, history>>

-----------------------------------------------------------------------------
(* The handlers that start and reload the workers *)

\* A notification: the handler ends the workers that are entered, and waits for them.
EndWorkers(p, then) ==
    /\ running' = None /\ base' = None
    /\ Ending(running)
    /\ waits' = [waits EXCEPT ![p] = running]
    /\ Goes(p, then)

\* The handlers are alike: any idle one stands for the next call.
Reload ==
    /\ Quiet /\ notices > 0
    /\ \E p \in Reloads : pc[p] = "idle"
    /\ EndWorkers(CHOOSE p \in Reloads : pc[p] = "idle", "projects")
    /\ notices' = notices - 1
    /\ UNCHANGED <<config, cacheVars, callVars, worker, listening, tracking, history, left>>

\* getProjects, then getProjectContainer of each.
FetchProjects(p) ==
    /\ Quiet /\ pc[p] = "projects" /\ Gone(waits[p])
    /\ waits' = [waits EXCEPT ![p] = None]
    /\ IF config = 0 THEN Goes(p, "done") /\ UNCHANGED awaited ELSE Looks(p)
    /\ UNCHANGED <<config, cacheVars, read, got, running, base, worker, doomed>>
    /\ UNCHANGED <<trackerVars, history, left>>

\* refreshProjectWorker: keeps a worker of the same container, replaces any other.
Refresh(p) ==
    /\ pc[p] = "got"
    /\ got' = [got EXCEPT ![p] = None]
    /\ IF base = got[p]
          THEN Goes(p, "done") /\ UNCHANGED workerVars
          ELSE /\ worker' = [worker EXCEPT ![p] = "starting"]
               /\ running' = p /\ base' = got[p]
               /\ Ending(running)
               /\ waits' = [waits EXCEPT ![p] = running]
               /\ Goes(p, "replacing")
    /\ UNCHANGED <<config, cacheVars, awaited, read, trackerVars, history, left>>

\* The replaced worker is ended, then the new one is awaited.  When one of them has failed
\* to start, the entry of the project is deleted, whosever it is; if it is the replaced one,
\* the new one may still be starting.
Replaced(p) ==
    /\ pc[p] = "replacing" /\ Decided(p)
    /\ waits' = [waits EXCEPT ![p] = None]
    /\ IF HasFailed(p) \/ HasFailed(waits[p])
          THEN /\ Throws(p)
               /\ running' = None /\ base' = None
               /\ misdeleted' = (misdeleted \/ (running # None /\ worker[running] # "failed"))
          ELSE /\ Goes(p, "done")
               /\ UNCHANGED <<running, base, misdeleted, trackerVars>>
    /\ UNCHANGED <<config, cacheVars, callVars, worker, doomed, since, unlucky, left>>

\* A reload that failed ends everything, twice: in startWorkers and in its caller.
EndsAfterFailure(p) ==
    /\ Quiet /\ pc[p] = "failing"
    /\ EndWorkers(p, "endAgain")
    /\ UNCHANGED <<config, cacheVars, callVars, worker, trackerVars, history, left>>

-----------------------------------------------------------------------------
(* endAll *)

EndAll ==
    /\ Quiet /\ pc[Ender] = "idle" /\ pc[Start] = "done" /\ Spend("end")
    /\ Goes(Ender, "endTracker")
    /\ listening' = FALSE /\ tracking' = FALSE /\ notices' = 0
    /\ UNCHANGED <<config, cacheVars, callVars, workerVars, history>>

\* The tracker has ended, now the workers.
TrackerEnded(p) ==
    /\ Quiet /\ pc[p] \in {"endTracker", "endAgain"} /\ Gone(waits[p])
    /\ EndWorkers(p, "endWorkers")
    /\ UNCHANGED <<config, cacheVars, callVars, worker, trackerVars, history, left>>

AllEnded(p) ==
    /\ Quiet /\ pc[p] = "endWorkers" /\ Gone(waits[p])
    /\ Goes(p, "ended")
    /\ waits' = [waits EXCEPT ![p] = None]
    /\ UNCHANGED <<config, cacheVars, callVars, running, base, worker, doomed, trackerVars, history, left>>

-----------------------------------------------------------------------------
(* Workers: what DispatcherLoop does, as the handlers see it *)

WorkerStarts(w) ==
    /\ Quiet /\ worker[w] = "starting"
    /\ worker' = [worker EXCEPT ![w] = "live"]
    /\ UNCHANGED <<config, cacheVars, pc, callVars, running, base, doomed, waits, trackerVars, history, left>>

\* Only at startup attempts are limited.
WorkerFails ==
    /\ Quiet /\ worker[Start] = "starting" /\ Spend("start")
    /\ worker' = [worker EXCEPT ![Start] = "failed"]
    /\ UNCHANGED <<config, cacheVars, pc, callVars, running, base, doomed, waits, trackerVars, history>>

\* end() waits for the start, then ends the worker.
WorkerEnds(w) ==
    /\ Quiet /\ worker[w] = "live" /\ w \in doomed
    /\ worker' = [worker EXCEPT ![w] = "over"]
    /\ UNCHANGED <<config, cacheVars, pc, callVars, running, base, doomed, waits, trackerVars, history, left>>

-----------------------------------------------------------------------------
(* The rest of the world *)

\* The project is changed or deleted; whoever LISTENs is notified.
Update(v) ==
    /\ Quiet /\ config # 0 /\ Spend("update")
    /\ v \in {0, config + 1}
    /\ config' = v
    /\ notices' = IF tracking THEN notices + 1 ELSE 0
    /\ unlucky' = (unlucky \/ ~tracking)
    /\ UNCHANGED <<cacheVars, pc, callVars, workerVars, listening, tracking, since, misdeleted>>

\* The connection of the tracker is lost; its supervisor LISTENs again later.
Deaf ==
    /\ Quiet /\ tracking /\ Spend("deaf")
    /\ tracking' = FALSE /\ notices' = 0
    /\ unlucky' = (unlucky \/ notices > 0)
    /\ UNCHANGED <<config, cacheVars, pc, callVars, workerVars, listening, since, misdeleted>>

ListensAgain ==
    /\ Quiet /\ ~tracking /\ listening
    /\ tracking' = TRUE
    /\ UNCHANGED <<config, cacheVars, pc, callVars, workerVars, listening, notices, history, left>>

-----------------------------------------------------------------------------
(* The specification *)

Call(p) ==
    \/ Awaited(p) \/ CheckState(p) \/ Destroyed(p) \/ DestroyThrows(p)
    \/ ReadProject(p) \/ CreateContainer(p) \/ Joined(p)

Handle(p) ==
    \/ FetchProjects(p) \/ Refresh(p) \/ Replaced(p)
    \/ EndsAfterFailure(p) \/ TrackerEnded(p) \/ AllEnded(p)

Settles(c) == Initialized(c) \/ InitFails(c)
WorkerSteps(w) == WorkerStarts(w) \/ WorkerEnds(w)

Answers ==
    \/ \E p \in Actors : Call(p) \/ Handle(p)
    \/ \E c \in Containers : Settles(c)
    \/ \E w \in Workers : WorkerSteps(w)

Next ==
    \/ \E q \in Requests : Request(q)
    \/ Reload
    \/ Answers
    \/ WorkerFails \/ EndAll \/ Dispose \/ Deaf \/ ListensAgain
    \/ \E v \in 0 .. MaxTroubles + 1 : Update(v)

Spec == Init /\ [][Next]_vars

\* Whatever is asked of a database, a container or a worker is answered at some time.
\* As everybody has finitely much to do, nothing is assumed of one of them in particular.
Fairness == WF_vars(Answers)

FairSpec == Spec /\ Fairness

-----------------------------------------------------------------------------
(* Properties *)

\* At most one container is announced, and it is the cached one: whoever removes or
\* replaces it has run its cleanups.  Once dispose() has returned, nothing is cached or
\* announced, by a late caller either.
CacheIsCoherent ==
    /\ registered \subseteq {cache}
    /\ pc[Disposer] = "done" => cache = None /\ registered = {}

\* A request is not served from a configuration that was outdated when it came, unless it
\* joined another caller that had read the project before.
NotStale ==
    ~unlucky => \A q \in Requests : got[q] # None => version[got[q]] >= since[q]

\* Every worker that runs is entered for its project or is being ended: whoever ends all
\* workers finds it, if it was entered by then.  A reload that is under way when endAll looks
\* enters its worker afterwards, and nobody ends that one.
WorkersAreKnown ==
    ~misdeleted => \A w \in Workers :
        worker[w] \in {"starting", "live"} => w = running \/ w \in doomed

\* Whoever calls, handles a notification, ends or disposes comes to its end: no caller
\* waits for a container, and no handler for a worker, that will never settle.
EveryoneReturns ==
    <>[](\A p \in Actors : pc[p] \in {"idle", "done", "failed", "ended"})

\* The project exists, the supervisor of the workers is there, and nobody has anything left
\* to do.
AtRest ==
    /\ config # 0 /\ listening /\ ~disposed
    /\ Quiet /\ notices = 0
    /\ \A p \in Callers : pc[p] \in {"idle", "done", "failed"}

\* Then the project has a worker, of its present version - unless a caller destroyed a
\* container other than the one it had found outdated, joined one older than what it had
\* read, or a notification was lost with the connection of the tracker (unlucky).
NoWorkerLost ==
    AtRest /\ ~unlucky =>
        /\ running # None /\ running \notin doomed
        /\ worker[running] \in {"starting", "live"}
        /\ version[base] = config
=============================================================================
