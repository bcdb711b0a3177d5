------------------------ MODULE ProjectWorkersProofs ------------------------
(***************************************************************************)
(* Proofs about ProjectWorkers, for every number of requests and reloads   *)
(* and of troubles.                                                        *)
(***************************************************************************)
EXTENDS ProjectWorkers, TLAPS

\* Where an actor is before it creates a container.
Before == {"idle", "projects", "awaiting", "checking", "destroying", "removing", "reading", "creating"}

\* Who may be where.
PlacesInv ==
    /\ \A p \in Actors : pc[p] \in {"projects", "got", "replacing"} => p \in Handlers
    /\ \A p \in Actors :
          pc[p] \in {"awaiting", "checking", "destroying", "reading", "creating", "joining"} => p \in Callers
    /\ pc[Disposer] \in {"idle", "removing", "done"}
    /\ \A p \in Callers : pc[p] \in Before => promise[p] = "none"
    /\ \A p \in Actors : pc[p] = "creating" => read[p] > 0
    /\ \A p \in Actors : pc[p] \in {"awaiting", "checking", "destroying", "removing", "joining"} => awaited[p] # None
    /\ \A p \in Actors : pc[p] = "got" => got[p] # None
    /\ cache # None => promise[cache] # "none"
    /\ \A p \in Actors : awaited[p] # None => promise[awaited[p]] # "none"
    /\ \A p \in Actors : got[p] # None => promise[got[p]] # "none"

\* A container that is initialized or announced is the cached one, and whoever destroys a
\* container destroys that one, unless another has just done so.
CacheInv ==
    /\ registered \subseteq {cache}
    /\ \A c \in registered : promise[c] = "ready"
    /\ \A c \in Containers : promise[c] = "pending" => cache = c
    /\ cache # None => promise[cache] \in {"pending", "ready"}
    /\ \A p \in Actors : pc[p] \in {"destroying", "removing"} =>
          cache = awaited[p] \/ (cache = None /\ Settled(awaited[p]))
    /\ pc[Disposer] # "idle" => disposed
    /\ pc[Disposer] = "done" => cache = None

\* What a request will return is as young as the project was when it came.
StaleInv ==
    /\ \A q \in Requests : config = 0 \/ since[q] <= config
    /\ \A q \in Requests : pc[q] = "idle" => got[q] = None
    /\ \A q \in Requests : pc[q] = "creating" => since[q] <= read[q]
    /\ ~unlucky => \A q \in Requests : pc[q] = "joining" => version[awaited[q]] >= since[q]
    /\ NotStale

WInv == TypeOK /\ PlacesInv /\ CacheInv /\ StaleInv /\ WorkersAreKnown
-----------------------------------------------------------------------------
\* Steps.

\* The sets of names.
LEMMA Names ==
    /\ Containers = Callers /\ Workers = Handlers /\ Handlers \subseteq Callers /\ Callers \subseteq Actors
    /\ None \notin Actors /\ Start \in Handlers /\ Ender \in Actors /\ Disposer \in Actors
    /\ Reloads \subseteq Handlers /\ Requests \subseteq Callers /\ MaxTroubles \in Nat
    /\ Requests \cap Handlers = {} /\ Disposer \notin Callers /\ Ender \notin Callers /\ Ender # Disposer
BY WorkersAssumption DEF Containers, Workers, Handlers, Actors, Callers

LEMMA ThrowsType ==
    ASSUME TypeOK, NEW p \in Actors, Throws(p)
    PROVE  /\ pc' \in [Actors -> Places]
           /\ listening' \in BOOLEAN /\ tracking' \in BOOLEAN /\ notices' \in Nat
<1>1. pc \in [Actors -> Places] /\ listening \in BOOLEAN /\ tracking \in BOOLEAN /\ notices \in Nat
      BY DEF TypeOK
<1>2. pc' \in [Actors -> Places]
      BY <1>1 DEF Throws, Goes, Places
<1>3. CASE p \in Handlers
      BY <1>2, <1>3 DEF Throws
<1>4. CASE p \notin Handlers
      BY <1>1, <1>2, <1>4 DEF Throws
<1>5. QED
      BY <1>3, <1>4

LEMMA WorkersAreKnownStep == TypeOK /\ PlacesInv /\ WorkersAreKnown /\ [Next]_vars => WorkersAreKnown'
<1> SUFFICES ASSUME TypeOK /\ PlacesInv /\ WorkersAreKnown, [Next]_vars
             PROVE  WorkersAreKnown'
    OBVIOUS
<1>0. /\ Containers = Callers /\ Workers = Handlers /\ Handlers \subseteq Callers /\ Callers \subseteq Actors
      /\ None \notin Actors /\ Start \in Handlers /\ Ender \in Actors /\ Disposer \in Actors
      /\ Reloads \subseteq Handlers /\ Requests \subseteq Callers /\ MaxTroubles \in Nat
      BY Names
<1>1. ASSUME NEW q \in Requests, Request(q)
      PROVE  WorkersAreKnown'
      BY <1>1, <1>0 DEF Request, Looks, Goes, WorkersAreKnown, PlacesInv, TypeOK, cacheVars,
                        callVars, workerVars, trackerVars, history
<1>2. CASE Reload
      BY <1>2, <1>0 DEF Reload, EndWorkers, Ending, Goes, WorkersAreKnown, PlacesInv, TypeOK,
                        cacheVars, callVars, workerVars, trackerVars, history
<1>3. ASSUME NEW p \in Actors, Awaited(p)
      PROVE  WorkersAreKnown'
      BY <1>3, <1>0 DEF Awaited, Throws, Goes, WorkersAreKnown, PlacesInv, TypeOK, cacheVars,
                        callVars, workerVars, trackerVars, history
<1>4. ASSUME NEW p \in Actors, CheckState(p)
      PROVE  WorkersAreKnown'
      BY <1>4, <1>0 DEF CheckState, Returns, Goes, Valid, WorkersAreKnown, PlacesInv, TypeOK,
                        cacheVars, callVars, workerVars, trackerVars, history
<1>5. ASSUME NEW p \in Actors, Destroyed(p)
      PROVE  WorkersAreKnown'
      BY <1>5, <1>0 DEF Destroyed, DestroyFired, CleanedUp, Ending, Goes, WorkersAreKnown,
                        PlacesInv, TypeOK, cacheVars, callVars, workerVars, trackerVars, history
<1>6. ASSUME NEW p \in Actors, DestroyThrows(p)
      PROVE  WorkersAreKnown'
      BY <1>6, <1>0 DEF DestroyThrows, Throws, Goes, WorkersAreKnown, PlacesInv, TypeOK, cacheVars,
                        callVars, workerVars, trackerVars, history
<1>7. ASSUME NEW p \in Actors, ReadProject(p)
      PROVE  WorkersAreKnown'
      BY <1>7, <1>0 DEF ReadProject, Goes, Exists, WorkersAreKnown, PlacesInv, TypeOK, cacheVars,
                        callVars, workerVars, trackerVars, history
<1>8. ASSUME NEW p \in Actors, CreateContainer(p)
      PROVE  WorkersAreKnown'
      BY <1>8, <1>0 DEF CreateContainer, Goes, Caches, WorkersAreKnown, PlacesInv, TypeOK,
                        cacheVars, callVars, workerVars, trackerVars, history
<1>9. ASSUME NEW p \in Actors, Joined(p)
      PROVE  WorkersAreKnown'
      BY <1>9, <1>0 DEF Joined, Returns, Throws, Goes, WorkersAreKnown, PlacesInv, TypeOK,
                        cacheVars, callVars, workerVars, trackerVars, history
<1>10. ASSUME NEW p \in Actors, FetchProjects(p)
      PROVE  WorkersAreKnown'
      BY <1>10, <1>0 DEF FetchProjects, Looks, Goes, WorkersAreKnown, PlacesInv, TypeOK, cacheVars,
                         callVars, workerVars, trackerVars, history
<1>11. ASSUME NEW p \in Actors, Refresh(p)
      PROVE  WorkersAreKnown'
      BY <1>11, <1>0 DEF Refresh, Goes, Ending, WorkersAreKnown, PlacesInv, TypeOK, cacheVars,
                         callVars, workerVars, trackerVars, history
<1>12. ASSUME NEW p \in Actors, Replaced(p)
      PROVE  WorkersAreKnown'
      BY <1>12, <1>0 DEF Replaced, Throws, Goes, WorkersAreKnown, PlacesInv, TypeOK, cacheVars,
                         callVars, workerVars, trackerVars, history
<1>13. ASSUME NEW p \in Actors, EndsAfterFailure(p)
      PROVE  WorkersAreKnown'
      BY <1>13, <1>0 DEF EndsAfterFailure, EndWorkers, Ending, Goes, WorkersAreKnown, PlacesInv,
                         TypeOK, cacheVars, callVars, workerVars, trackerVars, history
<1>14. ASSUME NEW p \in Actors, TrackerEnded(p)
      PROVE  WorkersAreKnown'
      BY <1>14, <1>0 DEF TrackerEnded, EndWorkers, Ending, Goes, WorkersAreKnown, PlacesInv, TypeOK,
                         cacheVars, callVars, workerVars, trackerVars, history
<1>15. ASSUME NEW p \in Actors, AllEnded(p)
      PROVE  WorkersAreKnown'
      BY <1>15, <1>0 DEF AllEnded, Goes, WorkersAreKnown, PlacesInv, TypeOK, cacheVars, callVars,
                         workerVars, trackerVars, history
<1>16. ASSUME NEW c \in Containers, Initialized(c)
      PROVE  WorkersAreKnown'
      BY <1>16, <1>0 DEF Initialized, WorkersAreKnown, PlacesInv, TypeOK, cacheVars, callVars,
                         workerVars, trackerVars, history
<1>17. ASSUME NEW c \in Containers, InitFails(c)
      PROVE  WorkersAreKnown'
      BY <1>17, <1>0 DEF InitFails, Spend, WorkersAreKnown, PlacesInv, TypeOK, cacheVars, callVars,
                         workerVars, trackerVars, history
<1>18. ASSUME NEW w \in Workers, WorkerStarts(w)
      PROVE  WorkersAreKnown'
      BY <1>18, <1>0 DEF WorkerStarts, WorkersAreKnown, PlacesInv, TypeOK, cacheVars, callVars,
                         workerVars, trackerVars, history
<1>19. ASSUME NEW w \in Workers, WorkerEnds(w)
      PROVE  WorkersAreKnown'
      BY <1>19, <1>0 DEF WorkerEnds, WorkersAreKnown, PlacesInv, TypeOK, cacheVars, callVars,
                         workerVars, trackerVars, history
<1>20. CASE WorkerFails
      BY <1>20, <1>0 DEF WorkerFails, Spend, WorkersAreKnown, PlacesInv, TypeOK, cacheVars,
                         callVars, workerVars, trackerVars, history
<1>21. CASE EndAll
      BY <1>21, <1>0 DEF EndAll, Spend, Goes, WorkersAreKnown, PlacesInv, TypeOK, cacheVars,
                         callVars, workerVars, trackerVars, history
<1>22. CASE Dispose
      BY <1>22, <1>0 DEF Dispose, Spend, Goes, WorkersAreKnown, PlacesInv, TypeOK, cacheVars,
                         callVars, workerVars, trackerVars, history
<1>23. CASE Deaf
      BY <1>23, <1>0 DEF Deaf, Spend, WorkersAreKnown, PlacesInv, TypeOK, cacheVars, callVars,
                         workerVars, trackerVars, history
<1>24. CASE ListensAgain
      BY <1>24, <1>0 DEF ListensAgain, WorkersAreKnown, PlacesInv, TypeOK, cacheVars, callVars,
                         workerVars, trackerVars, history
<1>25. ASSUME NEW v \in 0 .. MaxTroubles + 1, Update(v)
      PROVE  WorkersAreKnown'
      BY <1>25, <1>0 DEF Update, Spend, WorkersAreKnown, PlacesInv, TypeOK, cacheVars, callVars,
                         workerVars, trackerVars, history
<1>26. CASE UNCHANGED vars
      BY <1>26, <1>0 DEF vars, WorkersAreKnown, PlacesInv, TypeOK, cacheVars, callVars, workerVars,
                    trackerVars, history
<1>27. QED
      BY <1>1, <1>2, <1>3, <1>4, <1>5, <1>6, <1>7, <1>8, <1>9, <1>10, <1>11, <1>12, <1>13, <1>14,
         <1>15, <1>16, <1>17, <1>18, <1>19, <1>20, <1>21, <1>22, <1>23, <1>24, <1>25, <1>26
         DEF Next, Answers, Call, Handle, Settles, WorkerSteps

LEMMA TypeOKStep == TypeOK /\ PlacesInv /\ [Next]_vars => TypeOK'
<1> SUFFICES ASSUME TypeOK /\ PlacesInv, [Next]_vars
             PROVE  TypeOK'
    OBVIOUS
<1>0. /\ Containers = Callers /\ Workers = Handlers /\ Handlers \subseteq Callers /\ Callers \subseteq Actors
      /\ None \notin Actors /\ Start \in Handlers /\ Ender \in Actors /\ Disposer \in Actors
      /\ Reloads \subseteq Handlers /\ Requests \subseteq Callers /\ MaxTroubles \in Nat
      BY Names
<1>1. ASSUME NEW q \in Requests, Request(q)
      PROVE  TypeOK'
      BY <1>1, <1>0 DEF Request, Looks, Goes, PlacesInv, Places, TypeOK, cacheVars, callVars,
                        workerVars, trackerVars, history
<1>2. CASE Reload
      BY <1>2, <1>0 DEF Reload, EndWorkers, Ending, Goes, PlacesInv, Places, TypeOK, cacheVars,
                        callVars, workerVars, trackerVars, history
<1>3. ASSUME NEW p \in Actors, Awaited(p)
      PROVE  TypeOK'
  <2>1. CASE promise[awaited[p]] = "ready"
        BY <1>3, <2>1 DEF Awaited, Goes, Places, TypeOK, cacheVars, callVars, workerVars, trackerVars, history
  <2>2. CASE promise[awaited[p]] # "ready"
        BY <1>3, <2>2, ThrowsType DEF Awaited, TypeOK, cacheVars, callVars, workerVars, trackerVars, history
  <2>3. QED
        BY <2>1, <2>2
<1>4. ASSUME NEW p \in Actors, CheckState(p)
      PROVE  TypeOK'
  <2>1. CASE Valid(p)
    <3>1. pc' \in [Actors -> Places]
          BY <1>4, <2>1 DEF CheckState, Returns, Goes, Places, TypeOK
    <3>2. awaited' \in [Actors -> Containers \cup {None}] /\ got' \in [Actors -> Containers \cup {None}]
          BY <1>4, <2>1 DEF CheckState, Returns, TypeOK
    <3>3. QED
          BY <1>4, <2>1, <3>1, <3>2 DEF CheckState, TypeOK, cacheVars, callVars, workerVars, trackerVars, history
  <2>2. CASE ~Valid(p)
    <3>1. pc' \in [Actors -> Places]
          BY <1>4, <2>2 DEF CheckState, Goes, Places, TypeOK
    <3>2. unlucky' \in BOOLEAN
          BY <1>4, <2>2 DEF CheckState, TypeOK
    <3>3. awaited' \in [Actors -> Containers \cup {None}]
          BY <1>4, <2>2 DEF CheckState, TypeOK
    <3>4. QED
          BY <1>4, <2>2, <3>1, <3>2, <3>3 DEF CheckState, TypeOK, cacheVars, callVars, workerVars, trackerVars, history
  <2>3. QED
        BY <2>1, <2>2
<1>5. ASSUME NEW p \in Actors, Destroyed(p)
      PROVE  TypeOK'
      BY <1>5, <1>0 DEF Destroyed, DestroyFired, CleanedUp, Ending, Goes, PlacesInv, Places, TypeOK,
                        cacheVars, callVars, workerVars, trackerVars, history
<1>6. ASSUME NEW p \in Actors, DestroyThrows(p)
      PROVE  TypeOK'
  <2>1. CASE p = Disposer
        BY <1>6, <2>1 DEF DestroyThrows, Goes, Places, TypeOK, cacheVars, callVars, workerVars, trackerVars, history
  <2>2. CASE p # Disposer
        BY <1>6, <2>2, ThrowsType DEF DestroyThrows, TypeOK, cacheVars, callVars, workerVars, trackerVars, history
  <2>3. QED
        BY <2>1, <2>2
<1>7. ASSUME NEW p \in Actors, ReadProject(p)
      PROVE  TypeOK'
      BY <1>7, <1>0 DEF ReadProject, Goes, Exists, PlacesInv, Places, TypeOK, cacheVars, callVars,
                        workerVars, trackerVars, history
<1>8. ASSUME NEW p \in Actors, CreateContainer(p)
      PROVE  TypeOK'
  <2>1. pc' \in [Actors -> Places] /\ read' \in [Actors -> Nat]
        BY <1>8 DEF CreateContainer, Goes, Places, TypeOK
  <2>2. p \in Callers /\ read[p] > 0 /\ read[p] \in Nat
        BY <1>8 DEF CreateContainer, PlacesInv, TypeOK
  <2>3. CASE Caches /\ cache # None
    <3>1. unlucky' \in BOOLEAN
          BY <1>8, <2>3 DEF CreateContainer, TypeOK
    <3>2. QED
          BY <1>8, <2>1, <2>3, <3>1 DEF CreateContainer, TypeOK, cacheVars, callVars, workerVars, trackerVars, history
  <2>4. CASE ~(Caches /\ cache # None)
    <3>1. /\ version' = [version EXCEPT ![p] = read[p]]
          /\ promise' = [promise EXCEPT ![p] = IF Caches THEN "pending" ELSE "private"]
          /\ cache' = IF Caches THEN p ELSE cache
          /\ awaited' = [awaited EXCEPT ![p] = p]
          BY <1>8, <2>4 DEF CreateContainer
    <3>2. /\ version' \in [Containers -> Nat] /\ cache' \in Containers \cup {None}
          /\ awaited' \in [Actors -> Containers \cup {None}]
          BY <1>0, <2>2, <3>1 DEF TypeOK
    <3>3. promise' \in [Containers -> {"none", "pending", "private", "ready", "failed"}]
          BY <1>0, <2>2, <3>1 DEF TypeOK
    <3>4. \A c \in Containers : promise'[c] # "none" => version'[c] > 0
          BY <1>0, <2>2, <3>1 DEF TypeOK
    <3>5. QED
          BY <1>8, <2>1, <2>4, <3>2, <3>3, <3>4 DEF CreateContainer, TypeOK, cacheVars, callVars, workerVars, trackerVars, history
  <2>5. QED
        BY <2>3, <2>4
<1>9. ASSUME NEW p \in Actors, Joined(p)
      PROVE  TypeOK'
  <2>1. CASE promise[awaited[p]] = "ready"
    <3>1. pc' \in [Actors -> Places]
          BY <1>9, <2>1 DEF Joined, Returns, Goes, Places, TypeOK
    <3>2. awaited' \in [Actors -> Containers \cup {None}] /\ got' \in [Actors -> Containers \cup {None}]
          BY <1>9, <2>1 DEF Joined, Returns, TypeOK
    <3>3. QED
          BY <1>9, <2>1, <3>1, <3>2 DEF Joined, TypeOK, cacheVars, callVars, workerVars, trackerVars, history
  <2>2. CASE promise[awaited[p]] # "ready"
        BY <1>9, <2>2, ThrowsType DEF Joined, TypeOK, cacheVars, callVars, workerVars, trackerVars, history
  <2>3. QED
        BY <2>1, <2>2
<1>10. ASSUME NEW p \in Actors, FetchProjects(p)
      PROVE  TypeOK'
      BY <1>10, <1>0 DEF FetchProjects, Looks, Goes, PlacesInv, Places, TypeOK, cacheVars, callVars,
                         workerVars, trackerVars, history
<1>11. ASSUME NEW p \in Actors, Refresh(p)
      PROVE  TypeOK'
      BY <1>11, <1>0 DEF Refresh, Goes, Ending, PlacesInv, Places, TypeOK, cacheVars, callVars,
                         workerVars, trackerVars, history
<1>12. ASSUME NEW p \in Actors, Replaced(p)
      PROVE  TypeOK'
  <2> DEFINE fails == HasFailed(p) \/ HasFailed(waits[p])
  <2>1. CASE fails
    <3>1. misdeleted' \in BOOLEAN
          BY <1>12, <2>1 DEF Replaced, TypeOK
    <3>2. QED
          BY <1>12, <2>1, <3>1, ThrowsType DEF Replaced, TypeOK, cacheVars, callVars, workerVars, trackerVars, history
  <2>2. CASE ~fails
        BY <1>12, <2>2 DEF Replaced, Goes, Places, TypeOK, cacheVars, callVars, workerVars, trackerVars, history
  <2>3. QED
        BY <2>1, <2>2
<1>13. ASSUME NEW p \in Actors, EndsAfterFailure(p)
      PROVE  TypeOK'
      BY <1>13, <1>0 DEF EndsAfterFailure, EndWorkers, Ending, Goes, PlacesInv, Places, TypeOK,
                         cacheVars, callVars, workerVars, trackerVars, history
<1>14. ASSUME NEW p \in Actors, TrackerEnded(p)
      PROVE  TypeOK'
      BY <1>14, <1>0 DEF TrackerEnded, EndWorkers, Ending, Goes, PlacesInv, Places, TypeOK,
                         cacheVars, callVars, workerVars, trackerVars, history
<1>15. ASSUME NEW p \in Actors, AllEnded(p)
      PROVE  TypeOK'
      BY <1>15, <1>0 DEF AllEnded, Goes, PlacesInv, Places, TypeOK, cacheVars, callVars, workerVars,
                         trackerVars, history
<1>16. ASSUME NEW c \in Containers, Initialized(c)
      PROVE  TypeOK'
      BY <1>16, <1>0 DEF Initialized, PlacesInv, Places, TypeOK, cacheVars, callVars, workerVars,
                         trackerVars, history
<1>17. ASSUME NEW c \in Containers, InitFails(c)
      PROVE  TypeOK'
      BY <1>17, <1>0 DEF InitFails, Spend, PlacesInv, Places, TypeOK, cacheVars, callVars,
                         workerVars, trackerVars, history
<1>18. ASSUME NEW w \in Workers, WorkerStarts(w)
      PROVE  TypeOK'
      BY <1>18, <1>0 DEF WorkerStarts, PlacesInv, Places, TypeOK, cacheVars, callVars, workerVars,
                         trackerVars, history
<1>19. ASSUME NEW w \in Workers, WorkerEnds(w)
      PROVE  TypeOK'
      BY <1>19, <1>0 DEF WorkerEnds, PlacesInv, Places, TypeOK, cacheVars, callVars, workerVars,
                         trackerVars, history
<1>20. CASE WorkerFails
      BY <1>20, <1>0 DEF WorkerFails, Spend, PlacesInv, Places, TypeOK, cacheVars, callVars,
                         workerVars, trackerVars, history
<1>21. CASE EndAll
  <2>1. pc' \in [Actors -> Places] /\ left' \in 0 .. MaxTroubles
        BY <1>21, <1>0 DEF EndAll, Goes, Places, Spend, TypeOK
  <2>2. QED
        BY <1>21, <2>1 DEF EndAll, TypeOK, cacheVars, callVars, workerVars, trackerVars, history
<1>22. CASE Dispose
      BY <1>22, <1>0 DEF Dispose, Spend, Goes, PlacesInv, Places, TypeOK, cacheVars, callVars,
                         workerVars, trackerVars, history
<1>23. CASE Deaf
  <2>1. unlucky' \in BOOLEAN /\ left' \in 0 .. MaxTroubles
        BY <1>23, <1>0 DEF Deaf, Spend, TypeOK
  <2>2. QED
        BY <1>23, <2>1 DEF Deaf, TypeOK, cacheVars, callVars, workerVars, trackerVars, history
<1>24. CASE ListensAgain
      BY <1>24, <1>0 DEF ListensAgain, PlacesInv, Places, TypeOK, cacheVars, callVars, workerVars,
                         trackerVars, history
<1>25. ASSUME NEW v \in 0 .. MaxTroubles + 1, Update(v)
      PROVE  TypeOK'
      BY <1>25, <1>0 DEF Update, Spend, PlacesInv, Places, TypeOK, cacheVars, callVars, workerVars,
                         trackerVars, history
<1>26. CASE UNCHANGED vars
      BY <1>26, <1>0 DEF vars, PlacesInv, Places, TypeOK, cacheVars, callVars, workerVars, trackerVars, history
<1>27. QED
      BY <1>1, <1>2, <1>3, <1>4, <1>5, <1>6, <1>7, <1>8, <1>9, <1>10, <1>11, <1>12, <1>13, <1>14,
         <1>15, <1>16, <1>17, <1>18, <1>19, <1>20, <1>21, <1>22, <1>23, <1>24, <1>25, <1>26
         DEF Next, Answers, Call, Handle, Settles, WorkerSteps

\* One actor goes to another place.
LEMMA Moves ==
    ASSUME TypeOK, PlacesInv, NEW p \in Actors, NEW to, Goes(p, to),
           UNCHANGED <<promise, cache>>,
           \A x \in Actors : x # p => awaited'[x] = awaited[x] /\ got'[x] = got[x] /\ read'[x] = read[x],
           to \in {"projects", "got", "replacing"} => p \in Handlers,
           to \in {"awaiting", "checking", "destroying", "reading", "creating", "joining"} => p \in Callers,
           p = Disposer => to \in {"idle", "removing", "done"},
           to \in Before => pc[p] \in Before,
           to = "creating" => read'[p] > 0,
           to \in {"awaiting", "checking", "destroying", "removing", "joining"} => awaited'[p] # None,
           to = "got" => got'[p] # None,
           awaited'[p] # None => promise[awaited'[p]] # "none",
           got'[p] # None => promise[got'[p]] # "none"
    PROVE  PlacesInv'
<1>1. pc' = [pc EXCEPT ![p] = to] /\ pc \in [Actors -> Places]
      BY DEF Goes, TypeOK
<1>2. pc'[p] = to /\ \A x \in Actors : x # p => pc'[x] = pc[x]
      BY <1>1
<1>3. /\ (\A x \in Actors : pc[x] \in {"projects", "got", "replacing"} => x \in Handlers)'
      /\ (\A x \in Actors :
            pc[x] \in {"awaiting", "checking", "destroying", "reading", "creating", "joining"} => x \in Callers)'
      /\ (pc[Disposer] \in {"idle", "removing", "done"})'
      BY <1>2, Names DEF PlacesInv
<1>4. (\A x \in Callers : pc[x] \in Before => promise[x] = "none")'
      BY <1>2, Names DEF PlacesInv
<1>5. /\ (\A x \in Actors : pc[x] = "creating" => read[x] > 0)'
      /\ (\A x \in Actors :
            pc[x] \in {"awaiting", "checking", "destroying", "removing", "joining"} => awaited[x] # None)'
      /\ (\A x \in Actors : pc[x] = "got" => got[x] # None)'
      BY <1>2 DEF PlacesInv
<1>6. /\ (\A x \in Actors : awaited[x] # None => promise[awaited[x]] # "none")'
      /\ (\A x \in Actors : got[x] # None => promise[got[x]] # "none")'
      /\ (cache # None => promise[cache] # "none")'
      BY DEF PlacesInv
<1>7. QED
      BY <1>3, <1>4, <1>5, <1>6 DEF PlacesInv

LEMMA ThrowsGoes ==
    ASSUME NEW p, Throws(p)
    PROVE  \E to \in {"failing", "endTracker", "failed"} : Goes(p, to)
BY DEF Throws

LEMMA LooksGoes ==
    ASSUME TypeOK, NEW p \in Actors, Looks(p)
    PROVE  \/ /\ cache # None
              /\ Goes(p, "awaiting")
              /\ awaited' = [awaited EXCEPT ![p] = cache]
           \/ /\ Goes(p, "reading")
              /\ awaited' = awaited
BY DEF Looks

LEMMA ReturnsGoes ==
    ASSUME TypeOK, NEW p \in Actors, NEW c, Returns(p, c)
    PROVE  /\ (Goes(p, "got") /\ p \in Handlers /\ c # None) \/ Goes(p, "done")
           /\ got' = [got EXCEPT ![p] = c] /\ awaited' = [awaited EXCEPT ![p] = None]
BY DEF Returns

LEMMA PlacesInvStep == TypeOK /\ PlacesInv /\ [Next]_vars => PlacesInv'
<1> SUFFICES ASSUME TypeOK /\ PlacesInv, [Next]_vars
             PROVE  PlacesInv'
    OBVIOUS
<1>0. /\ Containers = Callers /\ Workers = Handlers /\ Handlers \subseteq Callers /\ Callers \subseteq Actors
      /\ None \notin Actors /\ Start \in Handlers /\ Ender \in Actors /\ Disposer \in Actors
      /\ Reloads \subseteq Handlers /\ Requests \subseteq Callers /\ MaxTroubles \in Nat
      BY Names
<1>1. ASSUME NEW q \in Requests, Request(q)
      PROVE  PlacesInv'
  <2>0. UNCHANGED <<promise, cache, got, read>> /\ Looks(q) /\ pc[q] = "idle" /\ q \in Actors /\ q \in Callers /\ q # Disposer
        BY <1>1, <1>0, Names DEF Request, cacheVars
  <2>1. CASE cache # None /\ Goes(q, "awaiting") /\ awaited' = [awaited EXCEPT ![q] = cache]
        BY <2>0, <2>1, <1>0, Moves DEF PlacesInv, Before, TypeOK
  <2>2. CASE Goes(q, "reading") /\ awaited' = awaited
        BY <2>0, <2>2, <1>0, Moves DEF PlacesInv, Before, TypeOK
  <2>3. QED
        BY <2>0, <2>1, <2>2, LooksGoes
<1>2. CASE Reload
  <2> DEFINE p == CHOOSE r \in Reloads : pc[r] = "idle"
  <2>1. p \in Reloads /\ pc[p] = "idle"
        BY <1>2 DEF Reload
  <2>2. Goes(p, "projects") /\ UNCHANGED <<promise, cache, got, read, awaited>>
        BY <1>2 DEF Reload, EndWorkers, cacheVars, callVars
  <2>3. p \in Handlers /\ p \in Actors /\ p # Disposer
        BY <2>1, Names
  <2>4. QED
        BY <2>1, <2>2, <2>3, Moves DEF PlacesInv, Before, TypeOK
<1>3. ASSUME NEW p \in Actors, Awaited(p)
      PROVE  PlacesInv'
  <2>0. UNCHANGED <<promise, cache, got, read, awaited>> /\ pc[p] = "awaiting" /\ p \in Callers /\ p # Disposer
        BY <1>3, Names DEF Awaited, cacheVars, callVars, PlacesInv
  <2>1. CASE Goes(p, "checking")
        BY <2>0, <2>1, Moves DEF PlacesInv, Before, TypeOK
  <2>2. CASE \E to \in {"failing", "endTracker", "failed"} : Goes(p, to)
        BY <2>0, <2>2, Moves DEF PlacesInv, Before, TypeOK
  <2>3. QED
        BY <1>3, <2>1, <2>2, ThrowsGoes DEF Awaited
<1>4. ASSUME NEW p \in Actors, CheckState(p)
      PROVE  PlacesInv'
  <2>0. UNCHANGED <<promise, cache, read>> /\ pc[p] = "checking" /\ p \in Callers /\ p # Disposer
        BY <1>4, Names DEF CheckState, cacheVars, PlacesInv
  <2>1. CASE Returns(p, awaited[p])
    <3>1. got' = [got EXCEPT ![p] = awaited[p]] /\ awaited' = [awaited EXCEPT ![p] = None]
          BY <2>1, ReturnsGoes
    <3>2. awaited[p] # None /\ promise[awaited[p]] # "none"
          BY <2>0 DEF PlacesInv
    <3>3. CASE Goes(p, "got") /\ p \in Handlers
          BY <2>0, <3>1, <3>2, <3>3, Moves DEF PlacesInv, Before, TypeOK
    <3>4. CASE Goes(p, "done")
          BY <2>0, <3>1, <3>2, <3>4, Moves DEF PlacesInv, Before, TypeOK
    <3>5. QED
          BY <2>1, <3>3, <3>4, ReturnsGoes
  <2>2. CASE /\ awaited' = [awaited EXCEPT ![p] = cache] /\ UNCHANGED got
             /\ Goes(p, IF cache # None THEN IF config = 0 THEN "removing" ELSE "destroying"
                        ELSE IF config = 0 THEN "done" ELSE "reading")
    <3>1. CASE cache # None /\ (Goes(p, "removing") \/ Goes(p, "destroying"))
          BY <2>0, <2>2, <3>1, Moves DEF PlacesInv, Before, TypeOK
    <3>2. CASE cache = None /\ (Goes(p, "done") \/ Goes(p, "reading"))
          BY <2>0, <2>2, <3>2, Moves DEF PlacesInv, Before, TypeOK
    <3>3. QED
          BY <2>2, <3>1, <3>2
  <2>3. QED
        BY <1>4, <2>1, <2>2 DEF CheckState
<1>5. ASSUME NEW p \in Actors, Destroyed(p)
      PROVE  PlacesInv'
      BY <1>5, <1>0 DEF Destroyed, DestroyFired, CleanedUp, Ending, Goes, PlacesInv, Before, TypeOK,
                        cacheVars, callVars, workerVars
<1>6. ASSUME NEW p \in Actors, DestroyThrows(p)
      PROVE  PlacesInv'
  <2>0. UNCHANGED <<promise, cache, got, read, awaited>> /\ pc[p] \in {"destroying", "removing"}
        BY <1>6 DEF DestroyThrows, cacheVars, callVars
  <2>1. CASE p = Disposer /\ Goes(p, "done")
        BY <2>0, <2>1, Moves DEF PlacesInv, Before, TypeOK
  <2>2. CASE p # Disposer /\ \E to \in {"failing", "endTracker", "failed"} : Goes(p, to)
        BY <2>0, <2>2, Moves DEF PlacesInv, Before, TypeOK
  <2>3. QED
        BY <1>6, <2>1, <2>2, ThrowsGoes DEF DestroyThrows
<1>7. ASSUME NEW p \in Actors, ReadProject(p)
      PROVE  PlacesInv'
      BY <1>7, <1>0 DEF ReadProject, Goes, Exists, PlacesInv, Before, TypeOK, cacheVars, callVars,
                        workerVars
<1>8. ASSUME NEW p \in Actors, CreateContainer(p)
      PROVE  PlacesInv'
  <2>0. p \in Callers /\ promise[p] = "none" /\ pc[p] = "creating" /\ p # Disposer
        BY <1>8, Names DEF CreateContainer, PlacesInv, Before
  <2>1. CASE cache # None /\ awaited' = [awaited EXCEPT ![p] = cache] /\ UNCHANGED <<cache, promise>>
    <3>1. Goes(p, "joining") /\ read' = [read EXCEPT ![p] = 0] /\ got' = got
          BY <1>8 DEF CreateContainer
    <3>2. QED
          BY <2>0, <2>1, <3>1, Moves DEF PlacesInv, Before, TypeOK
  <2>2. CASE /\ awaited' = [awaited EXCEPT ![p] = p]
             /\ promise' = [promise EXCEPT ![p] = IF Caches THEN "pending" ELSE "private"]
             /\ cache' = IF Caches THEN p ELSE cache
    <3>1. pc' = [pc EXCEPT ![p] = "joining"] /\ read' = [read EXCEPT ![p] = 0] /\ got' = got
          BY <1>8 DEF CreateContainer, Goes
    <3>2. promise'[p] # "none" /\ \A c \in Containers : c # p => promise'[c] = promise[c]
          BY <1>0, <2>0, <2>2 DEF TypeOK
    <3>3. pc'[p] = "joining" /\ \A x \in Actors : x # p => pc'[x] = pc[x] /\ read'[x] = read[x]
          BY <3>1 DEF TypeOK
    <3>4. awaited'[p] = p /\ \A x \in Actors : x # p => awaited'[x] = awaited[x]
          BY <2>2 DEF TypeOK
    <3>5. /\ (\A x \in Actors : pc[x] \in {"projects", "got", "replacing"} => x \in Handlers)'
          /\ (\A x \in Actors :
                pc[x] \in {"awaiting", "checking", "destroying", "reading", "creating", "joining"} => x \in Callers)'
          /\ (pc[Disposer] \in {"idle", "removing", "done"})'
          /\ (\A x \in Actors : pc[x] = "creating" => read[x] > 0)'
          /\ (\A x \in Actors : pc[x] = "got" => got[x] # None)'
          BY <1>0, <2>0, <3>1, <3>3 DEF PlacesInv
    <3>6. (\A x \in Callers : pc[x] \in Before => promise[x] = "none")'
          BY <1>0, <3>2, <3>3 DEF PlacesInv, Before
    <3>7. /\ (\A x \in Actors :
                pc[x] \in {"awaiting", "checking", "destroying", "removing", "joining"} => awaited[x] # None)'
          /\ (\A x \in Actors : awaited[x] # None => promise[awaited[x]] # "none")'
          BY <1>0, <2>0, <3>2, <3>3, <3>4 DEF PlacesInv, TypeOK
    <3>8. /\ (\A x \in Actors : got[x] # None => promise[got[x]] # "none")'
          /\ (cache # None => promise[cache] # "none")'
          BY <1>0, <2>0, <2>2, <3>1, <3>2 DEF PlacesInv, TypeOK
    <3>9. QED
          BY <3>5, <3>6, <3>7, <3>8 DEF PlacesInv
  <2>3. QED
        BY <1>8, <2>1, <2>2 DEF CreateContainer
<1>9. ASSUME NEW p \in Actors, Joined(p)
      PROVE  PlacesInv'
  <2>0. UNCHANGED <<promise, cache, read>> /\ pc[p] = "joining" /\ p \in Callers /\ p # Disposer
        BY <1>9, Names DEF Joined, cacheVars, PlacesInv
  <2>1. CASE Returns(p, awaited[p])
    <3>1. got' = [got EXCEPT ![p] = awaited[p]] /\ awaited' = [awaited EXCEPT ![p] = None]
          BY <2>1, ReturnsGoes
    <3>2. awaited[p] # None /\ promise[awaited[p]] # "none"
          BY <2>0 DEF PlacesInv
    <3>3. CASE Goes(p, "got") /\ p \in Handlers
          BY <2>0, <3>1, <3>2, <3>3, Moves DEF PlacesInv, Before, TypeOK
    <3>4. CASE Goes(p, "done")
          BY <2>0, <3>1, <3>2, <3>4, Moves DEF PlacesInv, Before, TypeOK
    <3>5. QED
          BY <2>1, <3>3, <3>4, ReturnsGoes
  <2>2. CASE UNCHANGED <<awaited, got>> /\ \E to \in {"failing", "endTracker", "failed"} : Goes(p, to)
        BY <2>0, <2>2, Moves DEF PlacesInv, Before, TypeOK
  <2>3. QED
        BY <1>9, <2>1, <2>2, ThrowsGoes DEF Joined
<1>10. ASSUME NEW p \in Actors, FetchProjects(p)
      PROVE  PlacesInv'
  <2>0. UNCHANGED <<promise, cache, got, read>> /\ pc[p] = "projects" /\ p \in Callers /\ p # Disposer
        BY <1>10, <1>0, Names DEF FetchProjects, cacheVars, PlacesInv
  <2>1. CASE cache # None /\ Goes(p, "awaiting") /\ awaited' = [awaited EXCEPT ![p] = cache]
        BY <2>0, <2>1, <1>0, Moves DEF PlacesInv, Before, TypeOK
  <2>2. CASE Goes(p, "reading") /\ awaited' = awaited
        BY <2>0, <2>2, <1>0, Moves DEF PlacesInv, Before, TypeOK
  <2>3. CASE Goes(p, "done") /\ awaited' = awaited
        BY <2>0, <2>3, <1>0, Moves DEF PlacesInv, Before, TypeOK
  <2>4. QED
        BY <1>10, <2>1, <2>2, <2>3, LooksGoes DEF FetchProjects
<1>11. ASSUME NEW p \in Actors, Refresh(p)
      PROVE  PlacesInv'
      BY <1>11, <1>0 DEF Refresh, Goes, Ending, PlacesInv, Before, TypeOK, cacheVars, callVars,
                         workerVars
<1>12. ASSUME NEW p \in Actors, Replaced(p)
      PROVE  PlacesInv'
  <2>0. UNCHANGED <<promise, cache, got, read, awaited>> /\ pc[p] = "replacing" /\ p # Disposer
        BY <1>12, <1>0, Names DEF Replaced, cacheVars, callVars, PlacesInv
  <2>1. CASE Goes(p, "done")
        BY <2>0, <2>1, Moves DEF PlacesInv, Before, TypeOK
  <2>2. CASE \E to \in {"failing", "endTracker", "failed"} : Goes(p, to)
        BY <2>0, <2>2, Moves DEF PlacesInv, Before, TypeOK
  <2>3. QED
        BY <1>12, <2>1, <2>2, ThrowsGoes DEF Replaced
<1>13. ASSUME NEW p \in Actors, EndsAfterFailure(p)
      PROVE  PlacesInv'
      BY <1>13, <1>0 DEF EndsAfterFailure, EndWorkers, Ending, Goes, PlacesInv, Before, TypeOK,
                         cacheVars, callVars, workerVars
<1>14. ASSUME NEW p \in Actors, TrackerEnded(p)
      PROVE  PlacesInv'
      BY <1>14, <1>0 DEF TrackerEnded, EndWorkers, Ending, Goes, PlacesInv, Before, TypeOK,
                         cacheVars, callVars, workerVars
<1>15. ASSUME NEW p \in Actors, AllEnded(p)
      PROVE  PlacesInv'
      BY <1>15, <1>0 DEF AllEnded, Goes, PlacesInv, Before, TypeOK, cacheVars, callVars, workerVars
<1>16. ASSUME NEW c \in Containers, Initialized(c)
      PROVE  PlacesInv'
      BY <1>16, <1>0 DEF Initialized, PlacesInv, Before, TypeOK, cacheVars, callVars, workerVars
<1>17. ASSUME NEW c \in Containers, InitFails(c)
      PROVE  PlacesInv'
      BY <1>17, <1>0 DEF InitFails, Spend, PlacesInv, Before, TypeOK, cacheVars, callVars,
                         workerVars
<1>18. ASSUME NEW w \in Workers, WorkerStarts(w)
      PROVE  PlacesInv'
      BY <1>18, <1>0 DEF WorkerStarts, PlacesInv, Before, TypeOK, cacheVars, callVars, workerVars
<1>19. ASSUME NEW w \in Workers, WorkerEnds(w)
      PROVE  PlacesInv'
      BY <1>19, <1>0 DEF WorkerEnds, PlacesInv, Before, TypeOK, cacheVars, callVars, workerVars
<1>20. CASE WorkerFails
      BY <1>20, <1>0 DEF WorkerFails, Spend, PlacesInv, Before, TypeOK, cacheVars, callVars,
                         workerVars
<1>21. CASE EndAll
  <2>1. Goes(Ender, "endTracker") /\ UNCHANGED <<promise, cache, got, read, awaited>>
        BY <1>21 DEF EndAll, cacheVars, callVars
  <2>2. QED
        BY <1>0, <2>1, Names, Moves DEF PlacesInv, Before, TypeOK
<1>22. CASE Dispose
  <2>0. UNCHANGED <<promise, cache, got, read>> /\ pc[Disposer] = "idle"
        BY <1>22 DEF Dispose
  <2>1. CASE Goes(Disposer, "done") /\ awaited' = awaited
        BY <1>0, <2>0, <2>1, Names, Moves DEF PlacesInv, Before, TypeOK
  <2>2. CASE cache # None /\ Goes(Disposer, "removing") /\ awaited' = [awaited EXCEPT ![Disposer] = cache]
        BY <1>0, <2>0, <2>2, Names, Moves DEF PlacesInv, Before, TypeOK
  <2>3. QED
        BY <1>22, <2>1, <2>2 DEF Dispose
<1>23. CASE Deaf
      BY <1>23, <1>0 DEF Deaf, Spend, PlacesInv, Before, TypeOK, cacheVars, callVars, workerVars
<1>24. CASE ListensAgain
      BY <1>24, <1>0 DEF ListensAgain, PlacesInv, Before, TypeOK, cacheVars, callVars, workerVars
<1>25. ASSUME NEW v \in 0 .. MaxTroubles + 1, Update(v)
      PROVE  PlacesInv'
      BY <1>25, <1>0 DEF Update, Spend, PlacesInv, Before, TypeOK, cacheVars, callVars, workerVars
<1>26. CASE UNCHANGED vars
      BY <1>26, <1>0 DEF vars, PlacesInv, Before, TypeOK, cacheVars, callVars, workerVars
<1>27. QED
      BY <1>1, <1>2, <1>3, <1>4, <1>5, <1>6, <1>7, <1>8, <1>9, <1>10, <1>11, <1>12, <1>13, <1>14,
         <1>15, <1>16, <1>17, <1>18, <1>19, <1>20, <1>21, <1>22, <1>23, <1>24, <1>25, <1>26
         DEF Next, Answers, Call, Handle, Settles, WorkerSteps

\* One actor goes to another place, and the store is left alone.
LEMMA MovesApart ==
    ASSUME TypeOK, CacheInv, NEW p \in Actors, NEW to, Goes(p, to),
           UNCHANGED <<cache, promise, registered, disposed>>,
           \A x \in Actors : x # p => awaited'[x] = awaited[x],
           to \in {"destroying", "removing"} => cache = awaited'[p],
           p = Disposer => disposed /\ (to = "done" => cache = None)
    PROVE  CacheInv'
<1>1. pc' = [pc EXCEPT ![p] = to] /\ pc \in [Actors -> Places] /\ Disposer \in Actors
      BY Names DEF Goes, TypeOK
<1>2. pc'[p] = to /\ \A x \in Actors : x # p => pc'[x] = pc[x]
      BY <1>1
<1>3. (\A x \in Actors : pc[x] \in {"destroying", "removing"} =>
          cache = awaited[x] \/ (cache = None /\ Settled(awaited[x])))'
      BY <1>2 DEF CacheInv, Settled
<1>4. /\ (pc[Disposer] # "idle" => disposed)'
      /\ (pc[Disposer] = "done" => cache = None)'
      BY <1>1, <1>2 DEF CacheInv
<1>5. QED
      BY <1>3, <1>4 DEF CacheInv

LEMMA CacheInvStep == TypeOK /\ PlacesInv /\ CacheInv /\ [Next]_vars => CacheInv'
<1> SUFFICES ASSUME TypeOK /\ PlacesInv /\ CacheInv, [Next]_vars
             PROVE  CacheInv'
    OBVIOUS
<1>0. /\ Containers = Callers /\ Workers = Handlers /\ Handlers \subseteq Callers /\ Callers \subseteq Actors
      /\ None \notin Actors /\ Start \in Handlers /\ Ender \in Actors /\ Disposer \in Actors
      /\ Reloads \subseteq Handlers /\ Requests \subseteq Callers /\ MaxTroubles \in Nat
      BY Names
<1>1. ASSUME NEW q \in Requests, Request(q)
      PROVE  CacheInv'
  <2>0. UNCHANGED <<cache, promise, registered, disposed>> /\ Looks(q) /\ q \in Actors /\ q # Disposer
        BY <1>1, <1>0, Names DEF Request, cacheVars
  <2>1. CASE Goes(q, "awaiting") /\ awaited' = [awaited EXCEPT ![q] = cache]
        BY <2>0, <2>1, MovesApart DEF TypeOK
  <2>2. CASE Goes(q, "reading") /\ awaited' = awaited
        BY <2>0, <2>2, MovesApart
  <2>3. QED
        BY <2>0, <2>1, <2>2, LooksGoes
<1>2. CASE Reload
  <2> DEFINE p == CHOOSE r \in Reloads : pc[r] = "idle"
  <2>1. p \in Reloads
        BY <1>2 DEF Reload
  <2>2. Goes(p, "projects") /\ awaited' = awaited /\ UNCHANGED <<cache, promise, registered, disposed>>
        BY <1>2 DEF Reload, EndWorkers, cacheVars, callVars
  <2>3. p \in Actors /\ p # Disposer
        BY <2>1, Names
  <2>4. QED
        BY <2>2, <2>3, MovesApart
<1>3. ASSUME NEW p \in Actors, Awaited(p)
      PROVE  CacheInv'
  <2>0. UNCHANGED <<cache, promise, registered, disposed>> /\ awaited' = awaited /\ p # Disposer
        BY <1>3, Names DEF Awaited, cacheVars, callVars, PlacesInv
  <2>1. CASE Goes(p, "checking")
        BY <2>0, <2>1, MovesApart
  <2>2. CASE \E to \in {"failing", "endTracker", "failed"} : Goes(p, to)
        BY <2>0, <2>2, MovesApart
  <2>3. QED
        BY <1>3, <2>1, <2>2, ThrowsGoes DEF Awaited
<1>4. ASSUME NEW p \in Actors, CheckState(p)
      PROVE  CacheInv'
      BY <1>4, <1>0 DEF CheckState, Returns, Goes, Valid, CacheInv, PlacesInv, Settled, TypeOK,
                        cacheVars, callVars
<1>5. ASSUME NEW p \in Actors, Destroyed(p)
      PROVE  CacheInv'
      BY <1>5, <1>0 DEF Destroyed, DestroyFired, CleanedUp, Ending, Goes, CacheInv, PlacesInv,
                        Settled, TypeOK, cacheVars, callVars
<1>6. ASSUME NEW p \in Actors, DestroyThrows(p)
      PROVE  CacheInv'
      BY <1>6, <1>0, ZenonT(30) DEF DestroyThrows, Throws, Goes, CacheInv, PlacesInv, Settled, TypeOK,
                        cacheVars, callVars
<1>7. ASSUME NEW p \in Actors, ReadProject(p)
      PROVE  CacheInv'
      BY <1>7, <1>0 DEF ReadProject, Goes, Exists, CacheInv, PlacesInv, Settled, TypeOK, cacheVars,
                        callVars
<1>8. ASSUME NEW p \in Actors, CreateContainer(p)
      PROVE  CacheInv'
  <2>0. p \in Callers /\ promise[p] = "none" /\ p # Disposer /\ Goes(p, "joining")
        BY <1>8, Names DEF CreateContainer, PlacesInv, Before
  <2>1. CASE Caches /\ cache # None
    <3>1. UNCHANGED <<cache, promise, registered, disposed>> /\ awaited' = [awaited EXCEPT ![p] = cache]
          BY <1>8, <2>1 DEF CreateContainer
    <3>2. QED
          BY <2>0, <3>1, MovesApart DEF TypeOK
  <2>2. CASE ~(Caches /\ cache # None)
    <3>1. /\ awaited' = [awaited EXCEPT ![p] = p]
          /\ promise' = [promise EXCEPT ![p] = IF Caches THEN "pending" ELSE "private"]
          /\ cache' = IF Caches THEN p ELSE cache
          /\ registered' = registered /\ disposed' = disposed
          BY <1>8, <2>2 DEF CreateContainer
    <3>2. /\ promise'[p] = IF Caches THEN "pending" ELSE "private"
          /\ \A c \in Containers : c # p => promise'[c] = promise[c]
          BY <1>0, <2>0, <3>1 DEF TypeOK
    <3>3. pc' = [pc EXCEPT ![p] = "joining"]
          BY <2>0 DEF Goes
    <3>4. \A x \in Actors : pc'[x] \in {"destroying", "removing"} =>
             /\ pc[x] \in {"destroying", "removing"} /\ awaited'[x] = awaited[x]
             /\ awaited[x] # None /\ ~Settled(awaited[x]) /\ cache = awaited[x]
      <4>1. \A x \in Actors : pc[x] \in {"destroying", "removing"} => awaited[x] # None /\ ~Settled(awaited[x])
            BY <1>8 DEF CreateContainer, Quiet, Continues, PlacesInv
      <4>2. \A x \in Actors : pc[x] \in {"destroying", "removing"} => cache = awaited[x]
            BY <4>1 DEF CacheInv
      <4>3. QED
            BY <3>1, <3>3, <4>1, <4>2 DEF TypeOK
    <3>5. CASE Caches
      <4>1. cache = None /\ cache' = p /\ registered = {} /\ ~disposed
            BY <1>0, <2>2, <3>1, <3>5 DEF CacheInv, TypeOK, Caches
      <4>2. \A x \in Actors : pc'[x] \notin {"destroying", "removing"}
            BY <3>4, <4>1
      <4>3. pc'[Disposer] = "idle" /\ p \in Containers
            BY <1>0, <2>0, <3>3, <4>1 DEF CacheInv, TypeOK
      <4>4. (\A c \in Containers : promise[c] = "pending" => cache = c)'
            BY <1>0, <3>2, <4>1 DEF CacheInv
      <4>5. (cache # None => promise[cache] \in {"pending", "ready"})'
            BY <3>2, <3>5, <4>1
      <4>6. QED
            BY <3>1, <4>1, <4>2, <4>3, <4>4, <4>5 DEF CacheInv
    <3>6. CASE ~Caches
      <4>1. cache' = cache
            BY <3>1, <3>6
      <4>2. (\A c \in Containers : promise[c] = "pending" => cache = c)'
            BY <1>0, <2>0, <3>2, <3>6, <4>1 DEF CacheInv
      <4>3. (cache # None => promise[cache] \in {"pending", "ready"})'
        <5>1. cache # None => cache # p
              BY <2>0 DEF CacheInv
        <5>2. QED
              BY <3>2, <4>1, <5>1 DEF CacheInv, TypeOK
      <4>4. (\A x \in Actors : pc[x] \in {"destroying", "removing"} =>
                cache = awaited[x] \/ (cache = None /\ Settled(awaited[x])))'
            BY <3>4, <4>1
      <4>5. pc'[Disposer] = pc[Disposer]
            BY <2>0, <3>3 DEF TypeOK
      <4>6. (\A c \in registered : promise[c] = "ready")'
            BY <2>0, <3>1, <3>2 DEF CacheInv, TypeOK
      <4>7. QED
            BY <3>1, <4>1, <4>2, <4>3, <4>4, <4>5, <4>6 DEF CacheInv
    <3>7. QED
          BY <3>5, <3>6
  <2>3. QED
        BY <2>1, <2>2
<1>9. ASSUME NEW p \in Actors, Joined(p)
      PROVE  CacheInv'
  <2>0. UNCHANGED <<cache, promise, registered, disposed>> /\ p # Disposer
        BY <1>9, Names DEF Joined, cacheVars, PlacesInv
  <2>1. CASE Returns(p, awaited[p])
        BY <2>0, <2>1, ReturnsGoes, MovesApart DEF TypeOK
  <2>2. CASE awaited' = awaited /\ \E to \in {"failing", "endTracker", "failed"} : Goes(p, to)
        BY <2>0, <2>2, MovesApart
  <2>3. QED
        BY <1>9, <2>1, <2>2, ThrowsGoes DEF Joined
<1>10. ASSUME NEW p \in Actors, FetchProjects(p)
      PROVE  CacheInv'
      BY <1>10, <1>0 DEF FetchProjects, Looks, Goes, CacheInv, PlacesInv, Settled, TypeOK,
                         cacheVars, callVars
<1>11. ASSUME NEW p \in Actors, Refresh(p)
      PROVE  CacheInv'
      BY <1>11, <1>0 DEF Refresh, Goes, Ending, CacheInv, PlacesInv, Settled, TypeOK, cacheVars,
                         callVars
<1>12. ASSUME NEW p \in Actors, Replaced(p)
      PROVE  CacheInv'
  <2>0. UNCHANGED <<cache, promise, registered, disposed>> /\ awaited' = awaited /\ p # Disposer
        BY <1>12, <1>0, Names DEF Replaced, cacheVars, callVars, PlacesInv
  <2>1. CASE Goes(p, "done")
        BY <2>0, <2>1, MovesApart
  <2>2. CASE \E to \in {"failing", "endTracker", "failed"} : Goes(p, to)
        BY <2>0, <2>2, MovesApart
  <2>3. QED
        BY <1>12, <2>1, <2>2, ThrowsGoes DEF Replaced
<1>13. ASSUME NEW p \in Actors, EndsAfterFailure(p)
      PROVE  CacheInv'
      BY <1>13, <1>0 DEF EndsAfterFailure, EndWorkers, Ending, Goes, CacheInv, PlacesInv, Settled,
                         TypeOK, cacheVars, callVars
<1>14. ASSUME NEW p \in Actors, TrackerEnded(p)
      PROVE  CacheInv'
      BY <1>14, <1>0 DEF TrackerEnded, EndWorkers, Ending, Goes, CacheInv, PlacesInv, Settled,
                         TypeOK, cacheVars, callVars
<1>15. ASSUME NEW p \in Actors, AllEnded(p)
      PROVE  CacheInv'
      BY <1>15, <1>0 DEF AllEnded, Goes, CacheInv, PlacesInv, Settled, TypeOK, cacheVars, callVars
<1>16. ASSUME NEW c \in Containers, Initialized(c)
      PROVE  CacheInv'
      BY <1>16, <1>0 DEF Initialized, CacheInv, PlacesInv, Settled, TypeOK, cacheVars, callVars
<1>17. ASSUME NEW c \in Containers, InitFails(c)
      PROVE  CacheInv'
  <2>0. /\ promise' = [promise EXCEPT ![c] = "failed"]
        /\ cache' = IF promise[c] = "pending" THEN None ELSE cache
        /\ UNCHANGED <<registered, disposed, pc, awaited>>
        /\ promise[c] \in {"pending", "private"}
        BY <1>17 DEF InitFails, callVars
  <2>1. promise'[c] = "failed" /\ \A x \in Containers : x # c => promise'[x] = promise[x]
        BY <2>0 DEF TypeOK
  <2>2. CASE promise[c] = "pending"
    <3>1. cache = c /\ cache' = None
          BY <2>0, <2>2 DEF CacheInv
    <3>2. \A x \in Actors : pc[x] \in {"destroying", "removing"} => awaited[x] = c
          BY <1>0, <3>1 DEF CacheInv
    <3>3. c \notin registered
          BY <2>2 DEF CacheInv
    <3>4. QED
          BY <1>0, <2>0, <2>1, <3>1, <3>2, <3>3 DEF CacheInv, Settled
  <2>3. CASE promise[c] = "private"
    <3>1. cache' = cache /\ cache # c
          BY <1>0, <2>0, <2>3 DEF CacheInv
    <3>2. (\A x \in Actors : pc[x] \in {"destroying", "removing"} =>
              cache = awaited[x] \/ (cache = None /\ Settled(awaited[x])))'
          BY <2>0, <2>1, <3>1 DEF CacheInv, Settled, TypeOK, PlacesInv
    <3>3. QED
          BY <2>0, <2>1, <3>1, <3>2 DEF CacheInv, TypeOK
  <2>4. QED
        BY <2>0, <2>2, <2>3
<1>18. ASSUME NEW w \in Workers, WorkerStarts(w)
      PROVE  CacheInv'
      BY <1>18, <1>0 DEF WorkerStarts, CacheInv, PlacesInv, Settled, TypeOK, cacheVars, callVars
<1>19. ASSUME NEW w \in Workers, WorkerEnds(w)
      PROVE  CacheInv'
      BY <1>19, <1>0 DEF WorkerEnds, CacheInv, PlacesInv, Settled, TypeOK, cacheVars, callVars
<1>20. CASE WorkerFails
      BY <1>20, <1>0 DEF WorkerFails, Spend, CacheInv, PlacesInv, Settled, TypeOK, cacheVars,
                         callVars
<1>21. CASE EndAll
  <2>1. Goes(Ender, "endTracker") /\ awaited' = awaited /\ UNCHANGED <<cache, promise, registered, disposed>>
        BY <1>21 DEF EndAll, cacheVars, callVars
  <2>2. QED
        BY <2>1, Names, MovesApart
<1>22. CASE Dispose
      BY <1>22, <1>0 DEF Dispose, Spend, Goes, CacheInv, PlacesInv, Settled, TypeOK, cacheVars,
                         callVars
<1>23. CASE Deaf
      BY <1>23, <1>0 DEF Deaf, Spend, CacheInv, PlacesInv, Settled, TypeOK, cacheVars, callVars
<1>24. CASE ListensAgain
      BY <1>24, <1>0 DEF ListensAgain, CacheInv, PlacesInv, Settled, TypeOK, cacheVars, callVars
<1>25. ASSUME NEW v \in 0 .. MaxTroubles + 1, Update(v)
      PROVE  CacheInv'
      BY <1>25, <1>0 DEF Update, Spend, CacheInv, PlacesInv, Settled, TypeOK, cacheVars, callVars
<1>26. CASE UNCHANGED vars
      BY <1>26, <1>0 DEF vars, CacheInv, PlacesInv, Settled, TypeOK, cacheVars, callVars
<1>27. QED
      BY <1>1, <1>2, <1>3, <1>4, <1>5, <1>6, <1>7, <1>8, <1>9, <1>10, <1>11, <1>12, <1>13, <1>14,
         <1>15, <1>16, <1>17, <1>18, <1>19, <1>20, <1>21, <1>22, <1>23, <1>24, <1>25, <1>26
         DEF Next, Answers, Call, Handle, Settles, WorkerSteps

\* One actor goes to another place, and nothing it has found gets older.
LEMMA MovesYoung ==
    ASSUME TypeOK, StaleInv, NEW p \in Actors, NEW to, Goes(p, to),
           UNCHANGED <<config, version, since, unlucky>>,
           \A x \in Actors : x # p => awaited'[x] = awaited[x] /\ got'[x] = got[x] /\ read'[x] = read[x],
           to \notin {"idle", "creating", "joining"},
           \/ got'[p] = got[p]
           \/ ~unlucky /\ p \in Requests /\ got'[p] # None => version[got'[p]] >= since[p]
    PROVE  StaleInv'
<1>1. pc'[p] = to /\ \A x \in Actors : x # p => pc'[x] = pc[x]
      BY DEF Goes, TypeOK
<1>2. Requests \subseteq Actors
      BY Names
<1>3. NotStale'
      BY <1>2 DEF StaleInv, NotStale
<1>4. QED
      BY <1>1, <1>2, <1>3 DEF StaleInv

LEMMA StaleInvStep == TypeOK /\ PlacesInv /\ StaleInv /\ [Next]_vars => StaleInv'
<1> SUFFICES ASSUME TypeOK /\ PlacesInv /\ StaleInv, [Next]_vars
             PROVE  StaleInv'
    OBVIOUS
<1>0. /\ Containers = Callers /\ Workers = Handlers /\ Handlers \subseteq Callers /\ Callers \subseteq Actors
      /\ None \notin Actors /\ Start \in Handlers /\ Ender \in Actors /\ Disposer \in Actors
      /\ Reloads \subseteq Handlers /\ Requests \subseteq Callers /\ MaxTroubles \in Nat
      BY Names
<1>1. ASSUME NEW q \in Requests, Request(q)
      PROVE  StaleInv'
      BY <1>1, <1>0 DEF Request, Looks, Goes, StaleInv, NotStale, PlacesInv, TypeOK, cacheVars,
                        callVars, history
<1>2. CASE Reload
      BY <1>2, <1>0 DEF Reload, EndWorkers, Ending, Goes, StaleInv, NotStale, PlacesInv, TypeOK,
                        cacheVars, callVars, history
<1>3. ASSUME NEW p \in Actors, Awaited(p)
      PROVE  StaleInv'
  <2>0. UNCHANGED <<config, version, since, unlucky, got, read, awaited>>
        BY <1>3 DEF Awaited, cacheVars, callVars, history
  <2>1. CASE Goes(p, "checking")
        BY <2>0, <2>1, MovesYoung
  <2>2. CASE \E to \in {"failing", "endTracker", "failed"} : Goes(p, to)
        BY <2>0, <2>2, MovesYoung
  <2>3. QED
        BY <1>3, <2>1, <2>2, ThrowsGoes DEF Awaited
<1>4. ASSUME NEW p \in Actors, CheckState(p)
      PROVE  StaleInv'
      BY <1>4, <1>0 DEF CheckState, Returns, Goes, Valid, StaleInv, NotStale, PlacesInv, TypeOK,
                        cacheVars, callVars, history
<1>5. ASSUME NEW p \in Actors, Destroyed(p)
      PROVE  StaleInv'
      BY <1>5, <1>0 DEF Destroyed, DestroyFired, CleanedUp, Ending, Goes, StaleInv, NotStale,
                        PlacesInv, TypeOK, cacheVars, callVars, history
<1>6. ASSUME NEW p \in Actors, DestroyThrows(p)
      PROVE  StaleInv'
  <2>0. UNCHANGED <<config, version, since, unlucky, got, read, awaited>>
        BY <1>6 DEF DestroyThrows, cacheVars, callVars, history
  <2>1. CASE Goes(p, "done")
        BY <2>0, <2>1, MovesYoung
  <2>2. CASE \E to \in {"failing", "endTracker", "failed"} : Goes(p, to)
        BY <2>0, <2>2, MovesYoung
  <2>3. QED
        BY <1>6, <2>1, <2>2, ThrowsGoes DEF DestroyThrows
<1>7. ASSUME NEW p \in Actors, ReadProject(p)
      PROVE  StaleInv'
      BY <1>7, <1>0 DEF ReadProject, Goes, Exists, StaleInv, NotStale, PlacesInv, TypeOK, cacheVars,
                        callVars, history
<1>8. ASSUME NEW p \in Actors, CreateContainer(p)
      PROVE  StaleInv'
  <2>0. /\ p \in Callers /\ promise[p] = "none" /\ p \in Containers /\ pc[p] = "creating"
        /\ pc' = [pc EXCEPT ![p] = "joining"] /\ read' = [read EXCEPT ![p] = 0]
        /\ UNCHANGED <<config, since, got>>
        BY <1>8, <1>0 DEF CreateContainer, Goes, PlacesInv, Before
  <2>1. pc'[p] = "joining" /\ \A x \in Actors : x # p => pc'[x] = pc[x] /\ read'[x] = read[x]
        BY <2>0 DEF TypeOK
  <2>2. p \in Requests => since[p] <= read[p]
        BY <2>0 DEF StaleInv
  <2>3. \A x \in Actors : x # p => awaited'[x] = awaited[x]
        BY <1>8 DEF CreateContainer, TypeOK
  <2>4. /\ (\A q \in Requests : config = 0 \/ since[q] <= config)'
        /\ (\A q \in Requests : pc[q] = "idle" => got[q] = None)'
        /\ (\A q \in Requests : pc[q] = "creating" => since[q] <= read[q])'
        BY <1>0, <2>0, <2>1 DEF StaleInv
  <2>5. CASE Caches /\ cache # None
    <3>1. awaited'[p] = cache /\ unlucky' = (unlucky \/ version[cache] < read[p]) /\ version' = version
          BY <1>8, <2>5 DEF CreateContainer, TypeOK
    <3>2. ~unlucky' => ~unlucky /\ version[cache] >= read[p]
      <4>1. ~unlucky' => ~unlucky /\ ~(version[cache] < read[p])
            BY <3>1
      <4>2. version[cache] \in Nat /\ read[p] \in Nat
            BY <1>0, <2>0, <2>5 DEF TypeOK
      <4>3. ~(version[cache] < read[p]) => version[cache] >= read[p]
            BY <4>2
      <4>4. QED
            BY <4>1, <4>3
    <3>3. ~unlucky' /\ p \in Requests => version[cache] >= since[p]
          BY <2>2, <2>5, <3>2 DEF TypeOK
    <3>4. (~unlucky => \A q \in Requests : pc[q] = "joining" => version[awaited[q]] >= since[q])'
          BY <1>0, <2>0, <2>1, <2>3, <3>1, <3>2, <3>3 DEF StaleInv
    <3>5. NotStale'
          BY <2>0, <3>1, <3>2 DEF StaleInv, NotStale
    <3>6. QED
          BY <2>4, <3>4, <3>5 DEF StaleInv
  <2>6. CASE ~(Caches /\ cache # None)
    <3>1. awaited'[p] = p /\ unlucky' = unlucky /\ version' = [version EXCEPT ![p] = read[p]]
          BY <1>8, <2>6 DEF CreateContainer, TypeOK
    <3>2. version'[p] = read[p] /\ \A c \in Containers : c # p => version'[c] = version[c]
          BY <2>0, <3>1 DEF TypeOK
    <3>3. \A x \in Actors : (awaited[x] # None => awaited[x] # p) /\ (got[x] # None => got[x] # p)
          BY <2>0 DEF PlacesInv
    <3>4. \A x \in Actors : pc[x] = "joining" => version'[awaited[x]] = version[awaited[x]]
          BY <3>2, <3>3 DEF PlacesInv, TypeOK
    <3>5. (~unlucky => \A q \in Requests : pc[q] = "joining" => version[awaited[q]] >= since[q])'
          BY <1>0, <2>0, <2>1, <2>2, <2>3, <3>1, <3>2, <3>4 DEF StaleInv, TypeOK
    <3>6. \A x \in Actors : got[x] # None => version'[got[x]] = version[got[x]]
          BY <3>2, <3>3 DEF TypeOK
    <3>7. NotStale'
          BY <1>0, <2>0, <3>1, <3>6 DEF StaleInv, NotStale
    <3>8. QED
          BY <2>4, <3>5, <3>7 DEF StaleInv
  <2>7. QED
        BY <2>5, <2>6
<1>9. ASSUME NEW p \in Actors, Joined(p)
      PROVE  StaleInv'
  <2>0. UNCHANGED <<config, version, since, unlucky, read>> /\ pc[p] = "joining"
        BY <1>9 DEF Joined, cacheVars, history
  <2>1. CASE Returns(p, awaited[p])
    <3>1. got' = [got EXCEPT ![p] = awaited[p]] /\ awaited' = [awaited EXCEPT ![p] = None]
          BY <2>1, ReturnsGoes
    <3>2. ~unlucky /\ p \in Requests => version[awaited[p]] >= since[p]
          BY <2>0 DEF StaleInv
    <3>3. got'[p] = awaited[p]
          BY <3>1 DEF TypeOK
    <3>4. CASE Goes(p, "got") \/ Goes(p, "done")
          BY <2>0, <3>1, <3>2, <3>3, <3>4, MovesYoung DEF TypeOK
    <3>5. QED
          BY <2>1, <3>4, ReturnsGoes
  <2>2. CASE UNCHANGED <<awaited, got>> /\ \E to \in {"failing", "endTracker", "failed"} : Goes(p, to)
        BY <2>0, <2>2, MovesYoung
  <2>3. QED
        BY <1>9, <2>1, <2>2, ThrowsGoes DEF Joined
<1>10. ASSUME NEW p \in Actors, FetchProjects(p)
      PROVE  StaleInv'
      BY <1>10, <1>0 DEF FetchProjects, Looks, Goes, StaleInv, NotStale, PlacesInv, TypeOK,
                         cacheVars, callVars, history
<1>11. ASSUME NEW p \in Actors, Refresh(p)
      PROVE  StaleInv'
      BY <1>11, <1>0 DEF Refresh, Goes, Ending, StaleInv, NotStale, PlacesInv, TypeOK, cacheVars,
                         callVars, history
<1>12. ASSUME NEW p \in Actors, Replaced(p)
      PROVE  StaleInv'
  <2>0. UNCHANGED <<config, version, since, unlucky, got, read, awaited>>
        BY <1>12 DEF Replaced, cacheVars, callVars
  <2>1. CASE Goes(p, "done")
        BY <2>0, <2>1, MovesYoung
  <2>2. CASE \E to \in {"failing", "endTracker", "failed"} : Goes(p, to)
        BY <2>0, <2>2, MovesYoung
  <2>3. QED
        BY <1>12, <2>1, <2>2, ThrowsGoes DEF Replaced
<1>13. ASSUME NEW p \in Actors, EndsAfterFailure(p)
      PROVE  StaleInv'
      BY <1>13, <1>0 DEF EndsAfterFailure, EndWorkers, Ending, Goes, StaleInv, NotStale, PlacesInv,
                         TypeOK, cacheVars, callVars, history
<1>14. ASSUME NEW p \in Actors, TrackerEnded(p)
      PROVE  StaleInv'
      BY <1>14, <1>0 DEF TrackerEnded, EndWorkers, Ending, Goes, StaleInv, NotStale, PlacesInv,
                         TypeOK, cacheVars, callVars, history
<1>15. ASSUME NEW p \in Actors, AllEnded(p)
      PROVE  StaleInv'
      BY <1>15, <1>0 DEF AllEnded, Goes, StaleInv, NotStale, PlacesInv, TypeOK, cacheVars, callVars,
                         history
<1>16. ASSUME NEW c \in Containers, Initialized(c)
      PROVE  StaleInv'
      BY <1>16, <1>0 DEF Initialized, StaleInv, NotStale, PlacesInv, TypeOK, cacheVars, callVars,
                         history
<1>17. ASSUME NEW c \in Containers, InitFails(c)
      PROVE  StaleInv'
      BY <1>17, <1>0 DEF InitFails, Spend, StaleInv, NotStale, PlacesInv, TypeOK, cacheVars,
                         callVars, history
<1>18. ASSUME NEW w \in Workers, WorkerStarts(w)
      PROVE  StaleInv'
      BY <1>18, <1>0 DEF WorkerStarts, StaleInv, NotStale, PlacesInv, TypeOK, cacheVars, callVars,
                         history
<1>19. ASSUME NEW w \in Workers, WorkerEnds(w)
      PROVE  StaleInv'
      BY <1>19, <1>0 DEF WorkerEnds, StaleInv, NotStale, PlacesInv, TypeOK, cacheVars, callVars,
                         history
<1>20. CASE WorkerFails
      BY <1>20, <1>0 DEF WorkerFails, Spend, StaleInv, NotStale, PlacesInv, TypeOK, cacheVars,
                         callVars, history
<1>21. CASE EndAll
      BY <1>21, <1>0 DEF EndAll, Spend, Goes, StaleInv, NotStale, PlacesInv, TypeOK, cacheVars,
                         callVars, history
<1>22. CASE Dispose
      BY <1>22, <1>0 DEF Dispose, Spend, Goes, StaleInv, NotStale, PlacesInv, TypeOK, cacheVars,
                         callVars, history
<1>23. CASE Deaf
      BY <1>23, <1>0 DEF Deaf, Spend, StaleInv, NotStale, PlacesInv, TypeOK, cacheVars, callVars,
                         history
<1>24. CASE ListensAgain
      BY <1>24, <1>0 DEF ListensAgain, StaleInv, NotStale, PlacesInv, TypeOK, cacheVars, callVars,
                         history
<1>25. ASSUME NEW v \in 0 .. MaxTroubles + 1, Update(v)
      PROVE  StaleInv'
      BY <1>25, <1>0 DEF Update, Spend, StaleInv, NotStale, PlacesInv, TypeOK, cacheVars, callVars,
                         history
<1>26. CASE UNCHANGED vars
      BY <1>26, <1>0 DEF vars, StaleInv, NotStale, PlacesInv, TypeOK, cacheVars, callVars, history
<1>27. QED
      BY <1>1, <1>2, <1>3, <1>4, <1>5, <1>6, <1>7, <1>8, <1>9, <1>10, <1>11, <1>12, <1>13, <1>14,
         <1>15, <1>16, <1>17, <1>18, <1>19, <1>20, <1>21, <1>22, <1>23, <1>24, <1>25, <1>26
         DEF Next, Answers, Call, Handle, Settles, WorkerSteps

-----------------------------------------------------------------------------
\* Theorems.

LEMMA WInvInit == Init => WInv
<1> SUFFICES ASSUME Init
             PROVE  WInv
    OBVIOUS
<1>1. TypeOK
  <2>1. /\ config \in Nat /\ notices \in Nat /\ left \in 0 .. MaxTroubles
        /\ cache = None /\ running = None /\ base = None /\ doomed = {} /\ registered = {}
        /\ ~disposed /\ listening /\ tracking /\ ~misdeleted /\ ~unlucky
        BY Names DEF Init
  <2>2. /\ disposed \in BOOLEAN /\ listening \in BOOLEAN /\ tracking \in BOOLEAN
        /\ misdeleted \in BOOLEAN /\ unlucky \in BOOLEAN
        BY DEF Init
  <2>3. pc \in [Actors -> Places]
        BY DEF Init, Places
  <2>4. /\ version \in [Containers -> Nat]
        /\ promise \in [Containers -> {"none", "pending", "private", "ready", "failed"}]
        /\ \A c \in Containers : promise[c] # "none" => version[c] > 0
        /\ worker \in [Workers -> {"none", "starting", "live", "over", "failed"}]
        BY DEF Init
  <2>5. /\ awaited \in [Actors -> Containers \cup {None}] /\ got \in [Actors -> Containers \cup {None}]
        /\ read \in [Actors -> Nat] /\ waits \in [Actors -> Workers \cup {None}]
        /\ since \in [Requests -> Nat]
        BY DEF Init
  <2>6. QED
        BY <2>1, <2>2, <2>3, <2>4, <2>5 DEF TypeOK
<1>2. PlacesInv
      BY Names DEF Init, PlacesInv
<1>3. CacheInv
      BY Names DEF Init, CacheInv
<1>4. StaleInv
      BY Names DEF Init, StaleInv, NotStale
<1>5. WorkersAreKnown
      BY DEF Init, WorkersAreKnown
<1>6. QED
      BY <1>1, <1>2, <1>3, <1>4, <1>5 DEF WInv

LEMMA WInvStep == WInv /\ [Next]_vars => WInv'
BY TypeOKStep, PlacesInvStep, CacheInvStep, StaleInvStep, WorkersAreKnownStep DEF WInv

\* The inductive invariant: nobody uses a container that was not created, whoever destroys
\* a container destroys the cached one, and what a request has found is as young as it came.
THEOREM WorkersInvariant == Spec => []WInv
BY WInvInit, WInvStep, PTL DEF Spec

\* Every variable of the resolver and of the supervisor of the workers keeps its type, and
\* no container is made of a deleted project, for any number of callers.
THEOREM WorkersTypeCorrect == Spec => []TypeOK
<1>1. WInv => TypeOK
      BY DEF WInv
<1>2. QED
      BY <1>1, WorkersInvariant, PTL

\* At most one container of the project is announced, and it is the cached one, although
\* nothing keeps two callers from destroying it; a disposed resolver ends up without any.
THEOREM OneContainer == Spec => []CacheIsCoherent
<1>1. WInv => CacheIsCoherent
      BY Names DEF WInv, TypeOK, CacheInv, CacheIsCoherent
<1>2. QED
      BY <1>1, WorkersInvariant, PTL

\* getProjectContainer never returns a configuration that was outdated when it was called,
\* unless the caller joined another one that had read the project before.
THEOREM RequestsAreNotStale == Spec => []NotStale
<1>1. WInv => NotStale
      BY DEF WInv, StaleInv
<1>2. QED
      BY <1>1, WorkersInvariant, PTL

\* Every running worker is the entered one or is being ended, whatever reloads, destroys
\* and ends overlap, as long as no failed start deletes the entry of another worker.
THEOREM WorkersAreFound == Spec => []WorkersAreKnown
<1>1. WInv => WorkersAreKnown
      BY DEF WInv
<1>2. QED
      BY <1>1, WorkersInvariant, PTL

-----------------------------------------------------------------------------
\* No worker is lost: definitions.

\* Who ends everything has stopped listening; what was found ready stays so; no container
\* and no caller is ahead of the project.
CallsInv ==
    /\ \A p \in Actors : pc[p] \in {"failing", "endAgain", "endTracker", "endWorkers", "ended"} => ~listening
    /\ \A p \in Actors : pc[p] = "checking" => promise[awaited[p]] = "ready"
    /\ \A p \in Actors : pc[p] = "got" => promise[got[p]] = "ready"
    /\ config # 0 => \A c \in Containers : version[c] <= config
    /\ config # 0 => \A p \in Actors : read[p] <= config

\* An entry of the supervisor has a worker, that nobody ends, and a container; while anybody
\* listens, its handler awaits a worker that starts and notices one that has failed to.
EntriesInv ==
    /\ running = None <=> base = None
    /\ base # None => promise[base] = "ready"
    /\ running \notin doomed
    /\ \A w \in Workers : w = running \/ w \in doomed => worker[w] # "none"
    /\ \A w \in Workers : pc[w] \in Before \cup {"joining", "got"} => worker[w] = "none"
    /\ \A w \in Workers : worker[w] = "over" => w \in doomed
    /\ \A w \in Workers : worker[w] \in {"starting", "failed"} /\ listening => pc[w] = "replacing"

Undisturbed == ~unlucky /\ config # 0 /\ ~disposed

Present(c) == version[c] = config

\* Every container but the cached one is outdated, and so is the one that is destroyed; a
\* handler about to enter a container has the cached one, unless that was removed.
CachedInv == Undisturbed =>
    /\ \A c \in Containers : promise[c] # "private"
    /\ \A c \in Containers : promise[c] = "ready" /\ c # cache => version[c] < config
    /\ \A p \in Actors : pc[p] \in {"destroying", "removing"} => version[awaited[p]] < config
    /\ \A p \in Handlers : pc[p] = "joining" /\ promise[awaited[p]] = "ready" => cache \in {awaited[p], None}
    /\ \A p \in Handlers : pc[p] = "got" => cache \in {got[p], None}

\* Handler p will enter a worker of the present version, or throw.
Brings(p) ==
    \/ pc[p] \in {"projects", "awaiting", "checking", "destroying", "reading"}
    \/ pc[p] = "creating" /\ read[p] = config
    \/ pc[p] = "joining" /\ Present(awaited[p])
    \/ pc[p] = "got" /\ Present(got[p])
    \/ pc[p] = "replacing" /\ worker[p] = "failed"

HasWorker ==
    /\ running # None /\ worker[running] \in {"starting", "live"}
    /\ Present(base)

\* The project has a worker, or somebody is going to start it.
Expected == notices > 0 \/ (\E p \in Handlers : Brings(p)) \/ HasWorker
ExpectedInv == Undisturbed /\ listening => Expected

LostInv == WInv /\ CallsInv /\ EntriesInv /\ CachedInv /\ ExpectedInv
-----------------------------------------------------------------------------
\* No worker is lost: steps.

\* Who throws: a handler ends the tracker first, anybody else is done.
LEMMA ThrowsEnds ==
    ASSUME TypeOK, NEW p \in Actors, Throws(p)
    PROVE  \E to \in {"failing", "endTracker", "failed"} :
              /\ pc' = [pc EXCEPT ![p] = to] /\ pc'[p] = to /\ \A x \in Actors : x # p => pc'[x] = pc[x]
              /\ to # "failed" => ~listening'
              /\ listening' => listening /\ p \notin Handlers
<1>1. \E to \in {"failing", "endTracker", "failed"} : Goes(p, to) /\ (to # "failed" => p \in Handlers)
      BY Names DEF Throws, Handlers
<1>2. (p \in Handlers => ~listening') /\ (listening' => listening /\ p \notin Handlers)
      BY DEF Throws
<1>3. QED
      BY <1>1, <1>2 DEF Goes, TypeOK

LEMMA ThrowsCalls ==
    ASSUME TypeOK, CallsInv, NEW p \in Actors, Throws(p), UNCHANGED <<config, version, promise, awaited, read, got>>
    PROVE  CallsInv'
<1>1. PICK to \in {"failing", "endTracker", "failed"} :
         /\ pc'[p] = to /\ \A x \in Actors : x # p => pc'[x] = pc[x]
         /\ to # "failed" => ~listening'
         /\ listening' => listening
      BY ThrowsEnds
<1>2. QED
      BY <1>1 DEF CallsInv

LEMMA ThrowsEntries ==
    ASSUME TypeOK, EntriesInv, NEW p \in Actors, Throws(p), UNCHANGED <<promise, running, base, worker, doomed>>,
           pc[p] # "replacing"
    PROVE  EntriesInv'
<1>1. PICK to \in {"failing", "endTracker", "failed"} :
         /\ pc'[p] = to /\ \A x \in Actors : x # p => pc'[x] = pc[x]
         /\ listening' => listening
      BY ThrowsEnds
<1>2. Workers \subseteq Actors
      BY Names
<1>3. QED
      BY <1>1, <1>2 DEF EntriesInv, Before


LEMMA CallsInvStep == TypeOK /\ PlacesInv /\ CacheInv /\ CallsInv /\ [Next]_vars => CallsInv'
<1> SUFFICES ASSUME TypeOK /\ PlacesInv /\ CacheInv /\ CallsInv, [Next]_vars
             PROVE  CallsInv'
    OBVIOUS
<1>0. /\ Containers = Callers /\ Workers = Handlers /\ Handlers \subseteq Callers /\ Callers \subseteq Actors
      /\ None \notin Actors /\ Start \in Handlers /\ Ender \in Actors /\ Disposer \in Actors
      /\ Reloads \subseteq Handlers /\ Requests \subseteq Callers /\ MaxTroubles \in Nat
      BY Names
<1>1. ASSUME NEW q \in Requests, Request(q)
      PROVE  CallsInv'
      BY <1>1, <1>0 DEF Request, Looks, Goes, CallsInv, PlacesInv, Before, CacheInv, Settled,
         TypeOK, cacheVars, callVars, workerVars, trackerVars, history
<1>2. CASE Reload
      BY <1>2, <1>0 DEF Reload, EndWorkers, Ending, Goes, CallsInv, PlacesInv, Before, CacheInv,
         Settled, TypeOK, cacheVars, callVars, workerVars, trackerVars, history
<1>3. ASSUME NEW p \in Actors, Awaited(p)
      PROVE  CallsInv'
  <2>1. CASE promise[awaited[p]] = "ready"
        BY <1>3, <2>1 DEF Awaited, Goes, CallsInv, TypeOK, cacheVars, callVars, workerVars, trackerVars, history
  <2>2. CASE promise[awaited[p]] # "ready"
        BY <1>3, <2>2, ThrowsCalls DEF Awaited, cacheVars, callVars
  <2>3. QED
        BY <2>1, <2>2
<1>4. ASSUME NEW p \in Actors, CheckState(p)
      PROVE  CallsInv'
      BY <1>4, <1>0 DEF CheckState, Returns, Goes, Valid, CallsInv, PlacesInv, Before, CacheInv,
         Settled, TypeOK, cacheVars, callVars, workerVars, trackerVars, history
<1>5. ASSUME NEW p \in Actors, Destroyed(p)
      PROVE  CallsInv'
      BY <1>5, <1>0 DEF Destroyed, DestroyFired, CleanedUp, Ending, Goes, CallsInv, PlacesInv,
         Before, CacheInv, Settled, TypeOK, cacheVars, callVars, workerVars, trackerVars, history
<1>6. ASSUME NEW p \in Actors, DestroyThrows(p)
      PROVE  CallsInv'
  <2>1. CASE p = Disposer
        BY <1>6, <2>1 DEF DestroyThrows, Goes, CallsInv, TypeOK, cacheVars, callVars, trackerVars
  <2>2. CASE p # Disposer
        BY <1>6, <2>2, ThrowsCalls DEF DestroyThrows, cacheVars, callVars
  <2>3. QED
        BY <2>1, <2>2
<1>7. ASSUME NEW p \in Actors, ReadProject(p)
      PROVE  CallsInv'
      BY <1>7, <1>0 DEF ReadProject, Goes, Exists, CallsInv, PlacesInv, Before, CacheInv, Settled,
         TypeOK, cacheVars, callVars, workerVars, trackerVars, history
<1>8. ASSUME NEW p \in Actors, CreateContainer(p)
      PROVE  CallsInv'
      BY <1>8, <1>0 DEF CreateContainer, Goes, Caches, CallsInv, PlacesInv, Before, CacheInv,
         Settled, TypeOK, cacheVars, callVars, workerVars, trackerVars, history
<1>9. ASSUME NEW p \in Actors, Joined(p)
      PROVE  CallsInv'
  <2>1. CASE promise[awaited[p]] = "ready"
        BY <1>9, <2>1 DEF Joined, Returns, Goes, CallsInv, TypeOK, cacheVars, trackerVars
  <2>2. CASE promise[awaited[p]] # "ready"
        BY <1>9, <2>2, ThrowsCalls DEF Joined, cacheVars
  <2>3. QED
        BY <2>1, <2>2
<1>10. ASSUME NEW p \in Actors, FetchProjects(p)
      PROVE  CallsInv'
      BY <1>10, <1>0 DEF FetchProjects, Looks, Goes, CallsInv, PlacesInv, Before, CacheInv, Settled,
         TypeOK, cacheVars, callVars, workerVars, trackerVars, history
<1>11. ASSUME NEW p \in Actors, Refresh(p)
      PROVE  CallsInv'
      BY <1>11, <1>0 DEF Refresh, Goes, Ending, CallsInv, PlacesInv, Before, CacheInv, Settled,
         TypeOK, cacheVars, callVars, workerVars, trackerVars, history
<1>12. ASSUME NEW p \in Actors, Replaced(p)
      PROVE  CallsInv'
  <2>1. CASE Throws(p)
        BY <1>12, <2>1, ThrowsCalls DEF Replaced, cacheVars, callVars
  <2>2. CASE ~Throws(p)
        BY <1>12, <2>2 DEF Replaced, Goes, CallsInv, TypeOK, cacheVars, callVars, trackerVars
  <2>3. QED
        BY <2>1, <2>2
<1>13. ASSUME NEW p \in Actors, EndsAfterFailure(p)
      PROVE  CallsInv'
      BY <1>13, <1>0 DEF EndsAfterFailure, EndWorkers, Ending, Goes, CallsInv, PlacesInv, Before,
         CacheInv, Settled, TypeOK, cacheVars, callVars, workerVars, trackerVars, history
<1>14. ASSUME NEW p \in Actors, TrackerEnded(p)
      PROVE  CallsInv'
      BY <1>14, <1>0 DEF TrackerEnded, EndWorkers, Ending, Goes, CallsInv, PlacesInv, Before,
         CacheInv, Settled, TypeOK, cacheVars, callVars, workerVars, trackerVars, history
<1>15. ASSUME NEW p \in Actors, AllEnded(p)
      PROVE  CallsInv'
      BY <1>15, <1>0 DEF AllEnded, Goes, CallsInv, PlacesInv, Before, CacheInv, Settled, TypeOK,
         cacheVars, callVars, workerVars, trackerVars, history
<1>16. ASSUME NEW c \in Containers, Initialized(c)
      PROVE  CallsInv'
      BY <1>16, <1>0 DEF Initialized, CallsInv, PlacesInv, Before, CacheInv, Settled, TypeOK,
         cacheVars, callVars, workerVars, trackerVars, history
<1>17. ASSUME NEW c \in Containers, InitFails(c)
      PROVE  CallsInv'
      BY <1>17, <1>0 DEF InitFails, Spend, CallsInv, PlacesInv, Before, CacheInv, Settled, TypeOK,
         cacheVars, callVars, workerVars, trackerVars, history
<1>18. ASSUME NEW w \in Workers, WorkerStarts(w)
      PROVE  CallsInv'
      BY <1>18, <1>0 DEF WorkerStarts, CallsInv, PlacesInv, Before, CacheInv, Settled, TypeOK,
         cacheVars, callVars, workerVars, trackerVars, history
<1>19. ASSUME NEW w \in Workers, WorkerEnds(w)
      PROVE  CallsInv'
      BY <1>19, <1>0 DEF WorkerEnds, CallsInv, PlacesInv, Before, CacheInv, Settled, TypeOK,
         cacheVars, callVars, workerVars, trackerVars, history
<1>20. CASE WorkerFails
      BY <1>20, <1>0 DEF WorkerFails, Spend, CallsInv, PlacesInv, Before, CacheInv, Settled, TypeOK,
         cacheVars, callVars, workerVars, trackerVars, history
<1>21. CASE EndAll
      BY <1>21, <1>0 DEF EndAll, Spend, Goes, CallsInv, PlacesInv, Before, CacheInv, Settled,
         TypeOK, cacheVars, callVars, workerVars, trackerVars, history
<1>22. CASE Dispose
      BY <1>22, <1>0 DEF Dispose, Spend, Goes, CallsInv, PlacesInv, Before, CacheInv, Settled,
         TypeOK, cacheVars, callVars, workerVars, trackerVars, history
<1>23. CASE Deaf
      BY <1>23, <1>0 DEF Deaf, Spend, CallsInv, PlacesInv, Before, CacheInv, Settled, TypeOK,
         cacheVars, callVars, workerVars, trackerVars, history
<1>24. CASE ListensAgain
      BY <1>24, <1>0 DEF ListensAgain, CallsInv, PlacesInv, Before, CacheInv, Settled, TypeOK,
         cacheVars, callVars, workerVars, trackerVars, history
<1>25. ASSUME NEW v \in 0 .. MaxTroubles + 1, Update(v)
      PROVE  CallsInv'
      BY <1>25, <1>0 DEF Update, Spend, CallsInv, PlacesInv, Before, CacheInv, Settled, TypeOK,
         cacheVars, callVars, workerVars, trackerVars, history
<1>26. CASE UNCHANGED vars
      BY <1>26, <1>0 DEF vars, CallsInv, PlacesInv, Before, CacheInv, Settled, TypeOK, cacheVars,
         callVars, workerVars, trackerVars, history
<1>27. QED
      BY <1>1, <1>2, <1>3, <1>4, <1>5, <1>6, <1>7, <1>8, <1>9, <1>10, <1>11, <1>12, <1>13, <1>14,
         <1>15, <1>16, <1>17, <1>18, <1>19, <1>20, <1>21, <1>22, <1>23, <1>24, <1>25, <1>26
         DEF Next, Answers, Call, Handle, Settles, WorkerSteps

LEMMA EntriesInvStep == TypeOK /\ PlacesInv /\ CacheInv /\ CallsInv /\ EntriesInv /\ [Next]_vars => EntriesInv'
<1> SUFFICES ASSUME TypeOK /\ PlacesInv /\ CacheInv /\ CallsInv /\ EntriesInv, [Next]_vars
             PROVE  EntriesInv'
    OBVIOUS
<1>0. /\ Containers = Callers /\ Workers = Handlers /\ Handlers \subseteq Callers /\ Callers \subseteq Actors
      /\ None \notin Actors /\ Start \in Handlers /\ Ender \in Actors /\ Disposer \in Actors
      /\ Reloads \subseteq Handlers /\ Requests \subseteq Callers /\ MaxTroubles \in Nat
      BY Names
<1>1. ASSUME NEW q \in Requests, Request(q)
      PROVE  EntriesInv'
      BY <1>1, <1>0 DEF Request, Looks, Goes, EntriesInv, CallsInv, PlacesInv, Before, TypeOK,
         cacheVars, callVars, workerVars, trackerVars, history
<1>2. CASE Reload
      BY <1>2, <1>0 DEF Reload, EndWorkers, Ending, Goes, EntriesInv, CallsInv, PlacesInv, Before,
         TypeOK, cacheVars, callVars, workerVars, trackerVars, history
<1>3. ASSUME NEW p \in Actors, Awaited(p)
      PROVE  EntriesInv'
  <2>1. CASE promise[awaited[p]] = "ready"
        BY <1>0, <1>3, <2>1 DEF Awaited, Goes, EntriesInv, Before, TypeOK, cacheVars, workerVars, trackerVars
  <2>2. CASE promise[awaited[p]] # "ready"
        BY <1>3, <2>2, ThrowsEntries DEF Awaited, cacheVars, workerVars
  <2>3. QED
        BY <2>1, <2>2
<1>4. ASSUME NEW p \in Actors, CheckState(p)
      PROVE  EntriesInv'
      BY <1>4, <1>0 DEF CheckState, Returns, Goes, Valid, EntriesInv, CallsInv, PlacesInv, Before,
         TypeOK, cacheVars, callVars, workerVars, trackerVars, history
<1>5. ASSUME NEW p \in Actors, Destroyed(p)
      PROVE  EntriesInv'
      BY <1>5, <1>0 DEF Destroyed, DestroyFired, CleanedUp, Ending, Goes, EntriesInv, CallsInv,
         PlacesInv, Before, TypeOK, cacheVars, callVars, workerVars, trackerVars, history
<1>6. ASSUME NEW p \in Actors, DestroyThrows(p)
      PROVE  EntriesInv'
  <2>1. CASE p = Disposer
        BY <1>0, <1>6, <2>1 DEF DestroyThrows, Goes, EntriesInv, Before, TypeOK, cacheVars, workerVars, trackerVars
  <2>2. CASE p # Disposer
        BY <1>6, <2>2, ThrowsEntries DEF DestroyThrows, cacheVars, workerVars
  <2>3. QED
        BY <2>1, <2>2
<1>7. ASSUME NEW p \in Actors, ReadProject(p)
      PROVE  EntriesInv'
      BY <1>7, <1>0 DEF ReadProject, Goes, Exists, EntriesInv, CallsInv, PlacesInv, Before, TypeOK,
         cacheVars, callVars, workerVars, trackerVars, history
<1>8. ASSUME NEW p \in Actors, CreateContainer(p)
      PROVE  EntriesInv'
      BY <1>8, <1>0 DEF CreateContainer, Goes, Caches, EntriesInv, CallsInv, PlacesInv, Before,
         TypeOK, cacheVars, callVars, workerVars, trackerVars, history
<1>9. ASSUME NEW p \in Actors, Joined(p)
      PROVE  EntriesInv'
  <2>1. CASE promise[awaited[p]] = "ready"
        BY <1>0, <1>9, <2>1 DEF Joined, Returns, Goes, EntriesInv, Before, TypeOK, cacheVars, workerVars, trackerVars
  <2>2. CASE promise[awaited[p]] # "ready"
        BY <1>9, <2>2, ThrowsEntries DEF Joined, cacheVars, workerVars
  <2>3. QED
        BY <2>1, <2>2
<1>10. ASSUME NEW p \in Actors, FetchProjects(p)
      PROVE  EntriesInv'
      BY <1>10, <1>0 DEF FetchProjects, Looks, Goes, EntriesInv, CallsInv, PlacesInv, Before,
         TypeOK, cacheVars, callVars, workerVars, trackerVars, history
<1>11. ASSUME NEW p \in Actors, Refresh(p)
      PROVE  EntriesInv'
      BY <1>11, <1>0 DEF Refresh, Goes, Ending, EntriesInv, CallsInv, PlacesInv, Before, TypeOK,
         cacheVars, callVars, workerVars, trackerVars, history
<1>12. ASSUME NEW p \in Actors, Replaced(p)
      PROVE  EntriesInv'
  <2>0. p \in Handlers /\ pc[p] = "replacing" /\ UNCHANGED <<promise, worker, doomed>>
        BY <1>12 DEF Replaced, PlacesInv, cacheVars
  <2>1. CASE Throws(p) /\ running' = None /\ base' = None
    <3>1. ~listening' /\ \A x \in Actors : x # p => pc'[x] = pc[x]
          BY <2>0, <2>1, ThrowsEnds
    <3>2. pc'[p] \in {"failing", "endTracker", "failed"}
          BY <2>1, ThrowsEnds
    <3>3. None \notin Workers /\ None \notin doomed
          BY <1>0 DEF TypeOK
    <3>4. QED
          BY <1>0, <2>0, <2>1, <3>1, <3>2, <3>3 DEF EntriesInv, Before
  <2>2. CASE Goes(p, "done") /\ UNCHANGED <<running, base, listening>>
                 /\ worker[p] \notin {"starting", "failed"}
        BY <1>0, <2>0, <2>2 DEF Goes, EntriesInv, Before, TypeOK
  <2>3. ~HasFailed(p) /\ ~HasFailed(waits[p]) => worker[p] \notin {"starting", "failed"}
        BY <1>0, <1>12, <2>0 DEF Replaced, Decided, HasFailed, Handlers, Workers
  <2>4. QED
        BY <1>12, <2>1, <2>2, <2>3 DEF Replaced, trackerVars
<1>13. ASSUME NEW p \in Actors, EndsAfterFailure(p)
      PROVE  EntriesInv'
      BY <1>13, <1>0 DEF EndsAfterFailure, EndWorkers, Ending, Goes, EntriesInv, CallsInv,
         PlacesInv, Before, TypeOK, cacheVars, callVars, workerVars, trackerVars, history
<1>14. ASSUME NEW p \in Actors, TrackerEnded(p)
      PROVE  EntriesInv'
      BY <1>14, <1>0 DEF TrackerEnded, EndWorkers, Ending, Goes, EntriesInv, CallsInv, PlacesInv,
         Before, TypeOK, cacheVars, callVars, workerVars, trackerVars, history
<1>15. ASSUME NEW p \in Actors, AllEnded(p)
      PROVE  EntriesInv'
      BY <1>15, <1>0 DEF AllEnded, Goes, EntriesInv, CallsInv, PlacesInv, Before, TypeOK, cacheVars,
         callVars, workerVars, trackerVars, history
<1>16. ASSUME NEW c \in Containers, Initialized(c)
      PROVE  EntriesInv'
      BY <1>16, <1>0 DEF Initialized, EntriesInv, CallsInv, PlacesInv, Before, TypeOK, cacheVars,
         callVars, workerVars, trackerVars, history
<1>17. ASSUME NEW c \in Containers, InitFails(c)
      PROVE  EntriesInv'
      BY <1>17, <1>0 DEF InitFails, Spend, EntriesInv, CallsInv, PlacesInv, Before, TypeOK,
         cacheVars, callVars, workerVars, trackerVars, history
<1>18. ASSUME NEW w \in Workers, WorkerStarts(w)
      PROVE  EntriesInv'
      BY <1>18, <1>0 DEF WorkerStarts, EntriesInv, CallsInv, PlacesInv, Before, TypeOK, cacheVars,
         callVars, workerVars, trackerVars, history
<1>19. ASSUME NEW w \in Workers, WorkerEnds(w)
      PROVE  EntriesInv'
      BY <1>19, <1>0 DEF WorkerEnds, EntriesInv, CallsInv, PlacesInv, Before, TypeOK, cacheVars,
         callVars, workerVars, trackerVars, history
<1>20. CASE WorkerFails
      BY <1>20, <1>0 DEF WorkerFails, Spend, EntriesInv, CallsInv, PlacesInv, Before, TypeOK,
         cacheVars, callVars, workerVars, trackerVars, history
<1>21. CASE EndAll
      BY <1>21, <1>0 DEF EndAll, Spend, Goes, EntriesInv, CallsInv, PlacesInv, Before, TypeOK,
         cacheVars, callVars, workerVars, trackerVars, history
<1>22. CASE Dispose
      BY <1>22, <1>0 DEF Dispose, Spend, Goes, EntriesInv, CallsInv, PlacesInv, Before, TypeOK,
         cacheVars, callVars, workerVars, trackerVars, history
<1>23. CASE Deaf
      BY <1>23, <1>0 DEF Deaf, Spend, EntriesInv, CallsInv, PlacesInv, Before, TypeOK, cacheVars,
         callVars, workerVars, trackerVars, history
<1>24. CASE ListensAgain
      BY <1>24, <1>0 DEF ListensAgain, EntriesInv, CallsInv, PlacesInv, Before, TypeOK, cacheVars,
         callVars, workerVars, trackerVars, history
<1>25. ASSUME NEW v \in 0 .. MaxTroubles + 1, Update(v)
      PROVE  EntriesInv'
      BY <1>25, <1>0 DEF Update, Spend, EntriesInv, CallsInv, PlacesInv, Before, TypeOK, cacheVars,
         callVars, workerVars, trackerVars, history
<1>26. CASE UNCHANGED vars
      BY <1>26, <1>0 DEF vars, EntriesInv, CallsInv, PlacesInv, Before, TypeOK, cacheVars, callVars,
         workerVars, trackerVars, history
<1>27. QED
      BY <1>1, <1>2, <1>3, <1>4, <1>5, <1>6, <1>7, <1>8, <1>9, <1>10, <1>11, <1>12, <1>13, <1>14,
         <1>15, <1>16, <1>17, <1>18, <1>19, <1>20, <1>21, <1>22, <1>23, <1>24, <1>25, <1>26
         DEF Next, Answers, Call, Handle, Settles, WorkerSteps

\* What disturbs stays.
LEMMA UndisturbedBefore == TypeOK /\ [Next]_vars /\ Undisturbed' => Undisturbed
<1> SUFFICES ASSUME TypeOK, [Next]_vars, Undisturbed'
             PROVE  Undisturbed
    OBVIOUS
<1>1. ASSUME NEW v \in 0 .. MaxTroubles + 1, Update(v)
      PROVE  Undisturbed
      BY <1>1 DEF Update, cacheVars, Undisturbed
<1>2. CASE Dispose
      BY <1>2 DEF Dispose, history, Undisturbed
<1>3. CASE Deaf
      BY <1>3 DEF Deaf, cacheVars, Undisturbed
<1>4. ASSUME NEW p \in Actors, Call(p)
      PROVE  Undisturbed
  <2>1. CASE CheckState(p)
        BY <2>1 DEF CheckState, cacheVars, Undisturbed
  <2>2. CASE CreateContainer(p)
        BY <2>2 DEF CreateContainer, Undisturbed
  <2>3. CASE Awaited(p) \/ Destroyed(p) \/ DestroyThrows(p) \/ ReadProject(p) \/ Joined(p)
        BY <2>3 DEF Awaited, Destroyed, DestroyThrows, ReadProject, Joined, cacheVars, history, Undisturbed
  <2>4. QED
        BY <1>4, <2>1, <2>2, <2>3 DEF Call
<1>5. ASSUME NEW p \in Actors, Handle(p)
      PROVE  Undisturbed
      BY <1>5 DEF Handle, FetchProjects, Refresh, Replaced, EndsAfterFailure, TrackerEnded, AllEnded,
                  cacheVars, history, Undisturbed
<1>6. CASE \/ \E q \in Requests : Request(q)
           \/ Reload \/ WorkerFails \/ EndAll \/ ListensAgain
           \/ \E c \in Containers : Settles(c)
           \/ \E w \in Workers : WorkerSteps(w)
           \/ UNCHANGED vars
      BY <1>6 DEF Request, Reload, WorkerFails, EndAll, ListensAgain, Settles, Initialized, InitFails,
                  WorkerSteps, WorkerStarts, WorkerEnds, vars, cacheVars, history, Undisturbed
<1>7. QED
      BY <1>1, <1>2, <1>3, <1>4, <1>5, <1>6 DEF Next, Answers

LEMMA ThrowsCached ==
    ASSUME TypeOK, CachedInv, NEW p \in Actors, Throws(p),
           UNCHANGED <<config, cache, version, promise, disposed, awaited, got, unlucky>>
    PROVE  CachedInv'
<1>1. PICK to \in {"failing", "endTracker", "failed"} :
         /\ pc'[p] = to /\ \A x \in Actors : x # p => pc'[x] = pc[x]
      BY ThrowsEnds
<1>2. Handlers \subseteq Actors
      BY Names
<1>3. QED
      BY <1>1, <1>2 DEF CachedInv, Undisturbed

LEMMA CachedInvStep == TypeOK /\ PlacesInv /\ CacheInv /\ CallsInv /\ CachedInv /\ [Next]_vars => CachedInv'
<1> SUFFICES ASSUME TypeOK /\ PlacesInv /\ CacheInv /\ CallsInv /\ CachedInv, [Next]_vars
             PROVE  CachedInv'
    OBVIOUS
<1>0. /\ Containers = Callers /\ Workers = Handlers /\ Handlers \subseteq Callers /\ Callers \subseteq Actors
      /\ None \notin Actors /\ Start \in Handlers /\ Ender \in Actors /\ Disposer \in Actors
      /\ Reloads \subseteq Handlers /\ Requests \subseteq Callers /\ MaxTroubles \in Nat
      BY Names
<1>1. ASSUME NEW q \in Requests, Request(q)
      PROVE  CachedInv'
      BY <1>1, <1>0 DEF Request, Looks, Goes, CachedInv, Undisturbed, CallsInv, PlacesInv,
         Before, CacheInv, Settled, Quiet, Continues, TypeOK, cacheVars, callVars, workerVars,
         trackerVars, history
<1>2. CASE Reload
      BY <1>2, <1>0 DEF Reload, EndWorkers, Ending, Goes, CachedInv, Undisturbed, CallsInv,
         PlacesInv, Before, CacheInv, Settled, Quiet, Continues, TypeOK, cacheVars, callVars,
         workerVars, trackerVars, history
<1>3. ASSUME NEW p \in Actors, Awaited(p)
      PROVE  CachedInv'
  <2>1. CASE promise[awaited[p]] = "ready"
        BY <1>0, <1>3, <2>1 DEF Awaited, Goes, CachedInv, Undisturbed, TypeOK, cacheVars, callVars, history, history
  <2>2. CASE promise[awaited[p]] # "ready"
        BY <1>0, <1>3, <2>2, ThrowsCached DEF Awaited, cacheVars, callVars, history
  <2>3. QED
        BY <2>1, <2>2
<1>4. ASSUME NEW p \in Actors, CheckState(p)
      PROVE  CachedInv'
  <2>0. pc[p] = "checking" /\ promise[awaited[p]] = "ready" /\ awaited[p] \in Containers /\ p \in Callers
        BY <1>4 DEF CheckState, CallsInv, PlacesInv, TypeOK
  <2>1. UNCHANGED <<config, cache, version, promise, disposed>> /\ (~unlucky' => ~unlucky)
        BY <1>4 DEF CheckState, cacheVars
  <2>2. CASE Valid(p)
    <3>1. Undisturbed' => awaited[p] = cache
          BY <2>0, <2>1, <2>2 DEF Valid, CachedInv, Undisturbed, TypeOK
    <3>2. QED
          BY <1>0, <1>4, <2>1, <2>2, <3>1 DEF CheckState, Returns, Goes, CachedInv, Undisturbed, TypeOK
  <2>3. CASE ~Valid(p)
    <3>1. Undisturbed' /\ cache # None => cache = awaited[p] /\ version[cache] < config
      <4>1. unlucky' = (unlucky \/ cache \notin {None, awaited[p]})
            BY <1>4, <2>3 DEF CheckState
      <4>2. Undisturbed' => cache \in {None, awaited[p]} /\ config # 0
            BY <2>1, <4>1 DEF Undisturbed
      <4>3. config # 0 => version[awaited[p]] < config
            BY <2>0, <2>3 DEF Valid, TypeOK
      <4>4. QED
            BY <4>2, <4>3
    <3>2. QED
          BY <1>0, <1>4, <2>1, <2>3, <3>1 DEF CheckState, Goes, CachedInv, Undisturbed, TypeOK
  <2>4. QED
        BY <2>2, <2>3
<1>5. ASSUME NEW p \in Actors, Destroyed(p)
      PROVE  CachedInv'
      BY <1>5, <1>0 DEF Destroyed, DestroyFired, CleanedUp, Ending, Goes, CachedInv,
         Undisturbed, CallsInv, PlacesInv, Before, CacheInv, Settled, Quiet, Continues, TypeOK,
         cacheVars, callVars, workerVars, trackerVars, history
<1>6. ASSUME NEW p \in Actors, DestroyThrows(p)
      PROVE  CachedInv'
  <2>1. CASE p = Disposer
        BY <1>0, <1>6, <2>1 DEF DestroyThrows, Goes, CachedInv, Undisturbed, TypeOK, cacheVars, callVars, history, trackerVars
  <2>2. CASE p # Disposer
        BY <1>0, <1>6, <2>2, ThrowsCached DEF DestroyThrows, cacheVars, callVars, history
  <2>3. QED
        BY <2>1, <2>2
<1>7. ASSUME NEW p \in Actors, ReadProject(p)
      PROVE  CachedInv'
      BY <1>7, <1>0 DEF ReadProject, Goes, Exists, CachedInv, Undisturbed, CallsInv,
         PlacesInv, Before, CacheInv, Settled, Quiet, Continues, TypeOK, cacheVars, callVars,
         workerVars, trackerVars, history
<1>8. ASSUME NEW p \in Actors, CreateContainer(p)
      PROVE  CachedInv'
      BY <1>8, <1>0 DEF CreateContainer, Goes, Caches, CachedInv, Undisturbed, CallsInv,
         PlacesInv, Before, CacheInv, Settled, Quiet, Continues, TypeOK, cacheVars, callVars,
         workerVars, trackerVars, history
<1>9. ASSUME NEW p \in Actors, Joined(p)
      PROVE  CachedInv'
  <2>1. CASE promise[awaited[p]] = "ready"
        BY <1>0, <1>9, <2>1 DEF Joined, Returns, Goes, CachedInv, Undisturbed, CallsInv, TypeOK, cacheVars, history
  <2>2. CASE promise[awaited[p]] # "ready"
        BY <1>9, <2>2, ThrowsCached DEF Joined, cacheVars, history
  <2>3. QED
        BY <2>1, <2>2
<1>10. ASSUME NEW p \in Actors, FetchProjects(p)
      PROVE  CachedInv'
      BY <1>10, <1>0 DEF FetchProjects, Looks, Goes, CachedInv, Undisturbed, CallsInv,
         PlacesInv, Before, CacheInv, Settled, Quiet, Continues, TypeOK, cacheVars, callVars,
         workerVars, trackerVars, history
<1>11. ASSUME NEW p \in Actors, Refresh(p)
      PROVE  CachedInv'
      BY <1>11, <1>0 DEF Refresh, Goes, Ending, CachedInv, Undisturbed, CallsInv, PlacesInv,
         Before, CacheInv, Settled, Quiet, Continues, TypeOK, cacheVars, callVars, workerVars,
         trackerVars, history
<1>12. ASSUME NEW p \in Actors, Replaced(p)
      PROVE  CachedInv'
  <2>1. CASE Throws(p)
        BY <1>0, <1>12, <2>1, ThrowsCached DEF Replaced, cacheVars, callVars, history
  <2>2. CASE ~Throws(p)
        BY <1>0, <1>12, <2>2 DEF Replaced, Goes, CachedInv, Undisturbed, TypeOK, cacheVars, callVars, history, trackerVars
  <2>3. QED
        BY <2>1, <2>2
<1>13. ASSUME NEW p \in Actors, EndsAfterFailure(p)
      PROVE  CachedInv'
      BY <1>13, <1>0 DEF EndsAfterFailure, EndWorkers, Ending, Goes, CachedInv, Undisturbed,
         CallsInv, PlacesInv, Before, CacheInv, Settled, Quiet, Continues, TypeOK, cacheVars,
         callVars, workerVars, trackerVars, history
<1>14. ASSUME NEW p \in Actors, TrackerEnded(p)
      PROVE  CachedInv'
      BY <1>14, <1>0 DEF TrackerEnded, EndWorkers, Ending, Goes, CachedInv, Undisturbed,
         CallsInv, PlacesInv, Before, CacheInv, Settled, Quiet, Continues, TypeOK, cacheVars,
         callVars, workerVars, trackerVars, history
<1>15. ASSUME NEW p \in Actors, AllEnded(p)
      PROVE  CachedInv'
      BY <1>15, <1>0 DEF AllEnded, Goes, CachedInv, Undisturbed, CallsInv, PlacesInv,
         Before, CacheInv, Settled, Quiet, Continues, TypeOK, cacheVars, callVars, workerVars,
         trackerVars, history
<1>16. ASSUME NEW c \in Containers, Initialized(c)
      PROVE  CachedInv'
      BY <1>16, <1>0 DEF Initialized, CachedInv, Undisturbed, CallsInv, PlacesInv, Before,
         CacheInv, Settled, Quiet, Continues, TypeOK, cacheVars, callVars, workerVars, trackerVars,
         history
<1>17. ASSUME NEW c \in Containers, InitFails(c)
      PROVE  CachedInv'
      BY <1>17, <1>0 DEF InitFails, Spend, CachedInv, Undisturbed, CallsInv, PlacesInv,
         Before, CacheInv, Settled, Quiet, Continues, TypeOK, cacheVars, callVars, workerVars,
         trackerVars, history
<1>18. ASSUME NEW w \in Workers, WorkerStarts(w)
      PROVE  CachedInv'
      BY <1>18, <1>0 DEF WorkerStarts, CachedInv, Undisturbed, CallsInv, PlacesInv, Before,
         CacheInv, Settled, Quiet, Continues, TypeOK, cacheVars, callVars, workerVars, trackerVars,
         history
<1>19. ASSUME NEW w \in Workers, WorkerEnds(w)
      PROVE  CachedInv'
      BY <1>19, <1>0 DEF WorkerEnds, CachedInv, Undisturbed, CallsInv, PlacesInv, Before,
         CacheInv, Settled, Quiet, Continues, TypeOK, cacheVars, callVars, workerVars, trackerVars,
         history
<1>20. CASE WorkerFails
      BY <1>20, <1>0 DEF WorkerFails, Spend, CachedInv, Undisturbed, CallsInv, PlacesInv,
         Before, CacheInv, Settled, Quiet, Continues, TypeOK, cacheVars, callVars, workerVars,
         trackerVars, history
<1>21. CASE EndAll
      BY <1>21, <1>0 DEF EndAll, Spend, Goes, CachedInv, Undisturbed, CallsInv, PlacesInv,
         Before, CacheInv, Settled, Quiet, Continues, TypeOK, cacheVars, callVars, workerVars,
         trackerVars, history
<1>22. CASE Dispose
      BY <1>22, <1>0 DEF Dispose, Spend, Goes, CachedInv, Undisturbed, CallsInv, PlacesInv,
         Before, CacheInv, Settled, Quiet, Continues, TypeOK, cacheVars, callVars, workerVars,
         trackerVars, history
<1>23. CASE Deaf
      BY <1>23, <1>0 DEF Deaf, Spend, CachedInv, Undisturbed, CallsInv, PlacesInv, Before,
         CacheInv, Settled, Quiet, Continues, TypeOK, cacheVars, callVars, workerVars, trackerVars,
         history
<1>24. CASE ListensAgain
      BY <1>24, <1>0 DEF ListensAgain, CachedInv, Undisturbed, CallsInv, PlacesInv, Before,
         CacheInv, Settled, Quiet, Continues, TypeOK, cacheVars, callVars, workerVars, trackerVars,
         history
<1>25. ASSUME NEW v \in 0 .. MaxTroubles + 1, Update(v)
      PROVE  CachedInv'
      BY <1>25, <1>0 DEF Update, Spend, CachedInv, Undisturbed, CallsInv, PlacesInv, Before,
         CacheInv, Settled, Quiet, Continues, TypeOK, cacheVars, callVars, workerVars, trackerVars,
         history
<1>26. CASE UNCHANGED vars
      BY <1>26, <1>0 DEF vars, CachedInv, Undisturbed, CallsInv, PlacesInv, Before,
         CacheInv, Settled, Quiet, Continues, TypeOK, cacheVars, callVars, workerVars, trackerVars,
         history
<1>27. QED
      BY <1>1, <1>2, <1>3, <1>4, <1>5, <1>6, <1>7, <1>8, <1>9, <1>10, <1>11, <1>12, <1>13, <1>14,
         <1>15, <1>16, <1>17, <1>18, <1>19, <1>20, <1>21, <1>22, <1>23, <1>24, <1>25, <1>26
         DEF Next, Answers, Call, Handle, Settles, WorkerSteps

\* One actor moves: whoever else brings a worker still does.
LEMMA StillExpected ==
    ASSUME NEW p, Expected, UNCHANGED notices,
           \A x \in Handlers : x # p /\ Brings(x) => Brings(x)',
           p \in Handlers /\ Brings(p) => Expected',
           HasWorker => Expected'
    PROVE  Expected'
BY DEF Expected

LEMMA ThrowsExpected ==
    ASSUME TypeOK, ExpectedInv, NEW p \in Actors, Throws(p),
           UNCHANGED <<config, version, disposed, awaited, got, read, running, base, worker, unlucky>>
    PROVE  ExpectedInv'
<1> SUFFICES ASSUME Undisturbed', listening'
             PROVE  Expected'
    BY DEF ExpectedInv
<1>1. /\ \A x \in Actors : x # p => pc'[x] = pc[x]
      /\ listening /\ p \notin Handlers
      BY ThrowsEnds
<1>2. notices' = notices
      BY <1>1 DEF Throws
<1>3. Expected /\ (HasWorker => HasWorker')
      BY <1>1 DEF ExpectedInv, Undisturbed, HasWorker, Present
<1>4. \A x \in Handlers : x # p /\ Brings(x) => Brings(x)'
      BY <1>1, Names DEF Brings, Present
<1>5. QED
      BY <1>1, <1>2, <1>3, <1>4, StillExpected DEF Expected

\* The worker of the present version uses the cached container.
LEMMA BaseIsCached == TypeOK /\ EntriesInv /\ CachedInv /\ Undisturbed /\ HasWorker => base = cache /\ cache # None
BY DEF TypeOK, EntriesInv, CachedInv, Undisturbed, HasWorker, Present

LEMMA ExpectedInvStep == WInv /\ CallsInv /\ EntriesInv /\ CachedInv /\ ExpectedInv /\ [Next]_vars => ExpectedInv'
<1> SUFFICES ASSUME WInv /\ CallsInv /\ EntriesInv /\ CachedInv /\ ExpectedInv, [Next]_vars
             PROVE  ExpectedInv'
    OBVIOUS
<1>0. /\ Containers = Callers /\ Workers = Handlers /\ Handlers \subseteq Callers /\ Callers \subseteq Actors
      /\ None \notin Actors /\ Start \in Handlers /\ Ender \in Actors /\ Disposer \in Actors
      /\ Reloads \subseteq Handlers /\ Requests \subseteq Callers /\ MaxTroubles \in Nat
      BY Names
<1>1. ASSUME NEW q \in Requests, Request(q)
      PROVE  ExpectedInv'
      BY <1>1, <1>0 DEF Request, Looks, Goes, WInv, ExpectedInv, Expected, HasWorker,
         Brings, Present, EntriesInv, Undisturbed, CallsInv, PlacesInv, TypeOK, cacheVars, callVars,
         workerVars, trackerVars, history
<1>2. CASE Reload
      BY <1>2, <1>0 DEF Reload, EndWorkers, Ending, Goes, WInv, ExpectedInv, Expected,
         HasWorker, Brings, Present, EntriesInv, Undisturbed, CallsInv, PlacesInv, TypeOK,
         cacheVars, callVars, workerVars, trackerVars, history
<1>3. ASSUME NEW p \in Actors, Awaited(p)
      PROVE  ExpectedInv'
  <2>1. CASE promise[awaited[p]] = "ready"
        BY <1>0, <1>3, <2>1 DEF Awaited, Goes, WInv, ExpectedInv, Expected, HasWorker, Brings, Present,
                                Undisturbed, TypeOK, cacheVars, callVars, workerVars, trackerVars, history
  <2>2. CASE promise[awaited[p]] # "ready"
        BY <1>3, <2>2, ThrowsExpected DEF Awaited, WInv, cacheVars, callVars, workerVars, history
  <2>3. QED
        BY <2>1, <2>2
<1>4. ASSUME NEW p \in Actors, CheckState(p)
      PROVE  ExpectedInv'
  <2> SUFFICES ASSUME Undisturbed', listening'
               PROVE  Expected'
      BY DEF ExpectedInv
  <2>0. /\ Undisturbed /\ TypeOK /\ PlacesInv /\ CacheInv /\ CallsInv /\ EntriesInv /\ CachedInv
        BY UndisturbedBefore DEF WInv
  <2>1. /\ pc[p] = "checking" /\ awaited[p] \in Containers /\ p \in Callers
        /\ UNCHANGED <<config, cache, version, read, running, base, worker, notices, listening>>
        BY <1>4, <2>0 DEF CheckState, PlacesInv, TypeOK, cacheVars, workerVars, trackerVars
  <2>2. Expected /\ (HasWorker => HasWorker')
        BY <2>0, <2>1 DEF ExpectedInv, HasWorker, Present
  <2>3. \A x \in Actors : x # p => pc'[x] = pc[x] /\ awaited'[x] = awaited[x] /\ got'[x] = got[x]
        BY <1>4, <2>0 DEF CheckState, Returns, Goes, TypeOK
  <2>4. \A x \in Handlers : x # p /\ Brings(x) => Brings(x)'
        BY <1>0, <2>1, <2>3 DEF Brings, Present
  <2>5. p \in Handlers => Brings(p)'
    <3>1. CASE Valid(p)
      <4>1. p \in Handlers => pc'[p] = "got" /\ got'[p] = awaited[p]
            BY <1>0, <1>4, <2>0, <2>1, <3>1 DEF CheckState, Returns, Goes, TypeOK
      <4>2. config <= version[awaited[p]] /\ version[awaited[p]] <= config
            BY <2>0, <2>1, <3>1 DEF Valid, CallsInv, Undisturbed
      <4>3. version[awaited[p]] = config
            BY <2>0, <2>1, <4>2 DEF TypeOK
      <4>4. QED
            BY <2>1, <4>1, <4>3 DEF Brings, Present
    <3>2. CASE ~Valid(p)
          BY <1>4, <2>0, <3>2 DEF CheckState, Goes, Undisturbed, Brings, TypeOK
    <3>3. QED
          BY <3>1, <3>2
  <2>6. QED
        BY <2>1, <2>2, <2>4, <2>5, StillExpected DEF Expected
<1>5. ASSUME NEW p \in Actors, Destroyed(p)
      PROVE  ExpectedInv'
  <2> SUFFICES ASSUME Undisturbed', listening'
               PROVE  Expected'
      BY DEF ExpectedInv
  <2>0. /\ Undisturbed /\ TypeOK /\ PlacesInv /\ CacheInv /\ CallsInv /\ EntriesInv /\ CachedInv
        BY UndisturbedBefore DEF WInv
  <2>1. /\ pc[p] \in {"destroying", "removing"}
        /\ pc' = [pc EXCEPT ![p] = IF pc[p] = "removing" THEN "done" ELSE "reading"]
        /\ awaited' = [awaited EXCEPT ![p] = None]
        /\ UNCHANGED <<config, version, read, got, worker, notices, listening>>
        BY <1>5 DEF Destroyed, Goes, trackerVars
  <2>2. Expected
        BY <2>0, <2>1 DEF ExpectedInv
  <2>3. ~HasWorker
    <3>1. cache = awaited[p] \/ cache = None
          BY <2>0, <2>1 DEF CacheInv
    <3>2. version[awaited[p]] < config /\ awaited[p] # None
          BY <2>0, <2>1 DEF CachedInv, PlacesInv
    <3>3. SUFFICES ASSUME HasWorker
                   PROVE  FALSE
          OBVIOUS
    <3>4. base = awaited[p] /\ version[base] = config
          BY <2>0, <3>1, <3>3, BaseIsCached DEF HasWorker, Present
    <3>5. QED
          BY <2>0, <3>2, <3>4 DEF TypeOK
  <2>4. \A x \in Actors : x # p => pc'[x] = pc[x] /\ awaited'[x] = awaited[x]
        BY <2>0, <2>1 DEF TypeOK
  <2>5. \A x \in Handlers : x # p /\ Brings(x) => Brings(x)'
        BY <1>0, <2>1, <2>4 DEF Brings, Present
  <2>6. p \in Handlers /\ Brings(p) => Brings(p)'
        BY <2>0, <2>1 DEF Brings, TypeOK
  <2>7. QED
        BY <2>1, <2>2, <2>3, <2>5, <2>6, StillExpected DEF Expected
<1>6. ASSUME NEW p \in Actors, DestroyThrows(p)
      PROVE  ExpectedInv'
  <2>1. CASE p = Disposer
    <3>1. /\ p \notin Handlers
          /\ UNCHANGED <<config, version, disposed, awaited, got, read, running, base, worker, listening, notices, unlucky>>
          BY <1>0, Names, <1>6, <2>1 DEF DestroyThrows, cacheVars, callVars, workerVars, trackerVars, history
    <3>2. \A x \in Actors : x # p => pc'[x] = pc[x]
          BY <1>6, <2>1 DEF DestroyThrows, Goes, WInv, TypeOK
    <3>3. (\A x \in Handlers : Brings(x) => Brings(x)') /\ (HasWorker => HasWorker')
          BY <1>0, <3>1, <3>2 DEF Brings, HasWorker, Present
    <3>4. Undisturbed' => Undisturbed
          BY <3>1 DEF Undisturbed
    <3>5. QED
          BY <3>1, <3>3, <3>4 DEF ExpectedInv, Expected
  <2>2. CASE p # Disposer
        BY <1>6, <2>2, ThrowsExpected DEF DestroyThrows, WInv, cacheVars, callVars, workerVars, history
  <2>3. QED
        BY <2>1, <2>2
<1>7. ASSUME NEW p \in Actors, ReadProject(p)
      PROVE  ExpectedInv'
      BY <1>7, <1>0 DEF ReadProject, Goes, Exists, WInv, ExpectedInv, Expected, HasWorker,
         Brings, Present, EntriesInv, Undisturbed, CallsInv, PlacesInv, TypeOK, cacheVars, callVars,
         workerVars, trackerVars, history
<1>8. ASSUME NEW p \in Actors, CreateContainer(p)
      PROVE  ExpectedInv'
  <2> SUFFICES ASSUME Undisturbed', listening'
               PROVE  Expected'
      BY DEF ExpectedInv
  <2>0. /\ Undisturbed /\ TypeOK /\ PlacesInv /\ CacheInv /\ CallsInv /\ EntriesInv /\ CachedInv
        BY UndisturbedBefore DEF WInv
  <2>1. /\ p \in Containers /\ pc[p] = "creating" /\ promise[p] = "none" /\ read[p] \in Nat
        /\ pc' = [pc EXCEPT ![p] = "joining"] /\ read' = [read EXCEPT ![p] = 0]
        /\ UNCHANGED <<config, got, running, base, worker, notices, listening>>
        BY <1>0, <1>8, <2>0 DEF CreateContainer, Goes, PlacesInv, Before, TypeOK, workerVars, trackerVars
  <2>2. \A c \in Containers : c # p => version'[c] = version[c]
        BY <1>8, <2>0 DEF CreateContainer, TypeOK
  <2>3. Expected /\ (HasWorker => HasWorker')
        BY <1>0, <2>0, <2>1, <2>2 DEF ExpectedInv, HasWorker, Present, EntriesInv, TypeOK
  <2>4. \A x \in Actors : x # p => pc'[x] = pc[x] /\ awaited'[x] = awaited[x] /\ read'[x] = read[x]
        BY <1>8, <2>0, <2>1 DEF CreateContainer, TypeOK
  <2>5. \A x \in Actors :
          /\ pc[x] = "joining" => awaited[x] \in Containers /\ awaited[x] # p
          /\ pc[x] = "got" => got[x] \in Containers /\ got[x] # p
        BY <2>0, <2>1 DEF PlacesInv, TypeOK
  <2>6. \A x \in Handlers : x # p /\ Brings(x) => Brings(x)'
        BY <1>0, <2>1, <2>2, <2>4, <2>5 DEF Brings, Present
  <2>7. p \in Handlers /\ Brings(p) => Brings(p)'
    <3>1. Brings(p) => read[p] = config
          BY <2>1 DEF Brings
    <3>2. pc'[p] = "joining"
          BY <2>0, <2>1 DEF TypeOK
    <3>3. CASE Caches /\ cache # None
      <4>1. awaited'[p] = cache /\ version' = version /\ unlucky' = (unlucky \/ version[cache] < read[p])
            BY <1>8, <2>0, <3>3 DEF CreateContainer, TypeOK
      <4>2. cache \in Containers /\ version[cache] \in Nat /\ config \in Nat
            BY <2>0, <3>3 DEF TypeOK
      <4>3. ~(version[cache] < read[p]) /\ version[cache] <= config
            BY <2>0, <4>1, <4>2 DEF Undisturbed, CallsInv
      <4>4. read[p] = config => version[cache] = config
            BY <2>1, <4>2, <4>3
      <4>5. QED
            BY <2>1, <3>1, <3>2, <4>1, <4>4 DEF Brings, Present
    <3>4. CASE ~(Caches /\ cache # None)
      <4>1. awaited'[p] = p /\ version'[p] = read[p]
            BY <1>8, <2>0, <2>1, <3>4 DEF CreateContainer, TypeOK
      <4>2. QED
            BY <2>1, <3>1, <3>2, <4>1 DEF Brings, Present
    <3>5. QED
          BY <3>3, <3>4
  <2>8. QED
        BY <2>1, <2>3, <2>6, <2>7, StillExpected DEF Expected
<1>9. ASSUME NEW p \in Actors, Joined(p)
      PROVE  ExpectedInv'
  <2>1. CASE promise[awaited[p]] = "ready"
    <3> SUFFICES ASSUME Undisturbed', listening'
                 PROVE  Expected'
        BY DEF ExpectedInv
    <3>0. /\ pc[p] = "joining" /\ awaited[p] # None /\ TypeOK
          /\ UNCHANGED <<config, version, disposed, unlucky, read, running, base, worker, notices, listening>>
          BY <1>9, <2>1 DEF Joined, PlacesInv, WInv, cacheVars, workerVars, trackerVars, history
    <3>1. Expected /\ (HasWorker => HasWorker')
          BY <3>0 DEF ExpectedInv, Undisturbed, HasWorker, Present
    <3>2. \A x \in Actors : x # p => pc'[x] = pc[x] /\ awaited'[x] = awaited[x] /\ got'[x] = got[x]
          BY <1>9, <2>1, <3>0 DEF Joined, Returns, Goes, TypeOK
    <3>3. \A x \in Handlers : x # p /\ Brings(x) => Brings(x)'
          BY <1>0, <3>0, <3>2 DEF Brings, Present
    <3>4. p \in Handlers => pc'[p] = "got" /\ got'[p] = awaited[p]
          BY <1>9, <2>1, <3>0 DEF Joined, Returns, Goes, TypeOK
    <3>5. p \in Handlers /\ Brings(p) => Brings(p)'
          BY <3>0, <3>4 DEF Brings, Present
    <3>6. QED
          BY <3>0, <3>1, <3>3, <3>5, StillExpected DEF Expected
  <2>2. CASE promise[awaited[p]] # "ready"
        BY <1>9, <2>2, ThrowsExpected DEF Joined, WInv, cacheVars, workerVars, history
  <2>3. QED
        BY <2>1, <2>2
<1>10. ASSUME NEW p \in Actors, FetchProjects(p)
      PROVE  ExpectedInv'
      BY <1>10, <1>0 DEF FetchProjects, Looks, Goes, WInv, ExpectedInv, Expected, HasWorker,
         Brings, Present, EntriesInv, Undisturbed, CallsInv, PlacesInv, TypeOK, cacheVars, callVars,
         workerVars, trackerVars, history
<1>11. ASSUME NEW p \in Actors, Refresh(p)
      PROVE  ExpectedInv'
  <2> SUFFICES ASSUME Undisturbed', listening'
               PROVE  Expected'
      BY DEF ExpectedInv
  <2>0. /\ Undisturbed /\ TypeOK /\ PlacesInv /\ CacheInv /\ CallsInv /\ EntriesInv /\ CachedInv
        BY UndisturbedBefore DEF WInv
  <2>1. /\ pc[p] = "got" /\ p \in Handlers /\ got[p] \in Containers
        /\ got' = [got EXCEPT ![p] = None]
        /\ UNCHANGED <<config, version, cache, awaited, read, notices, listening>>
    <3>1. pc[p] = "got" /\ got' = [got EXCEPT ![p] = None]
          BY <1>11 DEF Refresh
    <3>2. UNCHANGED <<config, version, cache, awaited, read, notices, listening>>
          BY <1>11 DEF Refresh, cacheVars, trackerVars
    <3>3. QED
          BY <2>0, <3>1, <3>2 DEF PlacesInv, TypeOK
  <2>2. Expected
        BY <2>0, <2>1 DEF ExpectedInv
  <2>3. \A x \in Handlers : x # p => pc'[x] = pc[x] /\ got'[x] = got[x] /\ worker'[x] = worker[x]
        BY <1>0, <1>11, <2>0 DEF Refresh, Goes, TypeOK, workerVars
  <2>4. \A x \in Handlers : x # p /\ Brings(x) => Brings(x)'
        BY <1>0, <2>1, <2>3 DEF Brings, Present
  <2>5. CASE base = got[p]
    <3>1. UNCHANGED <<running, base, worker>>
          BY <1>11, <2>5 DEF Refresh, workerVars
    <3>2. HasWorker => HasWorker'
          BY <2>1, <3>1 DEF HasWorker, Present
    <3>3. running \in Handlers /\ running \notin doomed /\ running # None
          BY <1>0, <2>0, <2>1, <2>5 DEF EntriesInv, TypeOK
    <3>4. worker[running] \in {"starting", "live"} \/ (worker[running] = "failed" /\ pc[running] = "replacing")
          BY <1>0, <2>0, <2>1, <3>3 DEF EntriesInv, TypeOK
    <3>5. Brings(p) => HasWorker \/ (worker[running] = "failed" /\ Brings(running))
          BY <2>1, <2>5, <3>3, <3>4 DEF Brings, HasWorker, Present
    <3>6. Brings(p) => HasWorker' \/ (running # p /\ Brings(running))
          BY <2>1, <3>2, <3>4, <3>5 DEF HasWorker
    <3>7. p \in Handlers /\ Brings(p) => Expected'
          BY <2>4, <3>3, <3>6 DEF Expected
    <3>8. QED
          BY <2>1, <2>2, <2>4, <3>2, <3>7, StillExpected DEF Expected
  <2>6. CASE base # got[p]
    <3>1. running' = p /\ base' = got[p] /\ worker'[p] = "starting"
          BY <1>0, <1>11, <2>0, <2>1, <2>6 DEF Refresh, TypeOK
    <3>2. Brings(p) => HasWorker'
          BY <1>0, <2>1, <3>1 DEF Brings, HasWorker, Present
    <3>3. ~HasWorker
      <4>1. cache \in {got[p], None}
            BY <2>0, <2>1 DEF CachedInv
      <4>2. QED
            BY <2>0, <2>6, <4>1, BaseIsCached
    <3>4. QED
          BY <2>1, <2>2, <2>4, <3>2, <3>3, StillExpected DEF Expected
  <2>7. QED
        BY <2>5, <2>6
<1>12. ASSUME NEW p \in Actors, Replaced(p)
      PROVE  ExpectedInv'
  <2> SUFFICES ASSUME Undisturbed', listening'
               PROVE  Expected'
      BY DEF ExpectedInv
  <2>0. /\ Undisturbed /\ TypeOK /\ PlacesInv /\ CacheInv /\ CallsInv /\ EntriesInv /\ CachedInv
        BY UndisturbedBefore DEF WInv
  <2>1. /\ pc[p] = "replacing" /\ p \in Handlers
        /\ UNCHANGED <<config, version, awaited, read, got, worker>>
        BY <1>12, <2>0 DEF Replaced, PlacesInv, cacheVars, callVars
  <2>2. ~Throws(p)
        BY <2>0, <2>1, ThrowsEnds
  <2>3. ~HasFailed(p) /\ ~HasFailed(waits[p])
        BY <1>12, <2>2 DEF Replaced
  <2>4. worker[p] # "failed"
        BY <2>1, <2>3 DEF HasFailed, Handlers, Workers
  <2>5. pc' = [pc EXCEPT ![p] = "done"] /\ UNCHANGED <<running, base, notices, listening>>
        BY <1>12, <2>3 DEF Replaced, Goes, trackerVars
  <2>6. Expected /\ (HasWorker => HasWorker') /\ ~Brings(p)
        BY <2>0, <2>1, <2>4, <2>5 DEF ExpectedInv, HasWorker, Brings, Present
  <2>7. \A x \in Handlers : x # p /\ Brings(x) => Brings(x)'
        BY <1>0, <2>0, <2>1, <2>5 DEF Brings, Present, TypeOK
  <2>8. QED
        BY <2>5, <2>6, <2>7, StillExpected DEF Expected
<1>13. ASSUME NEW p \in Actors, EndsAfterFailure(p)
      PROVE  ExpectedInv'
      BY <1>13, <1>0 DEF EndsAfterFailure, EndWorkers, Ending, Goes, WInv, ExpectedInv,
         Expected, HasWorker, Brings, Present, EntriesInv, Undisturbed, CallsInv, PlacesInv, TypeOK,
         cacheVars, callVars, workerVars, trackerVars, history
<1>14. ASSUME NEW p \in Actors, TrackerEnded(p)
      PROVE  ExpectedInv'
      BY <1>14, <1>0 DEF TrackerEnded, EndWorkers, Ending, Goes, WInv, ExpectedInv,
         Expected, HasWorker, Brings, Present, EntriesInv, Undisturbed, CallsInv, PlacesInv, TypeOK,
         cacheVars, callVars, workerVars, trackerVars, history
<1>15. ASSUME NEW p \in Actors, AllEnded(p)
      PROVE  ExpectedInv'
      BY <1>15, <1>0 DEF AllEnded, Goes, WInv, ExpectedInv, Expected, HasWorker, Brings,
         Present, EntriesInv, Undisturbed, CallsInv, PlacesInv, TypeOK, cacheVars, callVars,
         workerVars, trackerVars, history
<1>16. ASSUME NEW c \in Containers, Initialized(c)
      PROVE  ExpectedInv'
      BY <1>16, <1>0 DEF Initialized, WInv, ExpectedInv, Expected, HasWorker, Brings,
         Present, EntriesInv, Undisturbed, CallsInv, PlacesInv, TypeOK, cacheVars, callVars,
         workerVars, trackerVars, history
<1>17. ASSUME NEW c \in Containers, InitFails(c)
      PROVE  ExpectedInv'
      BY <1>17, <1>0 DEF InitFails, Spend, WInv, ExpectedInv, Expected, HasWorker, Brings,
         Present, EntriesInv, Undisturbed, CallsInv, PlacesInv, TypeOK, cacheVars, callVars,
         workerVars, trackerVars, history
<1>18. ASSUME NEW w \in Workers, WorkerStarts(w)
      PROVE  ExpectedInv'
      BY <1>18, <1>0 DEF WorkerStarts, WInv, ExpectedInv, Expected, HasWorker, Brings,
         Present, EntriesInv, Undisturbed, CallsInv, PlacesInv, TypeOK, cacheVars, callVars,
         workerVars, trackerVars, history
<1>19. ASSUME NEW w \in Workers, WorkerEnds(w)
      PROVE  ExpectedInv'
      BY <1>19, <1>0 DEF WorkerEnds, WInv, ExpectedInv, Expected, HasWorker, Brings,
         Present, EntriesInv, Undisturbed, CallsInv, PlacesInv, TypeOK, cacheVars, callVars,
         workerVars, trackerVars, history
<1>20. CASE WorkerFails
      BY <1>20, <1>0 DEF WorkerFails, Spend, WInv, ExpectedInv, Expected, HasWorker, Brings,
         Present, EntriesInv, Undisturbed, CallsInv, PlacesInv, TypeOK, cacheVars, callVars,
         workerVars, trackerVars, history
<1>21. CASE EndAll
      BY <1>21, <1>0 DEF EndAll, Spend, Goes, WInv, ExpectedInv, Expected, HasWorker,
         Brings, Present, EntriesInv, Undisturbed, CallsInv, PlacesInv, TypeOK, cacheVars, callVars,
         workerVars, trackerVars, history
<1>22. CASE Dispose
      BY <1>22, <1>0 DEF Dispose, Spend, Goes, WInv, ExpectedInv, Expected, HasWorker,
         Brings, Present, EntriesInv, Undisturbed, CallsInv, PlacesInv, TypeOK, cacheVars, callVars,
         workerVars, trackerVars, history
<1>23. CASE Deaf
      BY <1>23, <1>0 DEF Deaf, Spend, WInv, ExpectedInv, Expected, HasWorker, Brings,
         Present, EntriesInv, Undisturbed, CallsInv, PlacesInv, TypeOK, cacheVars, callVars,
         workerVars, trackerVars, history
<1>24. CASE ListensAgain
      BY <1>24, <1>0 DEF ListensAgain, WInv, ExpectedInv, Expected, HasWorker, Brings,
         Present, EntriesInv, Undisturbed, CallsInv, PlacesInv, TypeOK, cacheVars, callVars,
         workerVars, trackerVars, history
<1>25. ASSUME NEW v \in 0 .. MaxTroubles + 1, Update(v)
      PROVE  ExpectedInv'
  <2> SUFFICES ASSUME Undisturbed', listening'
               PROVE  Expected'
      BY DEF ExpectedInv
  <2>0. /\ Undisturbed /\ TypeOK /\ PlacesInv /\ CacheInv /\ CallsInv /\ EntriesInv /\ CachedInv
        BY UndisturbedBefore DEF WInv
  <2>1. unlucky' = (unlucky \/ ~tracking)
        BY <1>25 DEF Update
  <2>2. tracking
        BY <2>1 DEF Undisturbed
  <2>3. notices' = notices + 1
        BY <1>25, <2>2 DEF Update
  <2>4. QED
        BY <2>0, <2>3 DEF Expected, TypeOK
<1>26. CASE UNCHANGED vars
      BY <1>26, <1>0 DEF vars, WInv, ExpectedInv, Expected, HasWorker, Brings, Present,
         EntriesInv, Undisturbed, CallsInv, PlacesInv, TypeOK, cacheVars, callVars, workerVars,
         trackerVars, history
<1>27. QED
      BY <1>1, <1>2, <1>3, <1>4, <1>5, <1>6, <1>7, <1>8, <1>9, <1>10, <1>11, <1>12, <1>13, <1>14,
         <1>15, <1>16, <1>17, <1>18, <1>19, <1>20, <1>21, <1>22, <1>23, <1>24, <1>25, <1>26
         DEF Next, Answers, Call, Handle, Settles, WorkerSteps

LEMMA LostInvInit == Init => LostInv
<1> SUFFICES ASSUME Init
             PROVE  LostInv
    OBVIOUS
<1>1. WInv
      BY WInvInit
<1>2. CallsInv /\ CachedInv
      BY Names DEF Init, CallsInv, CachedInv
<1>3. EntriesInv
      BY Names DEF Init, EntriesInv
<1>4. ExpectedInv
      BY Names DEF Init, ExpectedInv, Expected, Brings
<1>5. QED
      BY <1>1, <1>2, <1>3, <1>4 DEF LostInv

LEMMA LostInvStep == LostInv /\ [Next]_vars => LostInv'
BY WInvStep, CallsInvStep, EntriesInvStep, CachedInvStep, ExpectedInvStep DEF LostInv, WInv

\* The inductive invariant: while nothing has disturbed the workers, the cached container is
\* the only one that is not outdated, and the project has a worker on it, or a notification
\* or a handler is on its way that will start one.
THEOREM WorkerIsExpected == Spec => []LostInv
BY LostInvInit, LostInvStep, PTL DEF Spec

\* A reload that overlaps requests, other reloads and destroyed containers never leaves the
\* project without a worker of its present version, or with one of a container that was
\* destroyed: outside the races that `unlucky` records, the 'destroy' listener hits only
\* workers of outdated containers, whose successor is on its way.
THEOREM NoWorkerIsLost == Spec => []NoWorkerLost
<1>1. LostInv => NoWorkerLost
  <2> SUFFICES ASSUME LostInv, AtRest, ~unlucky
               PROVE  /\ running # None /\ running \notin doomed
                      /\ worker[running] \in {"starting", "live"}
                      /\ version[base] = config
      BY DEF NoWorkerLost
  <2>1. \A p \in Handlers : ~Brings(p)
        BY Names DEF AtRest, Brings
  <2>2. Expected /\ EntriesInv
        BY DEF LostInv, ExpectedInv, Undisturbed, AtRest
  <2>3. HasWorker
        BY <2>1, <2>2 DEF Expected, AtRest
  <2>4. QED
        BY <2>2, <2>3 DEF HasWorker, Present, EntriesInv
<1>2. QED
      BY <1>1, WorkerIsExpected, PTL

=============================================================================
