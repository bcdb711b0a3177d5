------------------------ MODULE DispatcherLoopProofs ------------------------
(***************************************************************************)
(* Proofs about DispatcherLoop, for every value of its constants.          *)
(***************************************************************************)
EXTENDS DispatcherLoop, TLAPS

LEMMA LoopInit == Init => LInv
<1> SUFFICES ASSUME Init PROVE LInv
    OBVIOUS
<1> USE LoopAssumption DEF Init, Runs, Looping
<1>1. TypeOK
  <2>1. pc \in [Runs -> {"none", "starting", "fetching", "delivering", "checking", "answered",
                        "parked", "over"}]
        OBVIOUS
  <2>2. /\ batch \in [Runs -> 0 .. MaxWork] /\ wait \in [Runs -> {"idle", "retry"}]
        /\ stop \in [Runs -> BOOLEAN] /\ pendingError \in [Runs -> BOOLEAN]
        /\ link \in [Runs -> BOOLEAN] /\ inbox \in [Runs -> BOOLEAN]
        /\ missed \in [Runs -> BOOLEAN]
        OBVIOUS
  <2>3. /\ run \in Runs /\ restarts \in 0 .. MaxTroubles /\ left \in 0 .. MaxTroubles
        /\ due \in 0 .. MaxWork /\ later \in 0 .. MaxWork /\ enqueued \in 0 .. MaxWork
        OBVIOUS
  <2> QED
        BY <2>1, <2>2, <2>3 DEF TypeOK
<1>2. PhasesAgree
    BY DEF PhasesAgree
<1>3. RowsCounted
    BY DEF RowsCounted
<1>4. TroublesCounted
    BY DEF TroublesCounted
<1>5. StartsCounted
    BY DEF StartsCounted
<1>6. ParkedInTime
    BY DEF ParkedInTime
<1>7. EndedOnce
    BY DEF EndedOnce
<1> QED
    BY <1>1, <1>2, <1>3, <1>4, <1>5, <1>6, <1>7 DEF LInv

\* No run has a batch, a loop or anything pending.
Calm == \A s \in Runs : pc[s] \in {"none", "over"} /\ link[s] /\ ~pendingError[s] /\ batch[s] = 0

\* What the supervisor is left with when its run has ended with an error.
Crashed ==
    /\ run' = run /\ inner' = 0 /\ healthy' = healthy /\ aborted' = aborted /\ uptime' = "none"
    /\ restarts' \in 1 .. run
    /\ ~healthy => restarts' = restarts + 1
    /\ \/ sup' = "failed" /\ ~healthy /\ restarts' > StartupMax
       \/ sup' = "backoff" /\ ~aborted /\ (~healthy => restarts' <= StartupMax)
       \/ sup' = "over" /\ aborted

LEMMA CrashFacts ==
    ASSUME LInv, RunCrashed, sup \in {"starting", "running"}
    PROVE  Crashed
<1> USE LoopAssumption DEF LInv, TypeOK, Runs, Looping
<1>1. Failures \in 1 .. run
    BY DEF Failures, TroublesCounted
<1>2. ~healthy => Failures = restarts + 1
    BY DEF Failures, PhasesAgree
<1>3. run' = run /\ inner' = 0 /\ healthy' = healthy /\ aborted' = aborted /\ uptime' = "none" /\ restarts' = Failures
    BY DEF RunCrashed
<1>4. sup' = IF ~healthy /\ Failures > StartupMax THEN "failed" ELSE IF aborted THEN "over" ELSE "backoff"
    BY DEF RunCrashed, GivesUp, AfterCrash
<1> QED
    BY <1>1, <1>2, <1>3, <1>4 DEF Crashed

\* A run that is active is the one of the supervisor.
LEMMA ActiveIsRun ==
    ASSUME LInv, NEW r \in Runs, Looping(r) \/ pc[r] = "starting"
    PROVE  r = run /\ sup \in {"starting", "running"} /\ (Looping(r) => sup = "running" /\ healthy)
BY DEF LInv, PhasesAgree, TypeOK, Looping

\* The types of what a run is made of, but for its abort flag.
RunsTyped ==
    /\ pc \in [Runs -> {"none", "starting", "fetching", "delivering", "checking", "answered",
                        "parked", "over"}]
    /\ batch \in [Runs -> 0 .. MaxWork]
    /\ wait \in [Runs -> {"idle", "retry"}]
    /\ pendingError \in [Runs -> BOOLEAN]
    /\ link \in [Runs -> BOOLEAN]
    /\ inbox \in [Runs -> BOOLEAN]
    /\ missed \in [Runs -> BOOLEAN]

\* Rows fit in what was enqueued.
RowsFit == due \in Nat /\ later \in Nat /\ due + later <= enqueued

\* The troubles that are left when a run has ended with an error.
TroublesFit ==
    /\ left \in Nat /\ failedStarts \in Nat
    /\ run + left <= MaxTroubles
    /\ failedStarts + left <= MaxTroubles

LEMMA AtMost ==
    ASSUME NEW a \in Nat, NEW b \in Nat, NEW m \in Nat, a + b <= m
    PROVE  a \in 0 .. m /\ b \in 0 .. m
OBVIOUS

LEMMA SumIsLess ==
    ASSUME NEW a \in Nat, NEW b \in Nat, NEW c \in Nat, NEW m \in Nat, a <= c, c + b <= m
    PROVE  a + b <= m
OBVIOUS

LEMMA SumChain ==
    ASSUME NEW a \in Nat, NEW b \in Nat, NEW c \in Nat, NEW m \in Nat, a + b <= c, c <= m
    PROVE  a + b <= m
OBVIOUS

LEMMA SumAndNone ==
    ASSUME NEW a \in Nat, NEW b \in Nat, NEW c \in Nat, a + b <= c
    PROVE  a + b + 0 <= c
OBVIOUS

LEMMA OneMore ==
    ASSUME NEW a \in Nat, NEW b \in Nat, NEW m \in Nat, a + b <= m
    PROVE  a + b <= m + 1
OBVIOUS

LEMMA SumOfLess ==
    ASSUME NEW a \in Nat, NEW b \in Nat, NEW c \in Nat, NEW m \in Nat, b <= c, a + c <= m
    PROVE  a + b <= m
OBVIOUS

\* A run that leaves its loop, with no batch any more, leaves calm behind.
LEMMA LeavesCalm ==
    ASSUME LInv, NEW r \in Runs, Looping(r), Leaves(r),
           batch' = [batch EXCEPT ![r] = 0] \/ (batch' = batch /\ pc[r] # "delivering")
    PROVE  Calm' /\ pc'[run] = "over" /\ RunsTyped'
<1> USE LoopAssumption DEF LInv, TypeOK
<1>1. r = run
      BY ActiveIsRun
<1>2. \A s \in Runs : s # r => pc[s] \in {"none", "over"} /\ link[s] /\ ~pendingError[s] /\ batch[s] = 0
      BY <1>1 DEF PhasesAgree, RowsCounted, TroublesCounted, Looping
<1>3. batch'[r] = 0 /\ \A s \in Runs : s # r => batch'[s] = batch[s]
      BY DEF RowsCounted
<1>4. Calm'
      BY <1>2, <1>3 DEF Calm, Leaves
<1>5. batch' \in [Runs -> 0 .. MaxWork]
      OBVIOUS
<1>6. RunsTyped'
      BY <1>5 DEF Leaves, RunsTyped
<1> QED
      BY <1>1, <1>4, <1>6 DEF Leaves

\* Every error that ends a run.
LEMMA CrashKeeps ==
    ASSUME LInv, RunCrashed, sup \in {"starting", "running"},
           Calm', pc'[run] = "over", RunsTyped', RowsFit', TroublesFit', enqueued' = enqueued,
           ~healthy => failedStarts' = failedStarts + 1,
           UNCHANGED <<ender, awaited, stop, late>>
    PROVE  LInv'
<1> USE LoopAssumption
<1>0. Crashed
      BY CrashFacts
<1>t. /\ TypeOK /\ PhasesAgree /\ RowsCounted /\ TroublesCounted /\ StartsCounted
      /\ ParkedInTime /\ EndedOnce
      BY DEF LInv
<1>n. /\ run \in Nat /\ run' = run /\ run \in Runs
      /\ enqueued' \in Nat /\ enqueued' <= MaxWork
      /\ left' \in Nat /\ failedStarts' \in Nat
      /\ restarts' \in Nat /\ restarts' <= run
      BY <1>0, <1>t DEF TypeOK, Crashed, TroublesFit, Runs
<1>a. run + left' <= MaxTroubles /\ failedStarts' + left' <= MaxTroubles
      BY <1>n DEF TroublesFit
<1>b. restarts' + left' <= MaxTroubles
      BY <1>n, <1>a, SumIsLess
<1>c. due' \in Nat /\ later' \in Nat /\ due' + later' <= enqueued'
      BY DEF RowsFit
<1>d. due' + later' <= MaxWork
      BY <1>c, <1>n, SumChain
<1>1. TypeOK'
  <2>1. restarts' \in 0 .. MaxTroubles /\ left' \in 0 .. MaxTroubles /\ failedStarts' \in 0 .. MaxTroubles
        BY <1>n, <1>a, <1>b, AtMost
  <2>2. due' \in 0 .. MaxWork /\ later' \in 0 .. MaxWork
        BY <1>c, <1>d, AtMost
  <2>3. sup' \in {"starting", "running", "backoff", "over", "failed"} /\ uptime' \in {"none", "fresh", "stable"}
        BY <1>0 DEF Crashed
  <2>4. run' \in Runs /\ inner' \in Runs \cup {0} /\ healthy' \in BOOLEAN /\ aborted' \in BOOLEAN
        BY <1>0, <1>t DEF Crashed, TypeOK
  <2> QED
        BY <2>1, <2>2, <2>3, <2>4, <1>t DEF TypeOK, RunsTyped
<1>2. PhasesAgree'
      BY <1>0, <1>t DEF PhasesAgree, Calm, Looping, Crashed
<1>3. RowsCounted'
  <2>1. batch'[run'] = 0
        BY <1>n DEF Calm
  <2>2. due' + later' + batch'[run'] <= enqueued'
        BY <1>c, <1>n, <2>1, SumAndNone
  <2> QED
        BY <2>2 DEF RowsCounted, Calm
<1>4. TroublesCounted'
  <2>1. link'[run'] /\ ~pendingError'[run'] /\ \A s \in Runs : link'[s] /\ ~pendingError'[s]
        BY <1>n DEF Calm
  <2>2. run' + left' <= MaxTroubles /\ run' + left' <= MaxTroubles + 1 /\ restarts' <= run'
        BY <1>n, <1>a, OneMore
  <2>3. sup' \notin {"starting", "running"}
        BY <1>0 DEF Crashed
  <2> QED
        BY <1>a, <1>b, <2>1, <2>2, <2>3 DEF TroublesCounted
<1>5. StartsCounted'
      BY <1>0, <1>t DEF StartsCounted, Crashed, PhasesAgree, TypeOK, Runs
<1>6. ParkedInTime'
      BY DEF ParkedInTime, Calm
<1>7. EndedOnce'
      BY <1>0, <1>t DEF EndedOnce, Crashed, StartsCounted, PhasesAgree, TypeOK
<1> QED
      BY <1>1, <1>2, <1>3, <1>4, <1>5, <1>6, <1>7 DEF LInv

\* A run that leaves because end() was called.
LEMMA CloseKeeps ==
    ASSUME LInv, LoopEnds, sup = "running", healthy,
           Calm', pc'[run] = "over", RunsTyped', RowsFit',
           stop' \in [Runs -> BOOLEAN],
           UNCHANGED <<run, inner, healthy, failedStarts, bounds>>,
           aborted', aborted' \in BOOLEAN, late' \in Runs \cup {0},
           ender' \in {"ending", "ended", "timedOut"},
           awaited' = run \/ (awaited' = 0 /\ ender' = "ended")
    PROVE  LInv'
<1> USE LoopAssumption
<1>t. /\ TypeOK /\ PhasesAgree /\ RowsCounted /\ TroublesCounted /\ StartsCounted
      /\ ParkedInTime /\ EndedOnce
      BY DEF LInv
<1>n. enqueued' = enqueued /\ left' = left /\ enqueued' \in Nat /\ enqueued' <= MaxWork /\ run' = run /\ run \in Runs
      BY <1>t DEF TypeOK, bounds
<1>c. due' \in Nat /\ later' \in Nat /\ due' + later' <= enqueued'
      BY DEF RowsFit
<1>d. due' + later' <= MaxWork
      BY <1>c, <1>n, SumChain
<1>1. TypeOK'
  <2>1. restarts' \in 0 .. MaxTroubles
        BY <1>t DEF TypeOK, LoopEnds
  <2>2. due' \in 0 .. MaxWork /\ later' \in 0 .. MaxWork
        BY <1>c, <1>d, AtMost
  <2>3. sup' = "over" /\ uptime' = "none" /\ awaited' \in Runs \cup {0}
        BY <1>n DEF LoopEnds
  <2> QED
        BY <1>t, <1>n, <2>1, <2>2, <2>3 DEF TypeOK, RunsTyped
<1>2. PhasesAgree'
      BY <1>t DEF PhasesAgree, Calm, Looping, LoopEnds
<1>3. RowsCounted'
  <2>1. batch'[run'] = 0
        BY <1>n DEF Calm
  <2>2. due' + later' + batch'[run'] <= enqueued'
        BY <1>c, <1>n, <2>1, SumAndNone
  <2> QED
        BY <2>2 DEF RowsCounted, Calm
<1>4. TroublesCounted'
  <2>1. link'[run'] /\ ~pendingError'[run'] /\ \A s \in Runs : link'[s] /\ ~pendingError'[s]
        BY <1>n DEF Calm
  <2>2. restarts' = restarts \/ restarts' = 0
        BY DEF LoopEnds
  <2>3. sup' = "over"
        BY DEF LoopEnds
  <2>4. restarts' + left' <= MaxTroubles
        BY <1>t, <1>n, <2>2 DEF TypeOK, TroublesCounted
  <2> QED
        BY <1>t, <1>n, <2>1, <2>3, <2>4 DEF TroublesCounted
<1>5. StartsCounted'
      BY DEF StartsCounted
<1>6. ParkedInTime'
      BY DEF ParkedInTime, Calm
<1>7. EndedOnce'
  <2>1. sup' = "over"
        BY DEF LoopEnds
  <2>2. awaited' # 0 => awaited' = run'
        BY <1>n
  <2>3. ender' # "none" /\ (awaited' = 0 => ender' = "ended")
        BY <1>n DEF Runs
  <2> QED
        BY <2>1, <2>2, <2>3 DEF EndedOnce
<1> QED
      BY <1>1, <1>2, <1>3, <1>4, <1>5, <1>6, <1>7 DEF LInv

LEMMA StartedKeeps ==
    ASSUME LInv, NEW r \in Runs, Started(r)
    PROVE  LInv'
<1> USE LoopAssumption DEF LInv, Runs, Looping, queue, supervisor, caller, session, loop, history, bounds
<1>1. TypeOK'
    BY DEF Started, TypeOK, PhasesAgree, RowsCounted, TroublesCounted, StartsCounted, ParkedInTime, EndedOnce
<1>2. PhasesAgree'
    BY DEF Started, TypeOK, PhasesAgree, RowsCounted, TroublesCounted, StartsCounted, ParkedInTime, EndedOnce
<1>3. RowsCounted'
    BY DEF Started, TypeOK, PhasesAgree, RowsCounted, TroublesCounted, StartsCounted, ParkedInTime, EndedOnce
<1>4. TroublesCounted'
    BY DEF Started, TypeOK, PhasesAgree, RowsCounted, TroublesCounted, StartsCounted, ParkedInTime, EndedOnce
<1>5. StartsCounted'
    BY DEF Started, TypeOK, PhasesAgree, RowsCounted, TroublesCounted, StartsCounted, ParkedInTime, EndedOnce
<1>6. ParkedInTime'
    BY DEF Started, TypeOK, PhasesAgree, RowsCounted, TroublesCounted, StartsCounted, ParkedInTime, EndedOnce
<1>7. EndedOnce'
    BY DEF Started, TypeOK, PhasesAgree, RowsCounted, TroublesCounted, StartsCounted, ParkedInTime, EndedOnce
<1> QED
    BY <1>1, <1>2, <1>3, <1>4, <1>5, <1>6, <1>7

LEMMA FetchRowsKeeps ==
    ASSUME LInv, NEW r \in Runs, NEW n \in 0 .. MaxWork, FetchRows(r, n)
    PROVE  LInv'
<1> USE LoopAssumption DEF LInv, Runs, Looping, queue, supervisor, caller, session, loop, history, bounds
<1>1. TypeOK'
    BY DEF FetchRows, TypeOK, PhasesAgree, RowsCounted, TroublesCounted, StartsCounted, ParkedInTime, EndedOnce
<1>2. PhasesAgree'
    BY DEF FetchRows, TypeOK, PhasesAgree, RowsCounted, TroublesCounted, StartsCounted, ParkedInTime, EndedOnce
<1>3. RowsCounted'
    BY DEF FetchRows, TypeOK, PhasesAgree, RowsCounted, TroublesCounted, StartsCounted, ParkedInTime, EndedOnce
<1>4. TroublesCounted'
    BY DEF FetchRows, TypeOK, PhasesAgree, RowsCounted, TroublesCounted, StartsCounted, ParkedInTime, EndedOnce
<1>5. StartsCounted'
    BY DEF FetchRows, TypeOK, PhasesAgree, RowsCounted, TroublesCounted, StartsCounted, ParkedInTime, EndedOnce
<1>6. ParkedInTime'
    BY DEF FetchRows, TypeOK, PhasesAgree, RowsCounted, TroublesCounted, StartsCounted, ParkedInTime, EndedOnce
<1>7. EndedOnce'
    BY DEF FetchRows, TypeOK, PhasesAgree, RowsCounted, TroublesCounted, StartsCounted, ParkedInTime, EndedOnce
<1> QED
    BY <1>1, <1>2, <1>3, <1>4, <1>5, <1>6, <1>7

LEMMA FetchNoneKeeps ==
    ASSUME LInv, NEW r \in Runs, FetchNone(r)
    PROVE  LInv'
<1> USE LoopAssumption DEF LInv, Runs, Looping, queue, supervisor, caller, session, loop, history, bounds
<1>1. TypeOK'
    BY DEF FetchNone, TypeOK, PhasesAgree, RowsCounted, TroublesCounted, StartsCounted, ParkedInTime, EndedOnce
<1>2. PhasesAgree'
    BY DEF FetchNone, TypeOK, PhasesAgree, RowsCounted, TroublesCounted, StartsCounted, ParkedInTime, EndedOnce
<1>3. RowsCounted'
    BY DEF FetchNone, TypeOK, PhasesAgree, RowsCounted, TroublesCounted, StartsCounted, ParkedInTime, EndedOnce
<1>4. TroublesCounted'
    BY DEF FetchNone, TypeOK, PhasesAgree, RowsCounted, TroublesCounted, StartsCounted, ParkedInTime, EndedOnce
<1>5. StartsCounted'
    BY DEF FetchNone, TypeOK, PhasesAgree, RowsCounted, TroublesCounted, StartsCounted, ParkedInTime, EndedOnce
<1>6. ParkedInTime'
    BY DEF FetchNone, TypeOK, PhasesAgree, RowsCounted, TroublesCounted, StartsCounted, ParkedInTime, EndedOnce
<1>7. EndedOnce'
    BY DEF FetchNone, TypeOK, PhasesAgree, RowsCounted, TroublesCounted, StartsCounted, ParkedInTime, EndedOnce
<1> QED
    BY <1>1, <1>2, <1>3, <1>4, <1>5, <1>6, <1>7

LEMMA FetchBackOffKeeps ==
    ASSUME LInv, NEW r \in Runs, FetchBackOff(r)
    PROVE  LInv'
<1> USE LoopAssumption DEF LInv, Runs, Looping, queue, supervisor, caller, session, loop, history, bounds
<1>1. TypeOK'
    BY DEF FetchBackOff, BackOff, WaitFor, TypeOK, PhasesAgree, RowsCounted, TroublesCounted, StartsCounted, ParkedInTime, EndedOnce
<1>2. PhasesAgree'
    BY DEF FetchBackOff, BackOff, WaitFor, TypeOK, PhasesAgree, RowsCounted, TroublesCounted, StartsCounted, ParkedInTime, EndedOnce
<1>3. RowsCounted'
    BY DEF FetchBackOff, BackOff, WaitFor, TypeOK, PhasesAgree, RowsCounted, TroublesCounted, StartsCounted, ParkedInTime, EndedOnce
<1>4. TroublesCounted'
    BY DEF FetchBackOff, BackOff, WaitFor, TypeOK, PhasesAgree, RowsCounted, TroublesCounted, StartsCounted, ParkedInTime, EndedOnce
<1>5. StartsCounted'
    BY DEF FetchBackOff, BackOff, WaitFor, TypeOK, PhasesAgree, RowsCounted, TroublesCounted, StartsCounted, ParkedInTime, EndedOnce
<1>6. ParkedInTime'
    BY DEF FetchBackOff, BackOff, WaitFor, TypeOK, PhasesAgree, RowsCounted, TroublesCounted, StartsCounted, ParkedInTime, EndedOnce
<1>7. EndedOnce'
    BY DEF FetchBackOff, BackOff, WaitFor, TypeOK, PhasesAgree, RowsCounted, TroublesCounted, StartsCounted, ParkedInTime, EndedOnce
<1> QED
    BY <1>1, <1>2, <1>3, <1>4, <1>5, <1>6, <1>7

LEMMA NotifiedKeeps ==
    ASSUME LInv, NEW r \in Runs, Notified(r)
    PROVE  LInv'
<1> USE LoopAssumption DEF LInv, Runs, Looping, queue, supervisor, caller, session, loop, history, bounds
<1>1. TypeOK'
    BY DEF Notified, TypeOK, PhasesAgree, RowsCounted, TroublesCounted, StartsCounted, ParkedInTime, EndedOnce
<1>2. PhasesAgree'
    BY DEF Notified, TypeOK, PhasesAgree, RowsCounted, TroublesCounted, StartsCounted, ParkedInTime, EndedOnce
<1>3. RowsCounted'
    BY DEF Notified, TypeOK, PhasesAgree, RowsCounted, TroublesCounted, StartsCounted, ParkedInTime, EndedOnce
<1>4. TroublesCounted'
    BY DEF Notified, TypeOK, PhasesAgree, RowsCounted, TroublesCounted, StartsCounted, ParkedInTime, EndedOnce
<1>5. StartsCounted'
    BY DEF Notified, TypeOK, PhasesAgree, RowsCounted, TroublesCounted, StartsCounted, ParkedInTime, EndedOnce
<1>6. ParkedInTime'
    BY DEF Notified, TypeOK, PhasesAgree, RowsCounted, TroublesCounted, StartsCounted, ParkedInTime, EndedOnce
<1>7. EndedOnce'
    BY DEF Notified, TypeOK, PhasesAgree, RowsCounted, TroublesCounted, StartsCounted, ParkedInTime, EndedOnce
<1> QED
    BY <1>1, <1>2, <1>3, <1>4, <1>5, <1>6, <1>7

LEMMA WakeTimerKeeps ==
    ASSUME LInv, NEW r \in Runs, WakeTimer(r)
    PROVE  LInv'
<1> USE LoopAssumption DEF LInv, Runs, Looping, queue, supervisor, caller, session, loop, history, bounds
<1>1. TypeOK'
    BY DEF WakeTimer, TypeOK, PhasesAgree, RowsCounted, TroublesCounted, StartsCounted, ParkedInTime, EndedOnce
<1>2. PhasesAgree'
    BY DEF WakeTimer, TypeOK, PhasesAgree, RowsCounted, TroublesCounted, StartsCounted, ParkedInTime, EndedOnce
<1>3. RowsCounted'
    BY DEF WakeTimer, TypeOK, PhasesAgree, RowsCounted, TroublesCounted, StartsCounted, ParkedInTime, EndedOnce
<1>4. TroublesCounted'
    BY DEF WakeTimer, TypeOK, PhasesAgree, RowsCounted, TroublesCounted, StartsCounted, ParkedInTime, EndedOnce
<1>5. StartsCounted'
    BY DEF WakeTimer, TypeOK, PhasesAgree, RowsCounted, TroublesCounted, StartsCounted, ParkedInTime, EndedOnce
<1>6. ParkedInTime'
    BY DEF WakeTimer, TypeOK, PhasesAgree, RowsCounted, TroublesCounted, StartsCounted, ParkedInTime, EndedOnce
<1>7. EndedOnce'
    BY DEF WakeTimer, TypeOK, PhasesAgree, RowsCounted, TroublesCounted, StartsCounted, ParkedInTime, EndedOnce
<1> QED
    BY <1>1, <1>2, <1>3, <1>4, <1>5, <1>6, <1>7

LEMMA LinkLostKeeps ==
    ASSUME LInv, NEW r \in Runs, LinkLost(r)
    PROVE  LInv'
<1> USE LoopAssumption DEF LInv, Runs, Looping, queue, supervisor, caller, session, loop, history, bounds
<1>1. TypeOK'
    BY DEF LinkLost, Spend, TypeOK, PhasesAgree, RowsCounted, TroublesCounted, StartsCounted, ParkedInTime, EndedOnce
<1>2. PhasesAgree'
    BY DEF LinkLost, Spend, TypeOK, PhasesAgree, RowsCounted, TroublesCounted, StartsCounted, ParkedInTime, EndedOnce
<1>3. RowsCounted'
    BY DEF LinkLost, Spend, TypeOK, PhasesAgree, RowsCounted, TroublesCounted, StartsCounted, ParkedInTime, EndedOnce
<1>4. TroublesCounted'
    BY DEF LinkLost, Spend, TypeOK, PhasesAgree, RowsCounted, TroublesCounted, StartsCounted, ParkedInTime, EndedOnce
<1>5. StartsCounted'
    BY DEF LinkLost, Spend, TypeOK, PhasesAgree, RowsCounted, TroublesCounted, StartsCounted, ParkedInTime, EndedOnce
<1>6. ParkedInTime'
    BY DEF LinkLost, Spend, TypeOK, PhasesAgree, RowsCounted, TroublesCounted, StartsCounted, ParkedInTime, EndedOnce
<1>7. EndedOnce'
    BY DEF LinkLost, Spend, TypeOK, PhasesAgree, RowsCounted, TroublesCounted, StartsCounted, ParkedInTime, EndedOnce
<1> QED
    BY <1>1, <1>2, <1>3, <1>4, <1>5, <1>6, <1>7

LEMMA RestartKeeps ==
    ASSUME LInv, Restart
    PROVE  LInv'
<1> USE LoopAssumption DEF LInv, Runs, Looping, queue, supervisor, caller, session, loop, history, bounds
<1>1. TypeOK'
    BY DEF Restart, TypeOK, PhasesAgree, RowsCounted, TroublesCounted, StartsCounted, ParkedInTime, EndedOnce
<1>2. PhasesAgree'
    BY DEF Restart, TypeOK, PhasesAgree, RowsCounted, TroublesCounted, StartsCounted, ParkedInTime, EndedOnce
<1>3. RowsCounted'
    BY DEF Restart, TypeOK, PhasesAgree, RowsCounted, TroublesCounted, StartsCounted, ParkedInTime, EndedOnce
<1>4. TroublesCounted'
    BY DEF Restart, TypeOK, PhasesAgree, RowsCounted, TroublesCounted, StartsCounted, ParkedInTime, EndedOnce
<1>5. StartsCounted'
    BY DEF Restart, TypeOK, PhasesAgree, RowsCounted, TroublesCounted, StartsCounted, ParkedInTime, EndedOnce
<1>6. ParkedInTime'
    BY DEF Restart, TypeOK, PhasesAgree, RowsCounted, TroublesCounted, StartsCounted, ParkedInTime, EndedOnce
<1>7. EndedOnce'
    BY DEF Restart, TypeOK, PhasesAgree, RowsCounted, TroublesCounted, StartsCounted, ParkedInTime, EndedOnce
<1> QED
    BY <1>1, <1>2, <1>3, <1>4, <1>5, <1>6, <1>7

LEMMA BecomesStableKeeps ==
    ASSUME LInv, BecomesStable
    PROVE  LInv'
<1> USE LoopAssumption DEF LInv, Runs, Looping, queue, supervisor, caller, session, loop, history, bounds
<1>1. TypeOK'
    BY DEF BecomesStable, TypeOK, PhasesAgree, RowsCounted, TroublesCounted, StartsCounted, ParkedInTime, EndedOnce
<1>2. PhasesAgree'
    BY DEF BecomesStable, TypeOK, PhasesAgree, RowsCounted, TroublesCounted, StartsCounted, ParkedInTime, EndedOnce
<1>3. RowsCounted'
    BY DEF BecomesStable, TypeOK, PhasesAgree, RowsCounted, TroublesCounted, StartsCounted, ParkedInTime, EndedOnce
<1>4. TroublesCounted'
    BY DEF BecomesStable, TypeOK, PhasesAgree, RowsCounted, TroublesCounted, StartsCounted, ParkedInTime, EndedOnce
<1>5. StartsCounted'
    BY DEF BecomesStable, TypeOK, PhasesAgree, RowsCounted, TroublesCounted, StartsCounted, ParkedInTime, EndedOnce
<1>6. ParkedInTime'
    BY DEF BecomesStable, TypeOK, PhasesAgree, RowsCounted, TroublesCounted, StartsCounted, ParkedInTime, EndedOnce
<1>7. EndedOnce'
    BY DEF BecomesStable, TypeOK, PhasesAgree, RowsCounted, TroublesCounted, StartsCounted, ParkedInTime, EndedOnce
<1> QED
    BY <1>1, <1>2, <1>3, <1>4, <1>5, <1>6, <1>7

LEMMA EndReturnsKeeps ==
    ASSUME LInv, EndReturns
    PROVE  LInv'
<1> USE LoopAssumption DEF LInv, Runs, Looping, queue, supervisor, caller, session, loop, history, bounds
<1>1. TypeOK'
    BY DEF EndReturns, Finished, TypeOK, PhasesAgree, RowsCounted, TroublesCounted, StartsCounted, ParkedInTime, EndedOnce
<1>2. PhasesAgree'
    BY DEF EndReturns, Finished, TypeOK, PhasesAgree, RowsCounted, TroublesCounted, StartsCounted, ParkedInTime, EndedOnce
<1>3. RowsCounted'
    BY DEF EndReturns, Finished, TypeOK, PhasesAgree, RowsCounted, TroublesCounted, StartsCounted, ParkedInTime, EndedOnce
<1>4. TroublesCounted'
    BY DEF EndReturns, Finished, TypeOK, PhasesAgree, RowsCounted, TroublesCounted, StartsCounted, ParkedInTime, EndedOnce
<1>5. StartsCounted'
    BY DEF EndReturns, Finished, TypeOK, PhasesAgree, RowsCounted, TroublesCounted, StartsCounted, ParkedInTime, EndedOnce
<1>6. ParkedInTime'
    BY DEF EndReturns, Finished, TypeOK, PhasesAgree, RowsCounted, TroublesCounted, StartsCounted, ParkedInTime, EndedOnce
<1>7. EndedOnce'
    BY DEF EndReturns, Finished, TypeOK, PhasesAgree, RowsCounted, TroublesCounted, StartsCounted, ParkedInTime, EndedOnce
<1> QED
    BY <1>1, <1>2, <1>3, <1>4, <1>5, <1>6, <1>7

LEMMA EnqueueKeeps ==
    ASSUME LInv, Enqueue
    PROVE  LInv'
<1> USE LoopAssumption DEF LInv, Runs, Looping, queue, supervisor, caller, session, loop, history, bounds
<1>1. TypeOK'
    BY DEF Enqueue, Hears, TypeOK, PhasesAgree, RowsCounted, TroublesCounted, StartsCounted, ParkedInTime, EndedOnce
<1>2. PhasesAgree'
    BY DEF Enqueue, Hears, TypeOK, PhasesAgree, RowsCounted, TroublesCounted, StartsCounted, ParkedInTime, EndedOnce
<1>3. RowsCounted'
    BY DEF Enqueue, Hears, TypeOK, PhasesAgree, RowsCounted, TroublesCounted, StartsCounted, ParkedInTime, EndedOnce
<1>4. TroublesCounted'
    BY DEF Enqueue, Hears, TypeOK, PhasesAgree, RowsCounted, TroublesCounted, StartsCounted, ParkedInTime, EndedOnce
<1>5. StartsCounted'
    BY DEF Enqueue, Hears, TypeOK, PhasesAgree, RowsCounted, TroublesCounted, StartsCounted, ParkedInTime, EndedOnce
<1>6. ParkedInTime'
    BY DEF Enqueue, Hears, TypeOK, PhasesAgree, RowsCounted, TroublesCounted, StartsCounted, ParkedInTime, EndedOnce
<1>7. EndedOnce'
    BY DEF Enqueue, Hears, TypeOK, PhasesAgree, RowsCounted, TroublesCounted, StartsCounted, ParkedInTime, EndedOnce
<1> QED
    BY <1>1, <1>2, <1>3, <1>4, <1>5, <1>6, <1>7

LEMMA ElapseKeeps ==
    ASSUME LInv, Elapse
    PROVE  LInv'
<1> USE LoopAssumption DEF LInv, Runs, Looping, queue, supervisor, caller, session, loop, history, bounds
<1>1. TypeOK'
    BY DEF Elapse, TypeOK, PhasesAgree, RowsCounted, TroublesCounted, StartsCounted, ParkedInTime, EndedOnce
<1>2. PhasesAgree'
    BY DEF Elapse, TypeOK, PhasesAgree, RowsCounted, TroublesCounted, StartsCounted, ParkedInTime, EndedOnce
<1>3. RowsCounted'
    BY DEF Elapse, TypeOK, PhasesAgree, RowsCounted, TroublesCounted, StartsCounted, ParkedInTime, EndedOnce
<1>4. TroublesCounted'
    BY DEF Elapse, TypeOK, PhasesAgree, RowsCounted, TroublesCounted, StartsCounted, ParkedInTime, EndedOnce
<1>5. StartsCounted'
    BY DEF Elapse, TypeOK, PhasesAgree, RowsCounted, TroublesCounted, StartsCounted, ParkedInTime, EndedOnce
<1>6. ParkedInTime'
    BY DEF Elapse, TypeOK, PhasesAgree, RowsCounted, TroublesCounted, StartsCounted, ParkedInTime, EndedOnce
<1>7. EndedOnce'
    BY DEF Elapse, TypeOK, PhasesAgree, RowsCounted, TroublesCounted, StartsCounted, ParkedInTime, EndedOnce
<1> QED
    BY <1>1, <1>2, <1>3, <1>4, <1>5, <1>6, <1>7

LEMMA StartFailsKeeps ==
    ASSUME LInv, NEW r \in Runs, StartFails(r)
    PROVE  LInv'
<1> USE LoopAssumption
<1>t. TypeOK /\ PhasesAgree /\ RowsCounted /\ TroublesCounted /\ StartsCounted /\ ParkedInTime /\ EndedOnce
      BY DEF LInv
<1>1. r = run /\ sup \in {"starting", "running"}
      BY ActiveIsRun DEF StartFails
<1>2. Calm' /\ pc'[run] = "over"
      BY <1>1, <1>t DEF StartFails, session, Calm, TypeOK, PhasesAgree, RowsCounted, TroublesCounted, Looping
<1>3. RunsTyped'
      BY <1>t DEF StartFails, session, TypeOK, RunsTyped
<1>4. TroublesFit'
      BY <1>t DEF StartFails, RunCrashed, Spend, TypeOK, TroublesCounted, TroublesFit, Runs
<1>5. RowsFit'
      BY <1>1, <1>t DEF StartFails, queue, TypeOK, RowsCounted, RowsFit
<1>6. /\ RunCrashed /\ enqueued' = enqueued /\ failedStarts' = failedStarts + 1
      /\ UNCHANGED <<ender, awaited, stop, late>>
      BY DEF StartFails, caller
<1> QED
      BY <1>1, <1>2, <1>3, <1>4, <1>5, <1>6, CrashKeeps

LEMMA ProcessedKeeps ==
    ASSUME LInv, NEW r \in Runs, NEW n \in 0 .. MaxWork, Processed(r, n)
    PROVE  LInv'
<1> USE LoopAssumption
<1>t. TypeOK /\ PhasesAgree /\ RowsCounted /\ TroublesCounted /\ StartsCounted /\ ParkedInTime /\ EndedOnce
      BY DEF LInv
<1>0. Looping(r)
      BY DEF Processed, Looping
<1>1. r = run /\ sup = "running" /\ healthy /\ run \in Runs
      BY <1>0, ActiveIsRun
<1>2. RowsFit'
      BY <1>1, <1>t DEF Processed, bounds, TypeOK, RowsCounted, RowsFit
<1>3. CASE pendingError[r]
  <2>1. Leaves(r) /\ RunCrashed
        BY <1>3 DEF Processed, NextRound
  <2>2. Calm' /\ pc'[run] = "over" /\ RunsTyped'
        BY <1>0, <2>1, LeavesCalm DEF Processed
  <2>3. ~link[run]
        BY <1>1, <1>3, <1>t DEF TroublesCounted
  <2>4. TroublesFit'
        BY <1>1, <2>1, <2>3, <1>t DEF Processed, RunCrashed, history, bounds, TypeOK, TroublesCounted, TroublesFit, Runs
  <2>5. enqueued' = enqueued /\ UNCHANGED <<ender, awaited, stop, late>>
        BY DEF Processed, caller, history, bounds
  <2> QED
        BY <1>1, <1>2, <2>1, <2>2, <2>4, <2>5, CrashKeeps
<1>4. CASE ~pendingError[r] /\ stop[r]
  <2>1. Leaves(r) /\ LoopEnds /\ UNCHANGED <<run, inner, healthy, aborted>>
        BY <1>4 DEF Processed, NextRound, RunClosed
  <2>2. Calm' /\ pc'[run] = "over" /\ RunsTyped'
        BY <1>0, <2>1, LeavesCalm DEF Processed
  <2>3. aborted /\ ender \in {"ending", "ended", "timedOut"} /\ (awaited = run \/ (awaited = 0 /\ ender = "ended"))
        BY <1>4, <1>t DEF EndedOnce, TypeOK
  <2>4. UNCHANGED <<ender, awaited, stop, late, failedStarts, bounds>>
        BY DEF Processed, caller, history
  <2>5. /\ aborted' /\ aborted' \in BOOLEAN /\ stop' \in [Runs -> BOOLEAN] /\ late' \in Runs \cup {0}
        /\ ender' \in {"ending", "ended", "timedOut"} /\ (awaited' = run \/ (awaited' = 0 /\ ender' = "ended"))
        BY <1>t, <2>1, <2>3, <2>4 DEF TypeOK
  <2> QED
        BY <1>1, <1>2, <2>1, <2>2, <2>4, <2>5, CloseKeeps
<1>5. CASE ~pendingError[r] /\ ~stop[r]
<2> USE DEF LInv, Runs, Looping, queue, supervisor, caller, session, loop, history, bounds
<2>1. TypeOK'
    BY <1>5 DEF Processed, NextRound, TypeOK, PhasesAgree, RowsCounted, TroublesCounted, StartsCounted, ParkedInTime, EndedOnce
<2>2. PhasesAgree'
    BY <1>5 DEF Processed, NextRound, TypeOK, PhasesAgree, RowsCounted, TroublesCounted, StartsCounted, ParkedInTime, EndedOnce
<2>3. RowsCounted'
    BY <1>5 DEF Processed, NextRound, TypeOK, PhasesAgree, RowsCounted, TroublesCounted, StartsCounted, ParkedInTime, EndedOnce
<2>4. TroublesCounted'
    BY <1>5, SMTT(20) DEF Processed, NextRound, TypeOK, PhasesAgree, RowsCounted, TroublesCounted, StartsCounted, ParkedInTime, EndedOnce
<2>5. StartsCounted'
    BY <1>5 DEF Processed, NextRound, TypeOK, PhasesAgree, RowsCounted, TroublesCounted, StartsCounted, ParkedInTime, EndedOnce
<2>6. ParkedInTime'
    BY <1>5 DEF Processed, NextRound, TypeOK, PhasesAgree, RowsCounted, TroublesCounted, StartsCounted, ParkedInTime, EndedOnce
<2>7. EndedOnce'
    BY <1>5 DEF Processed, NextRound, TypeOK, PhasesAgree, RowsCounted, TroublesCounted, StartsCounted, ParkedInTime, EndedOnce
<2> QED
    BY <2>1, <2>2, <2>3, <2>4, <2>5, <2>6, <2>7
<1> QED
      BY <1>3, <1>4, <1>5

LEMMA ParkKeeps ==
    ASSUME LInv, NEW r \in Runs, Park(r)
    PROVE  LInv'
<1> USE LoopAssumption
<1>t. TypeOK /\ PhasesAgree /\ RowsCounted /\ TroublesCounted /\ StartsCounted /\ ParkedInTime /\ EndedOnce
      BY DEF LInv
<1>0. Looping(r)
      BY DEF Park, Looping
<1>1. r = run /\ sup = "running" /\ healthy /\ run \in Runs
      BY <1>0, ActiveIsRun
<1>2. RowsFit'
      BY <1>1, <1>t DEF Park, queue, bounds, TypeOK, RowsCounted, RowsFit
<1>3. CASE pendingError[r]
  <2>1. Leaves(r) /\ RunCrashed
        BY <1>3 DEF Park, NextRound
  <2>2. Calm' /\ pc'[run] = "over" /\ RunsTyped'
        BY <1>0, <2>1, LeavesCalm DEF Park
  <2>3. ~link[run]
        BY <1>1, <1>3, <1>t DEF TroublesCounted
  <2>4. TroublesFit'
        BY <1>1, <2>1, <2>3, <1>t DEF Park, RunCrashed, history, bounds, TypeOK, TroublesCounted, TroublesFit, Runs
  <2>5. enqueued' = enqueued /\ UNCHANGED <<ender, awaited, stop, late>>
        BY DEF Park, caller, history, bounds
  <2> QED
        BY <1>1, <1>2, <2>1, <2>2, <2>4, <2>5, CrashKeeps
<1>4. CASE ~pendingError[r] /\ stop[r]
  <2>1. Leaves(r) /\ LoopEnds /\ UNCHANGED <<run, inner, healthy, aborted>>
        BY <1>4 DEF Park, NextRound, RunClosed
  <2>2. Calm' /\ pc'[run] = "over" /\ RunsTyped'
        BY <1>0, <2>1, LeavesCalm DEF Park
  <2>3. aborted /\ ender \in {"ending", "ended", "timedOut"} /\ (awaited = run \/ (awaited = 0 /\ ender = "ended"))
        BY <1>4, <1>t DEF EndedOnce, TypeOK
  <2>4. UNCHANGED <<ender, awaited, stop, late, failedStarts, bounds>>
        BY DEF Park, caller, history
  <2>5. /\ aborted' /\ aborted' \in BOOLEAN /\ stop' \in [Runs -> BOOLEAN] /\ late' \in Runs \cup {0}
        /\ ender' \in {"ending", "ended", "timedOut"} /\ (awaited' = run \/ (awaited' = 0 /\ ender' = "ended"))
        BY <1>t, <2>1, <2>3, <2>4 DEF TypeOK
  <2> QED
        BY <1>1, <1>2, <2>1, <2>2, <2>4, <2>5, CloseKeeps
<1>5. CASE ~pendingError[r] /\ ~stop[r]
<2> USE DEF LInv, Runs, Looping, queue, supervisor, caller, session, loop, history, bounds
<2>1. TypeOK'
    BY <1>5 DEF Park, NextRound, TypeOK, PhasesAgree, RowsCounted, TroublesCounted, StartsCounted, ParkedInTime, EndedOnce
<2>2. PhasesAgree'
    BY <1>5 DEF Park, NextRound, TypeOK, PhasesAgree, RowsCounted, TroublesCounted, StartsCounted, ParkedInTime, EndedOnce
<2>3. RowsCounted'
    BY <1>5 DEF Park, NextRound, TypeOK, PhasesAgree, RowsCounted, TroublesCounted, StartsCounted, ParkedInTime, EndedOnce
<2>4. TroublesCounted'
    BY <1>5, SMTT(20) DEF Park, NextRound, TypeOK, PhasesAgree, RowsCounted, TroublesCounted, StartsCounted, ParkedInTime, EndedOnce
<2>5. StartsCounted'
    BY <1>5 DEF Park, NextRound, TypeOK, PhasesAgree, RowsCounted, TroublesCounted, StartsCounted, ParkedInTime, EndedOnce
<2>6. ParkedInTime'
    BY <1>5 DEF Park, NextRound, TypeOK, PhasesAgree, RowsCounted, TroublesCounted, StartsCounted, ParkedInTime, EndedOnce
<2>7. EndedOnce'
    BY <1>5 DEF Park, NextRound, TypeOK, PhasesAgree, RowsCounted, TroublesCounted, StartsCounted, ParkedInTime, EndedOnce
<2> QED
    BY <2>1, <2>2, <2>3, <2>4, <2>5, <2>6, <2>7
<1> QED
      BY <1>3, <1>4, <1>5

LEMMA BatchThrowsKeeps ==
    ASSUME LInv, NEW r \in Runs, BatchThrows(r)
    PROVE  LInv'
<1> USE LoopAssumption
<1>t. TypeOK /\ PhasesAgree /\ RowsCounted /\ TroublesCounted /\ StartsCounted /\ ParkedInTime /\ EndedOnce
      BY DEF LInv
<1>0. Looping(r)
      BY DEF BatchThrows, Looping
<1>1. r = run /\ sup = "running" /\ healthy /\ run \in Runs
      BY <1>0, ActiveIsRun
<1>2. RowsFit'
      BY <1>1, <1>t DEF BatchThrows, TypeOK, RowsCounted, RowsFit
<1>3. left' \in Nat /\ left' <= left /\ run + left' <= MaxTroubles
      BY <1>1, <1>t, SMTT(20) DEF BatchThrows, Spend, TypeOK, TroublesCounted, Runs
<1>4. failedStarts' \in Nat /\ left \in Nat /\ failedStarts' + left <= MaxTroubles
      BY <1>t DEF BatchThrows, history, TypeOK, TroublesCounted
<1>5. TroublesFit'
  <2>1. failedStarts' + left' <= MaxTroubles
        BY <1>3, <1>4, SumOfLess
  <2> QED
        BY <2>1, <1>3, <1>4 DEF TroublesFit, BatchThrows, RunCrashed
<1>6. RunCrashed /\ enqueued' = enqueued /\ UNCHANGED <<ender, awaited, stop, late>>
      BY DEF BatchThrows, caller, history
<1>7. Calm' /\ pc'[run] = "over" /\ RunsTyped'
      BY <1>0, LeavesCalm DEF BatchThrows
<1> QED
      BY <1>1, <1>2, <1>5, <1>6, <1>7, CrashKeeps

LEMMA ListenerErrorKeeps ==
    ASSUME LInv, NEW r \in Runs, ListenerError(r)
    PROVE  LInv'
<1> USE LoopAssumption
<1>t. TypeOK /\ PhasesAgree /\ RowsCounted /\ TroublesCounted /\ StartsCounted /\ ParkedInTime /\ EndedOnce
      BY DEF LInv
<1>0. Looping(r)
      BY DEF ListenerError
<1>1. r = run /\ sup = "running" /\ healthy /\ run \in Runs
      BY <1>0, ActiveIsRun
<1>2. CASE pc[r] = "parked"
  <2>1. Leaves(r) /\ RunCrashed
        BY <1>2 DEF ListenerError
  <2>2. Calm' /\ pc'[run] = "over" /\ RunsTyped'
        BY <1>0, <1>2, <2>1, LeavesCalm DEF ListenerError
  <2>3. RowsFit'
        BY <1>1, <1>t DEF ListenerError, queue, bounds, TypeOK, RowsCounted, RowsFit
  <2>4. TroublesFit'
        BY <1>1, <2>1, <1>t DEF ListenerError, RunCrashed, history, bounds, TypeOK, TroublesCounted, TroublesFit, Runs
  <2>5. enqueued' = enqueued /\ UNCHANGED <<ender, awaited, stop, late>>
        BY DEF ListenerError, caller, history, bounds
  <2> QED
        BY <1>1, <2>1, <2>2, <2>3, <2>4, <2>5, CrashKeeps
<1>3. CASE pc[r] # "parked"
<2> USE DEF LInv, Runs, Looping, queue, supervisor, caller, session, loop, history, bounds
<2>1. TypeOK'
    BY <1>3, ZenonT(30) DEF ListenerError, ReportsError, TypeOK, PhasesAgree, RowsCounted, TroublesCounted, StartsCounted, ParkedInTime, EndedOnce
<2>2. PhasesAgree'
    BY <1>3 DEF ListenerError, ReportsError, TypeOK, PhasesAgree, RowsCounted, TroublesCounted, StartsCounted, ParkedInTime, EndedOnce
<2>3. RowsCounted'
    BY <1>3 DEF ListenerError, ReportsError, TypeOK, PhasesAgree, RowsCounted, TroublesCounted, StartsCounted, ParkedInTime, EndedOnce
<2>4. TroublesCounted'
    BY <1>3 DEF ListenerError, ReportsError, TypeOK, PhasesAgree, RowsCounted, TroublesCounted, StartsCounted, ParkedInTime, EndedOnce
<2>5. StartsCounted'
    BY <1>3 DEF ListenerError, ReportsError, TypeOK, PhasesAgree, RowsCounted, TroublesCounted, StartsCounted, ParkedInTime, EndedOnce
<2>6. ParkedInTime'
    BY <1>3 DEF ListenerError, ReportsError, TypeOK, PhasesAgree, RowsCounted, TroublesCounted, StartsCounted, ParkedInTime, EndedOnce
<2>7. EndedOnce'
    BY <1>3 DEF ListenerError, ReportsError, TypeOK, PhasesAgree, RowsCounted, TroublesCounted, StartsCounted, ParkedInTime, EndedOnce
<2> QED
    BY <2>1, <2>2, <2>3, <2>4, <2>5, <2>6, <2>7
<1> QED
      BY <1>2, <1>3

LEMMA EndKeeps ==
    ASSUME LInv, End
    PROVE  LInv'
<1> USE LoopAssumption
<1>t. TypeOK /\ PhasesAgree /\ RowsCounted /\ TroublesCounted /\ StartsCounted /\ ParkedInTime /\ EndedOnce
      BY DEF LInv
<1>1. CASE inner # 0 /\ pc[inner] = "parked"
  <2>0. inner \in Runs /\ Looping(inner)
        BY <1>1, <1>t DEF TypeOK, Looping
  <2>1. inner = run /\ sup = "running" /\ healthy
        BY <2>0, ActiveIsRun
  <2>2. Leaves(inner) /\ LoopEnds
        BY <1>1 DEF End, EndRun
  <2>3. Calm' /\ pc'[run] = "over" /\ RunsTyped'
        BY <1>1, <2>0, <2>2, LeavesCalm DEF End
  <2>4. RowsFit'
        BY <1>t DEF End, queue, bounds, TypeOK, RowsCounted, RowsFit
  <2>5. stop' \in [Runs -> BOOLEAN] /\ late' \in Runs \cup {0}
        BY <1>1, <2>0, <1>t DEF End, EndRun, TypeOK
  <2>6. /\ aborted' /\ aborted' \in BOOLEAN /\ awaited' = run /\ ender' = "ending"
        /\ UNCHANGED <<run, inner, healthy, failedStarts, bounds>>
        BY <1>1, <2>1 DEF End
  <2> QED
        BY <2>1, <2>2, <2>3, <2>4, <2>5, <2>6, CloseKeeps
<1>2. CASE inner # 0 /\ pc[inner] # "parked"
<2> USE DEF LInv, Runs, Looping, queue, supervisor, caller, session, loop, history, bounds
<2>1. TypeOK'
    BY <1>2 DEF End, EndRun, TypeOK, PhasesAgree, RowsCounted, TroublesCounted, StartsCounted, ParkedInTime, EndedOnce
<2>2. PhasesAgree'
    BY <1>2 DEF End, EndRun, TypeOK, PhasesAgree, RowsCounted, TroublesCounted, StartsCounted, ParkedInTime, EndedOnce
<2>3. RowsCounted'
    BY <1>2 DEF End, EndRun, TypeOK, PhasesAgree, RowsCounted, TroublesCounted, StartsCounted, ParkedInTime, EndedOnce
<2>4. TroublesCounted'
    BY <1>2 DEF End, EndRun, TypeOK, PhasesAgree, RowsCounted, TroublesCounted, StartsCounted, ParkedInTime, EndedOnce
<2>5. StartsCounted'
    BY <1>2 DEF End, EndRun, TypeOK, PhasesAgree, RowsCounted, TroublesCounted, StartsCounted, ParkedInTime, EndedOnce
<2>6. ParkedInTime'
    BY <1>2 DEF End, EndRun, TypeOK, PhasesAgree, RowsCounted, TroublesCounted, StartsCounted, ParkedInTime, EndedOnce
<2>7. EndedOnce'
    BY <1>2 DEF End, EndRun, TypeOK, PhasesAgree, RowsCounted, TroublesCounted, StartsCounted, ParkedInTime, EndedOnce
<2> QED
    BY <2>1, <2>2, <2>3, <2>4, <2>5, <2>6, <2>7
<1>3. CASE inner = 0
<2> USE DEF LInv, Runs, Looping, queue, supervisor, caller, session, loop, history, bounds
<2>1. TypeOK'
    BY <1>3 DEF End, TypeOK, PhasesAgree, RowsCounted, TroublesCounted, StartsCounted, ParkedInTime, EndedOnce
<2>2. PhasesAgree'
    BY <1>3 DEF End, TypeOK, PhasesAgree, RowsCounted, TroublesCounted, StartsCounted, ParkedInTime, EndedOnce
<2>3. RowsCounted'
    BY <1>3 DEF End, TypeOK, PhasesAgree, RowsCounted, TroublesCounted, StartsCounted, ParkedInTime, EndedOnce
<2>4. TroublesCounted'
    BY <1>3 DEF End, TypeOK, PhasesAgree, RowsCounted, TroublesCounted, StartsCounted, ParkedInTime, EndedOnce
<2>5. StartsCounted'
    BY <1>3 DEF End, TypeOK, PhasesAgree, RowsCounted, TroublesCounted, StartsCounted, ParkedInTime, EndedOnce
<2>6. ParkedInTime'
    BY <1>3 DEF End, TypeOK, PhasesAgree, RowsCounted, TroublesCounted, StartsCounted, ParkedInTime, EndedOnce
<2>7. EndedOnce'
    BY <1>3 DEF End, TypeOK, PhasesAgree, RowsCounted, TroublesCounted, StartsCounted, ParkedInTime, EndedOnce
<2> QED
    BY <2>1, <2>2, <2>3, <2>4, <2>5, <2>6, <2>7
<1> QED
      BY <1>1, <1>2, <1>3

LEMMA LoopStep == LInv /\ [Next]_vars => LInv'
<1> SUFFICES ASSUME LInv, [Next]_vars PROVE LInv'
    OBVIOUS
<1>1. CASE UNCHANGED vars
  <2> USE <1>1 DEF vars, queue, supervisor, caller, session, loop, history, bounds, LInv, Looping
  <2>1. TypeOK'
        BY DEF TypeOK
  <2>2. PhasesAgree'
        BY DEF PhasesAgree
  <2>3. RowsCounted'
        BY DEF RowsCounted
  <2>4. TroublesCounted'
        BY DEF TroublesCounted
  <2>5. StartsCounted'
        BY DEF StartsCounted
  <2>6. ParkedInTime'
        BY DEF ParkedInTime
  <2>7. EndedOnce'
        BY DEF EndedOnce
  <2> QED
        BY <2>1, <2>2, <2>3, <2>4, <2>5, <2>6, <2>7
<1>2. ASSUME NEW r \in Runs, Step(r) PROVE LInv'
      BY <1>2, StartedKeeps, StartFailsKeeps, FetchRowsKeeps, ProcessedKeeps, FetchNoneKeeps,
         FetchBackOffKeeps, ParkKeeps, BatchThrowsKeeps DEF Step
<1>3. ASSUME NEW r \in Runs, Notified(r) \/ WakeTimer(r) \/ ListenerError(r) \/ LinkLost(r)
      PROVE  LInv'
      BY <1>3, NotifiedKeeps, WakeTimerKeeps, ListenerErrorKeeps, LinkLostKeeps
<1> QED
      BY <1>1, <1>2, <1>3, RestartKeeps, BecomesStableKeeps, EndKeeps, EndReturnsKeeps, EnqueueKeeps,
         ElapseKeeps DEF Next

\* The inductive invariant of the loop: the supervisor and its run agree, rows and troubles
\* are accounted for, a loop parks with a timer or a NOTIFY for what is due, end() is final.
THEOREM LoopInvariant == Spec => []LInv
BY LoopInit, LoopStep, PTL DEF Spec

\* Every variable keeps its type and its bound, for any limits.
THEOREM LoopTypeCorrect == Spec => []TypeOK
<1>1. LInv => TypeOK
      BY DEF LInv
<1> QED
      BY <1>1, LoopInvariant, PTL

\* A supervisor has one loop at a time, whatever dies and whenever it is restarted or ended.
THEOREM SupervisorHasOneLoop == Spec => []OneLoop
<1>1. LInv => OneLoop
      BY DEF LInv, OneLoop, PhasesAgree
<1> QED
      BY <1>1, LoopInvariant, PTL

\* A loop that parks over due rows has a NOTIFY on its way, a retry to wait for, or has
\* missed the NOTIFY between the look at the queue and the park.
THEOREM WorkWakesTheLoop == Spec => []NoSleepOnWork
<1>1. LInv => NoSleepOnWork
      BY DEF LInv, NoSleepOnWork, ParkedInTime
<1> QED
      BY <1>1, LoopInvariant, PTL

\* The supervisor gives up only after startupMax failed starts and no healthy one.
THEOREM GivingUpHasAReason == Spec => []GivesUpForAReason
<1>1. LInv => GivesUpForAReason
      BY DEF LInv, GivesUpForAReason, StartsCounted, PhasesAgree
<1> QED
      BY <1>1, LoopInvariant, PTL

\* After an end() that returned in time nothing runs, but for a run that was starting then.
THEOREM EndedStaysQuiet == Spec => []EndedIsQuiet
<1>1. LInv => EndedIsQuiet
      BY DEF LInv, EndedIsQuiet, EndedOnce, PhasesAgree, Looping, TypeOK
<1> QED
      BY <1>1, LoopInvariant, PTL
=============================================================================
