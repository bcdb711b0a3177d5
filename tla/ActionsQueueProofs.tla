------------------------ MODULE ActionsQueueProofs ------------------------
(***************************************************************************)
(* Proofs about ActionsQueue, for every value of its constants.            *)
(***************************************************************************)
EXTENDS ActionsQueue, FiniteSetTheorems, TLAPS

LEMMA TypeInit == Init => TypeOK
<1>1. Init => holderDied \in BOOLEAN
      BY DEF Init
<1>2. QED
      BY <1>1, QueueAssumption DEF Init, TypeOK, EventState, PC, Serving, NoRow

\* persistProcessed leaves the table well-typed, whatever it records.
LEMMA PersistType ==
    ASSUME TypeOK, NEW d \in Dispatchers, NEW max \in Nat, PersistProcessed(d, max)
    PROVE  /\ state' \in [Events -> EventState]
           /\ retries' \in [Events -> Nat]
           /\ due' \in SUBSET Events
           /\ marked' \in SUBSET Events
<1>1. \A e \in Events : Outcome(d, e, max) \in EventState
      BY DEF Outcome, EventState
<1>2. \A e \in Events : RetriesAfter(d, e) \in Nat
      BY DEF RetriesAfter, TypeOK
<1>3. QED
      BY <1>1, <1>2 DEF PersistProcessed, TypeOK

LEMMA TypeStep == TypeOK /\ [Next]_vars => TypeOK'
<1> SUFFICES ASSUME TypeOK, [Next]_vars PROVE TypeOK'
    OBVIOUS
<1> USE QueueAssumption DEF TypeOK, EventState, PC, Serving, Waiting, Processable, NoRow, table, config, local, history, At, Spend, Forget, Claim, Count
<1>1. ASSUME NEW d \in Dispatchers, ReadSchema(d) PROVE TypeOK'
      BY <1>1 DEF ReadSchema
<1>2. ASSUME NEW d \in Dispatchers, NothingToProcess(d) PROVE TypeOK'
      BY <1>2 DEF NothingToProcess
<1>3. ASSUME NEW d \in Dispatchers, NEW e \in Events, ClaimPrimary(d, e) PROVE TypeOK'
      BY <1>3 DEF ClaimPrimary
<1>4. ASSUME NEW d \in Dispatchers, FailUnknownTarget(d) PROVE TypeOK'
      BY <1>4 DEF FailUnknownTarget, OfUnknownTarget
<1>5. ASSUME NEW d \in Dispatchers, NEW S \in SUBSET Events, ClaimRest(d, S) PROVE TypeOK'
      BY <1>5 DEF ClaimRest
<1>6. ASSUME NEW d \in Dispatchers, SendRequest(d) PROVE TypeOK'
      BY <1>6 DEF SendRequest
<1>7. ASSUME NEW d \in Dispatchers, FindUndefined(d) PROVE TypeOK'
      BY <1>7 DEF FindUndefined
<1>8. ASSUME NEW d \in Dispatchers, NEW S \in SUBSET Events, Respond(d, S) PROVE TypeOK'
      BY <1>8 DEF Respond
<1>9. ASSUME NEW d \in Dispatchers, Persist(d) PROVE TypeOK'
      BY <1>9, PersistType DEF Persist
<1>10. ASSUME NEW d \in Dispatchers, PersistInternalError(d) PROVE TypeOK'
      BY <1>10, PersistType DEF PersistInternalError
<1>11. ASSUME NEW d \in Dispatchers, Hold(d) PROVE TypeOK'
      BY <1>11 DEF Hold, HeldBack, Requeued
<1>12. ASSUME NEW d \in Dispatchers, RecheckDefined(d) PROVE TypeOK'
      BY <1>12 DEF RecheckDefined
<1>13. ASSUME NEW d \in Dispatchers, RecheckUndefined(d) PROVE TypeOK'
      BY <1>13 DEF RecheckUndefined
<1>14. ASSUME NEW d \in Dispatchers, ResumeHeld(d) PROVE TypeOK'
      BY <1>14 DEF ResumeHeld, Held
<1>15. ASSUME NEW d \in Dispatchers, BreakBeforeRequest(d) PROVE TypeOK'
      BY <1>15 DEF BreakBeforeRequest
<1>16. ASSUME NEW d \in Dispatchers, PersistFails(d) PROVE TypeOK'
  <2>1. CASE PersistProcessed(d, MaxAttempts)
        BY <1>16, <2>1, PersistType DEF PersistFails
  <2>2. CASE UNCHANGED table
        BY <1>16, <2>2 DEF PersistFails
  <2>3. QED
        BY <1>16, <2>1, <2>2 DEF PersistFails
<1>17. ASSUME NEW d \in Dispatchers, Crash(d) PROVE TypeOK'
      BY <1>17 DEF Crash
<1>18. ASSUME NEW S \in SUBSET Events, Enqueue(S) PROVE TypeOK'
      BY <1>18 DEF Enqueue
<1>19. ASSUME NEW e \in Events, Elapse(e) PROVE TypeOK'
      BY <1>19 DEF Elapse
<1>20. ASSUME NEW e \in Events, StopEvent(e) PROVE TypeOK'
      BY <1>20 DEF StopEvent
<1>21. ASSUME NEW e \in Events, RetryEvent(e) PROVE TypeOK'
      BY <1>21 DEF RetryEvent, Requeued
<1>22. ASSUME NEW a \in Admins, ResumeAfterSet(a) PROVE TypeOK'
      BY <1>22 DEF ResumeAfterSet, Held
<1>23. ASSUME NEW a \in Admins, CrashAfterSet(a) PROVE TypeOK'
      BY <1>23 DEF CrashAfterSet
<1>24. ASSUME NEW a \in Admins, NEW V \in SUBSET Vars, SetVariables(a, V) PROVE TypeOK'
      BY <1>24 DEF SetVariables
<1>25. ASSUME NEW T \in SUBSET Targets, MigrateSchema(T) PROVE TypeOK'
      BY <1>25 DEF MigrateSchema
<1>26. CASE UNCHANGED vars
      BY <1>26 DEF vars
<1>27. QED
      BY <1>1, <1>2, <1>3, <1>4, <1>5, <1>6, <1>7, <1>8, <1>9, <1>10, <1>11, <1>12, <1>13,
         <1>14, <1>15, <1>16, <1>17, <1>18, <1>19, <1>20, <1>21, <1>22, <1>23, <1>24, <1>25,
         <1>26 DEF Next, Work

\* Every variable keeps its type: rows only take states the column's enum has.
THEOREM TypeCorrect == Spec => []TypeOK
BY TypeInit, TypeStep, PTL DEF Spec

\* A target leaves the schema only through a migration, which retires it.
LEMMA SchemaStep ==
    ASSUME IInv, [Next]_vars
    PROVE  SchemaInv'
<1> USE DEF IInv, TypeOK, SchemaInv, table, config, local, history
<1>1. ASSUME NEW d \in Dispatchers,
             \/ ReadSchema(d) \/ NothingToProcess(d) \/ FailUnknownTarget(d)
             \/ SendRequest(d) \/ FindUndefined(d) \/ Persist(d)
             \/ PersistInternalError(d) \/ Hold(d) \/ RecheckDefined(d)
             \/ RecheckUndefined(d) \/ ResumeHeld(d) \/ BreakBeforeRequest(d)
             \/ PersistFails(d) \/ Crash(d)
      PROVE  SchemaInv'
      BY <1>1 DEF ReadSchema, NothingToProcess, FailUnknownTarget, SendRequest,
         FindUndefined, Persist, PersistInternalError, Hold, RecheckDefined,
         RecheckUndefined, ResumeHeld, BreakBeforeRequest, PersistFails, Crash
<1>2. ASSUME NEW d \in Dispatchers, NEW e \in Events, ClaimPrimary(d, e) PROVE SchemaInv'
      BY <1>2 DEF ClaimPrimary
<1>3. ASSUME NEW d \in Dispatchers, NEW S \in SUBSET Events,
             \/ ClaimRest(d, S) \/ Respond(d, S)
      PROVE  SchemaInv'
      BY <1>3 DEF ClaimRest, Respond
<1>4. ASSUME NEW e \in Events, Elapse(e) \/ StopEvent(e) \/ RetryEvent(e) PROVE SchemaInv'
      BY <1>4 DEF Elapse, StopEvent, RetryEvent
<1>5. ASSUME NEW a \in Admins, ResumeAfterSet(a) \/ CrashAfterSet(a) PROVE SchemaInv'
      BY <1>5 DEF ResumeAfterSet, CrashAfterSet
<1>6. ASSUME NEW a \in Admins, NEW V \in SUBSET Vars, SetVariables(a, V) PROVE SchemaInv'
      BY <1>6 DEF SetVariables
<1>7. ASSUME NEW T \in SUBSET Targets, MigrateSchema(T) PROVE SchemaInv'
      BY <1>7 DEF MigrateSchema
<1>8. ASSUME NEW S \in SUBSET Events, Enqueue(S) PROVE SchemaInv'
      BY <1>8 DEF Enqueue
<1>9. CASE UNCHANGED vars
      BY <1>9 DEF vars
<1>10. QED
      BY <1>1, <1>2, <1>3, <1>4, <1>5, <1>6, <1>7, <1>8, <1>9 DEF Next, Work

\* Only persistProcessed writes "succeed", and only for acknowledged rows.
LEMMA SucceededStep ==
    ASSUME IInv, [Next]_vars
    PROVE  SucceededWasAcknowledged'
<1> USE DEF IInv, TypeOK, SucceededWasAcknowledged, table, config, local, history
<1>1. ASSUME NEW d \in Dispatchers,
             \/ ReadSchema(d) \/ NothingToProcess(d) \/ SendRequest(d)
             \/ FindUndefined(d) \/ RecheckDefined(d) \/ RecheckUndefined(d)
             \/ ResumeHeld(d) \/ BreakBeforeRequest(d) \/ Crash(d)
      PROVE  SucceededWasAcknowledged'
      BY <1>1 DEF ReadSchema, NothingToProcess, SendRequest, FindUndefined,
         RecheckDefined, RecheckUndefined, ResumeHeld, BreakBeforeRequest, Crash, Forget
<1>2. ASSUME NEW e \in Events,
             \/ Elapse(e) \/ StopEvent(e) \/ RetryEvent(e)
      PROVE  SucceededWasAcknowledged'
      BY <1>2 DEF Elapse, StopEvent, RetryEvent, Requeued
<1>3. ASSUME NEW a \in Admins,
             \/ ResumeAfterSet(a) \/ CrashAfterSet(a)
      PROVE  SucceededWasAcknowledged'
      BY <1>3 DEF ResumeAfterSet, CrashAfterSet
<1>4. ASSUME NEW a \in Admins, NEW V \in SUBSET Vars,
             SetVariables(a, V)
      PROVE  SucceededWasAcknowledged'
      BY <1>4 DEF SetVariables
<1>5. ASSUME NEW T \in SUBSET Targets, MigrateSchema(T) PROVE SucceededWasAcknowledged'
      BY <1>5 DEF MigrateSchema
<1>6. ASSUME NEW S \in SUBSET Events, Enqueue(S) PROVE SucceededWasAcknowledged'
      BY <1>6 DEF Enqueue
<1>7. ASSUME NEW d \in Dispatchers, NEW e \in Events,
             ClaimPrimary(d, e)
      PROVE  SucceededWasAcknowledged'
      BY <1>7 DEF ClaimPrimary, Claim
<1>8. ASSUME NEW d \in Dispatchers, NEW S \in SUBSET Events,
             ClaimRest(d, S)
      PROVE  SucceededWasAcknowledged'
      BY <1>8 DEF ClaimRest, Claim
<1>9. ASSUME NEW d \in Dispatchers, FailUnknownTarget(d) PROVE SucceededWasAcknowledged'
      BY <1>9 DEF FailUnknownTarget
<1>10. ASSUME NEW d \in Dispatchers, NEW S \in SUBSET Events,
             Respond(d, S)
      PROVE  SucceededWasAcknowledged'
      BY <1>10 DEF Respond
<1>11. ASSUME NEW d \in Dispatchers, Hold(d) PROVE SucceededWasAcknowledged'
      BY <1>11 DEF Hold, Requeued
<1>12. ASSUME NEW d \in Dispatchers, Persist(d) PROVE SucceededWasAcknowledged'
      BY <1>12 DEF Persist, PersistProcessed, Outcome, Succeeded, AckInv
<1>13. ASSUME NEW d \in Dispatchers,
             PersistInternalError(d)
      PROVE  SucceededWasAcknowledged'
      BY <1>13 DEF PersistInternalError, PersistProcessed, Outcome, Succeeded, AckInv
<1>14. ASSUME NEW d \in Dispatchers, PersistFails(d) PROVE SucceededWasAcknowledged'
      BY <1>14 DEF PersistFails, PersistProcessed, Outcome, Succeeded, AckInv
<1>15. CASE UNCHANGED vars
      BY <1>15 DEF vars
<1>16. QED
      BY <1>1, <1>2, <1>3, <1>4, <1>5, <1>6, <1>7, <1>8, <1>9, <1>10, <1>11, <1>12,
         <1>13, <1>14, <1>15 DEF Next, Work

\* What processBatch remembers keeps matching where it is.
LEMMA LocalStep ==
    ASSUME IInv, [Next]_vars
    PROVE  LocalInv'
<1> USE QueueAssumption DEF IInv, TypeOK, LocalInv, LocalOK, table, config, local,
    history, At, Forget, PC, Serving, Spend
<1> SUFFICES ASSUME NEW x \in Dispatchers PROVE LocalOK(x)'
    BY DEF LocalInv
<1>1. ASSUME NEW d \in Dispatchers, ReadSchema(d) PROVE LocalOK(x)'
      BY <1>1 DEF ReadSchema, SchemaInv
<1>2. ASSUME NEW d \in Dispatchers, NothingToProcess(d) PROVE LocalOK(x)'
      BY <1>2 DEF NothingToProcess
<1>3. ASSUME NEW d \in Dispatchers, SendRequest(d) PROVE LocalOK(x)'
      BY <1>3 DEF SendRequest
<1>4. ASSUME NEW d \in Dispatchers, FindUndefined(d) PROVE LocalOK(x)'
      BY <1>4 DEF FindUndefined
<1>5. ASSUME NEW d \in Dispatchers, BreakBeforeRequest(d) PROVE LocalOK(x)'
      BY <1>5 DEF BreakBeforeRequest
<1>6. ASSUME NEW d \in Dispatchers,
             \/ RecheckDefined(d) \/ RecheckUndefined(d) \/ ResumeHeld(d)
      PROVE  LocalOK(x)'
      BY <1>6 DEF RecheckDefined, RecheckUndefined, ResumeHeld
<1>7. ASSUME NEW d \in Dispatchers,
             \/ Persist(d) \/ PersistInternalError(d) \/ Hold(d) \/ Crash(d)
      PROVE  LocalOK(x)'
      BY <1>7 DEF Persist, PersistInternalError, Hold, Crash
<1>8. ASSUME NEW d \in Dispatchers, PersistFails(d) PROVE LocalOK(x)'
      BY <1>8 DEF PersistFails
<1>9. ASSUME NEW d \in Dispatchers, FailUnknownTarget(d) PROVE LocalOK(x)'
      BY <1>9 DEF FailUnknownTarget
<1>10. ASSUME NEW e \in Events,
             \/ Elapse(e) \/ StopEvent(e) \/ RetryEvent(e)
      PROVE  LocalOK(x)'
      BY <1>10 DEF Elapse, StopEvent, RetryEvent
<1>11. ASSUME NEW a \in Admins, ResumeAfterSet(a) \/ CrashAfterSet(a) PROVE LocalOK(x)'
  <2>1. CASE ResumeAfterSet(a)
        BY <2>1 DEF ResumeAfterSet
  <2>2. CASE CrashAfterSet(a)
        BY <2>2 DEF CrashAfterSet
  <2>3. QED
        BY <1>11, <2>1, <2>2
<1>12. ASSUME NEW a \in Admins, NEW V \in SUBSET Vars,
             SetVariables(a, V)
      PROVE  LocalOK(x)'
      BY <1>12 DEF SetVariables
<1>13. ASSUME NEW T \in SUBSET Targets, MigrateSchema(T) PROVE LocalOK(x)'
      BY <1>13 DEF MigrateSchema
<1>14. ASSUME NEW S \in SUBSET Events, Enqueue(S) PROVE LocalOK(x)'
      BY <1>14 DEF Enqueue
<1>15. ASSUME NEW d \in Dispatchers, NEW e \in Events,
             ClaimPrimary(d, e)
      PROVE  LocalOK(x)'
  <2>1. CASE x = d
    <3>1. batch[d] = {} /\ ok[d] = {} /\ Targets \ seen[d] \subseteq retired
          BY <1>15 DEF ClaimPrimary
    <3>2. /\ pc'[d] = IF TargetOf[e] \in seen[d] THEN "claimed" ELSE "unknown"
          /\ target'[d] = TargetOf[e] /\ batch'[d] = batch[d] \cup {e}
          BY <1>15 DEF ClaimPrimary, Claim
    <3>3. ok' = ok /\ seen' = seen /\ retired' = retired
          BY <1>15 DEF ClaimPrimary
    <3>4. QED
          BY <2>1, <3>1, <3>2, <3>3
  <2>2. CASE x # d
        BY <1>15, <2>2 DEF ClaimPrimary, Claim
  <2>3. QED
        BY <2>1, <2>2
<1>16. ASSUME NEW d \in Dispatchers, NEW S \in SUBSET Events,
             ClaimRest(d, S)
      PROVE  LocalOK(x)'
      BY <1>16 DEF ClaimRest, Claim
<1>17. ASSUME NEW d \in Dispatchers, NEW S \in SUBSET Events,
             Respond(d, S)
      PROVE  LocalOK(x)'
      BY <1>17 DEF Respond
<1>18. CASE UNCHANGED vars
      BY <1>18 DEF vars
<1>19. QED
      BY <1>1, <1>2, <1>3, <1>4, <1>5, <1>6, <1>7, <1>8, <1>9, <1>10, <1>11, <1>12,
         <1>13, <1>14, <1>15, <1>16, <1>17, <1>18 DEF Next, Work

\* A row is neither claimed nor acknowledged before it is enqueued.
LEMMA ExistStep ==
    ASSUME IInv, [Next]_vars
    PROVE  ExistInv'
<1> USE DEF IInv, TypeOK, ExistInv, Claimed, table, config, local, history, At, Forget
<1>1. ASSUME NEW d \in Dispatchers,
             \/ ReadSchema(d) \/ NothingToProcess(d) \/ SendRequest(d)
             \/ FindUndefined(d) \/ RecheckDefined(d) \/ RecheckUndefined(d)
             \/ ResumeHeld(d) \/ BreakBeforeRequest(d) \/ Crash(d)
      PROVE  ExistInv'
      BY <1>1, SMTT(20) DEF ReadSchema, NothingToProcess, SendRequest, FindUndefined,
         RecheckDefined, RecheckUndefined, ResumeHeld, BreakBeforeRequest, Crash
<1>2. ASSUME NEW e \in Events, Elapse(e) \/ StopEvent(e) \/ RetryEvent(e) PROVE ExistInv'
      BY <1>2 DEF Elapse, StopEvent, RetryEvent, Requeued
<1>3. ASSUME NEW a \in Admins, ResumeAfterSet(a) \/ CrashAfterSet(a) PROVE ExistInv'
      BY <1>3 DEF ResumeAfterSet, CrashAfterSet
<1>4. ASSUME NEW a \in Admins, NEW V \in SUBSET Vars, SetVariables(a, V) PROVE ExistInv'
      BY <1>4 DEF SetVariables
<1>5. ASSUME NEW T \in SUBSET Targets, MigrateSchema(T) PROVE ExistInv'
      BY <1>5 DEF MigrateSchema
<1>6. ASSUME NEW S \in SUBSET Events, Enqueue(S) PROVE ExistInv'
      BY <1>6 DEF Enqueue
<1>7. ASSUME NEW d \in Dispatchers, NEW e \in Events, ClaimPrimary(d, e) PROVE ExistInv'
      BY <1>7 DEF ClaimPrimary, Claim, Claimable, Processable, Waiting
<1>8. ASSUME NEW d \in Dispatchers, NEW S \in SUBSET Events,
             ClaimRest(d, S)
      PROVE  ExistInv'
      BY <1>8 DEF ClaimRest, Claim, Rest, Claimable, Processable, Waiting
<1>9. ASSUME NEW d \in Dispatchers, FailUnknownTarget(d) PROVE ExistInv'
      BY <1>9 DEF FailUnknownTarget
<1>10. ASSUME NEW d \in Dispatchers, NEW S \in SUBSET Events,
             Respond(d, S)
      PROVE  ExistInv'
      BY <1>10 DEF Respond
<1>11. ASSUME NEW d \in Dispatchers, Hold(d) PROVE ExistInv'
      BY <1>11 DEF Hold, Requeued
<1>12. ASSUME NEW d \in Dispatchers, Persist(d) PROVE ExistInv'
      BY <1>12 DEF Persist, PersistProcessed, Outcome, Succeeded
<1>13. ASSUME NEW d \in Dispatchers, PersistInternalError(d) PROVE ExistInv'
      BY <1>13 DEF PersistInternalError, PersistProcessed, Outcome, Succeeded
<1>14. ASSUME NEW d \in Dispatchers, PersistFails(d) PROVE ExistInv'
  <2>1. CASE PersistProcessed(d, MaxAttempts)
        BY <1>14, <2>1 DEF PersistFails, PersistProcessed, Outcome, Succeeded
  <2>2. CASE UNCHANGED table
        BY <1>14, <2>2 DEF PersistFails
  <2>3. QED
        BY <1>14, <2>1, <2>2 DEF PersistFails
<1>15. CASE UNCHANGED vars
      BY <1>15 DEF vars
<1>16. QED
      BY <1>1, <1>2, <1>3, <1>4, <1>5, <1>6, <1>7, <1>8, <1>9, <1>10, <1>11, <1>12,
         <1>13, <1>14, <1>15 DEF Next, Work

\* A claim that was not disturbed stays exclusive.
LEMMA ClaimStep ==
    ASSUME IInv, [Next]_vars
    PROVE  ClaimInv'
<1> USE DEF IInv, TypeOK, ClaimInv, Claimed, table, config, local, history, At, Forget
<1>1. ASSUME NEW d \in Dispatchers, ReadSchema(d) PROVE ClaimInv'
      BY <1>1 DEF ReadSchema
<1>2. ASSUME NEW d \in Dispatchers, NothingToProcess(d) PROVE ClaimInv'
      BY <1>2 DEF NothingToProcess
<1>3. ASSUME NEW d \in Dispatchers, SendRequest(d) PROVE ClaimInv'
      BY <1>3 DEF SendRequest
<1>4. ASSUME NEW d \in Dispatchers, FindUndefined(d) PROVE ClaimInv'
      BY <1>4 DEF FindUndefined
<1>5. ASSUME NEW d \in Dispatchers, RecheckDefined(d) PROVE ClaimInv'
      BY <1>5 DEF RecheckDefined
<1>6. ASSUME NEW d \in Dispatchers, RecheckUndefined(d) PROVE ClaimInv'
      BY <1>6 DEF RecheckUndefined
<1>7. ASSUME NEW d \in Dispatchers, BreakBeforeRequest(d) PROVE ClaimInv'
      BY <1>7 DEF BreakBeforeRequest
<1>8. ASSUME NEW d \in Dispatchers, ResumeHeld(d) PROVE ClaimInv'
      BY <1>8 DEF ResumeHeld, Held, Waiting, LocalInv, LocalOK
<1>9. ASSUME NEW d \in Dispatchers, Crash(d) PROVE ClaimInv'
      BY <1>9 DEF Crash
<1>10. ASSUME NEW e \in Events, Elapse(e) \/ StopEvent(e) \/ RetryEvent(e) PROVE ClaimInv'
      BY <1>10 DEF Elapse, StopEvent, RetryEvent, Requeued
<1>11. ASSUME NEW a \in Admins, ResumeAfterSet(a) \/ CrashAfterSet(a) PROVE ClaimInv'
      BY <1>11 DEF ResumeAfterSet, CrashAfterSet, Held, Waiting
<1>12. ASSUME NEW a \in Admins, NEW V \in SUBSET Vars, SetVariables(a, V) PROVE ClaimInv'
      BY <1>12 DEF SetVariables
<1>13. ASSUME NEW T \in SUBSET Targets, MigrateSchema(T) PROVE ClaimInv'
      BY <1>13 DEF MigrateSchema
<1>14. ASSUME NEW S \in SUBSET Events, Enqueue(S) PROVE ClaimInv'
      BY <1>14 DEF Enqueue, ExistInv
<1>15. ASSUME NEW d \in Dispatchers, NEW e \in Events, ClaimPrimary(d, e) PROVE ClaimInv'
  <2>1. \A x \in Dispatchers : e \in batch[x] => e \in disturbed
        BY <1>15 DEF ClaimPrimary, Claimable, Processable, Waiting
  <2>2. batch' = [batch EXCEPT ![d] = batch[d] \cup {e}] /\ disturbed' = disturbed
        BY <1>15 DEF ClaimPrimary, Claim
  <2>3. state'[e] = "processing" /\ e \notin due'
        BY <1>15 DEF ClaimPrimary, Claim
  <2>4. \A f \in Events : f # e => state'[f] = state[f] /\ (f \in due' => f \in due)
        BY <1>15 DEF ClaimPrimary, Claim
  <2>5. \A x \in Dispatchers : batch'[x] = IF x = d THEN batch[x] \cup {e} ELSE batch[x]
        BY <2>2
  <2>6. SUFFICES ASSUME NEW x \in Dispatchers, NEW f \in batch'[x] \ disturbed'
                 PROVE  /\ \A x2 \in Dispatchers : f \in batch'[x2] => x2 = x
                        /\ state'[f] \in {"processing", "stopped", "failed"}
                        /\ state'[f] = "processing" => f \notin due'
        OBVIOUS
  <2>7. CASE f = e
        BY <2>1, <2>2, <2>3, <2>5, <2>7
  <2>8. CASE f # e
        BY <2>2, <2>4, <2>5, <2>8
  <2>9. QED
        BY <2>7, <2>8
<1>16. ASSUME NEW d \in Dispatchers, NEW S \in SUBSET Events,
             ClaimRest(d, S)
      PROVE  ClaimInv'
      BY <1>16, SMTT(20) DEF ClaimRest, Claim, Rest, Claimable, Processable, Waiting
<1>17. ASSUME NEW d \in Dispatchers, FailUnknownTarget(d) PROVE ClaimInv'
      BY <1>17 DEF FailUnknownTarget
<1>18. ASSUME NEW d \in Dispatchers, NEW S \in SUBSET Events,
             Respond(d, S)
      PROVE  ClaimInv'
      BY <1>18 DEF Respond
<1>19. ASSUME NEW d \in Dispatchers, Hold(d) PROVE ClaimInv'
      BY <1>19 DEF Hold, Requeued
<1>20. ASSUME NEW d \in Dispatchers, Persist(d) PROVE ClaimInv'
      BY <1>20 DEF Persist, PersistProcessed, Outcome, Succeeded
<1>21. ASSUME NEW d \in Dispatchers, PersistInternalError(d) PROVE ClaimInv'
      BY <1>21 DEF PersistInternalError, PersistProcessed, Outcome, Succeeded
<1>22. ASSUME NEW d \in Dispatchers, PersistFails(d) PROVE ClaimInv'
  <2>1. CASE PersistProcessed(d, MaxAttempts)
        BY <1>22, <2>1 DEF PersistFails, PersistProcessed, Outcome, Succeeded
  <2>2. CASE UNCHANGED table
        BY <1>22, <2>2 DEF PersistFails
  <2>3. QED
        BY <1>22, <2>1, <2>2 DEF PersistFails
<1>23. CASE UNCHANGED vars
      BY <1>23 DEF vars
<1>24. QED
      BY <1>1, <1>2, <1>3, <1>4, <1>5, <1>6, <1>7, <1>8, <1>9, <1>10, <1>11, <1>12,
         <1>13, <1>14, <1>15, <1>16, <1>17, <1>18, <1>19, <1>20, <1>21, <1>22, <1>23 DEF
         Next, Work

\* An undisturbed acknowledgement is recorded or about to be.
LEMMA AckStep ==
    ASSUME IInv, [Next]_vars
    PROVE  AckInv'
<1> USE DEF IInv, TypeOK, AckInv, table, config, local, history, At, Forget, Settled
<1>1. ASSUME NEW d \in Dispatchers,
             \/ ReadSchema(d) \/ SendRequest(d) \/ FindUndefined(d)
             \/ RecheckDefined(d) \/ BreakBeforeRequest(d)
      PROVE  AckInv'
      BY <1>1 DEF ReadSchema, SendRequest, FindUndefined, RecheckDefined,
         BreakBeforeRequest, LocalInv, LocalOK
<1>2. ASSUME NEW d \in Dispatchers, NothingToProcess(d) PROVE AckInv'
      BY <1>2 DEF NothingToProcess, LocalInv, LocalOK
<1>3. ASSUME NEW d \in Dispatchers, RecheckUndefined(d) PROVE AckInv'
      BY <1>3 DEF RecheckUndefined, LocalInv, LocalOK
<1>4. ASSUME NEW d \in Dispatchers, ResumeHeld(d) PROVE AckInv'
      BY <1>4 DEF ResumeHeld, LocalInv, LocalOK
<1>5. ASSUME NEW d \in Dispatchers, Crash(d) PROVE AckInv'
      BY <1>5 DEF Crash, LocalInv, LocalOK
<1>6. ASSUME NEW e \in Events, Elapse(e) \/ StopEvent(e) \/ RetryEvent(e) PROVE AckInv'
      BY <1>6 DEF Elapse, StopEvent, RetryEvent, Requeued
<1>7. ASSUME NEW a \in Admins, ResumeAfterSet(a) \/ CrashAfterSet(a) PROVE AckInv'
      BY <1>7 DEF ResumeAfterSet, CrashAfterSet
<1>8. ASSUME NEW a \in Admins, NEW V \in SUBSET Vars, SetVariables(a, V) PROVE AckInv'
      BY <1>8 DEF SetVariables
<1>9. ASSUME NEW T \in SUBSET Targets, MigrateSchema(T) PROVE AckInv'
      BY <1>9 DEF MigrateSchema
<1>10. ASSUME NEW S \in SUBSET Events, Enqueue(S) PROVE AckInv'
      BY <1>10 DEF Enqueue, ExistInv
<1>11. ASSUME NEW d \in Dispatchers, NEW e \in Events, ClaimPrimary(d, e) PROVE AckInv'
      BY <1>11 DEF ClaimPrimary, Claim, Claimable, Processable, Waiting, LocalInv,
         LocalOK, ClaimInv
<1>12. ASSUME NEW d \in Dispatchers, NEW S \in SUBSET Events,
             ClaimRest(d, S)
      PROVE  AckInv'
  <2>1. ASSUME NEW e \in S, e \in acked, e \notin disturbed PROVE FALSE
    <3>1. e \in due /\ state[e] \in Processable
          BY <1>12 DEF ClaimRest, Rest, Claimable
    <3>2. PICK d2 \in Dispatchers : e \in ok[d2]
          BY <2>1, <3>1 DEF Processable, Waiting
    <3>3. e \in batch[d2]
          BY <3>2 DEF LocalInv, LocalOK
    <3>4. QED
          BY <2>1, <3>1, <3>3 DEF ClaimInv, Processable, Waiting
  <2>2. \A x \in Dispatchers : batch'[x] \subseteq batch[x] \cup S
        BY <1>12 DEF ClaimRest, Claim
  <2>3. \A e \in Events : e \notin S => state'[e] = state[e]
        BY <1>12 DEF ClaimRest, Claim
  <2>4. ok' = ok /\ acked' = acked /\ disturbed' = disturbed
        BY <1>12 DEF ClaimRest
  <2>5. QED
        BY <2>1, <2>2, <2>3, <2>4
<1>13. ASSUME NEW d \in Dispatchers, FailUnknownTarget(d) PROVE AckInv'
      BY <1>13 DEF FailUnknownTarget, LocalInv, LocalOK
<1>14. ASSUME NEW d \in Dispatchers, NEW S \in SUBSET Events, Respond(d, S) PROVE AckInv'
  <2>1. ok[d] = {} /\ S \subseteq batch[d]
        BY <1>14 DEF Respond, LocalInv, LocalOK
  <2>2. \A x \in Dispatchers : ok'[x] = IF x = d THEN S ELSE ok[x]
        BY <1>14 DEF Respond
  <2>3. /\ state' = state /\ batch' = batch /\ disturbed' = disturbed
        /\ acked' = acked \cup S
        BY <1>14 DEF Respond
  <2>4. \A x \in Dispatchers : \A e \in batch[x] \cap S : e \in disturbed \/ x = d
        BY <2>1 DEF ClaimInv
  <2>5. QED
        BY <2>1, <2>2, <2>3, <2>4
<1>15. ASSUME NEW d \in Dispatchers, Hold(d) PROVE AckInv'
      BY <1>15 DEF Hold, Requeued, LocalInv, LocalOK
<1>16. ASSUME NEW d \in Dispatchers, Persist(d) PROVE AckInv'
      BY <1>16 DEF Persist, PersistProcessed, Outcome, Succeeded, LocalInv, LocalOK,
         ClaimInv
<1>17. ASSUME NEW d \in Dispatchers, PersistInternalError(d) PROVE AckInv'
      BY <1>17 DEF PersistInternalError, PersistProcessed, Outcome, Succeeded,
         LocalInv, LocalOK, ClaimInv
<1>18. ASSUME NEW d \in Dispatchers, PersistFails(d) PROVE AckInv'
      BY <1>18 DEF PersistFails, PersistProcessed, Outcome, Succeeded, LocalInv,
         LocalOK, ClaimInv
<1>19. CASE UNCHANGED vars
      BY <1>19 DEF vars
<1>20. QED
      BY <1>1, <1>2, <1>3, <1>4, <1>5, <1>6, <1>7, <1>8, <1>9, <1>10, <1>11, <1>12,
         <1>13, <1>14, <1>15, <1>16, <1>17, <1>18, <1>19 DEF Next, Work

\* A row fails with its attempts spent or its target retired.
LEMMA FailedStep ==
    ASSUME IInv, [Next]_vars
    PROVE  FailedForAReason'
<1> USE QueueAssumption DEF IInv, TypeOK, FailedForAReason, table, config, local,
    history, At, Forget
<1>1. ASSUME NEW d \in Dispatchers,
             \/ ReadSchema(d) \/ NothingToProcess(d) \/ SendRequest(d)
             \/ FindUndefined(d) \/ RecheckDefined(d) \/ RecheckUndefined(d)
             \/ ResumeHeld(d) \/ BreakBeforeRequest(d) \/ Crash(d)
      PROVE  FailedForAReason'
      BY <1>1 DEF ReadSchema, NothingToProcess, SendRequest, FindUndefined,
         RecheckDefined, RecheckUndefined, ResumeHeld, BreakBeforeRequest, Crash
<1>2. ASSUME NEW e \in Events,
             \/ Elapse(e) \/ StopEvent(e) \/ RetryEvent(e)
      PROVE  FailedForAReason'
      BY <1>2 DEF Elapse, StopEvent, RetryEvent, Requeued
<1>3. ASSUME NEW a \in Admins,
             \/ ResumeAfterSet(a) \/ CrashAfterSet(a)
      PROVE  FailedForAReason'
      BY <1>3 DEF ResumeAfterSet, CrashAfterSet
<1>4. ASSUME NEW a \in Admins, NEW V \in SUBSET Vars,
             SetVariables(a, V)
      PROVE  FailedForAReason'
      BY <1>4 DEF SetVariables
<1>5. ASSUME NEW T \in SUBSET Targets, MigrateSchema(T) PROVE FailedForAReason'
      BY <1>5 DEF MigrateSchema
<1>6. ASSUME NEW S \in SUBSET Events, Enqueue(S) PROVE FailedForAReason'
      BY <1>6 DEF Enqueue
<1>7. ASSUME NEW d \in Dispatchers, NEW e \in Events,
             ClaimPrimary(d, e)
      PROVE  FailedForAReason'
      BY <1>7 DEF ClaimPrimary, Claim
<1>8. ASSUME NEW d \in Dispatchers, NEW S \in SUBSET Events,
             ClaimRest(d, S)
      PROVE  FailedForAReason'
      BY <1>8 DEF ClaimRest, Claim
<1>9. ASSUME NEW d \in Dispatchers, NEW S \in SUBSET Events,
             Respond(d, S)
      PROVE  FailedForAReason'
      BY <1>9 DEF Respond
<1>10. ASSUME NEW d \in Dispatchers, FailUnknownTarget(d) PROVE FailedForAReason'
  <2>1. target[d] \in retired
        BY <1>10 DEF FailUnknownTarget, LocalInv, LocalOK, Serving
  <2>2. \A e \in OfUnknownTarget(d) : TargetOf[e] = target[d]
        BY DEF OfUnknownTarget, BatchFitsTarget
  <2>3. QED
        BY <1>10, <2>1, <2>2 DEF FailUnknownTarget
<1>11. ASSUME NEW d \in Dispatchers, Hold(d) PROVE FailedForAReason'
      BY <1>11 DEF Hold, Requeued
<1>12. ASSUME NEW d \in Dispatchers, Persist(d) PROVE FailedForAReason'
      BY <1>12 DEF Persist, PersistProcessed, Outcome, RetriesAfter, Succeeded
<1>13. ASSUME NEW d \in Dispatchers, PersistInternalError(d) PROVE FailedForAReason'
      BY <1>13 DEF PersistInternalError, PersistProcessed, Outcome, RetriesAfter, Succeeded
<1>14. ASSUME NEW d \in Dispatchers, PersistFails(d) PROVE FailedForAReason'
  <2>1. CASE PersistProcessed(d, MaxAttempts)
        BY <1>14, <2>1 DEF PersistFails, PersistProcessed, Outcome, RetriesAfter, Succeeded
  <2>2. CASE UNCHANGED table
        BY <1>14, <2>2 DEF PersistFails
  <2>3. QED
        BY <1>14, <2>1, <2>2 DEF PersistFails
<1>15. CASE UNCHANGED vars
      BY <1>15 DEF vars
<1>16. QED
      BY <1>1, <1>2, <1>3, <1>4, <1>5, <1>6, <1>7, <1>8, <1>9, <1>10, <1>11, <1>12,
         <1>13, <1>14, <1>15 DEF Next, Work

\* A held row whose variables are defined has somebody to release it.
LEMMA HoldStep ==
    ASSUME IInv, [Next]_vars
    PROVE  NoForgottenHold'
<1> USE QueueAssumption DEF IInv, TypeOK, NoForgottenHold, Held, Waiting, table,
    config, local, history, At, Forget, Spend
<1>1. ASSUME NEW d \in Dispatchers,
             \/ ReadSchema(d) \/ NothingToProcess(d) \/ SendRequest(d)
             \/ FindUndefined(d) \/ BreakBeforeRequest(d)
      PROVE  NoForgottenHold'
  <2>1. CASE ReadSchema(d) \/ SendRequest(d) \/ BreakBeforeRequest(d)
        BY <2>1, ZenonT(30) DEF ReadSchema, SendRequest, BreakBeforeRequest
  <2>2. CASE NothingToProcess(d)
        BY <2>2 DEF NothingToProcess
  <2>3. CASE FindUndefined(d)
        BY <2>3 DEF FindUndefined
  <2>4. QED
        BY <1>1, <2>1, <2>2, <2>3
<1>2. ASSUME NEW d \in Dispatchers, RecheckDefined(d) PROVE NoForgottenHold'
      BY <1>2 DEF RecheckDefined, NowDefined
<1>3. ASSUME NEW d \in Dispatchers, RecheckUndefined(d) PROVE NoForgottenHold'
      BY <1>3 DEF RecheckUndefined, NowDefined
<1>4. ASSUME NEW d \in Dispatchers, ResumeHeld(d) PROVE NoForgottenHold'
      BY <1>4 DEF ResumeHeld
<1>5. ASSUME NEW d \in Dispatchers, Crash(d) PROVE NoForgottenHold'
      BY <1>5 DEF Crash
<1>6. ASSUME NEW e \in Events,
             \/ Elapse(e) \/ StopEvent(e) \/ RetryEvent(e)
      PROVE  NoForgottenHold'
  <2>1. CASE Elapse(e)
        BY <2>1 DEF Elapse
  <2>2. CASE StopEvent(e)
        BY <2>2 DEF StopEvent
  <2>3. CASE RetryEvent(e)
        BY <2>3 DEF RetryEvent, Requeued
  <2>4. QED
        BY <1>6, <2>1, <2>2, <2>3
<1>7. ASSUME NEW a \in Admins,
             \/ ResumeAfterSet(a) \/ CrashAfterSet(a)
      PROVE  NoForgottenHold'
      BY <1>7 DEF ResumeAfterSet, CrashAfterSet
<1>8. ASSUME NEW a \in Admins, NEW V \in SUBSET Vars,
             SetVariables(a, V)
      PROVE  NoForgottenHold'
      BY <1>8 DEF SetVariables
<1>9. ASSUME NEW T \in SUBSET Targets, MigrateSchema(T) PROVE NoForgottenHold'
      BY <1>9 DEF MigrateSchema
<1>10. ASSUME NEW S \in SUBSET Events, Enqueue(S) PROVE NoForgottenHold'
      BY <1>10 DEF Enqueue
<1>11. ASSUME NEW d \in Dispatchers, NEW e \in Events,
             ClaimPrimary(d, e)
      PROVE  NoForgottenHold'
      BY <1>11 DEF ClaimPrimary, Claim
<1>12. ASSUME NEW d \in Dispatchers, NEW S \in SUBSET Events,
             ClaimRest(d, S)
      PROVE  NoForgottenHold'
      BY <1>12 DEF ClaimRest, Claim
<1>13. ASSUME NEW d \in Dispatchers, NEW S \in SUBSET Events,
             Respond(d, S)
      PROVE  NoForgottenHold'
      BY <1>13 DEF Respond
<1>14. ASSUME NEW d \in Dispatchers, FailUnknownTarget(d) PROVE NoForgottenHold'
      BY <1>14 DEF FailUnknownTarget
<1>15. ASSUME NEW d \in Dispatchers, Hold(d) PROVE NoForgottenHold'
  <2>1. \A e \in HeldBack(d) : TargetOf[e] = target[d]
        BY DEF HeldBack, BatchFitsTarget
  <2>2. pc[d] = "undefined" /\ pc' = [pc EXCEPT ![d] = "recheck"]
        BY <1>15 DEF Hold
  <2>3. missing[d] \subseteq UsedVars[target[d]]
        BY <2>2 DEF LocalInv, LocalOK
  <2>4. missing' = missing /\ defined' = defined /\ apc' = apc /\ holderDied' = holderDied
        BY <1>15 DEF Hold
  <2>5. \A e \in Held' : e \in Held \/ e \in HeldBack(d)
        BY <1>15 DEF Hold, HeldBack
  <2>6. SUFFICES ASSUME ~holderDied,
                        NEW e \in Held', UsedVars[TargetOf[e]] \subseteq defined
                 PROVE  \/ \E a \in Admins : apc[a] = "resume"
                        \/ \E x \in Dispatchers :
                              pc'[x] = "resume" \/ (pc'[x] = "recheck" /\ missing[x] \subseteq defined)
        BY <2>4 DEF NoForgottenHold
  <2>7. CASE e \in HeldBack(d)
        BY <2>1, <2>2, <2>3, <2>6, <2>7
  <2>8. CASE e \in Held
        BY <2>2, <2>6, <2>8
  <2>9. QED
        BY <2>5, <2>7, <2>8
<1>16. ASSUME NEW d \in Dispatchers, Persist(d) PROVE NoForgottenHold'
      BY <1>16 DEF Persist, PersistProcessed, Outcome, Succeeded
<1>17. ASSUME NEW d \in Dispatchers, PersistInternalError(d) PROVE NoForgottenHold'
      BY <1>17 DEF PersistInternalError, PersistProcessed, Outcome, Succeeded
<1>18. ASSUME NEW d \in Dispatchers, PersistFails(d) PROVE NoForgottenHold'
  <2>1. CASE PersistProcessed(d, MaxAttempts)
        BY <1>18, <2>1, ZenonT(30) DEF PersistFails, PersistProcessed, Outcome, Succeeded
  <2>2. CASE UNCHANGED table
        BY <1>18, <2>2 DEF PersistFails
  <2>3. QED
        BY <1>18, <2>1, <2>2 DEF PersistFails
<1>19. CASE UNCHANGED vars
      BY <1>19 DEF vars
<1>20. QED
      BY <1>1, <1>2, <1>3, <1>4, <1>5, <1>6, <1>7, <1>8, <1>9, <1>10, <1>11, <1>12,
         <1>13, <1>14, <1>15, <1>16, <1>17, <1>18, <1>19 DEF Next, Work

\* A batch keeps to its target and to batchSize: a claim adds rows of that target, the
\* second claim at most batchSize - 1 of them to the primary row.
LEMMA BatchStep ==
    ASSUME IInv, [Next]_vars
    PROVE  BatchFitsTarget'
<1> USE QueueAssumption DEF IInv, TypeOK, table, config, local, history, At, Forget
<1>1. Cardinality({}) = 0
      BY FS_EmptySet
<1>2. SUFFICES ASSUME NEW x \in Dispatchers
               PROVE  /\ \A e \in batch'[x] : TargetOf[e] = target'[x]
                      /\ Cardinality(batch'[x]) <= BatchSize
      BY DEF BatchFitsTarget
<1>3. CASE batch'[x] = {}
      BY <1>1, <1>3
<1>4. CASE batch'[x] = batch[x] /\ target'[x] = target[x]
      BY <1>4 DEF BatchFitsTarget
<1>5. ASSUME NEW d \in Dispatchers, Work(d) \/ BreakBeforeRequest(d) \/ PersistFails(d) \/ Crash(d)
      PROVE  \/ batch'[x] = {}
             \/ batch'[x] = batch[x] /\ target'[x] = target[x]
             \/ x = d /\ \E e \in Events : ClaimPrimary(d, e)
             \/ x = d /\ \E S \in SUBSET Events : ClaimRest(d, S)
  <2>1. CASE \/ ReadSchema(d) \/ SendRequest(d) \/ FindUndefined(d) \/ RecheckDefined(d)
             \/ BreakBeforeRequest(d) \/ PersistFails(d) \/ \E S \in SUBSET Events : Respond(d, S)
        BY <2>1 DEF ReadSchema, SendRequest, FindUndefined, RecheckDefined, BreakBeforeRequest,
           PersistFails, Respond
  <2>2. CASE \/ NothingToProcess(d) \/ Persist(d) \/ PersistInternalError(d)
             \/ RecheckUndefined(d) \/ ResumeHeld(d) \/ Crash(d) \/ FailUnknownTarget(d)
    <3>1. /\ batch' = [batch EXCEPT ![d] = {}]
          /\ target' = [target EXCEPT ![d] = NoTarget]
          BY <2>2 DEF NothingToProcess, Persist, PersistInternalError, RecheckUndefined, ResumeHeld,
             Crash, FailUnknownTarget
    <3>2. QED
          BY <3>1
  <2>5. CASE Hold(d)
    <3>1. /\ batch' = [batch EXCEPT ![d] = {}]
          /\ target' = target
          BY <2>5 DEF Hold
    <3>2. QED
          BY <3>1
  <2>3. ASSUME NEW e \in Events, ClaimPrimary(d, e)
        PROVE  x = d \/ (batch'[x] = batch[x] /\ target'[x] = target[x])
        BY <2>3 DEF ClaimPrimary, Claim
  <2>4. ASSUME NEW S \in SUBSET Events, ClaimRest(d, S)
        PROVE  x = d \/ (batch'[x] = batch[x] /\ target'[x] = target[x])
        BY <2>4 DEF ClaimRest, Claim
  <2>6. QED
        BY <1>5, <2>1, <2>2, <2>3, <2>4, <2>5 DEF Work
<1>6. ASSUME NEW e \in Events, ClaimPrimary(x, e)
      PROVE  /\ \A f \in batch'[x] : TargetOf[f] = target'[x]
             /\ Cardinality(batch'[x]) <= BatchSize
  <2>1. batch[x] = {}
        BY <1>6 DEF ClaimPrimary, LocalInv, LocalOK
  <2>2. batch'[x] = {e} /\ target'[x] = TargetOf[e]
        BY <1>6, <2>1 DEF ClaimPrimary, Claim
  <2>3. Cardinality({e}) = 1
        BY FS_Singleton
  <2>4. QED
        BY <2>2, <2>3
<1>7. ASSUME NEW S \in SUBSET Events, ClaimRest(x, S)
      PROVE  /\ \A f \in batch'[x] : TargetOf[f] = target'[x]
             /\ Cardinality(batch'[x]) <= BatchSize
  <2>1. PICK e \in Events : batch[x] = {e}
        BY <1>7 DEF ClaimRest, LocalInv, LocalOK
  <2>2. /\ batch'[x] = S \cup {e} /\ target'[x] = target[x]
        /\ S \subseteq Rest(x) /\ Cardinality(S) < BatchSize
        BY <1>7, <2>1 DEF ClaimRest, Claim
  <2>3. IsFiniteSet(S) /\ Cardinality(S) \in Nat
        BY FS_Subset, FS_CardinalityType
  <2>4. Cardinality(S \cup {e}) = IF e \in S THEN Cardinality(S) ELSE Cardinality(S) + 1
        BY <2>3, FS_AddElement
  <2>5. TargetOf[e] = target[x]
        BY <2>1 DEF BatchFitsTarget
  <2>6. QED
        BY <2>2, <2>3, <2>4, <2>5 DEF Rest
<1>8. CASE \/ \E S \in SUBSET Events : Enqueue(S)
           \/ \E e \in Events : Elapse(e) \/ StopEvent(e) \/ RetryEvent(e)
           \/ \E a \in Admins : ResumeAfterSet(a) \/ CrashAfterSet(a)
           \/ \E a \in Admins, V \in SUBSET Vars : SetVariables(a, V)
           \/ \E T \in SUBSET Targets : MigrateSchema(T)
           \/ UNCHANGED vars
      BY <1>4, <1>8 DEF Enqueue, Elapse, StopEvent, RetryEvent, ResumeAfterSet, CrashAfterSet,
         SetVariables, MigrateSchema, vars
<1>9. QED
      BY <1>3, <1>4, <1>5, <1>6, <1>7, <1>8 DEF Next

-----------------------------------------------------------------------------

LEMMA IInvInit == Init => IInv
<1> SUFFICES ASSUME Init PROVE IInv
    OBVIOUS
<1> USE QueueAssumption DEF Init
<1>1. TypeOK
      BY TypeInit
<1>2. LocalInv /\ SchemaInv /\ ExistInv /\ ClaimInv /\ AckInv
      BY DEF LocalInv, LocalOK, SchemaInv, ExistInv, Claimed, ClaimInv, AckInv
<1>3. SucceededWasAcknowledged /\ FailedForAReason /\ NoForgottenHold
      BY DEF SucceededWasAcknowledged, FailedForAReason, NoForgottenHold, Held
<1>4. BatchFitsTarget
      BY FS_EmptySet DEF BatchFitsTarget
<1>5. QED
      BY <1>1, <1>2, <1>3, <1>4 DEF IInv

LEMMA IInvStep == IInv /\ [Next]_vars => IInv'
BY TypeStep, LocalStep, SchemaStep, ExistStep, ClaimStep, AckStep, SucceededStep, BatchStep,
   FailedStep, HoldStep DEF IInv

\* The inductive invariant holds in every reachable state.
THEOREM Invariant == Spec => []IInv
BY IInvInit, IInvStep, PTL DEF Spec

\* A row marked "succeed" was accepted by its target, for any number of dispatchers, lost
\* claims, crashes, failed transactions and interventions of operators.
THEOREM DeliveredIsAcknowledged == Spec => []SucceededWasAcknowledged
<1>1. IInv => SucceededWasAcknowledged
      BY DEF IInv
<1>2. QED
      BY <1>1, Invariant, PTL

\* Two dispatchers hold the same row only after the claim of one was disturbed.
THEOREM ExclusiveClaims == Spec => []ClaimIsExclusive
<1>1. IInv => ClaimIsExclusive
      BY DEF IInv, TypeOK, ClaimInv, ClaimIsExclusive
<1>2. QED
      BY <1>1, Invariant, PTL

\* Exactly-once while undisturbed: an accepted event is not sent a second time.
THEOREM NothingSentTwice == Spec => []NoRedelivery
<1>1. IInv => NoRedelivery
      BY DEF IInv, TypeOK, AckInv, LocalInv, LocalOK, NoRedelivery
<1>2. QED
      BY <1>1, Invariant, PTL

\* Batches keep to one target and to batchSize.
THEOREM BatchesFit == Spec => []BatchFitsTarget
<1>1. IInv => BatchFitsTarget
      BY DEF IInv
<1>2. QED
      BY <1>1, Invariant, PTL

\* A permanent failure has its attempts spent or a target some schema version lacked.
THEOREM FailuresHaveReasons == Spec => []FailedForAReason
<1>1. IInv => FailedForAReason
      BY DEF IInv
<1>2. QED
      BY <1>1, Invariant, PTL

\* The re-check after a hold closes the race with setVariables: for any interleaving of
\* any number of dispatchers and setVariables calls no held row is left without releaser.
THEOREM HoldsAreReleased == Spec => []NoForgottenHold
<1>1. IInv => NoForgottenHold
      BY DEF IInv
<1>2. QED
      BY <1>1, Invariant, PTL

-----------------------------------------------------------------------------
(* num_retries does not run ahead of the attempts. *)

LEMMA UnrecordedFinite ==
    ASSUME NEW e \in Events
    PROVE  /\ IsFiniteSet(Unrecorded(e)) /\ Cardinality(Unrecorded(e)) \in Nat
           /\ IsFiniteSet(Unrecorded(e)') /\ Cardinality(Unrecorded(e)') \in Nat
<1>1. Unrecorded(e) \in SUBSET Dispatchers /\ Unrecorded(e)' \in SUBSET Dispatchers
      BY DEF Unrecorded
<1>2. QED
      BY <1>1, QueueAssumption, FS_Subset, FS_CardinalityType

\* What a step may do to the rows and the batches without trying or recording anything.
Quiet ==
    /\ retries' = retries
    /\ attempts' = attempts
    /\ \A e \in Events : Unrecorded(e)' \subseteq Unrecorded(e)
    /\ \A d \in Dispatchers : \A e \in batch'[d] :
          \/ row'[d][e] = retries[e] /\ pc'[d] # "broken"
          \/ e \in batch[d] /\ row'[d][e] = row[d][e] /\ (pc'[d] = "broken" => pc[d] = "broken")

LEMMA QuietKeepsCount ==
    ASSUME TypeOK, TypeOK', CountInv, Quiet
    PROVE  CountInv'
<1> SUFFICES ASSUME NEW e \in Events
             PROVE  /\ retries'[e] + Cardinality(Unrecorded(e)') <= attempts'[e]
                    /\ \A d \in Dispatchers : e \in batch'[d] =>
                          row'[d][e] + Cardinality(Unrecorded(e)') + InternalError(d)' <= attempts'[e]
    BY DEF CountInv
<1> DEFINE c == Cardinality(Unrecorded(e))
           c2 == Cardinality(Unrecorded(e)')
<1>1. c \in Nat /\ c2 \in Nat /\ c2 <= c
    BY UnrecordedFinite, FS_Subset DEF Quiet
<1>2. retries[e] \in Nat /\ attempts[e] \in Nat /\ retries[e] + c <= attempts[e]
    BY DEF TypeOK, CountInv
<1> HIDE DEF c, c2
<1>3. retries'[e] + c2 <= attempts'[e]
    BY <1>1, <1>2 DEF Quiet
<1>4. ASSUME NEW d \in Dispatchers, e \in batch'[d]
      PROVE  row'[d][e] + c2 + InternalError(d)' <= attempts'[e]
  <2>1. CASE row'[d][e] = retries[e] /\ pc'[d] # "broken"
        BY <1>1, <1>2, <2>1 DEF Quiet, InternalError
  <2>2. CASE e \in batch[d] /\ row'[d][e] = row[d][e] /\ (pc'[d] = "broken" => pc[d] = "broken")
    <3>1. row[d][e] \in Nat /\ row[d][e] + c + InternalError(d) <= attempts[e]
          BY <2>2 DEF TypeOK, CountInv, c
    <3>2. InternalError(d) \in Nat /\ InternalError(d)' \in Nat /\ InternalError(d)' <= InternalError(d)
          BY <2>2 DEF InternalError
    <3>3. QED
          BY <1>1, <1>2, <2>2, <3>1, <3>2 DEF Quiet
  <2>3. QED
        BY <1>4, <2>1, <2>2 DEF Quiet
<1>5. QED
    BY <1>3, <1>4 DEF c2

\* A dispatcher that tries its batch, by a request or by an error before it.
LEMMA TryKeepsCount ==
    ASSUME TypeOK, TypeOK', CountInv, NEW x \in Dispatchers, pc[x] = "batched",
           SendRequest(x) \/ BreakBeforeRequest(x)
    PROVE  CountInv'
<1> SUFFICES ASSUME NEW e \in Events
             PROVE  /\ retries'[e] + Cardinality(Unrecorded(e)') <= attempts'[e]
                    /\ \A d \in Dispatchers : e \in batch'[d] =>
                          row'[d][e] + Cardinality(Unrecorded(e)') + InternalError(d)' <= attempts'[e]
    BY DEF CountInv
<1> DEFINE c == Cardinality(Unrecorded(e))
           c2 == Cardinality(Unrecorded(e)')
<1>1. /\ retries' = retries /\ row' = row /\ batch' = batch
      /\ attempts'[e] = IF e \in batch[x] THEN attempts[e] + 1 ELSE attempts[e]
      /\ \A d \in Dispatchers : d # x => pc'[d] = pc[d]
      /\ pc'[x] = "sent" \/ pc'[x] = "broken"
    BY DEF SendRequest, BreakBeforeRequest, At, Count, table, local, TypeOK
<1>2. Unrecorded(e)' = IF e \in batch[x] /\ pc'[x] = "sent" THEN Unrecorded(e) \cup {x} ELSE Unrecorded(e)
    BY <1>1 DEF Unrecorded
<1>3. x \notin Unrecorded(e)
    BY DEF Unrecorded
<1>4. c \in Nat /\ c2 = IF e \in batch[x] /\ pc'[x] = "sent" THEN c + 1 ELSE c
    BY <1>2, <1>3, UnrecordedFinite, FS_AddElement
<1>5. retries[e] \in Nat /\ attempts[e] \in Nat /\ retries[e] + c <= attempts[e]
    BY DEF TypeOK, CountInv
<1> HIDE DEF c, c2
<1>6. retries'[e] + c2 <= attempts'[e]
    BY <1>1, <1>4, <1>5
<1>7. ASSUME NEW d \in Dispatchers, e \in batch'[d]
      PROVE  row'[d][e] + c2 + InternalError(d)' <= attempts'[e]
  <2>1. row[d][e] \in Nat /\ row[d][e] + c + InternalError(d) <= attempts[e]
        BY <1>1, <1>7 DEF TypeOK, CountInv, c
  <2>2. InternalError(d)' = IF d = x /\ pc'[x] = "broken" THEN 1 ELSE InternalError(d)
        BY <1>1 DEF InternalError
  <2>3. InternalError(d) \in Nat /\ (d = x => InternalError(d) = 0 /\ e \in batch[x])
        BY <1>1, <1>7 DEF InternalError
  <2>4. QED
        BY <1>1, <1>4, <1>5, <2>1, <2>2, <2>3
<1>8. QED
    BY <1>6, <1>7 DEF c2

\* A dispatcher that records its batch: it was counted as unrecorded, or as an internal error.
LEMMA RecordKeepsCount ==
    ASSUME TypeOK, TypeOK', CountInv, NEW x \in Dispatchers, NEW max \in Nat, PersistProcessed(x, max),
           attempts' = attempts, pc[x] = "answered" \/ (pc[x] = "broken" /\ ok[x] = {}),
           pc[x] = "answered" \/ batch'[x] = {},
           pc'[x] = "idle" \/ pc'[x] = "broken",
           batch'[x] = {} \/ (batch'[x] = batch[x] /\ row'[x] = row[x]),
           \A d \in Dispatchers : d # x => pc'[d] = pc[d] /\ batch'[d] = batch[d] /\ row'[d] = row[d]
    PROVE  CountInv'
<1> SUFFICES ASSUME NEW e \in Events
             PROVE  /\ retries'[e] + Cardinality(Unrecorded(e)') <= attempts'[e]
                    /\ \A d \in Dispatchers : e \in batch'[d] =>
                          row'[d][e] + Cardinality(Unrecorded(e)') + InternalError(d)' <= attempts'[e]
    BY DEF CountInv
<1> DEFINE c == Cardinality(Unrecorded(e))
           c2 == Cardinality(Unrecorded(e)')
<1>1. Unrecorded(e)' = Unrecorded(e) \ {x}
    BY DEF Unrecorded
<1>2. c \in Nat /\ c2 \in Nat
      /\ c2 = IF e \in batch[x] /\ pc[x] = "answered" THEN c - 1 ELSE c
  <2>1. x \in Unrecorded(e) <=> e \in batch[x] /\ pc[x] = "answered"
        BY DEF Unrecorded
  <2>2. c2 = IF x \in Unrecorded(e) THEN c - 1 ELSE c
        BY <1>1, UnrecordedFinite, FS_RemoveElement
  <2>3. QED
        BY <2>1, <2>2, UnrecordedFinite
<1>3. retries[e] \in Nat /\ attempts[e] \in Nat /\ retries[e] + c <= attempts[e]
    BY DEF TypeOK, CountInv
<1>4. \A d \in Dispatchers : e \in batch[d] =>
         row[d][e] \in Nat /\ row[d][e] + c + InternalError(d) <= attempts[e]
    BY DEF TypeOK, CountInv
<1>5. retries'[e] = IF e \in batch[x] THEN RetriesAfter(x, e) ELSE retries[e]
    BY DEF PersistProcessed
<1> HIDE DEF c, c2
<1>6. retries'[e] + c2 <= attempts'[e]
  <2>1. CASE e \notin batch[x]
        BY <1>2, <1>3, <1>5, <2>1
  <2>2. CASE e \in batch[x] /\ pc[x] = "answered"
        BY <1>2, <1>3, <1>4, <1>5, <2>2 DEF RetriesAfter, InternalError
  <2>3. CASE e \in batch[x] /\ pc[x] = "broken" /\ ok[x] = {}
        BY <1>2, <1>3, <1>4, <1>5, <2>3 DEF RetriesAfter, InternalError, Succeeded
  <2>4. QED
        BY <2>1, <2>2, <2>3
<1>7. ASSUME NEW d \in Dispatchers, e \in batch'[d]
      PROVE  row'[d][e] + c2 + InternalError(d)' <= attempts'[e]
  <2>1. CASE d = x
    <3>1. pc[x] = "answered" /\ e \in batch[x] /\ row'[x][e] = row[x][e]
          BY <1>7, <2>1
    <3>2. row[x][e] \in Nat /\ row[x][e] + c <= attempts[e] /\ c2 = c - 1
          BY <1>2, <1>3, <1>4, <3>1 DEF InternalError
    <3>3. InternalError(x)' = 0 \/ InternalError(x)' = 1
          BY DEF InternalError
    <3>4. QED
          BY <1>2, <1>3, <2>1, <3>1, <3>2, <3>3
  <2>2. CASE d # x
    <3>1. InternalError(d)' = InternalError(d) /\ InternalError(d) \in Nat
          BY <2>2 DEF InternalError
    <3>2. QED
          BY <1>2, <1>3, <1>4, <1>7, <2>2, <3>1
  <2>3. QED
        BY <2>1, <2>2
<1>8. QED
    BY <1>6, <1>7 DEF c2

\* A row an unknown target fails is tried and counted in one statement.
LEMMA UnknownKeepsCount ==
    ASSUME TypeOK, TypeOK', CountInv, NEW x \in Dispatchers, FailUnknownTarget(x)
    PROVE  CountInv'
<1> SUFFICES ASSUME NEW e \in Events
             PROVE  /\ retries'[e] + Cardinality(Unrecorded(e)') <= attempts'[e]
                    /\ \A d \in Dispatchers : e \in batch'[d] =>
                          row'[d][e] + Cardinality(Unrecorded(e)') + InternalError(d)' <= attempts'[e]
    BY DEF CountInv
<1> DEFINE c == Cardinality(Unrecorded(e))
           c2 == Cardinality(Unrecorded(e)')
<1>1. /\ pc[x] = "unknown" /\ pc'[x] = "fetching" /\ batch'[x] = {}
      /\ \A d \in Dispatchers : d # x => pc'[d] = pc[d] /\ batch'[d] = batch[d] /\ row'[d] = row[d]
      /\ \/ retries'[e] = retries[e] + 1 /\ attempts'[e] = attempts[e] + 1
         \/ retries'[e] = retries[e] /\ attempts'[e] = attempts[e]
    BY DEF FailUnknownTarget, At, Count, TypeOK
<1>2. c \in Nat /\ c2 = c
  <2>1. Unrecorded(e)' = Unrecorded(e)
        BY <1>1 DEF Unrecorded
  <2>2. QED
        BY <2>1, UnrecordedFinite
<1>3. retries[e] \in Nat /\ attempts[e] \in Nat /\ retries[e] + c <= attempts[e]
    BY DEF TypeOK, CountInv
<1> HIDE DEF c, c2
<1>4. ASSUME NEW d \in Dispatchers, e \in batch'[d]
      PROVE  row'[d][e] + c2 + InternalError(d)' <= attempts'[e]
  <2>1. /\ row'[d][e] = row[d][e] /\ InternalError(d)' = InternalError(d) /\ InternalError(d) \in Nat
        /\ row[d][e] \in Nat /\ row[d][e] + c + InternalError(d) <= attempts[e]
        BY <1>1, <1>4 DEF TypeOK, CountInv, InternalError, c
  <2>2. QED
        BY <1>1, <1>2, <1>3, <2>1
<1>5. retries'[e] + c2 <= attempts'[e]
    BY <1>1, <1>2, <1>3
<1>6. QED
    BY <1>4, <1>5 DEF c2

\* A record that was rolled back: the attempt becomes an internal error.
LEMMA LostRecordKeepsCount ==
    ASSUME TypeOK, TypeOK', CountInv, NEW x \in Dispatchers, PersistFails(x), UNCHANGED table
    PROVE  CountInv'
<1> SUFFICES ASSUME NEW e \in Events
             PROVE  /\ retries'[e] + Cardinality(Unrecorded(e)') <= attempts'[e]
                    /\ \A d \in Dispatchers : e \in batch'[d] =>
                          row'[d][e] + Cardinality(Unrecorded(e)') + InternalError(d)' <= attempts'[e]
    BY DEF CountInv
<1> DEFINE c == Cardinality(Unrecorded(e))
           c2 == Cardinality(Unrecorded(e)')
<1>1. /\ pc[x] = "answered" /\ pc'[x] = "broken" /\ batch' = batch /\ row' = row
      /\ retries' = retries /\ attempts' = attempts
      /\ \A d \in Dispatchers : d # x => pc'[d] = pc[d]
    BY DEF PersistFails, At, table, TypeOK
<1>2. c \in Nat /\ c2 \in Nat /\ c2 = IF e \in batch[x] THEN c - 1 ELSE c
  <2>1. Unrecorded(e)' = Unrecorded(e) \ {x} /\ (x \in Unrecorded(e) <=> e \in batch[x])
        BY <1>1 DEF Unrecorded
  <2>2. QED
        BY <2>1, UnrecordedFinite, FS_RemoveElement
<1>3. retries[e] \in Nat /\ attempts[e] \in Nat /\ retries[e] + c <= attempts[e]
    BY DEF TypeOK, CountInv
<1> HIDE DEF c, c2
<1>4. ASSUME NEW d \in Dispatchers, e \in batch'[d]
      PROVE  row'[d][e] + c2 + InternalError(d)' <= attempts'[e]
  <2>1. row[d][e] \in Nat /\ row[d][e] + c + InternalError(d) <= attempts[e]
        BY <1>1, <1>4 DEF TypeOK, CountInv, c
  <2>2. InternalError(d)' = IF d = x THEN 1 ELSE InternalError(d)
        BY <1>1 DEF InternalError
  <2>3. InternalError(d) \in Nat /\ (d = x => InternalError(d) = 0 /\ e \in batch[x])
        BY <1>1, <1>4 DEF InternalError
  <2>4. QED
        BY <1>1, <1>2, <1>3, <2>1, <2>2, <2>3
<1>5. retries'[e] + c2 <= attempts'[e]
    BY <1>1, <1>2, <1>3
<1>6. QED
    BY <1>4, <1>5 DEF c2

\* Everything else a dispatcher does is quiet.
LEMMA QuietStepOf ==
    ASSUME TypeOK, TypeOK', NEW x \in Dispatchers,
           \/ ReadSchema(x) \/ NothingToProcess(x) \/ (\E e \in Events : ClaimPrimary(x, e))
           \/ (\E S \in SUBSET Events : ClaimRest(x, S)) \/ FindUndefined(x)
           \/ (\E S \in SUBSET Events : Respond(x, S)) \/ Hold(x)
           \/ RecheckDefined(x) \/ RecheckUndefined(x) \/ ResumeHeld(x) \/ Crash(x)
    PROVE  Quiet
<1> USE DEF Quiet, Unrecorded, At, table, config, local, history, Forget, TypeOK
<1>1. CASE ReadSchema(x) \/ FindUndefined(x) \/ RecheckDefined(x) \/ (\E S \in SUBSET Events : Respond(x, S))
      BY <1>1 DEF ReadSchema, FindUndefined, RecheckDefined, Respond
<1>2. CASE NothingToProcess(x) \/ RecheckUndefined(x) \/ ResumeHeld(x) \/ Crash(x)
  <2>1. CASE NothingToProcess(x)
        BY <2>1 DEF NothingToProcess
  <2>2. CASE RecheckUndefined(x)
        BY <2>2 DEF RecheckUndefined
  <2>3. CASE ResumeHeld(x)
        BY <2>3 DEF ResumeHeld
  <2>4. CASE Crash(x)
        BY <2>4 DEF Crash
  <2>5. QED
        BY <1>2, <2>1, <2>2, <2>3, <2>4
<1>3. CASE Hold(x)
      BY <1>3 DEF Hold
<1>4. CASE \E e \in Events : ClaimPrimary(x, e)
      BY <1>4 DEF ClaimPrimary, Claim
<1>5. CASE \E S \in SUBSET Events : ClaimRest(x, S)
      BY <1>5 DEF ClaimRest, Claim
<1>6. QED
      BY <1>1, <1>2, <1>3, <1>4, <1>5

LEMMA CountStep == IInv /\ CountInv /\ [Next]_vars => CountInv'
<1> SUFFICES ASSUME IInv, CountInv, [Next]_vars PROVE CountInv'
    OBVIOUS
<1>1. TypeOK /\ TypeOK' /\ LocalInv
      BY IInvStep DEF IInv
<1> USE <1>1
<1>2. ASSUME NEW x \in Dispatchers, SendRequest(x) \/ BreakBeforeRequest(x)
      PROVE  CountInv'
  <2>1. pc[x] = "batched"
        BY <1>2 DEF SendRequest, BreakBeforeRequest, At
  <2>2. QED
        BY <1>2, <2>1, TryKeepsCount
<1>3. ASSUME NEW x \in Dispatchers, FailUnknownTarget(x)
      PROVE  CountInv'
  BY <1>3, UnknownKeepsCount
<1>4. ASSUME NEW x \in Dispatchers, Persist(x)
      PROVE  CountInv'
  BY <1>4, RecordKeepsCount, QueueAssumption DEF Persist, At, Forget, history, TypeOK
<1>5. ASSUME NEW x \in Dispatchers, PersistInternalError(x)
      PROVE  CountInv'
  BY <1>5, RecordKeepsCount, QueueAssumption DEF PersistInternalError, At, Forget, history, TypeOK, LocalInv, LocalOK
<1>6. ASSUME NEW x \in Dispatchers, PersistFails(x)
      PROVE  CountInv'
  <2>1. CASE PersistProcessed(x, MaxAttempts)
        BY <1>6, <2>1, RecordKeepsCount, QueueAssumption DEF PersistFails, At, TypeOK
  <2>2. CASE UNCHANGED table
        BY <1>6, <2>2, LostRecordKeepsCount
  <2>3. QED
        BY <1>6, <2>1, <2>2 DEF PersistFails
<1>7. ASSUME NEW x \in Dispatchers,
             \/ ReadSchema(x) \/ NothingToProcess(x) \/ (\E e \in Events : ClaimPrimary(x, e))
             \/ (\E S \in SUBSET Events : ClaimRest(x, S)) \/ FindUndefined(x)
             \/ (\E S \in SUBSET Events : Respond(x, S)) \/ Hold(x)
             \/ RecheckDefined(x) \/ RecheckUndefined(x) \/ ResumeHeld(x) \/ Crash(x)
      PROVE  CountInv'
  BY <1>7, QuietStepOf, QuietKeepsCount
<1>8. CASE \/ \E S \in SUBSET Events : Enqueue(S)
           \/ \E e \in Events : Elapse(e) \/ StopEvent(e) \/ RetryEvent(e)
           \/ \E a \in Admins : ResumeAfterSet(a) \/ CrashAfterSet(a)
           \/ \E a \in Admins, V \in SUBSET Vars : SetVariables(a, V)
           \/ \E T \in SUBSET Targets : MigrateSchema(T)
           \/ UNCHANGED vars
  <2>1. UNCHANGED <<pc, batch, row, retries, attempts>>
        BY <1>8 DEF Enqueue, Elapse, StopEvent, RetryEvent, ResumeAfterSet, CrashAfterSet,
           SetVariables, MigrateSchema, vars, table, local, history
  <2>2. Quiet
        BY <2>1 DEF Quiet, Unrecorded, TypeOK
  <2>3. QED
        BY <2>2, QuietKeepsCount
<1>9. QED
    BY <1>2, <1>3, <1>4, <1>5, <1>6, <1>7, <1>8 DEF Next, Work

LEMMA CountInit == Init => CountInv
<1> SUFFICES ASSUME Init, NEW e \in Events
             PROVE  /\ retries[e] + Cardinality(Unrecorded(e)) <= attempts[e]
                    /\ \A d \in Dispatchers : e \notin batch[d]
    BY DEF CountInv
<1>1. Unrecorded(e) = {}
      BY DEF Init, Unrecorded
<1>2. QED
      BY <1>1, FS_EmptySet DEF Init

\* num_retries, of a row and of every copy a dispatcher has claimed, leaves room for the tries
\* nobody has recorded yet: stale copies and double records never count what was not tried.
THEOREM AttemptsAreReal == Spec => []AttemptsNotOvercounted
<1>1. Init => IInv /\ CountInv
      BY IInvInit, CountInit
<1>2. (IInv /\ CountInv) /\ [Next]_vars => (IInv /\ CountInv)'
      BY IInvStep, CountStep
<1>3. IInv /\ CountInv => AttemptsNotOvercounted
  <2> SUFFICES ASSUME IInv, CountInv, NEW e \in Events PROVE retries[e] <= attempts[e]
      BY DEF AttemptsNotOvercounted
  <2>1. retries[e] \in Nat /\ attempts[e] \in Nat
        BY DEF IInv, TypeOK
  <2>2. QED
        BY <2>1, UnrecordedFinite DEF CountInv
<1>4. QED
      BY <1>1, <1>2, <1>3, PTL DEF Spec

-----------------------------------------------------------------------------
\* ActionsQueue implements AtLeastOnceDelivery.

\* Delivered leaves only for a reason, in one step of the queue.
Final == \A e \in Events :
    state[e] = "succeed" /\ state'[e] # "succeed" => e \in disturbed' \/ state'[e] = "stopped"

\* A row that somebody works on and that says "succeed" lost its claim.
LEMMA DeliveredIsUnclaimed ==
    ASSUME IInv, NEW d \in Dispatchers, NEW e \in batch[d], state[e] = "succeed"
    PROVE  e \in disturbed
BY DEF IInv, TypeOK, ClaimInv

LEMMA FinalStep ==
    ASSUME IInv, [Next]_vars
    PROVE  Final
<1> USE DEF Final, IInv, TypeOK, table, config, local, history
<1>1. ASSUME NEW d \in Dispatchers,
             \/ ReadSchema(d) \/ NothingToProcess(d) \/ SendRequest(d)
             \/ FindUndefined(d) \/ RecheckDefined(d) \/ RecheckUndefined(d)
             \/ ResumeHeld(d) \/ BreakBeforeRequest(d) \/ Crash(d)
             \/ \E S \in SUBSET Events : Respond(d, S)
      PROVE  Final
      BY <1>1 DEF ReadSchema, NothingToProcess, SendRequest, FindUndefined, RecheckDefined,
         RecheckUndefined, ResumeHeld, BreakBeforeRequest, Crash, Respond
<1>2. ASSUME NEW e \in Events, Elapse(e) \/ StopEvent(e) \/ RetryEvent(e)
      PROVE  Final
      BY <1>2 DEF Elapse, StopEvent, RetryEvent
<1>3. CASE \/ \E a \in Admins : ResumeAfterSet(a) \/ CrashAfterSet(a)
           \/ \E a \in Admins, V \in SUBSET Vars : SetVariables(a, V)
           \/ \E T \in SUBSET Targets : MigrateSchema(T)
           \/ UNCHANGED vars
      BY <1>3 DEF ResumeAfterSet, CrashAfterSet, SetVariables, MigrateSchema, vars
<1>4. ASSUME NEW S \in SUBSET Events, Enqueue(S) PROVE Final
      BY <1>4 DEF Enqueue
<1>5. ASSUME NEW d \in Dispatchers, NEW e \in Events, ClaimPrimary(d, e) PROVE Final
      BY <1>5 DEF ClaimPrimary, Claim, Claimable, Processable, Waiting
<1>6. ASSUME NEW d \in Dispatchers, NEW S \in SUBSET Events, ClaimRest(d, S) PROVE Final
      BY <1>6 DEF ClaimRest, Rest, Claim, Claimable, Processable, Waiting
<1>7. ASSUME NEW d \in Dispatchers, FailUnknownTarget(d) PROVE Final
      BY <1>7, DeliveredIsUnclaimed DEF FailUnknownTarget, OfUnknownTarget
<1>8. ASSUME NEW d \in Dispatchers, Hold(d) PROVE Final
      BY <1>8, DeliveredIsUnclaimed DEF Hold
<1>9. ASSUME NEW d \in Dispatchers, Persist(d) \/ PersistInternalError(d) PROVE Final
      BY <1>9, DeliveredIsUnclaimed DEF Persist, PersistInternalError, PersistProcessed
<1>10. ASSUME NEW d \in Dispatchers, PersistFails(d) PROVE Final
      BY <1>10, DeliveredIsUnclaimed DEF PersistFails, PersistProcessed
<1>11. QED
      BY <1>1, <1>2, <1>3, <1>4, <1>5, <1>6, <1>7, <1>8, <1>9, <1>10 DEF Next, Work

\* A delivered event stays delivered unless an operator touches it or a dispatcher that
\* lost its claim reports late.
THEOREM DeliveredStaysDelivered == Spec => SucceedIsFinal
<1>1. IInv /\ [Next]_vars =>
         [\A e \in Events : state[e] = "succeed" /\ state'[e] # "succeed" =>
             e \in disturbed' \/ state'[e] = "stopped"]_vars
      BY FinalStep DEF Final
<1>2. QED
      BY <1>1, Invariant, PTL DEF Spec, SucceedIsFinal

-----------------------------------------------------------------------------

\* What a step leaves alone unless it is Enqueue or Respond.
Kept ==
    /\ acked' = acked
    /\ disturbed \subseteq disturbed'
    /\ \A e \in Events : state[e] = "absent" <=> state'[e] = "absent"

\* Rows exist if somebody works on them.
LEMMA ClaimedExist ==
    ASSUME IInv, NEW d \in Dispatchers, NEW e \in batch[d]
    PROVE  state[e] # "absent"
BY DEF IInv, TypeOK, ExistInv, Claimed

LEMMA KeptStep ==
    ASSUME IInv, [Next]_vars,
           ~ \E S \in SUBSET Events : Enqueue(S),
           ~ \E d \in Dispatchers, S \in SUBSET Events : Respond(d, S)
    PROVE  Kept
<1> USE DEF Kept, IInv, TypeOK, table, config, local, history
<1>1. ASSUME NEW d \in Dispatchers,
             \/ ReadSchema(d) \/ NothingToProcess(d) \/ SendRequest(d)
             \/ FindUndefined(d) \/ RecheckDefined(d) \/ RecheckUndefined(d)
             \/ ResumeHeld(d) \/ BreakBeforeRequest(d) \/ Crash(d)
      PROVE  Kept
      BY <1>1 DEF ReadSchema, NothingToProcess, SendRequest, FindUndefined, RecheckDefined,
         RecheckUndefined, ResumeHeld, BreakBeforeRequest, Crash
<1>2. ASSUME NEW e \in Events, Elapse(e) \/ StopEvent(e) \/ RetryEvent(e)
      PROVE  Kept
      BY <1>2 DEF Elapse, StopEvent, RetryEvent, Requeued
<1>3. CASE \/ \E a \in Admins : ResumeAfterSet(a) \/ CrashAfterSet(a)
           \/ \E a \in Admins, V \in SUBSET Vars : SetVariables(a, V)
           \/ \E T \in SUBSET Targets : MigrateSchema(T)
           \/ UNCHANGED vars
      BY <1>3 DEF ResumeAfterSet, CrashAfterSet, SetVariables, MigrateSchema, vars
<1>4. ASSUME NEW d \in Dispatchers, NEW e \in Events, ClaimPrimary(d, e) PROVE Kept
      BY <1>4 DEF ClaimPrimary, Claim, Claimable, Processable, Waiting
<1>5. ASSUME NEW d \in Dispatchers, NEW S \in SUBSET Events, ClaimRest(d, S) PROVE Kept
      BY <1>5 DEF ClaimRest, Rest, Claim, Claimable, Processable, Waiting
<1>6. ASSUME NEW d \in Dispatchers, FailUnknownTarget(d) PROVE Kept
      BY <1>6, ClaimedExist DEF FailUnknownTarget, OfUnknownTarget
<1>7. ASSUME NEW d \in Dispatchers, Hold(d) PROVE Kept
      BY <1>7, ClaimedExist DEF Hold, Requeued
<1>8. ASSUME NEW d \in Dispatchers, Persist(d) \/ PersistInternalError(d) PROVE Kept
      BY <1>8, ClaimedExist DEF Persist, PersistInternalError, PersistProcessed, Outcome
<1>9. ASSUME NEW d \in Dispatchers, PersistFails(d) PROVE Kept
      BY <1>9, ClaimedExist DEF PersistFails, PersistProcessed, Outcome
<1>10. QED
      BY <1>1, <1>2, <1>3, <1>4, <1>5, <1>6, <1>7, <1>8, <1>9 DEF Next, Work

-----------------------------------------------------------------------------

LEMMA StatusOf ==
    ASSUME TypeOK, NEW e \in Events
    PROVE  /\ Status(e) \in Delivery!Status
           /\ Status(e) = "absent" <=> state[e] = "absent"
           /\ Status(e) = "delivered" <=> state[e] = "succeed"
           /\ Status(e) = "open" <=> state[e] \in Processable
           /\ state[e] = "stopped" => Status(e) = "abandoned"
BY DEF TypeOK, EventState, Status, Delivery!Status, Processable, Waiting

\* The same in the next state.
LEMMA StatusOfNext ==
    ASSUME TypeOK', NEW e \in Events
    PROVE  /\ Status(e)' \in Delivery!Status
           /\ Status(e)' = "absent" <=> state'[e] = "absent"
           /\ Status(e)' = "delivered" <=> state'[e] = "succeed"
           /\ state'[e] = "stopped" => Status(e)' = "abandoned"
BY DEF TypeOK, EventState, Status, Delivery!Status, Processable, Waiting

LEMMA RefinesInit == Init => Delivery!Init
<1> SUFFICES ASSUME Init PROVE Delivery!Init
    OBVIOUS
<1>1. \A e \in Events : state[e] = "absent"
      BY DEF Init
<1>2. \A e \in Events : Status(e) = "absent"
      BY <1>1, TypeInit, StatusOf
<1>3. QED
      BY <1>2 DEF Init, Delivery!Init

LEMMA RefinesNext ==
    ASSUME IInv, IInv', [Next]_vars
    PROVE  [Delivery!Next]_(Delivery!vars)
<1> USE DEF IInv
<1>1. ASSUME NEW S \in SUBSET Events, Enqueue(S) PROVE Delivery!Submit(S)
  <2>1. \A e \in S : state[e] = "absent"
        BY <1>1 DEF Enqueue
  <2>2. \A e \in Events : state'[e] = IF e \in S THEN "created" ELSE state[e]
        BY <1>1 DEF Enqueue
  <2>3. \A e \in Events : Status(e)' = IF e \in S THEN "open" ELSE Status(e)
        BY <2>2 DEF Status, Processable, Waiting
  <2>4. UNCHANGED <<acked, disturbed>>
        BY <1>1 DEF Enqueue, history
  <2>5. \A e \in S : Status(e) = "absent"
        BY <2>1, StatusOf
  <2>6. QED
        BY <2>3, <2>4, <2>5 DEF Delivery!Submit
<1>2. ASSUME NEW d \in Dispatchers, NEW S \in SUBSET Events, Respond(d, S)
      PROVE  Delivery!Acknowledge(S)
  <2>1. S \subseteq batch[d] /\ pc[d] = "sent"
        BY <1>2 DEF Respond, At
  <2>2. \A e \in S : Status(e) # "absent"
        BY <2>1, ClaimedExist, StatusOf
  <2>3. S \cap acked \subseteq disturbed
        BY <2>1 DEF AckInv, LocalInv, LocalOK
  <2>4. state' = state /\ acked' = acked \cup S /\ disturbed' = disturbed
        BY <1>2 DEF Respond, table
  <2>5. \A e \in Events : Status(e)' = Status(e)
        BY <2>4 DEF Status
  <2>6. QED
        BY <2>2, <2>3, <2>4, <2>5 DEF Delivery!Acknowledge
<1>3. ASSUME Kept PROVE Delivery!Settle
  <2>1. Final
        BY FinalStep
  <2>2. \A e \in Events : Status(e)' \in Delivery!Status
        BY StatusOfNext
  <2>3. ASSUME NEW e \in Events, Status(e)' # Status(e)
        PROVE  /\ Status(e) # "absent"
               /\ Status(e)' # "absent"
               /\ Status(e)' = "delivered" => e \in acked
               /\ Status(e) = "delivered" => e \in disturbed' \/ Status(e)' = "abandoned"
    <3>1. Status(e) # "absent" /\ Status(e)' # "absent"
          BY <1>3, <2>3, StatusOf, StatusOfNext DEF Kept
    <3>2. Status(e)' = "delivered" => e \in acked
          BY <1>3, StatusOfNext DEF Kept, SucceededWasAcknowledged
    <3>3. Status(e) = "delivered" => e \in disturbed' \/ Status(e)' = "abandoned"
          BY <2>1, <2>3, StatusOf, StatusOfNext DEF Final
    <3>4. QED
          BY <3>1, <3>2, <3>3
  <2>4. disturbed' \subseteq Events
        BY DEF TypeOK
  <2>5. QED
        BY <1>3, <2>2, <2>3, <2>4 DEF Kept, Delivery!Settle
<1>4. QED
      BY <1>1, <1>2, <1>3, KeptStep DEF Delivery!Next

\* The queue implements at-least-once delivery: for any number of events, dispatchers,
\* crashes and lost claims, every step submits, acknowledges or settles events in a way
\* AtLeastOnceDelivery allows, or changes nothing it speaks of.
THEOREM Refinement == Spec => ImplementsDelivery
<1>1. IInv /\ IInv' /\ [Next]_vars => [Delivery!Next]_(Delivery!vars)
      BY RefinesNext
<1>2. QED
      BY <1>1, RefinesInit, Invariant, PTL DEF Spec, ImplementsDelivery, Delivery!Spec
=============================================================================
