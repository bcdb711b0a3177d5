-------------------------- MODULE IdpSessionsProofs --------------------------
(***************************************************************************)
(* Proofs about IdpSessions, for every value of its constants.             *)
(***************************************************************************)
EXTENDS IdpSessions, TLAPS

LEMMA SessionInit == Init => SessionInv
<1> SUFFICES ASSUME Init PROVE SessionInv
    OBVIOUS
<1> USE SessionAssumption DEF Init
<1>1. TypeOK
  <2>1. stored \in Tokens /\ issued \in Tokens /\ left \in 0 .. MaxTroubles
        BY DEF Tokens
  <2>2. replica \in Replicas
        BY DEF Replicas
  <2>3. /\ disabled \in BOOLEAN /\ renewable \in BOOLEAN /\ floored \in BOOLEAN
        /\ ended \in BOOLEAN /\ off \in BOOLEAN /\ excused \in BOOLEAN /\ refused \in BOOLEAN /\ slow \subseteq Requests
        OBVIOUS
  <2>4. /\ age \in [Tokens -> {"fresh", "soft", "expired", "unknown"}]
        /\ pc \in [Requests -> {"none", "verified", "claiming", "calling", "granted", "refused",
                                "revoking"}]
        /\ source \in [Requests -> {"replica", "primary"}]
        OBVIOUS
  <2>5. token \in [Requests -> Tokens \cup {None}] /\ got \in [Requests -> Tokens \cup {None}]
        OBVIOUS
  <2> QED
        BY <2>1, <2>2, <2>3, <2>4, <2>5 DEF TypeOK
<1>2. SingleFlight /\ FloorHeld
    BY DEF SingleFlight, FloorHeld, InFlight
<1>3. LiveTokenStored /\ GotNewest /\ ReadWhereKnown /\ RevokedForAReason
    BY DEF LiveTokenStored, GotNewest, ReadWhereKnown, RevokedForAReason
<1>4. StaleIsFloored
    BY DEF StaleIsFloored, Behind, Outdated
<1> QED
    BY <1>1, <1>2, <1>3, <1>4 DEF SessionInv

LEMMA VerifyKeeps ==
    ASSUME SessionInv, NEW r \in Requests, Verify(r)
    PROVE  SessionInv'
<1> USE SessionAssumption DEF SessionInv, TypeOK, Verify, Shown, Primary, key, provider, request, history
<1>1. TypeOK'
    BY DEF Tokens, None, Replicas
<1>2. SingleFlight' /\ FloorHeld'
    BY DEF SingleFlight, FloorHeld, InFlight, Outdated
<1>3. LiveTokenStored' /\ GotNewest'
    BY DEF LiveTokenStored, GotNewest, StaleIsFloored, SingleFlight, InFlight, Tokens
<1>4. ReadWhereKnown'
    BY DEF ReadWhereKnown
<1>5. StaleIsFloored'
    BY DEF StaleIsFloored, Behind, Outdated, SingleFlight, FloorHeld, LiveTokenStored, GotNewest, ReadWhereKnown, InFlight
<1>6. RevokedForAReason'
    BY DEF RevokedForAReason, StaleIsFloored
<1> QED
    BY <1>1, <1>2, <1>3, <1>4, <1>5, <1>6

LEMMA ReadSessionKeeps ==
    ASSUME SessionInv, NEW r \in Requests, ReadSession(r)
    PROVE  SessionInv'
<1> USE SessionAssumption DEF SessionInv, TypeOK, ReadSession, Shown, Primary, Over, key, provider, request, history
<1>1. TypeOK'
  <2>1. Shown(source[r]).token \in Tokens \cup {None}
        BY DEF Replicas
  <2>2. /\ pc' \in [Requests -> {"none", "verified", "claiming", "calling", "granted", "refused",
                                "revoking"}]
        /\ source' \in [Requests -> {"replica", "primary"}]
        /\ slow' \subseteq Requests
        OBVIOUS
  <2>3. token' \in [Requests -> Tokens \cup {None}] /\ got' \in [Requests -> Tokens \cup {None}]
        BY <2>1
  <2> QED
        BY <2>2, <2>3
<1>2. SingleFlight' /\ FloorHeld'
    BY DEF SingleFlight, FloorHeld, InFlight, Outdated
<1>3. LiveTokenStored' /\ GotNewest'
    BY DEF LiveTokenStored, GotNewest, StaleIsFloored, SingleFlight, InFlight, Tokens
<1>4. ReadWhereKnown'
    BY DEF ReadWhereKnown
<1>5. StaleIsFloored'
    BY DEF StaleIsFloored, Behind, Outdated, SingleFlight, FloorHeld, LiveTokenStored, GotNewest, ReadWhereKnown, InFlight
<1>6. RevokedForAReason'
    BY DEF RevokedForAReason, StaleIsFloored
<1> QED
    BY <1>1, <1>2, <1>3, <1>4, <1>5, <1>6

LEMMA ClaimKeeps ==
    ASSUME SessionInv, NEW r \in Requests, Claim(r)
    PROVE  SessionInv'
<1> USE SessionAssumption DEF SessionInv, TypeOK, Claim, Claimable, key, provider, request, history
<1>1. TypeOK'
    BY DEF Tokens, None, Replicas
<1>2. SingleFlight' /\ FloorHeld'
    BY DEF SingleFlight, FloorHeld, InFlight, Outdated
<1>3. LiveTokenStored' /\ GotNewest'
    BY DEF LiveTokenStored, GotNewest, StaleIsFloored, SingleFlight, InFlight, Tokens
<1>4. ReadWhereKnown'
    BY DEF ReadWhereKnown
<1>5. StaleIsFloored'
    BY DEF StaleIsFloored, Behind, Outdated, SingleFlight, FloorHeld, LiveTokenStored, GotNewest, ReadWhereKnown, InFlight
<1>6. RevokedForAReason'
    BY DEF RevokedForAReason, StaleIsFloored
<1> QED
    BY <1>1, <1>2, <1>3, <1>4, <1>5, <1>6

LEMMA NotClaimedKeeps ==
    ASSUME SessionInv, NEW r \in Requests, NotClaimed(r)
    PROVE  SessionInv'
<1> USE SessionAssumption DEF SessionInv, TypeOK, NotClaimed, Spend, Over, key, provider, request, history
<1>1. TypeOK'
    BY DEF Tokens, None, Replicas
<1>2. SingleFlight' /\ FloorHeld'
    BY DEF SingleFlight, FloorHeld, InFlight, Outdated
<1>3. LiveTokenStored' /\ GotNewest'
    BY DEF LiveTokenStored, GotNewest, StaleIsFloored, SingleFlight, InFlight, Tokens
<1>4. ReadWhereKnown'
    BY DEF ReadWhereKnown
<1>5. StaleIsFloored'
    BY DEF StaleIsFloored, Behind, Outdated, SingleFlight, FloorHeld, LiveTokenStored, GotNewest, ReadWhereKnown, InFlight
<1>6. RevokedForAReason'
    BY DEF RevokedForAReason, StaleIsFloored
<1> QED
    BY <1>1, <1>2, <1>3, <1>4, <1>5, <1>6

LEMMA NothingToRefreshKeeps ==
    ASSUME SessionInv, NEW r \in Requests, NothingToRefresh(r)
    PROVE  SessionInv'
<1> USE SessionAssumption DEF SessionInv, TypeOK, NothingToRefresh, key, provider, request, history
<1>1. TypeOK'
    BY DEF Tokens, None, Replicas
<1>2. SingleFlight' /\ FloorHeld'
    BY DEF SingleFlight, FloorHeld, InFlight, Outdated
<1>3. LiveTokenStored' /\ GotNewest'
    BY DEF LiveTokenStored, GotNewest, StaleIsFloored, SingleFlight, InFlight, Tokens
<1>4. ReadWhereKnown'
    BY DEF ReadWhereKnown
<1>5. StaleIsFloored'
    BY DEF StaleIsFloored, Behind, Outdated, SingleFlight, FloorHeld, LiveTokenStored, GotNewest, ReadWhereKnown, InFlight
<1>6. RevokedForAReason'
    BY DEF RevokedForAReason, StaleIsFloored
<1> QED
    BY <1>1, <1>2, <1>3, <1>4, <1>5, <1>6

LEMMA GrantKeeps ==
    ASSUME SessionInv, NEW r \in Requests, Grant(r)
    PROVE  SessionInv'
<1> USE SessionAssumption DEF SessionInv, TypeOK, Grant, Accepted, key, provider, request, history
<1>1. TypeOK'
    BY DEF Tokens, None, Replicas
<1>2. SingleFlight' /\ FloorHeld'
    BY DEF SingleFlight, FloorHeld, InFlight, Outdated
<1>3. LiveTokenStored' /\ GotNewest'
    BY DEF LiveTokenStored, GotNewest, StaleIsFloored, SingleFlight, InFlight, Tokens
<1>4. ReadWhereKnown'
    BY DEF ReadWhereKnown
<1>5. StaleIsFloored'
    BY DEF StaleIsFloored, Behind, Outdated, SingleFlight, FloorHeld, LiveTokenStored, GotNewest, ReadWhereKnown, InFlight
<1>6. RevokedForAReason'
    BY DEF RevokedForAReason, StaleIsFloored
<1> QED
    BY <1>1, <1>2, <1>3, <1>4, <1>5, <1>6

LEMMA RefuseKeeps ==
    ASSUME SessionInv, NEW r \in Requests, Refuse(r)
    PROVE  SessionInv'
<1> USE SessionAssumption DEF SessionInv, TypeOK, Refuse, Accepted, key, provider, request, history
<1>1. TypeOK'
    BY DEF Tokens, None, Replicas
<1>2. SingleFlight' /\ FloorHeld'
    BY DEF SingleFlight, FloorHeld, InFlight, Outdated
<1>3. LiveTokenStored' /\ GotNewest'
    BY DEF LiveTokenStored, GotNewest, StaleIsFloored, SingleFlight, InFlight, Tokens
<1>4. ReadWhereKnown'
    BY DEF ReadWhereKnown
<1>5. StaleIsFloored'
    BY DEF StaleIsFloored, Behind, Outdated, SingleFlight, FloorHeld, LiveTokenStored, GotNewest, ReadWhereKnown, InFlight
<1>6. RevokedForAReason'
    BY DEF RevokedForAReason, StaleIsFloored
<1> QED
    BY <1>1, <1>2, <1>3, <1>4, <1>5, <1>6

LEMMA CallFailsKeeps ==
    ASSUME SessionInv, NEW r \in Requests, CallFails(r)
    PROVE  SessionInv'
<1> USE SessionAssumption DEF SessionInv, TypeOK, CallFails, AfterFailure, Accepted, Spend, Over, key, provider, request, history
<1>1. TypeOK'
  <2>1. issued' \in Tokens /\ left' \in 0 .. MaxTroubles
        BY DEF Tokens
  <2> QED
        BY <2>1
<1>2. SingleFlight' /\ FloorHeld'
    BY DEF SingleFlight, FloorHeld, InFlight, Outdated
<1>3. LiveTokenStored' /\ GotNewest'
    BY DEF LiveTokenStored, GotNewest, StaleIsFloored, SingleFlight, InFlight, Tokens
<1>4. ReadWhereKnown'
    BY DEF ReadWhereKnown
<1>5. StaleIsFloored'
    BY DEF StaleIsFloored, Behind, Outdated, SingleFlight, FloorHeld, LiveTokenStored, GotNewest, ReadWhereKnown, InFlight
<1>6. RevokedForAReason'
    BY DEF RevokedForAReason, StaleIsFloored
<1> QED
    BY <1>1, <1>2, <1>3, <1>4, <1>5, <1>6

LEMMA PersistKeeps ==
    ASSUME SessionInv, NEW r \in Requests, Persist(r)
    PROVE  SessionInv'
<1> USE SessionAssumption DEF SessionInv, TypeOK, Persist, Stored, Over, key, provider, request, history
<1>1. TypeOK'
  <2>1. stored' \in Tokens
        BY DEF GotNewest
  <2> QED
        BY <2>1
<1>2. SingleFlight' /\ FloorHeld'
    BY DEF SingleFlight, FloorHeld, InFlight, Outdated
<1>3. LiveTokenStored' /\ GotNewest'
    BY DEF LiveTokenStored, GotNewest, StaleIsFloored, SingleFlight, InFlight, Tokens
<1>4. ReadWhereKnown'
    BY DEF ReadWhereKnown
<1>5. StaleIsFloored'
    BY DEF StaleIsFloored, Behind, Outdated, SingleFlight, FloorHeld, LiveTokenStored, GotNewest, ReadWhereKnown, InFlight
<1>6. RevokedForAReason'
    BY DEF RevokedForAReason, StaleIsFloored
<1> QED
    BY <1>1, <1>2, <1>3, <1>4, <1>5, <1>6

LEMMA PersistFailsKeeps ==
    ASSUME SessionInv, NEW r \in Requests, PersistFails(r)
    PROVE  SessionInv'
<1> USE SessionAssumption DEF SessionInv, TypeOK, PersistFails, Spend, Over, key, provider, request, history
<1>1. TypeOK'
    BY DEF Tokens, None, Replicas
<1>2. SingleFlight' /\ FloorHeld'
    BY DEF SingleFlight, FloorHeld, InFlight, Outdated
<1>3. LiveTokenStored' /\ GotNewest'
    BY DEF LiveTokenStored, GotNewest, StaleIsFloored, SingleFlight, InFlight, Tokens
<1>4. ReadWhereKnown'
    BY DEF ReadWhereKnown
<1>5. StaleIsFloored'
    BY DEF StaleIsFloored, Behind, Outdated, SingleFlight, FloorHeld, LiveTokenStored, GotNewest, ReadWhereKnown, InFlight
<1>6. RevokedForAReason'
    BY DEF RevokedForAReason, StaleIsFloored
<1> QED
    BY <1>1, <1>2, <1>3, <1>4, <1>5, <1>6

LEMMA RevokeKeeps ==
    ASSUME SessionInv, NEW r \in Requests, Revoke(r)
    PROVE  SessionInv'
<1> USE SessionAssumption DEF SessionInv, TypeOK, Revoke, Over, key, provider, request, history
<1>1. TypeOK'
    BY DEF Tokens, None, Replicas
<1>2. SingleFlight' /\ FloorHeld'
    BY DEF SingleFlight, FloorHeld, InFlight, Outdated
<1>3. LiveTokenStored' /\ GotNewest'
    BY DEF LiveTokenStored, GotNewest, StaleIsFloored, SingleFlight, InFlight, Tokens
<1>4. ReadWhereKnown'
    BY DEF ReadWhereKnown
<1>5. StaleIsFloored'
    BY DEF StaleIsFloored, Behind, Outdated, SingleFlight, FloorHeld, LiveTokenStored, GotNewest, ReadWhereKnown, InFlight
<1>6. RevokedForAReason'
    BY DEF RevokedForAReason, StaleIsFloored
<1> QED
    BY <1>1, <1>2, <1>3, <1>4, <1>5, <1>6

LEMMA RevokeFailsKeeps ==
    ASSUME SessionInv, NEW r \in Requests, RevokeFails(r)
    PROVE  SessionInv'
<1> USE SessionAssumption DEF SessionInv, TypeOK, RevokeFails, Spend, Over, key, provider, request, history
<1>1. TypeOK'
    BY DEF Tokens, None, Replicas
<1>2. SingleFlight' /\ FloorHeld'
    BY DEF SingleFlight, FloorHeld, InFlight, Outdated
<1>3. LiveTokenStored' /\ GotNewest'
    BY DEF LiveTokenStored, GotNewest, StaleIsFloored, SingleFlight, InFlight, Tokens
<1>4. ReadWhereKnown'
    BY DEF ReadWhereKnown
<1>5. StaleIsFloored'
    BY DEF StaleIsFloored, Behind, Outdated, SingleFlight, FloorHeld, LiveTokenStored, GotNewest, ReadWhereKnown, InFlight
<1>6. RevokedForAReason'
    BY DEF RevokedForAReason, StaleIsFloored
<1> QED
    BY <1>1, <1>2, <1>3, <1>4, <1>5, <1>6

LEMMA AgeKeeps ==
    ASSUME SessionInv, NEW t \in Tokens, Age(t)
    PROVE  SessionInv'
<1> USE SessionAssumption DEF SessionInv, TypeOK, Age, key, provider, request, history
<1>1. TypeOK'
    BY DEF Tokens, None, Replicas
<1>2. SingleFlight' /\ FloorHeld'
    BY DEF SingleFlight, FloorHeld, InFlight, Outdated
<1>3. LiveTokenStored' /\ GotNewest'
    BY DEF LiveTokenStored, GotNewest, StaleIsFloored, SingleFlight, InFlight, Tokens
<1>4. ReadWhereKnown'
    BY DEF ReadWhereKnown
<1>5. StaleIsFloored'
    BY DEF StaleIsFloored, Behind, Outdated, SingleFlight, FloorHeld, LiveTokenStored, GotNewest, ReadWhereKnown, InFlight
<1>6. RevokedForAReason'
    BY DEF RevokedForAReason, StaleIsFloored
<1> QED
    BY <1>1, <1>2, <1>3, <1>4, <1>5, <1>6

LEMMA FloorPassesKeeps ==
    ASSUME SessionInv, FloorPasses
    PROVE  SessionInv'
<1> USE SessionAssumption DEF SessionInv, TypeOK, FloorPasses, Spend, key, provider, request, history
<1>1. TypeOK'
  <2>1. slow' \subseteq Requests /\ floored' \in BOOLEAN /\ excused' \in BOOLEAN
        OBVIOUS
  <2>2. left' = left \/ (left > 0 /\ left' = left - 1)
        OBVIOUS
  <2>3. left' \in 0 .. MaxTroubles
        BY <2>2
  <2> QED
        BY <2>1, <2>3 DEF Replicas
<1>2. SingleFlight' /\ FloorHeld'
    BY DEF SingleFlight, FloorHeld, InFlight, Outdated
<1>3. LiveTokenStored' /\ GotNewest'
    BY DEF LiveTokenStored, GotNewest, StaleIsFloored, SingleFlight, InFlight, Tokens
<1>4. ReadWhereKnown'
    BY DEF ReadWhereKnown
<1>5. StaleIsFloored'
    BY DEF StaleIsFloored, Behind, Outdated, SingleFlight, FloorHeld, LiveTokenStored, GotNewest, ReadWhereKnown, InFlight
<1>6. RevokedForAReason'
    BY DEF RevokedForAReason, StaleIsFloored
<1> QED
    BY <1>1, <1>2, <1>3, <1>4, <1>5, <1>6

LEMMA ReplicateKeeps ==
    ASSUME SessionInv, Replicate
    PROVE  SessionInv'
<1> USE SessionAssumption DEF SessionInv, TypeOK, Replicate, Primary, key, provider, request, history
<1>1. TypeOK'
  <2>1. Primary \in Replicas
        BY DEF Replicas
  <2> QED
        BY <2>1
<1>2. SingleFlight' /\ FloorHeld'
    BY DEF SingleFlight, FloorHeld, InFlight, Outdated
<1>3. LiveTokenStored' /\ GotNewest'
    BY DEF LiveTokenStored, GotNewest, StaleIsFloored, SingleFlight, InFlight, Tokens
<1>4. ReadWhereKnown'
    BY DEF ReadWhereKnown
<1>5. StaleIsFloored'
    BY DEF StaleIsFloored, Behind, Outdated, SingleFlight, FloorHeld, LiveTokenStored, GotNewest, ReadWhereKnown, InFlight
<1>6. RevokedForAReason'
    BY DEF RevokedForAReason, StaleIsFloored
<1> QED
    BY <1>1, <1>2, <1>3, <1>4, <1>5, <1>6

LEMMA SignOutKeeps ==
    ASSUME SessionInv, SignOut
    PROVE  SessionInv'
<1> USE SessionAssumption DEF SessionInv, TypeOK, SignOut, Spend, key, provider, request, history
<1>1. TypeOK'
    BY DEF Tokens, None, Replicas
<1>2. SingleFlight' /\ FloorHeld'
    BY DEF SingleFlight, FloorHeld, InFlight, Outdated
<1>3. LiveTokenStored' /\ GotNewest'
    BY DEF LiveTokenStored, GotNewest, StaleIsFloored, SingleFlight, InFlight, Tokens
<1>4. ReadWhereKnown'
    BY DEF ReadWhereKnown
<1>5. StaleIsFloored'
    BY DEF StaleIsFloored, Behind, Outdated, SingleFlight, FloorHeld, LiveTokenStored, GotNewest, ReadWhereKnown, InFlight
<1>6. RevokedForAReason'
    BY DEF RevokedForAReason, StaleIsFloored
<1> QED
    BY <1>1, <1>2, <1>3, <1>4, <1>5, <1>6

LEMMA EndAtProviderKeeps ==
    ASSUME SessionInv, EndAtProvider
    PROVE  SessionInv'
<1> USE SessionAssumption DEF SessionInv, TypeOK, EndAtProvider, key, provider, request, history
<1>1. TypeOK'
    BY DEF Tokens, None, Replicas
<1>2. SingleFlight' /\ FloorHeld'
    BY DEF SingleFlight, FloorHeld, InFlight, Outdated
<1>3. LiveTokenStored' /\ GotNewest'
    BY DEF LiveTokenStored, GotNewest, StaleIsFloored, SingleFlight, InFlight, Tokens
<1>4. ReadWhereKnown'
    BY DEF ReadWhereKnown
<1>5. StaleIsFloored'
    BY DEF StaleIsFloored, Behind, Outdated, SingleFlight, FloorHeld, LiveTokenStored, GotNewest, ReadWhereKnown, InFlight
<1>6. RevokedForAReason'
    BY DEF RevokedForAReason, StaleIsFloored
<1> QED
    BY <1>1, <1>2, <1>3, <1>4, <1>5, <1>6

LEMMA SwitchProviderKeeps ==
    ASSUME SessionInv, SwitchProvider
    PROVE  SessionInv'
<1> USE SessionAssumption DEF SessionInv, TypeOK, SwitchProvider, Spend, key, provider, request, history
<1>1. TypeOK'
    BY DEF Tokens, None, Replicas
<1>2. SingleFlight' /\ FloorHeld'
    BY DEF SingleFlight, FloorHeld, InFlight, Outdated
<1>3. LiveTokenStored' /\ GotNewest'
    BY DEF LiveTokenStored, GotNewest, StaleIsFloored, SingleFlight, InFlight, Tokens
<1>4. ReadWhereKnown'
    BY DEF ReadWhereKnown
<1>5. StaleIsFloored'
    BY DEF StaleIsFloored, Behind, Outdated, SingleFlight, FloorHeld, LiveTokenStored, GotNewest, ReadWhereKnown, InFlight
<1>6. RevokedForAReason'
    BY DEF RevokedForAReason, StaleIsFloored
<1> QED
    BY <1>1, <1>2, <1>3, <1>4, <1>5, <1>6

LEMMA SessionStep == SessionInv /\ [Next]_vars => SessionInv'
<1> SUFFICES ASSUME SessionInv, [Next]_vars PROVE SessionInv'
    OBVIOUS
<1>1. CASE UNCHANGED vars
    BY <1>1 DEF vars, key, provider, request, history, SessionInv, TypeOK, Replicas, SingleFlight, FloorHeld, LiveTokenStored,
       GotNewest, ReadWhereKnown, StaleIsFloored, RevokedForAReason, InFlight, Outdated, Behind
<1>2. ASSUME NEW r \in Requests, Verify(r) \/ Work(r)
      PROVE  SessionInv'
    BY <1>2, VerifyKeeps, ReadSessionKeeps, ClaimKeeps, NotClaimedKeeps,
       NothingToRefreshKeeps, GrantKeeps, RefuseKeeps, CallFailsKeeps, PersistKeeps, PersistFailsKeeps, RevokeKeeps, RevokeFailsKeeps DEF Work
<1>3. ASSUME NEW t \in Tokens, Age(t)
      PROVE  SessionInv'
    BY <1>3, AgeKeeps
<1>4. CASE FloorPasses \/ Replicate \/ SignOut \/ EndAtProvider \/ SwitchProvider
    BY <1>4, FloorPassesKeeps, ReplicateKeeps, SignOutKeeps, EndAtProviderKeeps, SwitchProviderKeeps
<1> QED
    BY <1>1, <1>2, <1>3, <1>4 DEF Next

\* The invariant that the others follow from: who may claim, where the token that works is,
\* and why what a request has read can be used (IdpSessionRevalidator.revalidate).
THEOREM SessionInvariant == Spec => []SessionInv
BY SessionInit, SessionStep, PTL DEF Spec

\* No two attempts that their intervals cover are under way at a time
\* (ClaimIdpRevalidationCommand).
THEOREM OneRefreshAtATime == Spec => []SingleFlight
<1>1. SessionInv => SingleFlight
    BY DEF SessionInv
<1> QED
    BY <1>1, SessionInvariant, PTL

\* A refusal disables a key only if the session has ended at the provider, or a token was
\* lost, or an interval was too short (runRevalidation, revoke).
THEOREM RevocationsHaveReasons == Spec => []RevokedForAReason
<1>1. SessionInv => RevokedForAReason
    BY DEF SessionInv
<1> QED
    BY <1>1, SessionInvariant, PTL
=============================================================================
