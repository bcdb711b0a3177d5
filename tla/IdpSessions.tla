---------------------------- MODULE IdpSessions ----------------------------
(***************************************************************************)
(* One session that was signed in at an identity provider, and how the     *)
(* requests that use it keep it valid: engine-tenant-api/src/model/        *)
(* service/apiKey/ApiKeyManager.ts and service/idp/IdpSessionRevalidator.ts*)
(* with their commands and queries.                                        *)
(*                                                                         *)
(* The session is a row of api_key, which may be disabled, and a row of    *)
(* idp_session with the tokens.  Tokens are numbered in the order in which *)
(* the provider issued them.  A request reads both rows, maybe from a      *)
(* replica, and if the token has aged it claims the right to refresh it,   *)
(* asks the provider, and stores the new token or disables the key.        *)
(* Whether it does the last part before or after its response changes only *)
(* the response, which is not modelled.                                    *)
(***************************************************************************)
EXTENDS Naturals, FiniteSets

CONSTANTS
    Requests,       (* requests under way at a time                         *)
    MaxTokens,      (* bound: tokens that age                               *)
    Allowed,        (* the kinds of trouble that may happen                 *)
    MaxTroubles     (* bound: how many of them together                     *)

Troubles == {"claim", "call", "persist", "revoke", "slow", "off", "signOut"}

ASSUME SessionAssumption ==
    /\ IsFiniteSet(Requests)
    /\ MaxTokens \in Nat \ {0}
    /\ Allowed \subseteq Troubles
    /\ MaxTroubles \in Nat

Tokens == 1 .. MaxTokens + 1
None == 0

VARIABLES
    \* the primary: is the key disabled, the stored token, did it come with a refresh
    \* token, is last_validated_at within the interval of a claim
    disabled, stored, renewable, floored,
    \* the identity provider: what it issued last, has the user's session ended
    \* there, and is it disabled in the tenant's settings
    issued, ended, off,
    \* of each token: where it is in its lifetime, if the provider tells
    age,
    \* what the replica shows
    replica,
    \* of each request: where it is, the token it read, the one it got
    pc, source, token, got,
    \* history: requests that the interval did not cover; a refusal may be the fault
    \* of one of them, of a replica that lags, or of an issued token that was lost
    slow, excused,
    \* history: the key was disabled because the provider refused
    refused,
    left

key == <<disabled, stored, renewable, floored>>
provider == <<issued, ended, off>>
request == <<pc, source, token, got>>
history == <<slow, excused, refused>>
vars == <<key, provider, age, replica, request, history, left>>

-----------------------------------------------------------------------------
(* Helpers *)

Spend(kind) ==
    /\ kind \in Allowed
    /\ left > 0
    /\ left' = left - 1

\* What a database shows of the session.
Primary == [known |-> TRUE, disabled |-> disabled, token |-> stored, off |-> off]
Shown(s) == IF s = "replica" THEN replica ELSE Primary

\* An attempt is under way; a request is about to claim one with a token that is no longer
\* the stored one.
InFlight(r) == pc[r] \in {"calling", "granted"}
Outdated(r) == pc[r] = "claiming" /\ token[r] # stored

\* decide: before the soft threshold nothing is due; without a lifetime any request is,
\* as often as the interval of the claims allows.
Due_whileSoft(t) == age[t] \in {"soft", "unknown"}
Due(t) == age[t] # "fresh"

\* The WHERE of ClaimIdpRevalidationCommand.
Claimable_always == TRUE
Claimable == ~floored

\* The provider accepts a refresh token: a new one replaces the one before.
Accepted(t) == ~ended /\ t = issued

\* The request, and what it does after the response, is over; its variables are gone.
Over(r) ==
    /\ pc' = [pc EXCEPT ![r] = "none"]
    /\ source' = [source EXCEPT ![r] = "primary"]
    /\ token' = [token EXCEPT ![r] = None]
    /\ got' = [got EXCEPT ![r] = None]
    /\ slow' = slow \ {r}

-----------------------------------------------------------------------------
(* Types and the initial state *)

Replicas == [known: BOOLEAN, disabled: BOOLEAN, token: Tokens \cup {None}, off: BOOLEAN]

TypeOK ==
    /\ disabled \in BOOLEAN /\ stored \in Tokens /\ renewable \in BOOLEAN /\ floored \in BOOLEAN
    /\ issued \in Tokens /\ ended \in BOOLEAN /\ off \in BOOLEAN
    /\ age \in [Tokens -> {"fresh", "soft", "expired", "unknown"}]
    /\ replica \in Replicas
    /\ pc \in [Requests -> {"none", "verified", "claiming", "calling", "granted", "refused",
                            "revoking"}]
    /\ source \in [Requests -> {"replica", "primary"}]
    /\ token \in [Requests -> Tokens \cup {None}]
    /\ got \in [Requests -> Tokens \cup {None}]
    /\ slow \subseteq Requests
    /\ excused \in BOOLEAN /\ refused \in BOOLEAN
    /\ left \in 0 .. MaxTroubles

\* Just signed in: last_validated_at is now, and the replica has not seen it.
Init ==
    /\ disabled = FALSE /\ stored = 1 /\ renewable \in BOOLEAN /\ floored = TRUE
    /\ issued = 1 /\ ended = FALSE /\ off = FALSE
    /\ \E first \in {"fresh", "unknown"} : age = [t \in Tokens |-> first]
    /\ replica = [known |-> FALSE, disabled |-> FALSE, token |-> None, off |-> FALSE]
    /\ pc = [r \in Requests |-> "none"]
    /\ source = [r \in Requests |-> "primary"]
    /\ token = [r \in Requests |-> None]
    /\ got = [r \in Requests |-> None]
    /\ slow = {} /\ excused = FALSE /\ refused = FALSE
    /\ left = MaxTroubles

-----------------------------------------------------------------------------
(* A request *)

\* fetchApiKeyByToken: the replica, or the primary if it does not know the key.
Verify(r) ==
    LET s == IF replica.known THEN "replica" ELSE "primary" IN
    /\ pc[r] = "none"
    /\ ~Shown(s).disabled
    /\ pc' = [pc EXCEPT ![r] = "verified"]
    /\ source' = [source EXCEPT ![r] = s]
    /\ UNCHANGED <<key, provider, age, replica, token, got, history, left>>

\* The session is read where the key was found, and what is due is decided.
ReadSession(r) ==
    LET row == Shown(source[r]) IN
    /\ pc[r] = "verified"
    /\ IF row.off \/ Due(row.token)
          THEN /\ token' = [token EXCEPT ![r] = row.token]
               /\ pc' = [pc EXCEPT ![r] = IF row.off THEN "revoking" ELSE "claiming"]
               /\ UNCHANGED <<source, got, slow>>
          ELSE Over(r)
    /\ UNCHANGED <<key, provider, age, replica, excused, refused, left>>

Claim(r) ==
    /\ pc[r] = "claiming" /\ Claimable
    /\ floored' = TRUE
    /\ pc' = [pc EXCEPT ![r] = "calling"]
    /\ UNCHANGED <<disabled, stored, renewable, provider, age, replica, source, token, got,
                   history, left>>

\* Within the interval, or by an error of the statement: the session is served as it is.
NotClaimed(r) ==
    /\ pc[r] = "claiming"
    /\ \/ floored /\ UNCHANGED left
       \/ Spend("claim")
    /\ Over(r)
    /\ UNCHANGED <<key, provider, age, replica, excused, refused>>

-----------------------------------------------------------------------------
(* The provider, and what the request makes of its answer *)

\* A session without a refresh token is given up, and its provider is not asked.
NothingToRefresh(r) ==
    /\ pc[r] = "calling" /\ ~renewable
    /\ pc' = [pc EXCEPT ![r] = "revoking"]
    /\ UNCHANGED <<key, provider, age, replica, source, token, got, history, left>>

Grant(r) ==
    /\ pc[r] = "calling" /\ renewable /\ Accepted(token[r]) /\ issued < MaxTokens + 1
    /\ issued' = issued + 1
    /\ got' = [got EXCEPT ![r] = issued + 1]
    /\ pc' = [pc EXCEPT ![r] = "granted"]
    /\ UNCHANGED <<key, ended, off, age, replica, source, token, history, left>>

Refuse(r) ==
    /\ pc[r] = "calling" /\ renewable /\ ~Accepted(token[r])
    /\ pc' = [pc EXCEPT ![r] = "refused"]
    /\ UNCHANGED <<key, provider, age, replica, source, token, got, history, left>>

\* The provider cannot be reached, or its answer never arrives: the session is kept.
AfterFailure_revokes(r) == pc' = [pc EXCEPT ![r] = "refused"] /\ UNCHANGED <<source, token, got, slow>>
AfterFailure(r) == Over(r)

CallFails(r) ==
    /\ pc[r] = "calling" /\ renewable /\ Spend("call")
    /\ \/ UNCHANGED <<issued, excused>>
       \/ /\ Accepted(token[r]) /\ issued < MaxTokens + 1
          /\ issued' = issued + 1
          /\ excused' = TRUE
    /\ AfterFailure(r)
    /\ UNCHANGED <<key, ended, off, age, replica, refused>>

\* UpdateIdpSessionCommand
Stored_asRead(r) == token[r]
Stored(r) == got[r]

Persist(r) ==
    /\ pc[r] = "granted"
    /\ stored' = Stored(r)
    /\ floored' = TRUE
    /\ Over(r)
    /\ UNCHANGED <<disabled, renewable, provider, age, replica, excused, refused, left>>

\* The new token is lost, by an error that is logged or by the end of the process.
PersistFails(r) ==
    /\ pc[r] = "granted" /\ Spend("persist")
    /\ excused' = TRUE
    /\ Over(r)
    /\ UNCHANGED <<key, provider, age, replica, refused>>

\* revoke
Revoke(r) ==
    /\ pc[r] \in {"refused", "revoking"}
    /\ disabled' = TRUE
    /\ refused' = (refused \/ pc[r] = "refused")
    /\ Over(r)
    /\ UNCHANGED <<stored, renewable, floored, provider, age, replica, excused, left>>

RevokeFails(r) ==
    /\ pc[r] \in {"refused", "revoking"} /\ Spend("revoke")
    /\ Over(r)
    /\ UNCHANGED <<key, provider, age, replica, excused, refused>>

-----------------------------------------------------------------------------
(* The rest of the world *)

\* Time: a token gets older, as long as the bound allows for the one that replaces it ...
Age(t) ==
    /\ t <= issued
    /\ t <= MaxTokens \/ ended
    /\ age[t] \in {"fresh", "soft"}
    /\ age' = [age EXCEPT ![t] = IF @ = "fresh" THEN "soft" ELSE "expired"]
    /\ UNCHANGED <<key, provider, replica, request, history, left>>

\* ... and the interval of the last claim passes.  That it does while an attempt is under
\* way, or while what was read before the last store can still be used, is a trouble.
Behind == replica.known /\ replica.token # stored

FloorPasses ==
    /\ floored
    /\ floored' = FALSE
    /\ IF Behind \/ \E r \in Requests : InFlight(r) \/ Outdated(r)
          THEN Spend("slow") /\ excused' = TRUE
          ELSE UNCHANGED <<left, excused>>
    /\ slow' = {r \in Requests : InFlight(r) \/ Outdated(r)}
    /\ UNCHANGED <<disabled, stored, renewable, provider, age, replica, request, refused>>

Replicate ==
    /\ replica # Primary
    /\ replica' = Primary
    /\ UNCHANGED <<key, provider, age, request, history, left>>

\* Sign-out, back-channel logout, an idle or expired key.
SignOut ==
    /\ ~disabled /\ Spend("signOut")
    /\ disabled' = TRUE
    /\ UNCHANGED <<stored, renewable, floored, provider, age, replica, request, history>>

EndAtProvider ==
    /\ ~ended
    /\ ended' = TRUE
    /\ UNCHANGED <<key, issued, off, age, replica, request, history, left>>

\* An administrator disables the provider, or enables it again.
SwitchProvider ==
    /\ Spend("off")
    /\ off' = ~off
    /\ UNCHANGED <<key, issued, ended, age, replica, request, history>>

-----------------------------------------------------------------------------
(* The specification *)

Work(r) ==
    \/ ReadSession(r) \/ Claim(r) \/ NotClaimed(r)
    \/ NothingToRefresh(r) \/ Grant(r) \/ Refuse(r) \/ CallFails(r)
    \/ Persist(r) \/ PersistFails(r) \/ Revoke(r) \/ RevokeFails(r)

Next ==
    \/ \E r \in Requests : Verify(r) \/ Work(r)
    \/ \E t \in Tokens : Age(t)
    \/ FloorPasses \/ Replicate \/ SignOut \/ EndAtProvider \/ SwitchProvider

Spec == Init /\ [][Next]_vars

\* Statements and calls end by their timeouts, time passes, the replica follows.  Nothing
\* is assumed of clients: requests may stop.
Fairness ==
    /\ \A r \in Requests : WF_vars(Work(r))
    /\ \A t \in Tokens : WF_vars(Age(t))
    /\ WF_vars(FloorPasses) /\ WF_vars(Replicate)

FairSpec == Spec /\ Fairness

-----------------------------------------------------------------------------
(* Properties *)

\* Two refreshes at once would invalidate each other's token: a claim is exclusive for as
\* long as its interval lasts.
SingleFlight ==
    \A r, q \in Requests : InFlight(r) /\ InFlight(q) /\ {r, q} \cap slow = {} => r = q

\* A session is disabled for what its provider answered only if the user's session has
\* ended there, or a new token was lost on its way, or the interval was too short for an
\* attempt or for the replica.  An outage alone never does it.  A session without a
\* refresh token, or of a provider that was disabled, is ended without an answer.
RevokedForAReason == refused => ended \/ excused

\* Once the session has ended at the provider, the key is disabled, or it is no longer used.
EndIsNoticed == ended ~> (disabled \/ <>[](\A r \in Requests : pc[r] = "none"))

-----------------------------------------------------------------------------
(* Why the properties hold: the inductive invariant of IdpSessionsProofs. *)

\* An attempt that its interval covers holds the floor.
FloorHeld == \A r \in Requests : InFlight(r) /\ r \notin slow => floored

\* The token that works is the stored one, or on its way there.
LiveTokenStored ==
    ~excused => issued = stored \/ \E r \in Requests : pc[r] = "granted"

GotNewest ==
    \A r \in Requests : pc[r] = "granted" => got[r] \in Tokens /\ (~excused => got[r] = issued)

\* A replica that was read knows the session, and goes on to.
ReadWhereKnown == \A r \in Requests : source[r] = "replica" => replica.known

\* What was read before the last store cannot be claimed any more.
StaleIsFloored ==
    ~excused =>
        /\ slow = {}
        /\ Behind => floored
        /\ \A r \in Requests : Outdated(r) => floored
        /\ \A r \in Requests : pc[r] = "calling" => token[r] = stored
        /\ \A r \in Requests : pc[r] = "refused" => ended

SessionInv ==
    /\ TypeOK
    /\ SingleFlight
    /\ FloorHeld
    /\ LiveTokenStored
    /\ GotNewest
    /\ ReadWhereKnown
    /\ StaleIsFloored
    /\ RevokedForAReason
=============================================================================
