--------------------------- MODULE AccessControl ---------------------------
(***************************************************************************)
(* The identity service and the gateway together: clients log in, refresh  *)
(* and log out, the service is restarted with other keys, and the gateway  *)
(* validates the access tokens that clients have been given.  `faults'     *)
(* bounds the failures that may happen in one behaviour.                   *)
(***************************************************************************)
EXTENDS GatewayAuth

CONSTANT MaxFaults   \* bound on the failures of one behaviour

ASSUME FaultsAssumption == MaxFaults \in Nat

VARIABLE faults      \* how many failures there have been

vars == <<identityVars, gatewayVars, faults>>

TypeOK ==
  /\ IdentityTypeOK
  /\ GatewayTypeOK
  /\ faults \in 0 .. MaxFaults

Init ==
  /\ IdentityInit
  /\ GatewayInit
  /\ faults = 0

-----------------------------------------------------------------------------

\* What clients ask of the identity service, and its answers.
IdentityStep ==
  \/ \E c \in Callers, s \in Sessions : Login(c, s) \/ LookInRedis(c, s) \/ RevokeRow(c, s)
  \/ \E c \in Callers :
       StoreInRedis(c) \/ QueryRow(c) \/ SignAccess(c) \/ DeleteFromRedis(c)
  \/ \E s \in Sessions : RowExpires(s)

\* What the gateway does for its requests.
GatewayStep ==
  \/ \E g \in Requests, t \in issued : Arrive(g, t)
  \/ \E g \in Requests : AnswerKeys(g) \/ InstallKeys(g) \/ Respond(g)
  \/ CacheGetsOld

IdentityFault ==
  \/ \E c \in Callers : CallFails(c)
  \/ \E s \in Sessions : RedisForgets(s)

GatewayFault ==
  \/ \E g \in Requests : FetchFails(g)
  \/ RestartGateway

Next ==
  \/ /\ IdentityStep
     /\ UNCHANGED <<gatewayVars, faults>>
  \/ /\ GatewayStep
     /\ UNCHANGED faults
  \/ /\ \E kid \in Kids : KeyChanges(kid)
     /\ UNCHANGED faults
  \/ /\ faults < MaxFaults
     /\ faults' = faults + 1
     /\ \/ IdentityFault /\ UNCHANGED gatewayVars
        \/ GatewayFault

Spec == Init /\ [][Next]_vars

\* Clients keep presenting their tokens, and each request is carried on with
\* until it is answered; time passes.  Nothing is assumed of fetches that fail
\* but that they are few.
FairSpec ==
  /\ Spec
  /\ \A g \in Requests :
       /\ WF_vars((\E t \in issued : Arrive(g, t)) /\ UNCHANGED faults)
       /\ WF_vars((AnswerKeys(g) \/ InstallKeys(g) \/ Respond(g)) /\ UNCHANGED faults)
  /\ WF_vars(CacheGetsOld /\ UNCHANGED faults)

-----------------------------------------------------------------------------

\* A refresh never gets past the database once a logout has updated the row,
\* whatever redis still holds, and redis holds nothing without a row
\* (token_repository.go FindActive, Revoke, Store).
AccessInv == TypeOK /\ RevokedStaysOut /\ RedisHasRows

\* A request whose token was signed with the key that is published all along
\* is turned away only if the token's id stood for another key before; else
\* the cache, whatever it holds, never costs a valid token its request
\* (jwks.ts validate and getKey).
RejectedForAReason ==
  \A g \in Requests :
    request[g].stage = "rejected" /\ request[g].steady => request[g].token.kid \in Reused

\* However keys change, the cache comes to hold the published key under its
\* id, time and again (jwks.ts getKey: the time to live, and unknown ids).
CacheCatchesUp == []<>(cache[signing.kid] = signing.key)
=============================================================================
