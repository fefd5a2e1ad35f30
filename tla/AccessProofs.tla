---------------------------- MODULE AccessProofs ----------------------------
(***************************************************************************)
(* Proofs about access control for any number of sessions, concurrent      *)
(* calls and requests, key ids, keys and failures.                         *)
(***************************************************************************)
EXTENDS AccessControl, TLAPS

\* A call that began after a logout belongs to a session whose row says so:
\* no statement of the service takes `revoked' back.
LateIsRevoked == \A c \in Callers : job[c].late => store[job[c].session] = "revoked"

\* A login has inserted its row before it writes to redis.
StoringHasRow == \A c \in Callers : job[c].stage = "storing" => store[job[c].session] # "none"

IdentityInv ==
  /\ IdentityTypeOK
  /\ RevokedStaysOut
  /\ RedisHasRows
  /\ LateIsRevoked
  /\ StoringHasRow

\* The identity service starts with no token stored and no call under way.
LEMMA InitIdentityInv == IdentityInit => IdentityInv
<1> SUFFICES ASSUME IdentityInit PROVE IdentityInv
  OBVIOUS
<1> USE IdentityAssumption DEF IdentityInit
<1>1. AnySession \in Sessions
  BY DEF AnySession
<1>2. signing \in Token
  OBVIOUS
<1>3. IdentityTypeOK
  BY <1>1, <1>2 DEF IdentityTypeOK, RowStates, Job, JobStages, Free
<1>4. QED
  BY <1>3 DEF IdentityInv, RevokedStaysOut, RedisHasRows, LateIsRevoked, StoringHasRow, Free

\* What the calls do keeps the types.
LEMMA CallTypes ==
  ASSUME IdentityTypeOK,
         \/ \E c \in Callers, s \in Sessions : Login(c, s) \/ LookInRedis(c, s) \/ RevokeRow(c, s)
         \/ \E c \in Callers :
              StoreInRedis(c) \/ QueryRow(c) \/ SignAccess(c) \/ DeleteFromRedis(c) \/ CallFails(c)
  PROVE  IdentityTypeOK'
<1> USE DEF IdentityTypeOK
<1>1. ASSUME NEW c \in Callers, NEW s \in Sessions, NEW stage \in JobStages, Begin(c, s, stage)
      PROVE  job' \in [Callers -> Job]
  BY <1>1 DEF Begin, Job
<1>2. ASSUME NEW c \in Callers, NEW stage \in JobStages, Step(c, stage)
      PROVE  job' \in [Callers -> Job]
  BY <1>2 DEF Step, Job
<1>3. ASSUME NEW c \in Callers, End(c)
      PROVE  job' \in [Callers -> Job]
  BY <1>3 DEF End, Free, Job, JobStages
<1>4. {"storing", "query", "sign", "delete"} \subseteq JobStages
  BY DEF JobStages
<1>5. ASSUME NEW c \in Callers, NEW s \in Sessions, Login(c, s) PROVE IdentityTypeOK'
  BY <1>1, <1>4, <1>5 DEF Login, RowStates
<1>6. ASSUME NEW c \in Callers, NEW s \in Sessions, LookInRedis(c, s) PROVE IdentityTypeOK'
  BY <1>1, <1>4, <1>6 DEF LookInRedis
<1>7. ASSUME NEW c \in Callers, NEW s \in Sessions, RevokeRow(c, s) PROVE IdentityTypeOK'
  BY <1>1, <1>4, <1>7 DEF RevokeRow, RowStates
<1>8. ASSUME NEW c \in Callers, StoreInRedis(c) PROVE IdentityTypeOK'
  <2>1. job[c].token \in Token /\ job[c].session \in Sessions
    BY DEF Job
  <2>2. QED
    BY <1>3, <1>8, <2>1 DEF StoreInRedis
<1>9. ASSUME NEW c \in Callers, QueryRow(c) PROVE IdentityTypeOK'
  <2>1. job' \in [Callers -> Job]
    BY <1>2, <1>3, <1>4, <1>9 DEF QueryRow
  <2>2. QED
    BY <1>9, <2>1 DEF QueryRow
<1>10. ASSUME NEW c \in Callers, SignAccess(c) PROVE IdentityTypeOK'
  BY <1>3, <1>10 DEF SignAccess
<1>11. ASSUME NEW c \in Callers, DeleteFromRedis(c) PROVE IdentityTypeOK'
  BY <1>3, <1>11 DEF DeleteFromRedis
<1>12. ASSUME NEW c \in Callers, CallFails(c) PROVE IdentityTypeOK'
  BY <1>3, <1>12 DEF CallFails
<1>13. QED
  BY <1>5, <1>6, <1>7, <1>8, <1>9, <1>10, <1>11, <1>12

\* Every step of a call keeps the invariant: only a query of an active row
\* leads to a new access token, and a call that began after the logout finds
\* none.
LEMMA CallStep ==
  ASSUME IdentityInv,
         \/ \E c \in Callers, s \in Sessions : Login(c, s) \/ LookInRedis(c, s) \/ RevokeRow(c, s)
         \/ \E c \in Callers :
              StoreInRedis(c) \/ QueryRow(c) \/ SignAccess(c) \/ DeleteFromRedis(c) \/ CallFails(c)
  PROVE  IdentityInv'
<1>1. IdentityTypeOK'
  BY CallTypes DEF IdentityInv
<1> USE <1>1 DEF IdentityInv, IdentityTypeOK, Job, RevokedStaysOut, RedisHasRows,
                 LateIsRevoked, StoringHasRow
<1>2. ASSUME NEW c \in Callers, NEW s \in Sessions, Login(c, s) PROVE IdentityInv'
  BY <1>2 DEF Login, Begin
<1>3. ASSUME NEW c \in Callers, NEW s \in Sessions, LookInRedis(c, s) PROVE IdentityInv'
  BY <1>3 DEF LookInRedis, Begin
<1>4. ASSUME NEW c \in Callers, NEW s \in Sessions, RevokeRow(c, s) PROVE IdentityInv'
  BY <1>4 DEF RevokeRow, Begin
<1>5. ASSUME NEW c \in Callers, StoreInRedis(c) PROVE IdentityInv'
  BY <1>5 DEF StoreInRedis, End, Free
<1>6. ASSUME NEW c \in Callers, QueryRow(c) PROVE IdentityInv'
  BY <1>6 DEF QueryRow, RowActive, Step, End, Free
<1>7. ASSUME NEW c \in Callers, SignAccess(c) PROVE IdentityInv'
  BY <1>7 DEF SignAccess, End, Free
<1>8. ASSUME NEW c \in Callers, DeleteFromRedis(c) PROVE IdentityInv'
  BY <1>8 DEF DeleteFromRedis, End, Free
<1>9. ASSUME NEW c \in Callers, CallFails(c) PROVE IdentityInv'
  BY <1>9 DEF CallFails, End, Free
<1>10. QED
  BY <1>2, <1>3, <1>4, <1>5, <1>6, <1>7, <1>8, <1>9

\* Tokens expire, redis forgets, the service starts with another key.
LEMMA IdentityEnvironmentStep ==
  ASSUME IdentityInv,
         \/ \E s \in Sessions : RowExpires(s) \/ RedisForgets(s)
         \/ \E kid \in Kids : RestartWithKey(kid)
  PROVE  IdentityInv'
<1> USE DEF IdentityInv, IdentityTypeOK, RevokedStaysOut, RedisHasRows, LateIsRevoked,
            StoringHasRow
<1>1. ASSUME NEW s \in Sessions, RowExpires(s) PROVE IdentityInv'
  <2>1. IdentityTypeOK'
    BY <1>1 DEF RowExpires, RowStates
  <2>2. QED
    BY <1>1, <2>1 DEF RowExpires, Job
<1>2. ASSUME NEW s \in Sessions, RedisForgets(s) PROVE IdentityInv'
  BY <1>2 DEF RedisForgets, Job
<1>3. ASSUME NEW kid \in Kids, RestartWithKey(kid) PROVE IdentityInv'
  <2>1. signing' \in Token
    BY <1>3, IdentityAssumption DEF RestartWithKey, Token, Keys
  <2>2. job' \in [Callers -> Job]
    BY <1>3 DEF RestartWithKey, Job, JobStages
  <2>3. QED
    BY <1>3, <2>1, <2>2 DEF RestartWithKey, Job
<1>4. QED
  BY <1>1, <1>2, <1>3

LEMMA IdentityUnchanged == IdentityInv /\ UNCHANGED identityVars => IdentityInv'
BY DEF IdentityInv, IdentityTypeOK, RevokedStaysOut, RedisHasRows, LateIsRevoked,
       StoringHasRow, identityVars

\* Whatever the system does, the identity service keeps its invariant.
LEMMA NextIdentityInv == IdentityInv /\ [Next]_vars => IdentityInv'
<1> SUFFICES ASSUME IdentityInv, [Next]_vars PROVE IdentityInv'
  OBVIOUS
<1>1. CASE IdentityStep
  BY <1>1, CallStep, IdentityEnvironmentStep DEF IdentityStep
<1>2. CASE IdentityFault
  BY <1>2, CallStep, IdentityEnvironmentStep DEF IdentityFault
<1>3. CASE \E kid \in Kids : KeyChanges(kid)
  BY <1>3, IdentityEnvironmentStep DEF KeyChanges
<1>4. CASE GatewayStep
  BY <1>4, IdentityUnchanged
     DEF GatewayStep, Arrive, AnswerKeys, InstallKeys, Respond, CacheGetsOld, identityVars
<1>5. CASE GatewayFault
  BY <1>5, IdentityUnchanged DEF GatewayFault, FetchFails, RestartGateway
<1>6. CASE UNCHANGED vars
  BY <1>6, IdentityUnchanged DEF vars
<1>7. QED
  BY <1>1, <1>2, <1>3, <1>4, <1>5, <1>6 DEF Next

-----------------------------------------------------------------------------
(***************************************************************************)
(* The gateway.  A request is `steady' while its token is signed with the  *)
(* published key, which is what the answers it gets then contain.  Every   *)
(* key in the cache was published under the id it is cached by, so that a  *)
(* key that does not fit means an id that stood for two keys.              *)
(***************************************************************************)

\* What a set of keys by id, an answer or the cache, may hold.
AllPublished(keys) ==
  \A kid \in Kids : keys[kid] # NoKey => [kid |-> kid, key |-> keys[kid]] \in published

KeysPublished ==
  /\ signing \in published
  /\ issued \subseteq published
  /\ \A c \in Callers : job[c].token \in published
  /\ AllPublished(cache)
  /\ \A g \in Requests : request[g].token \in published /\ AllPublished(request[g].answer)

SteadyFindsItsKey ==
  \A g \in Requests : request[g].steady =>
    /\ request[g].token = signing
    /\ request[g].stage = "answered" => request[g].answer[signing.kid] = signing.key

\* validate and getKey fetch three times for one request at most.
FetchesLeft ==
  \A g \in Requests : request[g].stage \in {"fetching", "answered"} => request[g].fetches < 3

GatewayInv ==
  /\ TypeOK
  /\ FetchesLeft
  /\ KeysPublished
  /\ SteadyFindsItsKey
  /\ RejectedForAReason

\* A published token that another set of published keys turns away has an id
\* that was reused.
LEMMA RejectedIsReused ==
  ASSUME IdentityTypeOK, NEW keys \in Cache, AllPublished(keys),
         NEW token \in published, keys[token.kid] # NoKey,
         Verdict(keys, token) = "rejected"
  PROVE  token.kid \in Reused
<1> DEFINE other == [kid |-> token.kid, key |-> keys[token.kid]]
<1>1. token \in Token /\ token.kid \in Kids
  BY DEF IdentityTypeOK, Token
<1>2. other \in published
  BY <1>1 DEF AllPublished
<1>3. other # token
  BY DEF Verdict
<1>4. QED
  BY <1>1, <1>2, <1>3 DEF Reused

LEMMA InitGatewayInv == Init => GatewayInv
<1> SUFFICES ASSUME Init PROVE GatewayInv
  OBVIOUS
<1>1. IdentityTypeOK
  BY InitIdentityInv DEF Init, IdentityInv
<1>2. signing \in Token /\ signing \in published
  BY <1>1 DEF Init, IdentityInit, IdentityTypeOK
<1>3. Nobody \in Cache /\ AllPublished(Nobody)
  BY DEF Nobody, Cache, AllPublished
<1>4. Unused \in Request
  BY <1>2, <1>3 DEF Unused, Request
<1>5. TypeOK
  BY <1>1, <1>3, <1>4, FaultsAssumption DEF TypeOK, Init, GatewayInit, GatewayTypeOK
<1>6. KeysPublished
  BY <1>2, <1>3 DEF Init, KeysPublished, IdentityInit, GatewayInit, Unused, Free
<1>7. QED
  BY <1>5, <1>6 DEF GatewayInv, Init, GatewayInit, Unused, FetchesLeft, SteadyFindsItsKey,
                         RejectedForAReason

\* While the key stays, the calls hand out tokens that were published.
LEMMA CallsPublished ==
  ASSUME GatewayInv, IdentityTypeOK',
         \/ IdentityStep \/ IdentityFault,
         UNCHANGED gatewayVars, faults' \in 0 .. MaxFaults
  PROVE  GatewayInv'
<1> USE DEF GatewayInv, TypeOK
<1>1. UNCHANGED <<signing, published>>
  BY DEF IdentityStep, IdentityFault, Login, LookInRedis, RevokeRow, StoreInRedis, QueryRow,
         SignAccess, DeleteFromRedis, RowExpires, CallFails, RedisForgets
<1>2. issued' \subseteq published
  BY DEF IdentityStep, IdentityFault, Login, LookInRedis, RevokeRow, StoreInRedis, QueryRow,
         SignAccess, DeleteFromRedis, RowExpires, CallFails, RedisForgets, KeysPublished
<1>3. \A c \in Callers : job'[c].token \in published
  <2> USE DEF KeysPublished, IdentityTypeOK, Job
  <2>1. ASSUME NEW c \in Callers, NEW s \in Sessions,
               Login(c, s) \/ LookInRedis(c, s) \/ RevokeRow(c, s)
        PROVE  \A d \in Callers : job'[d].token \in published
    BY <2>1 DEF Login, LookInRedis, RevokeRow, Begin
  <2>2. ASSUME NEW c \in Callers, QueryRow(c)
        PROVE  \A d \in Callers : job'[d].token \in published
    BY <2>2 DEF QueryRow, Step, End, Free
  <2>3. ASSUME NEW c \in Callers,
               StoreInRedis(c) \/ SignAccess(c) \/ DeleteFromRedis(c) \/ CallFails(c)
        PROVE  \A d \in Callers : job'[d].token \in published
    BY <2>3 DEF StoreInRedis, SignAccess, DeleteFromRedis, CallFails, End, Free
  <2>4. ASSUME NEW s \in Sessions, RowExpires(s) \/ RedisForgets(s)
        PROVE  \A d \in Callers : job'[d].token \in published
    BY <2>4 DEF RowExpires, RedisForgets
  <2>5. QED
    BY <2>1, <2>2, <2>3, <2>4 DEF IdentityStep, IdentityFault
<1>4. KeysPublished'
  BY <1>1, <1>2, <1>3 DEF gatewayVars, KeysPublished, AllPublished
<1>5. QED
  BY <1>1, <1>4 DEF gatewayVars, GatewayTypeOK, FetchesLeft, SteadyFindsItsKey,
                       RejectedForAReason, Reused

\* Another key: what was published stays so, and no request is steady any more.
LEMMA KeyChangeKeepsGateway ==
  ASSUME GatewayInv, IdentityTypeOK', NEW kid \in Kids, KeyChanges(kid), UNCHANGED faults
  PROVE  GatewayInv'
<1> USE DEF GatewayInv, TypeOK
<1>1. published \subseteq published' /\ signing' \in published'
  BY DEF KeyChanges, RestartWithKey
<1>2. request' \in [Requests -> Request] /\ \A g \in Requests : ~request'[g].steady
  BY DEF KeyChanges, GatewayTypeOK, Request
<1>3. \A g \in Requests :
        /\ request'[g].token = request[g].token /\ request'[g].answer = request[g].answer
        /\ request'[g].stage = request[g].stage /\ request'[g].fetches = request[g].fetches
  BY DEF KeyChanges, GatewayTypeOK, Request
<1>4. \A c \in Callers : job'[c].token = job[c].token
  BY DEF KeyChanges, RestartWithKey, IdentityTypeOK, Job
<1>5. KeysPublished'
  BY <1>1, <1>3, <1>4 DEF KeyChanges, RestartWithKey, KeysPublished, AllPublished
<1>6. QED
  BY <1>2, <1>3, <1>5 DEF KeyChanges, GatewayTypeOK, FetchesLeft, SteadyFindsItsKey,
                           RejectedForAReason

\* The gateway's own steps.  A steady request is rejected only by an answer
\* or a cache that has another key under its id.
LEMMA ArriveKeepsGateway ==
  ASSUME GatewayInv, NEW g \in Requests, NEW token \in issued, Arrive(g, token), UNCHANGED faults
  PROVE  GatewayInv'
<1> USE DEF GatewayInv, TypeOK
<1>1. token \in published /\ token \in Token
  BY DEF KeysPublished, IdentityTypeOK
<1>2. Nobody \in Cache /\ AllPublished(Nobody)
  BY DEF Nobody, Cache, AllPublished
<1> DEFINE stage == IF NeedsFetch(token.kid) THEN "fetching" ELSE Verdict(cache, token)
           new == [stage |-> stage, token |-> token, fetches |-> 0, answer |-> Nobody,
                   steady |-> token = signing]
<1>3. stage \in {"fetching", "accepted", "rejected"}
  BY DEF Verdict
<1>4. stage = "rejected" => token.kid \in Reused
  BY <1>1, RejectedIsReused DEF NeedsFetch, GatewayTypeOK, KeysPublished
<1>5. /\ new \in Request
      /\ new.stage = stage /\ new.token = token /\ new.fetches = 0
      /\ new.answer = Nobody /\ new.steady = (token = signing)
  BY <1>1, <1>2, <1>3 DEF Request
<1>6. request' = [request EXCEPT ![g] = new]
  BY DEF Arrive
<1> HIDE DEF stage, new
<1>7. /\ request'[g] = new
      /\ \A h \in Requests \ {g} : request'[h] = request[h]
      /\ request' \in [Requests -> Request]
  BY <1>5, <1>6 DEF GatewayTypeOK
<1>8. /\ UNCHANGED <<signing, published, issued, job, cache, old>>
      /\ IdentityTypeOK' /\ Reused' = Reused
  BY DEF Arrive, identityVars, IdentityTypeOK, Reused
<1>9. GatewayTypeOK'
  BY <1>7, <1>8 DEF GatewayTypeOK
<1>10. KeysPublished'
  BY <1>1, <1>2, <1>5, <1>7, <1>8 DEF KeysPublished, AllPublished
<1>11. SteadyFindsItsKey'
  <2>1. SteadyFindsItsKey
    OBVIOUS
  <2>2. signing' = signing
    BY <1>8
  <2>3. SUFFICES ASSUME NEW h \in Requests, request'[h].steady
                 PROVE  /\ request'[h].token = signing
                        /\ request'[h].stage = "answered" => request'[h].answer[signing.kid] = signing.key
    BY <2>2 DEF SteadyFindsItsKey
  <2>4. CASE h = g
    BY <1>3, <1>5, <1>7, <2>3, <2>4
  <2>5. CASE h # g
    BY <1>7, <2>1, <2>3, <2>5 DEF SteadyFindsItsKey
  <2>6. QED
    BY <2>4, <2>5
<1>12. RejectedForAReason'
  BY <1>4, <1>5, <1>7, <1>8 DEF RejectedForAReason
<1>13. FetchesLeft'
  BY <1>5, <1>7 DEF FetchesLeft
<1>14. QED
  BY <1>8, <1>9, <1>10, <1>11, <1>12, <1>13

LEMMA AnswerKeepsGateway ==
  ASSUME GatewayInv, NEW g \in Requests, AnswerKeys(g), UNCHANGED faults
  PROVE  GatewayInv'
<1> USE DEF GatewayInv, TypeOK
<1> DEFINE answer == [Nobody EXCEPT ![signing.kid] = signing.key]
<1>1. signing.kid \in Kids /\ signing.key \in Keys
  BY DEF IdentityTypeOK, Token
<1>2. answer \in Cache /\ answer[signing.kid] = signing.key
  BY <1>1 DEF Nobody, Cache
<1>3. signing = [kid |-> signing.kid, key |-> signing.key]
  BY DEF IdentityTypeOK, Token
<1>4. AllPublished(answer)
  BY <1>1, <1>3 DEF AllPublished, Nobody, KeysPublished
<1>5. request' = [request EXCEPT ![g].stage = "answered", ![g].answer = answer]
  BY DEF AnswerKeys
<1>6. GatewayTypeOK'
  <2>1. [request[g] EXCEPT !.stage = "answered", !.answer = answer] \in Request
    BY <1>2 DEF GatewayTypeOK, Request
  <2>2. request' = [request EXCEPT ![g] = [request[g] EXCEPT !.stage = "answered", !.answer = answer]]
    BY <1>5
  <2>3. QED
    BY <2>1, <2>2 DEF AnswerKeys, GatewayTypeOK
<1>7. KeysPublished'
  BY <1>4, <1>5 DEF AnswerKeys, identityVars, KeysPublished, AllPublished, GatewayTypeOK, Request
<1>8. SteadyFindsItsKey'
  BY <1>2, <1>5 DEF AnswerKeys, identityVars, SteadyFindsItsKey, GatewayTypeOK, Request
<1>9. RejectedForAReason'
  BY <1>5 DEF AnswerKeys, identityVars, RejectedForAReason, GatewayTypeOK, Request, Reused
<1>10. FetchesLeft'
  BY <1>5 DEF AnswerKeys, FetchesLeft, GatewayTypeOK, Request
<1>11. QED
  BY <1>6, <1>7, <1>8, <1>9, <1>10 DEF AnswerKeys, identityVars, IdentityTypeOK

\* The answer a steady request installs has its key, so that it is accepted.
LEMMA InstallKeepsGateway ==
  ASSUME GatewayInv, NEW g \in Requests, InstallKeys(g), UNCHANGED faults
  PROVE  GatewayInv'
<1> USE DEF GatewayInv, TypeOK
<1> DEFINE keys == request[g].answer
           token == request[g].token
           stage == IF keys[token.kid] # NoKey THEN Verdict(keys, token)
                    ELSE IF request[g].fetches < 2 THEN "fetching" ELSE "rejected"
           new == [request[g] EXCEPT !.fetches = @ + 1, !.answer = Nobody, !.stage = stage]
<1>1. /\ token \in Token /\ token.kid \in Kids /\ token \in published
      /\ keys \in Cache /\ AllPublished(keys)
  BY DEF GatewayTypeOK, Request, Token, KeysPublished
<1>2. Nobody \in Cache /\ AllPublished(Nobody)
  BY DEF Nobody, Cache, AllPublished
<1>3. stage \in {"accepted", "rejected", "fetching"}
  BY DEF Verdict
<1>4. request[g].steady => stage = "accepted"
  BY <1>1, GatewayAssumption DEF InstallKeys, SteadyFindsItsKey, Verdict, Token
<1>5. request[g].fetches \in 0 .. 2
  BY DEF InstallKeys, FetchesLeft, GatewayTypeOK, Request
<1>6. /\ new \in Request
      /\ new.stage = stage /\ new.token = token /\ new.answer = Nobody
      /\ new.steady = request[g].steady /\ new.fetches = request[g].fetches + 1
  <2>1. request[g] \in Request
    BY DEF GatewayTypeOK
  <2>2. request[g].fetches + 1 \in 0 .. 3
    BY <1>5
  <2>3. new = [request[g] EXCEPT !.fetches = request[g].fetches + 1, !.answer = Nobody,
                                 !.stage = stage]
    OBVIOUS
  <2> DEFINE n == request[g].fetches + 1
  <2>4. n \in 0 .. 3 /\ new = [request[g] EXCEPT !.fetches = n, !.answer = Nobody, !.stage = stage]
    BY <2>2, <2>3
  <2> HIDE DEF n, new, stage, GatewayInv, TypeOK
  <2>5. /\ new \in Request
        /\ new.stage = stage /\ new.token = request[g].token /\ new.answer = Nobody
        /\ new.steady = request[g].steady /\ new.fetches = n
    <3>1. new \in Request
      BY <1>2, <1>3, <2>1, <2>4 DEF Request
    <3>2. QED
      BY <2>1, <2>4, <3>1 DEF Request
  <2>6. QED
    BY <2>5 DEF n
<1>7. stage = "fetching" => new.fetches < 3
  BY <1>5, <1>6 DEF Verdict
<1>8. /\ request' = [request EXCEPT ![g] = new]
      /\ cache' = keys /\ old' = FALSE
  BY DEF InstallKeys
<1> HIDE DEF stage, new, keys
<1>9. /\ request'[g] = new
      /\ \A h \in Requests \ {g} : request'[h] = request[h]
      /\ request' \in [Requests -> Request]
  <2>1. request \in [Requests -> Request]
    BY DEF GatewayTypeOK
  <2>2. QED
    BY <1>6, <1>8, <2>1
<1>10. /\ UNCHANGED <<signing, published, issued, job>>
       /\ IdentityTypeOK' /\ Reused' = Reused
  BY DEF InstallKeys, identityVars, IdentityTypeOK, Reused
<1>11. GatewayTypeOK'
  BY <1>1, <1>8, <1>9 DEF GatewayTypeOK
<1>12. KeysPublished'
  BY <1>1, <1>2, <1>6, <1>8, <1>9, <1>10 DEF KeysPublished, AllPublished
<1>13. SteadyFindsItsKey'
  BY <1>3, <1>6, <1>9, <1>10 DEF SteadyFindsItsKey
<1>14. RejectedForAReason'
  BY <1>4, <1>6, <1>9, <1>10 DEF RejectedForAReason
<1>15. FetchesLeft'
  BY <1>3, <1>6, <1>7, <1>9 DEF FetchesLeft
<1>16. QED
  BY <1>10, <1>11, <1>12, <1>13, <1>14, <1>15

\* The rest of the gateway: answers, failures, time and restarts.
LEMMA RestKeepsGateway ==
  ASSUME GatewayInv, faults' \in 0 .. MaxFaults,
         \/ \E g \in Requests : Respond(g) \/ FetchFails(g)
         \/ CacheGetsOld
         \/ RestartGateway
         \/ UNCHANGED <<identityVars, gatewayVars>>
  PROVE  GatewayInv'
<1> USE DEF GatewayInv, TypeOK
<1>1. signing \in Token /\ signing \in published
  BY DEF IdentityTypeOK, KeysPublished
<1>2. Nobody \in Cache /\ AllPublished(Nobody)
  BY DEF Nobody, Cache, AllPublished
<1>3. Unused \in Request /\ AllPublished(Unused.answer)
  BY <1>1, <1>2 DEF Unused, Request
<1>4. UNCHANGED identityVars /\ IdentityTypeOK' /\ Reused' = Reused
  BY DEF Respond, FetchFails, CacheGetsOld, RestartGateway, identityVars, IdentityTypeOK, Reused
<1>5. ASSUME NEW g \in Requests, Respond(g) PROVE GatewayInv'
  <2>1. /\ request'[g] = Unused
        /\ \A h \in Requests \ {g} : request'[h] = request[h]
        /\ request' \in [Requests -> Request]
    BY <1>3, <1>5 DEF Respond, GatewayTypeOK
  <2>2. KeysPublished'
    BY <1>1, <1>3, <1>4, <1>5, <2>1
       DEF Respond, identityVars, KeysPublished, AllPublished, Unused
  <2>3. QED
    BY <1>4, <1>5, <2>1, <2>2
       DEF Respond, identityVars, GatewayTypeOK, FetchesLeft, SteadyFindsItsKey,
           RejectedForAReason, Unused
<1>6. ASSUME NEW g \in Requests, FetchFails(g) PROVE GatewayInv'
  <2>1. /\ request'[g] = [request[g] EXCEPT !.stage = "unreachable"]
        /\ \A h \in Requests \ {g} : request'[h] = request[h]
        /\ request' \in [Requests -> Request]
    BY <1>6 DEF FetchFails, GatewayTypeOK, Request
  <2>2. /\ request'[g].token = request[g].token /\ request'[g].answer = request[g].answer
        /\ request'[g].stage = "unreachable" /\ request'[g].steady = request[g].steady
    BY <2>1 DEF GatewayTypeOK, Request
  <2>3. KeysPublished'
    BY <1>4, <1>6, <2>1, <2>2 DEF FetchFails, identityVars, KeysPublished, AllPublished
  <2>4. QED
    BY <1>4, <1>6, <2>1, <2>2, <2>3
       DEF FetchFails, identityVars, GatewayTypeOK, FetchesLeft, SteadyFindsItsKey,
           RejectedForAReason
<1>7. CASE CacheGetsOld
  BY <1>4, <1>7 DEF CacheGetsOld, identityVars, GatewayTypeOK, KeysPublished, AllPublished,
                    FetchesLeft, SteadyFindsItsKey, RejectedForAReason
<1>8. CASE RestartGateway
  <2>1. \A g \in Requests : request'[g] = Unused
    BY <1>8 DEF RestartGateway
  <2>2. GatewayTypeOK'
    BY <1>2, <1>3, <1>8 DEF RestartGateway, GatewayTypeOK
  <2>3. KeysPublished'
    BY <1>1, <1>2, <1>4, <1>8, <2>1
       DEF RestartGateway, identityVars, KeysPublished, AllPublished, Unused
  <2>4. QED
    BY <1>4, <2>1, <2>2, <2>3 DEF FetchesLeft, SteadyFindsItsKey, RejectedForAReason, Unused
<1>9. CASE UNCHANGED <<identityVars, gatewayVars>>
  BY <1>4, <1>9 DEF identityVars, gatewayVars, GatewayTypeOK, KeysPublished, AllPublished,
                    FetchesLeft, SteadyFindsItsKey, RejectedForAReason
<1>10. QED
  BY <1>5, <1>6, <1>7, <1>8, <1>9

\* Every step of the system keeps it.
LEMMA NextGatewayInv == GatewayInv /\ IdentityInv /\ [Next]_vars => GatewayInv'
<1> SUFFICES ASSUME GatewayInv, IdentityInv, [Next]_vars PROVE GatewayInv'
  OBVIOUS
<1>1. IdentityTypeOK'
  BY NextIdentityInv DEF IdentityInv
<1>2. faults' \in 0 .. MaxFaults
  BY FaultsAssumption DEF Next, vars, GatewayInv, TypeOK
<1>3. CASE IdentityStep /\ UNCHANGED <<gatewayVars, faults>>
  BY <1>1, <1>2, <1>3, CallsPublished
<1>4. CASE GatewayStep /\ UNCHANGED faults
  BY <1>2, <1>4, ArriveKeepsGateway, AnswerKeepsGateway, InstallKeepsGateway, RestKeepsGateway
     DEF GatewayStep
<1>5. CASE (\E kid \in Kids : KeyChanges(kid)) /\ UNCHANGED faults
  BY <1>1, <1>5, KeyChangeKeepsGateway
<1>6. CASE IdentityFault /\ UNCHANGED gatewayVars
  BY <1>1, <1>2, <1>6, CallsPublished
<1>7. CASE GatewayFault
  BY <1>2, <1>7, RestKeepsGateway DEF GatewayFault
<1>8. CASE UNCHANGED vars
  BY <1>2, <1>8, RestKeepsGateway DEF vars
<1>9. QED
  BY <1>3, <1>4, <1>5, <1>6, <1>7, <1>8 DEF Next

-----------------------------------------------------------------------------

LEMMA BothInvariants == Spec => [](IdentityInv /\ GatewayInv)
<1>1. Init => IdentityInv /\ GatewayInv
  BY InitIdentityInv, InitGatewayInv DEF Init
<1>2. IdentityInv /\ GatewayInv /\ [Next]_vars => (IdentityInv /\ GatewayInv)'
  BY NextIdentityInv, NextGatewayInv
<1>3. QED
  BY <1>1, <1>2, PTL DEF Spec

\* No refresh gets past the database after a logout has updated the row,
\* and redis holds nothing without a row, however many calls interleave and
\* fail half-way (token_repository.go Store, FindActive, Revoke).
THEOREM AccessInvariant == Spec => []AccessInv
<1>1. IdentityInv /\ GatewayInv => AccessInv
  BY DEF IdentityInv, GatewayInv, AccessInv
<1>2. QED
  BY <1>1, BothInvariants, PTL

\* A valid token is rejected only if its key id stood for another key before,
\* however many requests fetch and install keys at the same time (jwks.ts
\* validate, getKey, refreshKeys).
THEOREM RejectedForAReasonHolds == Spec => []RejectedForAReason
<1>1. GatewayInv => RejectedForAReason
  BY DEF GatewayInv
<1>2. QED
  BY <1>1, BothInvariants, PTL
=============================================================================
