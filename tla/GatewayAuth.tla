---------------------------- MODULE GatewayAuth ----------------------------
(***************************************************************************)
(* How the gateway validates access tokens: JwksJwtValidator looks a key   *)
(* up by its id in its cache, fetches the identity service's keys when the *)
(* id is unknown or the cache is older than its time to live, and replaces *)
(* the cache by the answer.  Requests are validated concurrently and each  *)
(* fetches for itself: an answer may be old by the time it is installed.   *)
(* Between the installation and the lookup that follows it only the        *)
(* continuations of this request run, so that they are one step.           *)
(*                                                                         *)
(* Abstractions.  Issuer, audience, times and algorithm are as they should *)
(* be; the middleware's routing policy is a function of the claims.        *)
(***************************************************************************)
EXTENDS IdentityTokens

CONSTANTS
  Requests,     \* the requests that may be validated at the same time
  NoKey

ASSUME GatewayAssumption == NoKey \notin Keys

VARIABLES
  cache,     \* cache[kid]: JwksJwtValidator.keys
  old,       \* the cache's time to live is over
  request    \* request[g]: how far the validation of g is

gatewayVars == <<cache, old, request>>

Cache == [Kids -> Keys \union {NoKey}]
Nobody == [kid \in Kids |-> NoKey]

\* `steady' is history: the token's key was the published one all along.
Request ==
  [stage : {"idle", "fetching", "answered", "accepted", "rejected", "unreachable"},
   token : Token, fetches : 0 .. 3, answer : Cache, steady : BOOLEAN]

GatewayTypeOK ==
  /\ cache \in Cache
  /\ old \in BOOLEAN
  /\ request \in [Requests -> Request]

Unused == [stage |-> "idle", token |-> signing, fetches |-> 0, answer |-> Nobody,
           steady |-> FALSE]

GatewayInit ==
  /\ cache = Nobody
  /\ old = TRUE
  /\ request = [g \in Requests |-> Unused]

-----------------------------------------------------------------------------

\* A cache that is fetched only when its time is over, and one that is
\* fetched only for unknown ids.
NeedsFetchWhenOld(kid) == old
NeedsFetchWhenUnknown(kid) == cache[kid] = NoKey

\* getKey fetches first.
NeedsFetch(kid) == cache[kid] = NoKey \/ old

Verdict(keys, token) ==
  IF keys[token.kid] = token.key THEN "accepted" ELSE "rejected"

\* A request comes with one of the tokens that clients have.
Arrive(g, token) ==
  /\ request[g].stage = "idle"
  /\ request' = [request EXCEPT ![g] =
       [stage |-> IF NeedsFetch(token.kid) THEN "fetching" ELSE Verdict(cache, token),
        token |-> token, fetches |-> 0, answer |-> Nobody, steady |-> token = signing]]
  /\ UNCHANGED <<identityVars, cache, old>>

\* The identity service answers with the one key it has.
AnswerKeys(g) ==
  /\ request[g].stage = "fetching"
  /\ request' = [request EXCEPT ![g].stage = "answered",
       ![g].answer = [Nobody EXCEPT ![signing.kid] = signing.key]]
  /\ UNCHANGED <<identityVars, cache, old>>

\* refreshKeys installs the answer and the lookup follows.  An id that is
\* still unknown is fetched again, by validate and by getKey.
InstallKeys(g) ==
  /\ request[g].stage = "answered"
  /\ cache' = request[g].answer
  /\ old' = FALSE
  /\ request' = [request EXCEPT ![g].fetches = @ + 1, ![g].answer = Nobody,
       ![g].stage =
         IF request[g].answer[request[g].token.kid] # NoKey
           THEN Verdict(request[g].answer, request[g].token)
         ELSE IF request[g].fetches < 2 THEN "fetching" ELSE "rejected"]
  /\ UNCHANGED identityVars

\* A fetch that fails fails the request, even when the key is in the cache.
FetchFails(g) ==
  /\ request[g].stage = "fetching"
  /\ request' = [request EXCEPT ![g].stage = "unreachable"]
  /\ UNCHANGED <<identityVars, cache, old>>

Respond(g) ==
  /\ request[g].stage \in {"accepted", "rejected", "unreachable"}
  /\ request' = [request EXCEPT ![g] = Unused]
  /\ UNCHANGED <<identityVars, cache, old>>

\* OIDC_JWKS_CACHE_TTL is over.
CacheGetsOld ==
  /\ ~old
  /\ old' = TRUE
  /\ UNCHANGED <<identityVars, cache, request>>

\* The identity service starts with another key.
KeyChanges(kid) ==
  /\ RestartWithKey(kid)
  /\ request' = [g \in Requests |-> [request[g] EXCEPT !.steady = FALSE]]
  /\ UNCHANGED <<cache, old>>

\* The gateway starts again: its cache and its requests are gone.
RestartGateway ==
  /\ cache' = Nobody
  /\ old' = TRUE
  /\ request' = [g \in Requests |-> Unused]
  /\ UNCHANGED identityVars
=============================================================================
