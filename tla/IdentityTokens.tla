--------------------------- MODULE IdentityTokens ---------------------------
(***************************************************************************)
(* The identity service: the key it signs access tokens with, and the      *)
(* refresh tokens it keeps in the database and, with a time to live, in    *)
(* redis.  Login stores a token in one and then the other; refreshing      *)
(* looks into redis and then the database; logging out updates the         *)
(* database and deletes from redis, and answers `logged out' either way.   *)
(*                                                                         *)
(* Abstractions.  An access token is the key it was signed with and that   *)
(* key's id; its claims and its expiry are left out.  A refresh token is   *)
(* the session it belongs to.  Passwords and registration are left out.    *)
(***************************************************************************)
EXTENDS Integers, FiniteSets

CONSTANTS
  Sessions,   \* the logins that happen, each with a refresh token of its own
  Callers,    \* the calls that may be under way at the same time
  Kids,       \* the key ids that are configured over time
  MaxKeys     \* bound on the keys the service signs with over time

ASSUME IdentityAssumption ==
  /\ Sessions # {}
  /\ Kids # {}
  /\ MaxKeys \in Nat \ {0}

Keys == 1 .. MaxKeys

\* A key and the id it is published under; an access token names the key
\* that signed it in the same way.
Token == [kid : Kids, key : Keys]

VARIABLES
  signing,   \* the key the service signs with and publishes
  published, \* history: the keys that were published, with their ids
  issued,    \* history: the access tokens that clients were given
  held,      \* the sessions whose client was given the refresh token
  store,     \* store[s]: the row in refresh_tokens
  redis,     \* redis[s]: identity:refresh:<hash> exists
  job        \* job[c]: how far call c is

identityVars == <<signing, published, issued, held, store, redis, job>>

RowStates == {"none", "active", "revoked", "expired"}
JobStages == {"idle", "storing", "query", "sign", "delete"}
Job == [stage : JobStages, session : Sessions, token : Token, late : BOOLEAN]

IdentityTypeOK ==
  /\ signing \in Token
  /\ published \in SUBSET Token
  /\ issued \in SUBSET Token
  /\ held \in SUBSET Sessions
  /\ store \in [Sessions -> RowStates]
  /\ redis \in [Sessions -> BOOLEAN]
  /\ job \in [Callers -> Job]

Free(s) == [stage |-> "idle", session |-> s, token |-> signing, late |-> FALSE]
AnySession == CHOOSE s \in Sessions : TRUE

IdentityInit ==
  /\ signing \in {t \in Token : t.key = 1}
  /\ published = {signing}
  /\ issued = {signing}
  /\ held = {}
  /\ store = [s \in Sessions |-> "none"]
  /\ redis = [s \in Sessions |-> FALSE]
  /\ job = [c \in Callers |-> Free(AnySession)]

-----------------------------------------------------------------------------

Begin(c, s, stage) ==
  /\ job[c].stage = "idle"
  /\ job' = [job EXCEPT ![c] = [stage |-> stage, session |-> s, token |-> signing,
                                late |-> store[s] = "revoked"]]
Step(c, stage) == job' = [job EXCEPT ![c].stage = stage]
End(c) == job' = [job EXCEPT ![c] = Free(@.session)]

\* Login: the access token is signed, then the refresh token's row inserted.
Login(c, s) ==
  /\ store[s] = "none"
  /\ Begin(c, s, "storing")
  /\ store' = [store EXCEPT ![s] = "active"]
  /\ UNCHANGED <<signing, published, issued, held, redis>>

\* Store's second half, with which the login succeeds.
StoreInRedis(c) ==
  /\ job[c].stage = "storing"
  /\ redis' = [redis EXCEPT ![job[c].session] = TRUE]
  /\ issued' = issued \union {job[c].token}
  /\ held' = held \union {job[c].session}
  /\ End(c)
  /\ UNCHANGED <<signing, published, store>>

\* Refresh: FindActive looks into redis first.
LookInRedis(c, s) ==
  /\ s \in held
  /\ redis[s]
  /\ Begin(c, s, "query")
  /\ UNCHANGED <<signing, published, issued, held, store, redis>>

\* A query that leaves out revoked_at IS NULL.
RowExists(s) == store[s] \in {"active", "revoked"}

RowActive(s) == store[s] = "active"

\* Then into the database.
QueryRow(c) ==
  /\ job[c].stage = "query"
  /\ IF RowActive(job[c].session) THEN Step(c, "sign") ELSE End(c)
  /\ UNCHANGED <<signing, published, issued, held, store, redis>>

\* FindByID and CreateAccessToken; the refresh token stays the same.
SignAccess(c) ==
  /\ job[c].stage = "sign"
  /\ issued' = issued \union {signing}
  /\ End(c)
  /\ UNCHANGED <<signing, published, held, store, redis>>

\* Logout: Revoke updates the row, if there is one that is not revoked, ...
RevokeRow(c, s) ==
  /\ s \in held
  /\ Begin(c, s, "delete")
  /\ store' = [store EXCEPT ![s] = "revoked"]
  /\ UNCHANGED <<signing, published, issued, held, redis>>

\* ... and deletes the key.
DeleteFromRedis(c) ==
  /\ job[c].stage = "delete"
  /\ redis' = [redis EXCEPT ![job[c].session] = FALSE]
  /\ End(c)
  /\ UNCHANGED <<signing, published, issued, held, store>>

\* Redis or the database does not answer, or the process dies: the call
\* stays half done.
CallFails(c) ==
  /\ job[c].stage # "idle"
  /\ End(c)
  /\ UNCHANGED <<signing, published, issued, held, store, redis>>

\* expires_at has come; redis lets go of its key a little later, or loses it.
RowExpires(s) ==
  /\ store[s] = "active"
  /\ store' = [store EXCEPT ![s] = "expired"]
  /\ UNCHANGED <<signing, published, issued, held, redis, job>>
RedisForgets(s) ==
  /\ redis[s]
  /\ redis' = [redis EXCEPT ![s] = FALSE]
  /\ UNCHANGED <<signing, published, issued, held, store, job>>

\* The service starts again with another key: one with an id of its own, or
\* one generated at the start (no IDENTITY_JWT_PRIVATE_KEY_PATH), which is
\* published under the configured id once more.
RestartWithKey(kid) ==
  /\ signing.key < MaxKeys
  /\ signing' = [kid |-> kid, key |-> signing.key + 1]
  /\ published' = published \union {signing'}
  /\ job' = [c \in Callers |-> [job[c] EXCEPT !.stage = "idle"]]
  /\ UNCHANGED <<issued, held, store, redis>>

\* The ids that more than one key was published under.
Reused == {kid \in Kids : \E t, u \in published : t.kid = kid /\ u.kid = kid /\ t # u}

\* Whoever refreshes after a logout has updated the row gets nothing, whether
\* or not the delete in redis came through.
RevokedStaysOut == \A c \in Callers : job[c].stage = "sign" => ~job[c].late

\* What redis knows of has a row; a row it knows nothing of is no use.
RedisHasRows == \A s \in Sessions : redis[s] => store[s] # "none"
=============================================================================
