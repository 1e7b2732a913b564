---------------------------- MODULE SessionStore ----------------------------
(***************************************************************************)
(* The session store of backend/core/token_blocklist.py: a record and a    *)
(* revocation marker per session in Redis, shared by all worker processes, *)
(* and per worker a dict of sessions and a dict of denials in memory.      *)
(*                                                                         *)
(* Redis is external: a key set with `ex` is there until that many seconds *)
(* after the command ran. The clock runs in ticks, Second of them to a     *)
(* second, because int() cuts remaining lifetimes to whole seconds. The    *)
(* asyncio lock around the dicts is never held across a yield, so each     *)
(* operation on them is one step.                                          *)
(***************************************************************************)
EXTENDS Integers

CONSTANTS
  Sessions,   \* jti values of session tokens
  Workers,    \* worker processes
  Second,     \* ticks to a second
  Ttl         \* the lifetime of a token, in ticks: a whole number of seconds

ASSUME StoreAssumption ==
  /\ Second \in Nat \ {0}
  /\ Ttl \in Nat \ {0} /\ Ttl % Second = 0

VARIABLES
  mode,           \* how the deployment is configured
  now,            \* time.time()
  expiry,         \* the exp of each minted token, 0 if it was never minted
  redisSession,   \* session:<id>: when the key expires, 0 if it is not there
  redisRevoked,   \* revoked:<id>: when the key expires, 0 if it is not there
  localSessions,  \* _local_sessions of each worker
  localRevoked    \* _local_revoked of each worker: when each denial ends

storeVars == <<mode, now, expiry, redisSession, redisRevoked, localSessions,
               localRevoked>>

(* redis: REDIS_URL and no fallback (production). memory: the in-memory    *)
(* fallback and no REDIS_URL (demo). both: REDIS_URL with the fallback.    *)
Modes == {"redis", "memory", "both"}

StoreTypeOK ==
  /\ mode          \in Modes
  /\ now           \in Nat
  /\ expiry        \in [Sessions -> Nat]
  /\ redisSession  \in [Sessions -> Nat]
  /\ redisRevoked  \in [Sessions -> Nat]
  /\ localSessions \in [Workers -> SUBSET Sessions]
  /\ localRevoked  \in [Workers -> [Sessions -> Nat]]

StoreInit ==
  /\ mode \in Modes
  /\ now = 0
  /\ expiry        = [s \in Sessions |-> 0]
  /\ redisSession  = [s \in Sessions |-> 0]
  /\ redisRevoked  = [s \in Sessions |-> 0]
  /\ localSessions = [w \in Workers |-> {}]
  /\ localRevoked  = [w \in Workers |-> [s \in Sessions |-> 0]]

(* memory_fallback_allowed()                                               *)
FallbackAllowed == mode # "redis"

-----------------------------------------------------------------------------
(* Mutation: a lifetime that is not cut to seconds.                        *)
BugFractional(t) == t

(* max(1, int(t)): whole seconds, and at least one.                        *)
WholeSeconds(t) ==
  IF t < Second THEN Second ELSE (t \div Second) * Second

(* create_session: iat is int(time.time()), exp is iat + ttl.              *)
MintedExpiry == (now \div Second) * Second + Ttl

IsDecodable(s) == now < expiry[s]

-----------------------------------------------------------------------------
(* Redis.                                                                  *)

RedisHas(s)       == now < redisSession[s]
RedisIsRevoked(s) == now < redisRevoked[s]

RedisSet(s, ttl) ==
  /\ redisSession' = [redisSession EXCEPT ![s] = now + ttl]
  /\ UNCHANGED redisRevoked

(* Mutation: the marker is set and the record is left to expire.           *)
BugRevokeMarksOnly(s, ttl) ==
  /\ redisRevoked' = [redisRevoked EXCEPT ![s] = now + ttl]
  /\ UNCHANGED redisSession

(* The transaction of revoke_session: SETEX of the marker, DEL of the      *)
(* record.                                                                 *)
RedisRevoke(s, ttl) ==
  /\ redisRevoked' = [redisRevoked EXCEPT ![s] = now + ttl]
  /\ redisSession' = [redisSession EXCEPT ![s] = 0]

-----------------------------------------------------------------------------
(* A worker's memory. Every operation starts with _clean_local.            *)

KeptSessions(w) == {s \in localSessions[w] : now < expiry[s]}
KeptDenials(w)  == [s \in Sessions |-> IF localRevoked[w][s] <= now
                                       THEN 0 ELSE localRevoked[w][s]]

IsDenied(w, s)   == KeptDenials(w)[s] # 0
LocallyHas(w, s) == s \in KeptSessions(w) /\ ~IsDenied(w, s)

LocalClean(w) ==
  /\ localSessions' = [localSessions EXCEPT ![w] = KeptSessions(w)]
  /\ localRevoked'  = [localRevoked EXCEPT ![w] = KeptDenials(w)]

LocalSet(w, s) ==
  /\ localSessions' = [localSessions EXCEPT ![w] = KeptSessions(w) \cup {s}]
  /\ localRevoked'  = [localRevoked EXCEPT ![w] = [KeptDenials(w) EXCEPT ![s] = 0]]

(* Mutation: a denial of one second, whatever is left of the token.        *)
BugLocalDenyBriefly(w, s, ttl) ==
  /\ localSessions' = [localSessions EXCEPT ![w] = KeptSessions(w) \ {s}]
  /\ localRevoked'  = [localRevoked EXCEPT
                         ![w] = [KeptDenials(w) EXCEPT ![s] = now + Second]]

(* _deny_locally, and the fallback branch of revoke_session.               *)
LocalDeny(w, s, ttl) ==
  /\ localSessions' = [localSessions EXCEPT ![w] = KeptSessions(w) \ {s}]
  /\ localRevoked'  = [localRevoked EXCEPT
                         ![w] = [KeptDenials(w) EXCEPT ![s] = now + ttl]]
=============================================================================
