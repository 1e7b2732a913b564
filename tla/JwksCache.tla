----------------------------- MODULE JwksCache -----------------------------
(***************************************************************************)
(* What POST /api/auth/login does first when identities come from an OIDC  *)
(* provider (OidcTokenVerifier of backend/core/auth.py): find the key a    *)
(* token is signed with in the worker's copy of the provider's key set,    *)
(* fetching the set, one login at a time, when it is old or lacks the key. *)
(*                                                                         *)
(* A step runs from one await to the next, at a clock reading at. Tokens   *)
(* are well formed and truly signed: others are refused as they come.      *)
(* _JWKS_LOCK lets waiting logins in by order of arrival; here in any.     *)
(***************************************************************************)
EXTENDS Integers

CONSTANTS
  Logins, Servers,
  Nobody,        \* no login
  Keys,          \* the keys the provider ever publishes
  Schedule,      \* from when and until when it does
  CacheSeconds,  \* OIDC_JWKS_CACHE_SECONDS
  RefreshMin,    \* OIDC_JWKS_REFRESH_MIN_SECONDS
  UrlSeconds,    \* OIDC_DISCOVERY_CACHE_SECONDS
  Timeout        \* OIDC_HTTP_TIMEOUT_SECONDS: how long a call may take

ASSUME KeysAssumption ==
  /\ Nobody \notin Logins /\ Keys # {}
  /\ Schedule \in [Keys -> [since : Nat, until : Nat]]
  /\ CacheSeconds \in Nat /\ RefreshMin \in Nat /\ UrlSeconds \in Nat
  /\ Timeout \in Nat \ {0} /\ Timeout <= CacheSeconds

VARIABLES
  jwks,      \* _JWKS_CACHE of a worker: [keys, expires, fetched]
  urlUntil,  \* until when _DISCOVERY_CACHE has the key set's URL
  call,      \* who holds _JWKS_LOCK, since when, and the call it awaits
  queue,     \* who waits for _JWKS_LOCK
  login,     \* where verify waits, or what came of it
  kid,       \* the key a token is signed with
  forced     \* the logins that have asked with force=True

keyVars == <<jwks, urlUntil, call, queue, login, kid, forced>>

NoKeys == [keys |-> {}, expires |-> 0, fetched |-> 0]
NoCall == [by |-> Nobody, started |-> 0, asked |-> 0, doc |-> {}]

LoginStages == {"none", "asked", "waiting", "discovering", "fetching", "served",
                "verified", "invalid", "unavailable"}

KeysTypeOK ==
  /\ jwks \in [Servers -> [keys : SUBSET Keys, expires : Nat, fetched : Nat]]
  /\ urlUntil \in [Servers -> Nat]
  /\ call \in [Servers -> [by : Logins \cup {Nobody}, started : Nat, asked : Nat,
                           doc : SUBSET Keys]]
  /\ queue \in [Servers -> SUBSET Logins]
  /\ login \in [Logins -> LoginStages] /\ kid \in [Logins -> Keys]
  /\ forced \subseteq Logins

KeysInit ==
  /\ jwks = [w \in Servers |-> NoKeys]
  /\ urlUntil = [w \in Servers |-> 0]
  /\ call = [w \in Servers |-> NoCall]
  /\ queue = [w \in Servers |-> {}]
  /\ login = [r \in Logins |-> "none"]
  /\ kid = [r \in Logins |-> CHOOSE k \in Keys : TRUE]
  /\ forced = {}

-----------------------------------------------------------------------------
Published(at) == {k \in Keys : Schedule[k].since <= at /\ at < Schedule[k].until}

IsFresh(w, at) == at < jwks[w].expires

IsLocked(w) == call[w].by # Nobody

Stands(r, s) == login' = [login EXCEPT ![r] = s]

(* Without _JWKS_LOCK, which r may have held, and out of its queue.        *)
LeavesLock(r, w) ==
  /\ call' = [call EXCEPT ![w] = IF @.by = r THEN NoCall ELSE @]
  /\ queue' = [queue EXCEPT ![w] = @ \ {r}]

Ends(r, w, verdict) ==
  Stands(r, verdict) /\ LeavesLock(r, w) /\ forced' = forced \ {r}

(* With the lock: the URL, if it is not known, then the key set.           *)
Calls(r, w, at) ==
  /\ call' = [call EXCEPT ![w] = [by |-> r, started |-> at, asked |-> at, doc |-> {}]]
  /\ queue' = [queue EXCEPT ![w] = @ \ {r}]
  /\ Stands(r, IF at < urlUntil[w] THEN "fetching" ELSE "discovering")

(* async with _JWKS_LOCK: at once if it is free and nobody waits for it.   *)
Enters(r, w, at) ==
  IF call[w].by \in {Nobody, r} /\ queue[w] \subseteq {r}
  THEN Calls(r, w, at)
  ELSE /\ Stands(r, "waiting")
       /\ call' = [call EXCEPT ![w] = IF @.by = r THEN NoCall ELSE @]
       /\ queue' = [queue EXCEPT ![w] = @ \cup {r}]

(* Mutation: a key the copy lacks is never looked for again.               *)
BugNeverForced(r, set, at) == FALSE

(* A copy that lacks the key is fetched again, once, unless it was fetched *)
(* a moment ago.                                                           *)
MayForce(r, set, at) == r \notin forced /\ at - set.fetched >= RefreshMin

(* verify, with the key set that _get_jwks returned.                       *)
Decides(r, w, at, set) ==
  IF kid[r] \in set.keys THEN Ends(r, w, "verified")
  ELSE IF MayForce(r, set, at) THEN forced' = forced \cup {r} /\ Enters(r, w, at)
  ELSE Ends(r, w, "invalid")

-----------------------------------------------------------------------------
(* The route is called with a token.                                       *)
Presents(r, k) ==
  /\ login[r] = "none"
  /\ kid' = [kid EXCEPT ![r] = k]
  /\ Stands(r, "asked")
  /\ UNCHANGED <<jwks, urlUntil, call, queue, forced>>

LookUp(r, w, at) ==
  /\ login[r] = "asked"
  /\ IF IsFresh(w, at) THEN Decides(r, w, at, jwks[w])
     ELSE Enters(r, w, at) /\ UNCHANGED forced
  /\ UNCHANGED <<jwks, urlUntil, kid>>

(* The lock is free, and what it protects may have been done; a forced     *)
(* fetch does not look.                                                    *)
GetsLock(r, w, at) ==
  /\ r \in queue[w] /\ ~IsLocked(w)
  /\ IF r \notin forced /\ IsFresh(w, at) THEN Decides(r, w, at, jwks[w])
     ELSE Calls(r, w, at) /\ UNCHANGED forced
  /\ UNCHANGED <<jwks, urlUntil, kid>>

Discovered(r, w, at) ==
  /\ login[r] = "discovering" /\ call[w].by = r
  /\ urlUntil' = [urlUntil EXCEPT ![w] = call[w].asked + UrlSeconds]
  /\ call' = [call EXCEPT ![w].asked = at]
  /\ Stands(r, "fetching")
  /\ UNCHANGED <<jwks, queue, kid, forced>>

(* The provider answers; the answer takes its time.                        *)
Served(r, w, at) ==
  /\ login[r] = "fetching" /\ call[w].by = r
  /\ call' = [call EXCEPT ![w].doc = Published(at)]
  /\ Stands(r, "served")
  /\ UNCHANGED <<jwks, urlUntil, queue, kid, forced>>

FetchedBy(w) ==
  [keys |-> call[w].doc, expires |-> call[w].started + CacheSeconds,
   fetched |-> call[w].started]

(* The document arrives; one without keys is no answer.                    *)
Fetched(r, w, at) ==
  /\ login[r] = "served" /\ call[w].by = r /\ call[w].doc # {}
  /\ jwks' = [jwks EXCEPT ![w] = FetchedBy(w)]
  /\ Decides(r, w, at, FetchedBy(w))
  /\ UNCHANGED <<urlUntil, kid>>

CallFails(r, w) ==
  /\ login[r] \in {"discovering", "fetching", "served"} /\ call[w].by = r
  /\ Ends(r, w, "unavailable")
  /\ UNCHANGED <<jwks, urlUntil, kid>>

KeysStep(r, w, at) ==
  \/ LookUp(r, w, at) \/ GetsLock(r, w, at)
  \/ Discovered(r, w, at) \/ Served(r, w, at) \/ Fetched(r, w, at)

(* No call takes longer than its timeout.                                  *)
CallsAreInTime(at) == \A w \in Servers : IsLocked(w) => at - call[w].asked < Timeout
=============================================================================
