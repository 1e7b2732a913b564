------------------------------- MODULE Gateway -------------------------------
(* A request's way through the application: the rate_limit middleware and, *)
(* once it lets the request through (call_next), the handler of its route: *)
(* the chat, the list of timecards, a login up to the point where the      *)
(* token is known to be good (SessionRequests goes on from there), or one  *)
(* that just answers.                                                      *)
EXTENDS RateLimiter, ChatTurn, JwksCache

ASSUME GatewayAssumption == Turns = Requests /\ Logins = Requests /\ Servers = Workers

vars == <<limiterVars, turnVars, keyVars>>

Init == LimiterInit /\ TurnInit /\ KeysInit

(* call_next.                                                              *)
Handle(r) ==
  /\ pc[r] = "allowed"
  /\ Goes(r, "handled")
  /\ IF path[r] = "login"
     THEN (\E k \in Keys : Presents(r, k)) /\ UNCHANGED turnVars
     ELSE Begin(r, path[r] = "chat", path[r] = "cards") /\ UNCHANGED keyVars
  /\ UNCHANGED <<clocks, faults, stores, clients, on, path, stamp, admitted>>

(* A call to the identity provider fails; of such faults, too, MaxFaults.   *)
ProviderFails(r) ==
  /\ CallFails(r, on[r]) /\ GoesWrong
  /\ UNCHANGED <<clocks, stores, clients, asked>>

Request(r) == \E w \in Workers : Arrive(r, w)

Next ==
  \/ \E r \in Requests :
       \/ (Request(r) \/ LimiterStep(r)) /\ UNCHANGED <<turnVars, keyVars>>
       \/ Handle(r)
       \/ TurnStep(r) /\ UNCHANGED <<limiterVars, keyVars>>
       \/ KeysStep(r, on[r], now) /\ UNCHANGED <<limiterVars, turnVars>>
       \/ ProviderFails(r) /\ UNCHANGED turnVars
  \/ /\ Surroundings /\ (now' # now => CallsAreInTime(now))
     /\ UNCHANGED <<turnVars, keyVars>>

Spec == Init /\ [][Next]_vars

-----------------------------------------------------------------------------
(* Properties.                                                             *)

TypeOK ==
  /\ now \in 0..Horizon
  /\ \A m \in window : m.by \in Requests /\ m.at \in 0..Horizon
  /\ lost \subseteq Stores
  /\ \A w \in Workers, l \in Limiters : /\ backoff[w][l] \in 1..MaxBackoff
                                        /\ Cardinality(table[w][l]) <= MaxRequests[l]
  /\ pc \in [Requests -> {"idle", "asking", "pinging", "counting", "removing", "closing",
                          "allowed", "refused", "unavailable", "handled"}]
  /\ TurnTypeOK /\ KeysTypeOK

(* While the provider rotates its keys: a token is accepted only under a   *)
(* key that was published less than a cache lifetime ago, whoever fetched  *)
(* the set and however long that took; and it is refused for its key only  *)
(* if the key is not published, or is so newly that the last fetch may not *)
(* be repeated yet, whatever the logins beside it find or fetch.           *)
IsNew(k) ==
  now < Schedule[k].since + RefreshMin \/ now < Schedule[k].since + Timeout
VerdictsFollowTheKeys ==
  [][\A r \in Requests : LET k == kid[r] IN
       /\ login[r] # "verified" /\ login'[r] = "verified" =>
            Schedule[k].since <= now /\ now < Schedule[k].until + CacheSeconds
       /\ login[r] # "invalid" /\ login'[r] = "invalid" =>
            k \notin Published(now) \/ IsNew(k)]_vars

-----------------------------------------------------------------------------
(* What the repository says and the code does not do.                      *)

(* tests/test_api.py: ten requests to /api/auth/ within a minute pass, the *)
(* limit of auth_rate_limiter (limiter.py:275): what else the address asks *)
(* for has a budget of its own.                                            *)
AuthBudgetIsItsOwn ==
  \A r \in Requests :
    path[r] = "auth" /\ pc[r] = "removing" =>
      Cardinality({q \in Requests \ {r} : path[q] = "auth" /\ pc[q] # "idle"})
        >= MaxRequests["auth"]
=============================================================================
