----------------------------- MODULE RateLimiter -----------------------------
(***************************************************************************)
(* backend/core/limiter.py behind the rate_limit middleware of             *)
(* backend/main.py: the requests of one address, the sliding window they   *)
(* share in Redis, and the tables each worker counts them in while it has  *)
(* no Redis. A step runs from one await to the next.                       *)
(*                                                                         *)
(* Each worker has two limiters, for paths under /api/auth/ and for the    *)
(* rest, each with a client and a table of its own; their keys in Redis    *)
(* are the same, as the limiter's name is no part of the key.              *)
(* The key's EXPIRE is left out: what it removes, the next purge would.    *)
(***************************************************************************)
EXTENDS Integers, FiniteSets

CONSTANTS
  Requests, Workers,
  MaxRequests, \* max_requests, by limiter
  Window,      \* window_seconds
  MaxBackoff,  \* 60 seconds
  Mixes,       \* bound: the requests that are made, by their paths
  Lag,         \* bound: from reading the clock to the pipeline's turn in Redis
  Horizon,     \* bound: the time that passes
  MaxFaults    \* bound: failed calls to Redis, restarts of it, evictions

Limiters == {"auth", "general"}
Paths == {"none", "auth", "login", "chat", "cards", "other", "health"}

ASSUME LimiterAssumption ==
  /\ IsFiniteSet(Requests) /\ Workers # {} /\ "redis" \notin Workers
  /\ MaxRequests \in [Limiters -> Nat \ {0}]
  /\ Mixes \subseteq [Requests -> Paths]
  /\ Lag \in Nat /\ Window \in Nat /\ Lag < Window
  /\ MaxBackoff \in Nat \ {0} /\ Horizon \in Nat /\ MaxFaults \in Nat

VARIABLES
  now,
  window,    \* the sorted set in Redis: [by, at]
  table,     \* _local_requests of a worker's limiter
  client,    \* whether self._redis is set
  tried,     \* _last_reconnect_attempt
  backoff,   \* _reconnect_backoff
  fallback,  \* memory_fallback_allowed()
  pc, on, path,
  stamp,     \* the clock reading a request is counted under
  admitted,  \* who was let through, by which store, when
  lost,      \* the stores that lost what they had counted
  faults     \* how much has gone wrong

clocks  == <<now, fallback>>
stores  == <<window, table, lost>>
clients == <<client, tried, backoff>>
asked   == <<pc, on, path, stamp, admitted>>
limiterVars == <<clocks, faults, stores, clients, asked>>

Stores == {"redis"} \cup Workers
LimiterOf(r) == IF path[r] \in {"auth", "login"} THEN "auth" ELSE "general"

LimiterInit ==
  /\ now = 0 /\ faults = 0 /\ fallback \in BOOLEAN
  /\ window = {} /\ lost = {}
  /\ table = [w \in Workers |-> [l \in Limiters |-> {}]]
  /\ client = [w \in Workers |-> [l \in Limiters |-> FALSE]]
  /\ tried = [w \in Workers |-> [l \in Limiters |-> -MaxBackoff]]
  /\ backoff = [w \in Workers |-> [l \in Limiters |-> 1]]
  /\ pc = [r \in Requests |-> "idle"]
  /\ on = [r \in Requests |-> CHOOSE w \in Workers : TRUE]
  /\ path \in Mixes
  /\ stamp = [r \in Requests |-> -Window]
  /\ admitted = {}

-----------------------------------------------------------------------------
(* A call to Redis fails, as in an outage, or by itself.                   *)
GoesWrong == faults < MaxFaults /\ faults' = faults + 1

Goes(r, stage) == pc' = [pc EXCEPT ![r] = stage]

(* The middleware: health is not counted.                                  *)
Arrive(r, w) ==
  /\ pc[r] = "idle" /\ path[r] # "none"
  /\ on' = [on EXCEPT ![r] = w]
  /\ Goes(r, IF path[r] = "health" THEN "allowed" ELSE "asking")
  /\ UNCHANGED <<clocks, faults, stores, clients, path, stamp, admitted>>

Admit(r, store) ==
  /\ admitted' = admitted \cup {[by |-> r, via |-> store, at |-> now]}
  /\ Goes(r, "allowed")

(* Mutation: the request itself is not counted.                            *)
BugOneMore(n, l) == n <= MaxRequests[l] + 1

HasRoom(n, l) == n <= MaxRequests[l]

(* is_allowed after Redis: no answer without a store, or the worker's table,*)
(* whose lock is never held across an await.                               *)
DecideLocally(r, w, l) ==
  LET active == {m \in table[w][l] : now - m.at < Window} IN
    IF ~fallback
    THEN Goes(r, "unavailable") /\ UNCHANGED <<table, admitted>>
    ELSE IF HasRoom(Cardinality(active) + 1, l)
    THEN /\ table' = [table EXCEPT ![w][l] = active \cup {[by |-> r, at |-> now]}]
         /\ Admit(r, w)
    ELSE /\ table' = [table EXCEPT ![w][l] = active]
         /\ Goes(r, "refused") /\ UNCHANGED admitted

(* _get_redis has a client.                                                *)
Count(r) == stamp' = [stamp EXCEPT ![r] = now] /\ Goes(r, "counting")

Ask(r) == LET w == on[r] l == LimiterOf(r) IN
  /\ pc[r] = "asking" /\ client[w][l]
  /\ Count(r)
  /\ UNCHANGED <<clocks, faults, stores, clients, on, path, admitted>>

(* It has none and makes one, which others may use before the ping returns.*)
Dial(r) == LET w == on[r] l == LimiterOf(r) IN
  /\ pc[r] = "asking" /\ ~client[w][l]
  /\ now - tried[w][l] >= backoff[w][l]
  /\ client' = [client EXCEPT ![w][l] = TRUE]
  /\ tried' = [tried EXCEPT ![w][l] = now]
  /\ Goes(r, "pinging")
  /\ UNCHANGED <<clocks, faults, stores, backoff, on, path, stamp, admitted>>

DoWithout(r) == LET w == on[r] l == LimiterOf(r) IN
  /\ pc[r] = "asking" /\ ~client[w][l]
  /\ now - tried[w][l] < backoff[w][l]
  /\ DecideLocally(r, w, l)
  /\ UNCHANGED <<clocks, faults, window, lost, clients, on, path, stamp>>

(* The client may be gone again by then, dropped by another request.       *)
Pinged(r) == LET w == on[r] l == LimiterOf(r) IN
  /\ pc[r] = "pinging"
  /\ backoff' = [backoff EXCEPT ![w][l] = 1]
  /\ IF client[w][l] THEN Count(r) /\ UNCHANGED <<table, admitted>>
     ELSE DecideLocally(r, w, l) /\ UNCHANGED stamp
  /\ UNCHANGED <<clocks, faults, window, lost, client, tried, on, path>>

(* _mark_redis_failure, and on with the table.                             *)
GiveUp(r, w, l) ==
  /\ client' = [client EXCEPT ![w][l] = FALSE]
  /\ tried' = [tried EXCEPT ![w][l] = now]
  /\ backoff' = [backoff EXCEPT ![w][l] = IF 2 * @ < MaxBackoff THEN 2 * @ ELSE MaxBackoff]
  /\ DecideLocally(r, w, l)

(* _close_redis awaits only where there is a client, whoever set it.       *)
Fail(r) == LET w == on[r] l == LimiterOf(r) IN
  IF client[w][l]
  THEN /\ client' = [client EXCEPT ![w][l] = FALSE]
       /\ Goes(r, "closing")
       /\ UNCHANGED <<tried, backoff, table, admitted>>
  ELSE GiveUp(r, w, l)

Closed(r) ==
  /\ pc[r] = "closing"
  /\ GiveUp(r, on[r], LimiterOf(r))
  /\ UNCHANGED <<clocks, faults, window, lost, on, path, stamp>>

PingFails(r) ==
  /\ pc[r] = "pinging" /\ GoesWrong
  /\ Fail(r)
  /\ UNCHANGED <<clocks, window, lost, on, path, stamp>>

(* Mutation: what has left the window is counted too.                      *)
BugNeverPurged(at) == window

Purged(at) == {m \in window : m.at > at - Window}

WithOwn(r) == Purged(stamp[r]) \cup {[by |-> r, at |-> stamp[r]]}

(* The pipeline: purge, add, count.                                        *)
Counted(r) == LET l == LimiterOf(r) IN
  /\ pc[r] = "counting"
  /\ window' = WithOwn(r)
  /\ IF HasRoom(Cardinality(WithOwn(r)), l) THEN Admit(r, "redis")
     ELSE Goes(r, "removing") /\ UNCHANGED admitted
  /\ UNCHANGED <<clocks, faults, table, lost, clients, on, path, stamp>>

(* An error, before Redis ran it or after.                                 *)
CountFails(r, applied) ==
  /\ pc[r] = "counting" /\ GoesWrong
  /\ window' = IF applied THEN WithOwn(r) ELSE window
  /\ Fail(r)
  /\ UNCHANGED <<clocks, lost, on, path, stamp>>

WithoutOwn(r) == {m \in window : m.by # r}

Removed(r) ==
  /\ pc[r] = "removing"
  /\ window' = WithoutOwn(r)
  /\ Goes(r, "refused")
  /\ UNCHANGED <<clocks, faults, table, lost, clients, on, path, stamp, admitted>>

(* Over the limit, and yet counted anew in the table.                      *)
RemoveFails(r, applied) ==
  /\ pc[r] = "removing" /\ GoesWrong
  /\ window' = IF applied THEN WithoutOwn(r) ELSE window
  /\ Fail(r)
  /\ UNCHANGED <<clocks, lost, on, path, stamp>>

LimiterStep(r) ==
  \/ Ask(r) \/ Dial(r) \/ DoWithout(r)
  \/ Pinged(r) \/ PingFails(r)
  \/ Counted(r) \/ Removed(r) \/ Closed(r)
  \/ \E applied \in BOOLEAN : CountFails(r, applied) \/ RemoveFails(r, applied)

-----------------------------------------------------------------------------
(* Time, and Redis.                                                        *)
Tick ==
  /\ now < Horizon
  /\ \A r \in Requests : pc[r] = "counting" => now - stamp[r] < Lag
  /\ now' = now + 1
  /\ UNCHANGED <<fallback, faults, stores, clients, asked>>

(* Redis restarts empty.                                                   *)
Restart ==
  /\ GoesWrong /\ window # {}
  /\ window' = {} /\ lost' = lost \cup {"redis"}
  /\ UNCHANGED <<clocks, table, clients, asked>>

(* The requests of ten thousand other addresses push this one out.         *)
Evict(w, l) ==
  /\ table[w][l] # {} /\ GoesWrong
  /\ table' = [table EXCEPT ![w][l] = {}]
  /\ lost' = lost \cup {w}
  /\ UNCHANGED <<clocks, window, clients, asked>>

Surroundings ==
  \/ Tick \/ Restart
  \/ \E w \in Workers, l \in Limiters : Evict(w, l)

-----------------------------------------------------------------------------
(* Properties.                                                             *)

(* Whatever the order of requests, failures and reconnections, no store    *)
(* that kept its counts lets a limiter's requests exceed its maximum in a  *)
(* window, less the time a request may take to reach Redis: outages give a *)
(* client one budget per worker and one in Redis, and no more.             *)
AdmittedIsBounded ==
  \A s \in Stores \ lost, l \in Limiters :
    Cardinality({a \in admitted : /\ a.via = s /\ LimiterOf(a.by) = l
                                  /\ now - a.at < Window - Lag}) <= MaxRequests[l]

(* A request is refused only if as many others as its limit were counted   *)
(* in the window before it: neither a refused request that is still in the *)
(* window, nor a failed or repeated count, nor what an outage left behind  *)
(* shuts out a client for longer.                                          *)
CountedBefore(r) ==
  {q \in Requests \ {r} : /\ pc[q] \notin {"idle", "asking", "pinging", "counting"}
                          /\ stamp[q] > stamp[r] - Window}
TakenHere(r) ==
  {a \in admitted : /\ a.via = on[r] /\ LimiterOf(a.by) = LimiterOf(r)
                    /\ now - a.at < Window}
RefusalIsEarned ==
  [][\A r \in Requests :
       /\ pc[r] = "counting" /\ pc'[r] = "removing" =>
            Cardinality(CountedBefore(r)) >= MaxRequests[LimiterOf(r)]
       /\ pc[r] \in {"asking", "pinging", "counting", "closing"} /\ pc'[r] = "refused" =>
            Cardinality(TakenHere(r)) >= MaxRequests[LimiterOf(r)]]_limiterVars
=============================================================================
