-------------------------- MODULE SessionRequests --------------------------
(***************************************************************************)
(* The requests that create, check, rotate and end sessions                *)
(* (backend/api/v1/auth.py over backend/core/auth.py), interleaved at      *)
(* their awaits, on several workers that share one Redis.                  *)
(*                                                                         *)
(* A step that contacts Redis may fail at any time: no client is           *)
(* configured, the client is in its backoff, the ping or the command       *)
(* raised. A command that was executed may still raise, because its reply  *)
(* was lost. (With no client the code does not yield before its local      *)
(* branch; a step of its own only adds interleavings.)                     *)
(***************************************************************************)
EXTENDS SessionStore

CONSTANTS
  Requests,    \* HTTP requests to /login, /session, /logout and /refresh
  NoSession,   \* no session
  NoWorker,    \* a request that was not served yet
  Horizon      \* bound: the clock stops here

ASSUME RequestAssumption ==
  /\ NoSession \notin Sessions
  /\ NoWorker \notin Workers
  /\ Horizon \in Nat

VARIABLES
  pc,        \* the await each request stands at
  op,        \* its route
  worker,    \* the process that serves it
  sid,       \* the session of the cookie it came with
  fresh,     \* the session it minted
  ttl,       \* the ttl_seconds its current store call was given
  found,     \* whether the GET of its session found a record
  accepted,  \* resolve() returned a context
  answer,    \* the response
  ended,     \* history: sessions whose revocation some response reported
  denied,    \* history: the sessions each worker denied since it started
  late       \* history: what had happened to sid when the request arrived

requestVars == <<pc, op, worker, sid, fresh, ttl, found, accepted, answer,
                 ended, denied, late>>
vars == <<storeVars, requestVars>>

Stages == {"idle", "exists", "get", "got", "load", "revoke", "revoke_sent",
           "set", "set_sent", "done", "dead"}
Ops     == {"none", "login", "session", "logout", "refresh"}
Answers == {"none", "valid", "refused", "unavailable", "signed_out", "issued"}
OnTime  == [ended |-> FALSE, denied |-> FALSE]

(* Redis takes its lifetimes in whole seconds.                             *)
TypeOK ==
  /\ StoreTypeOK
  /\ pc       \in [Requests -> Stages]
  /\ op       \in [Requests -> Ops]
  /\ worker   \in [Requests -> Workers \cup {NoWorker}]
  /\ sid      \in [Requests -> Sessions \cup {NoSession}]
  /\ fresh    \in [Requests -> Sessions \cup {NoSession}]
  /\ ttl      \in [Requests -> Nat]
  /\ \A r \in Requests : ttl[r] % Second = 0
  /\ found    \in [Requests -> BOOLEAN]
  /\ accepted \in [Requests -> BOOLEAN]
  /\ answer   \in [Requests -> Answers]
  /\ ended    \in SUBSET Sessions
  /\ denied   \in [Workers -> SUBSET Sessions]
  /\ late     \in [Requests -> [ended : BOOLEAN, denied : BOOLEAN]]

Init ==
  /\ StoreInit
  /\ pc       = [r \in Requests |-> "idle"]
  /\ op       = [r \in Requests |-> "none"]
  /\ worker   = [r \in Requests |-> NoWorker]
  /\ sid      = [r \in Requests |-> NoSession]
  /\ fresh    = [r \in Requests |-> NoSession]
  /\ ttl      = [r \in Requests |-> 0]
  /\ found    = [r \in Requests |-> FALSE]
  /\ accepted = [r \in Requests |-> FALSE]
  /\ answer   = [r \in Requests |-> "none"]
  /\ ended    = {}
  /\ denied   = [w \in Workers |-> {}]
  /\ late     = [r \in Requests |-> OnTime]

-----------------------------------------------------------------------------
At(r, stage)  == pc[r] = stage
Goto(r, stage) == pc' = [pc EXCEPT ![r] = stage]

(* The handler returns and its locals are gone.                            *)
Respond(r, what) ==
  /\ Goto(r, "done")
  /\ answer' = [answer EXCEPT ![r] = what]
  /\ ttl'    = [ttl EXCEPT ![r] = 0]
  /\ found'  = [found EXCEPT ![r] = FALSE]

UnchangedStore == UNCHANGED <<redisSession, redisRevoked, localSessions, localRevoked>>
UnchangedRedis == UNCHANGED <<redisSession, redisRevoked>>
UnchangedLocal == UNCHANGED <<localSessions, localRevoked>>

(* The tokens a browser can present: those some response delivered.        *)
Delivered == {fresh[r] : r \in {q \in Requests : answer[q] = "issued"}}

(* issue_session: mint a token, then store_session with what is left of    *)
(* its lifetime.                                                           *)
Mint(r) ==
  \E s \in {t \in Sessions : expiry[t] = 0} :
    /\ expiry' = [expiry EXCEPT ![s] = MintedExpiry]
    /\ fresh'  = [fresh EXCEPT ![r] = s]
    /\ ttl'    = [ttl EXCEPT ![r] = WholeSeconds(MintedExpiry - now)]

-----------------------------------------------------------------------------
(* /login, once the password and the employee are verified.                *)
Login(r, w) ==
  /\ At(r, "idle")
  /\ Goto(r, "set")
  /\ op' = [op EXCEPT ![r] = "login"]
  /\ worker' = [worker EXCEPT ![r] = w]
  /\ Mint(r)
  /\ UnchangedStore
  /\ UNCHANGED <<mode, now, sid, found, accepted, answer, ended, denied, late>>

Arrive(r, route, w, s) ==
  /\ At(r, "idle")
  /\ op'     = [op EXCEPT ![r] = route]
  /\ worker' = [worker EXCEPT ![r] = w]
  /\ sid'    = [sid EXCEPT ![r] = s]
  /\ late'   = [late EXCEPT ![r] = [ended |-> s \in ended, denied |-> s \in denied[w]]]

(* resolve: decode the token, then get_session, which asks the worker's    *)
(* denials first.                                                          *)
Resolve(r, w, s) ==
  /\ \E route \in {"session", "refresh"} : Arrive(r, route, w, s)
  /\ \/ /\ ~IsDecodable(s)
        /\ Respond(r, "refused")
        /\ UnchangedLocal
     \/ /\ IsDecodable(s) /\ IsDenied(w, s)
        /\ Respond(r, "refused")
        /\ LocalClean(w)
     \/ /\ IsDecodable(s) /\ ~IsDenied(w, s)
        /\ Goto(r, "exists")
        /\ LocalClean(w)
        /\ UNCHANGED <<answer, ttl, found>>
  /\ UnchangedRedis
  /\ UNCHANGED <<mode, now, expiry, fresh, accepted, ended, denied>>

(* destroy of an expired token does nothing and reports success.           *)
Logout(r, w, s) ==
  /\ Arrive(r, "logout", w, s)
  /\ IF IsDecodable(s)
     THEN /\ Goto(r, "revoke")
          /\ ttl' = [ttl EXCEPT ![r] = WholeSeconds(expiry[s] - now)]
          /\ UNCHANGED <<answer, found>>
     ELSE Respond(r, "signed_out")
  /\ UnchangedStore
  /\ UNCHANGED <<mode, now, expiry, fresh, accepted, ended, denied>>

-----------------------------------------------------------------------------
(* get_session over Redis.                                                 *)

AskRevoked(r) ==
  /\ At(r, "exists") /\ mode # "memory"
  /\ IF RedisIsRevoked(sid[r])
     THEN Respond(r, "refused")
     ELSE Goto(r, "get") /\ UNCHANGED <<answer, ttl, found>>
  /\ UnchangedStore
  /\ UNCHANGED <<mode, now, expiry, op, worker, sid, fresh, accepted, ended,
                 denied, late>>

GetRecord(r) ==
  /\ At(r, "get")
  /\ Goto(r, "got")
  /\ found' = [found EXCEPT ![r] = RedisHas(sid[r])]
  /\ UnchangedStore
  /\ UNCHANGED <<mode, now, expiry, op, worker, sid, fresh, ttl, accepted, answer,
                 ended, denied, late>>

(* resolve returns: /session is answered, /refresh goes on.                *)
Conclude(r, ok) ==
  /\ accepted' = [accepted EXCEPT ![r] = ok]
  /\ IF ok /\ op[r] = "refresh"
     THEN /\ Goto(r, "load")
          /\ found' = [found EXCEPT ![r] = FALSE]
          /\ UNCHANGED <<answer, ttl>>
     ELSE Respond(r, IF ok THEN "valid" ELSE "refused")

(* Mutation: the expiry is not looked at again after the awaits.           *)
BugNoRecheck(s) == TRUE
IsFresh(s) == now < expiry[s]

RecordArrives(r) ==
  /\ At(r, "got")
  /\ Conclude(r, found[r] /\ IsFresh(sid[r]))
  /\ UnchangedStore
  /\ UNCHANGED <<mode, now, expiry, op, worker, sid, fresh, ended, denied, late>>

(* Redis cannot be reached: the worker's memory answers, if that is        *)
(* allowed, and the route answers 503 if it is not.                        *)
GetFails(r) ==
  /\ pc[r] \in {"exists", "get", "got"}
  /\ IF FallbackAllowed
     THEN /\ Conclude(r, LocallyHas(worker[r], sid[r]))
          /\ LocalClean(worker[r])
     ELSE /\ Respond(r, "unavailable")
          /\ UnchangedLocal
          /\ UNCHANGED accepted
  /\ UnchangedRedis
  /\ UNCHANGED <<mode, now, expiry, op, worker, sid, fresh, ended, denied, late>>

-----------------------------------------------------------------------------
(* /refresh looks the employee up in Oracle again, then destroys the old   *)
(* token (nothing, if it expired meanwhile) before it issues a new one.    *)
EmployeeLoaded(r) ==
  /\ At(r, "load")
  /\ IF IsDecodable(sid[r])
     THEN /\ Goto(r, "revoke")
          /\ ttl' = [ttl EXCEPT ![r] = WholeSeconds(expiry[sid[r]] - now)]
          /\ UNCHANGED <<expiry, fresh>>
     ELSE Goto(r, "set") /\ Mint(r)
  /\ UnchangedStore
  /\ UNCHANGED <<mode, now, op, worker, sid, found, accepted, answer, ended,
                 denied, late>>

(* 401, 500 or 503: the old session stays.                                 *)
EmployeeRefused(r) ==
  /\ At(r, "load")
  /\ \E what \in {"refused", "unavailable"} : Respond(r, what)
  /\ UnchangedStore
  /\ UNCHANGED <<mode, now, expiry, op, worker, sid, fresh, accepted, ended,
                 denied, late>>

(* destroy returned: the session is reported ended.                        *)
Revoked(r) ==
  /\ ended' = ended \cup {sid[r]}
  /\ IF op[r] = "logout"
     THEN Respond(r, "signed_out") /\ UNCHANGED <<expiry, fresh>>
     ELSE Goto(r, "set") /\ Mint(r) /\ UNCHANGED <<answer, found>>

SendRevoke(r) ==
  /\ At(r, "revoke") /\ mode # "memory"
  /\ Goto(r, "revoke_sent")
  /\ RedisRevoke(sid[r], ttl[r])
  /\ UnchangedLocal
  /\ UNCHANGED <<mode, now, expiry, op, worker, sid, fresh, ttl, found, accepted,
                 answer, ended, denied, late>>

RevokeConfirmed(r) ==
  /\ At(r, "revoke_sent")
  /\ Revoked(r)
  /\ UnchangedStore
  /\ UNCHANGED <<mode, now, op, worker, sid, accepted, denied, late>>

(* Mutation: an unreachable Redis is never reported.                       *)
BugFailsOpen == FALSE
FailsClosed == ~FallbackAllowed

(* The worker denies the session whatever happens; only the fallback       *)
(* reports the revocation as done.                                         *)
RevokeFails(r) ==
  /\ pc[r] \in {"revoke", "revoke_sent"}
  /\ LocalDeny(worker[r], sid[r], ttl[r])
  /\ denied' = [denied EXCEPT ![worker[r]] = @ \cup {sid[r]}]
  /\ IF FailsClosed
     THEN Respond(r, "unavailable") /\ UNCHANGED <<expiry, fresh, ended>>
     ELSE Revoked(r)
  /\ UnchangedRedis
  /\ UNCHANGED <<mode, now, op, worker, sid, accepted, late>>

-----------------------------------------------------------------------------
(* store_session, and the response with the new cookie.                    *)

SendSet(r) ==
  /\ At(r, "set") /\ mode # "memory"
  /\ Goto(r, "set_sent")
  /\ RedisSet(fresh[r], ttl[r])
  /\ UnchangedLocal
  /\ UNCHANGED <<mode, now, expiry, op, worker, sid, fresh, ttl, found, accepted,
                 answer, ended, denied, late>>

SetConfirmed(r) ==
  /\ At(r, "set_sent")
  /\ Respond(r, "issued")
  /\ UnchangedStore
  /\ UNCHANGED <<mode, now, expiry, op, worker, sid, fresh, accepted, ended,
                 denied, late>>

SetFails(r) ==
  /\ pc[r] \in {"set", "set_sent"}
  /\ IF FallbackAllowed
     THEN LocalSet(worker[r], fresh[r]) /\ Respond(r, "issued")
     ELSE UnchangedLocal /\ Respond(r, "unavailable")
  /\ UnchangedRedis
  /\ UNCHANGED <<mode, now, expiry, op, worker, sid, fresh, accepted, ended,
                 denied, late>>

-----------------------------------------------------------------------------
(* A worker is killed: its memory and its requests are gone.               *)
Crash(w) ==
  /\ pc' = [r \in Requests |-> IF worker[r] = w /\ pc[r] # "done" THEN "dead" ELSE pc[r]]
  /\ localSessions' = [localSessions EXCEPT ![w] = {}]
  /\ localRevoked'  = [localRevoked EXCEPT ![w] = [s \in Sessions |-> 0]]
  /\ denied' = [denied EXCEPT ![w] = {}]
  /\ UnchangedRedis
  /\ UNCHANGED <<mode, now, expiry, op, worker, sid, fresh, ttl, found, accepted,
                 answer, ended, late>>

Tick ==
  /\ now < Horizon
  /\ now' = now + 1
  /\ UnchangedStore
  /\ UNCHANGED <<mode, expiry, requestVars>>

Step(r) ==
  \/ \E w \in Workers : Login(r, w)
  \/ \E w \in Workers, s \in Delivered : Resolve(r, w, s) \/ Logout(r, w, s)
  \/ AskRevoked(r) \/ GetRecord(r) \/ RecordArrives(r) \/ GetFails(r)
  \/ EmployeeLoaded(r) \/ EmployeeRefused(r)
  \/ SendRevoke(r) \/ RevokeConfirmed(r) \/ RevokeFails(r)
  \/ SendSet(r) \/ SetConfirmed(r) \/ SetFails(r)

Next ==
  \/ \E r \in Requests : Step(r)
  \/ \E w \in Workers : Crash(w)
  \/ Tick

Spec == Init /\ [][Next]_vars

-----------------------------------------------------------------------------
(* Properties.                                                             *)

(* With Redis alone: once any response has reported a session signed out   *)
(* or rotated, no request that arrives later, on any worker, is accepted   *)
(* with it, whatever crashes, outages and lost replies happen around it.   *)
EndedSessionIsRefused ==
  mode = "redis" => \A r \in Requests : late[r].ended => ~accepted[r]

(* A worker that had to deny a session itself goes on refusing it, also    *)
(* when Redis comes back with the record: until it restarts, or until the  *)
(* last second of the token (int() ends a denial up to a second early).    *)
DenialOutlivesOutage ==
  [][\A r \in Requests :
       late'[r].denied /\ accepted'[r] /\ ~accepted[r]
         => expiry[sid[r]] - now < Second]_vars

(* No request is accepted with a token that expired while it was awaiting  *)
(* Redis, although a record set late outlives its token there.             *)
AcceptedIsUnexpired ==
  [][\A r \in Requests : accepted'[r] /\ ~accepted[r] => now < expiry[sid[r]]]_vars

(* A refresh mints the new session only when the old one can no longer be  *)
(* resolved: in Redis, or in the memory of the worker that serves it.      *)
RotationEndsOldSession ==
  \A r \in Requests :
    /\ op[r] = "refresh" /\ fresh[r] # NoSession /\ pc[r] # "dead"
    => CASE mode = "redis"  -> ~(RedisHas(sid[r]) /\ IsDecodable(sid[r]))
         [] mode = "memory" -> ~LocallyHas(worker[r], sid[r])
         [] mode = "both"   -> TRUE
=============================================================================
