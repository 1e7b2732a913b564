----------------------- MODULE SessionRequests_proofs -----------------------
(***************************************************************************)
(* Theorems about SessionRequests for any number of sessions, workers and  *)
(* requests, any token lifetime and any horizon.                           *)
(***************************************************************************)
EXTENDS SessionRequests, TLAPS

(* A minted token belongs to one request, and a token that was presented   *)
(* was delivered by a request that is done with it.                        *)
MintInv ==
  /\ \A r \in Requests : fresh[r] \in Sessions => expiry[fresh[r]] > 0
  /\ \A q, r \in Requests : fresh[q] = fresh[r] /\ fresh[q] \in Sessions => q = r
  /\ \A r \in Requests : pc[r] \in {"set", "set_sent"} => fresh[r] \in Sessions
  /\ \A r \in Requests : answer[r] = "issued" => pc[r] = "done" /\ fresh[r] \in Sessions
  /\ \A r \in Requests : sid[r] \in Sessions =>
       \E q \in Requests : fresh[q] = sid[r] /\ pc[q] = "done"
  /\ \A s \in ended : \E q \in Requests : fresh[q] = s /\ pc[q] = "done"

(* What the stage of a request says about its session and its locals.      *)
StageInv ==
  \A r \in Requests :
    /\ pc[r] \in {"exists", "get", "got", "load", "revoke", "revoke_sent"} =>
         sid[r] \in Sessions /\ worker[r] \in Workers
    /\ pc[r] \in {"set", "set_sent"} => worker[r] \in Workers
    /\ pc[r] = "idle" => late[r] = OnTime /\ ~found[r] /\ ~accepted[r]
    /\ pc[r] \in {"exists", "get", "got"} => ~accepted[r]

(* With Redis alone, an ended session has no record there and nobody will  *)
(* write one: no late request finds one.                                   *)
EndedInv ==
  mode = "redis" =>
    /\ \A s \in ended : redisSession[s] = 0
    /\ \A r \in Requests : pc[r] = "revoke_sent" => redisSession[sid[r]] = 0
    /\ \A r \in Requests : late[r].ended =>
         sid[r] \in ended /\ ~found[r] /\ ~accepted[r]

IInv == TypeOK /\ MintInv /\ StageInv /\ EndedInv

-----------------------------------------------------------------------------
(* Lifetimes: whole seconds, and a minted token has not expired yet.       *)
LEMMA Lifetime ==
  ASSUME NEW t \in Nat
  PROVE  WholeSeconds(t) \in Nat /\ WholeSeconds(t) % Second = 0
<1>1. t \div Second \in Nat /\ \A k \in Nat : (k * Second) % Second = 0
  BY StoreAssumption
<1>2. (t \div Second) * Second \in Nat /\ Second % Second = 0
  BY <1>1, StoreAssumption
<1>. QED
  BY <1>1, <1>2, StoreAssumption DEF WholeSeconds

LEMMA Minted ==
  ASSUME now \in Nat
  PROVE  MintedExpiry \in Nat /\ MintedExpiry > now
BY StoreAssumption DEF MintedExpiry

(* The worker's memory keeps its type under every operation on it.         *)
LEMMA LocalTypes ==
  ASSUME TypeOK, NEW w \in Workers, NEW s \in Sessions, NEW t \in Nat,
         LocalClean(w) \/ LocalSet(w, s) \/ LocalDeny(w, s, t)
  PROVE  /\ localSessions' \in [Workers -> SUBSET Sessions]
         /\ localRevoked' \in [Workers -> [Sessions -> Nat]]
<1>1. KeptSessions(w) \in SUBSET Sessions
  BY DEF KeptSessions, TypeOK, StoreTypeOK
<1>2. KeptDenials(w) \in [Sessions -> Nat]
  BY DEF KeptDenials, TypeOK, StoreTypeOK
<1>3. PICK k \in SUBSET Sessions, d \in [Sessions -> Nat] :
        /\ localSessions' = [localSessions EXCEPT ![w] = k]
        /\ localRevoked' = [localRevoked EXCEPT ![w] = d]
  <2>1. CASE LocalClean(w)
    BY <1>1, <1>2, <2>1 DEF LocalClean
  <2>2. CASE LocalSet(w, s)
    <3>1. /\ KeptSessions(w) \cup {s} \in SUBSET Sessions
          /\ [KeptDenials(w) EXCEPT ![s] = 0] \in [Sessions -> Nat]
      BY <1>1, <1>2
    <3>. QED
      BY <2>2, <3>1 DEF LocalSet
  <2>3. CASE LocalDeny(w, s, t)
    <3>1. now + t \in Nat
      BY DEF TypeOK, StoreTypeOK
    <3>2. /\ KeptSessions(w) \ {s} \in SUBSET Sessions
          /\ [KeptDenials(w) EXCEPT ![s] = now + t] \in [Sessions -> Nat]
      BY <1>1, <1>2, <3>1
    <3>. QED
      BY <2>3, <3>2 DEF LocalDeny
  <2>. QED
    BY <2>1, <2>2, <2>3
<1>. QED
  BY <1>3 DEF TypeOK, StoreTypeOK

(* Minting a token for a request that holds none of the tokens in use.     *)
LEMMA MintFacts ==
  ASSUME IInv, NEW r \in Requests, Mint(r)
  PROVE  /\ expiry' \in [Sessions -> Nat] /\ fresh' \in [Requests -> Sessions \cup {NoSession}]
         /\ ttl' \in [Requests -> Nat] /\ \A q \in Requests : ttl'[q] % Second = 0
         /\ fresh'[r] \in Sessions /\ expiry'[fresh'[r]] > 0
         /\ \A q \in Requests : fresh[q] # fresh'[r]
         /\ \A q \in Requests \ {r} : fresh'[q] = fresh[q]
         /\ \A s \in Sessions : expiry[s] > 0 => expiry'[s] = expiry[s]
<1>1. PICK s \in Sessions :
        /\ expiry[s] = 0
        /\ expiry' = [expiry EXCEPT ![s] = MintedExpiry]
        /\ fresh'  = [fresh EXCEPT ![r] = s]
        /\ ttl'    = [ttl EXCEPT ![r] = WholeSeconds(MintedExpiry - now)]
  BY DEF Mint
<1>2. now \in Nat /\ MintedExpiry \in Nat /\ MintedExpiry > now
  BY Minted DEF IInv, TypeOK, StoreTypeOK
<1>3. MintedExpiry - now \in Nat
  BY <1>2
<1>. HIDE DEF MintedExpiry
<1>4. WholeSeconds(MintedExpiry - now) \in Nat /\ WholeSeconds(MintedExpiry - now) % Second = 0
  BY <1>3, Lifetime
<1>5. \A q \in Requests : fresh[q] # s
  BY <1>1 DEF IInv, MintInv
<1>. QED
  BY <1>1, <1>2, <1>4, <1>5 DEF IInv, TypeOK, StoreTypeOK

LEMMA InitIInv == Init => IInv
<1>. SUFFICES ASSUME Init
              PROVE  IInv
  OBVIOUS
<1>1. TypeOK
  BY StoreAssumption
     DEF Init, StoreInit, TypeOK, StoreTypeOK, Modes, Stages, Ops, Answers, OnTime
<1>2. MintInv /\ StageInv /\ EndedInv
  BY RequestAssumption DEF Init, StoreInit, MintInv, StageInv, EndedInv, OnTime
<1>. QED
  BY <1>1, <1>2 DEF IInv

-----------------------------------------------------------------------------
(* The invariant under a step of one request, r. It is enough to know what *)
(* the step may do to r: the rest is as it was.                            *)

OthersKeep(r) ==
  \A q \in Requests \ {r} :
    /\ pc'[q] = pc[q] /\ worker'[q] = worker[q] /\ sid'[q] = sid[q]
    /\ fresh'[q] = fresh[q] /\ found'[q] = found[q] /\ accepted'[q] = accepted[q]
    /\ answer'[q] = answer[q] /\ late'[q] = late[q]

IsDelivered(s) == s \in Sessions /\ \E q \in Requests : fresh[q] = s /\ pc[q] = "done"

MayMint(r) ==
  \/ fresh'[r] = fresh[r] /\ UNCHANGED expiry
  \/ /\ fresh'[r] \in Sessions /\ expiry'[fresh'[r]] > 0
     /\ \A q \in Requests : fresh[q] # fresh'[r]
     /\ \A s \in Sessions : expiry[s] > 0 => expiry'[s] = expiry[s]

LEMMA MintKept ==
  ASSUME IInv, NEW r \in Requests, OthersKeep(r), MayMint(r), pc[r] # "done",
         pc'[r] \in {"set", "set_sent"} => fresh'[r] \in Sessions,
         answer'[r] = "issued" => pc'[r] = "done" /\ fresh'[r] \in Sessions,
         sid'[r] = sid[r] \/ IsDelivered(sid'[r]),
         \A s \in ended' \ ended : s = sid[r] /\ s \in Sessions
  PROVE  MintInv'
<1>0. MintInv /\ sid \in [Requests -> Sessions \cup {NoSession}]
  BY DEF IInv, TypeOK
<1>1. \A q \in Requests : pc[q] = "done" => pc'[q] = "done" /\ fresh'[q] = fresh[q]
  BY DEF OthersKeep
<1>2. \A q \in Requests : fresh'[q] \in Sessions => expiry'[fresh'[q]] > 0
  BY <1>0 DEF OthersKeep, MayMint, MintInv
<1>3. \A p, q \in Requests : fresh'[p] = fresh'[q] /\ fresh'[p] \in Sessions => p = q
  BY <1>0 DEF OthersKeep, MayMint, MintInv
<1>4. \A q \in Requests : pc'[q] \in {"set", "set_sent"} => fresh'[q] \in Sessions
  BY <1>0 DEF OthersKeep, MintInv
<1>5. \A q \in Requests : answer'[q] = "issued" => pc'[q] = "done" /\ fresh'[q] \in Sessions
  BY <1>0 DEF OthersKeep, MintInv
<1>6. \A q \in Requests : sid'[q] \in Sessions =>
        \E p \in Requests : fresh'[p] = sid'[q] /\ pc'[p] = "done"
  BY <1>0, <1>1 DEF OthersKeep, MintInv, IsDelivered
<1>7. \A s \in ended' : \E p \in Requests : fresh'[p] = s /\ pc'[p] = "done"
  <2>. SUFFICES ASSUME NEW s \in ended'
                PROVE  \E p \in Requests : fresh[p] = s /\ pc[p] = "done"
    BY <1>1
  <2>. QED
    BY <1>0 DEF MintInv
<1>. QED
  BY <1>2, <1>3, <1>4, <1>5, <1>6, <1>7 DEF MintInv

LEMMA StageKept ==
  ASSUME IInv, NEW r \in Requests, OthersKeep(r), pc'[r] # "idle",
         pc'[r] \in {"exists", "get", "got", "load", "revoke", "revoke_sent"} =>
           sid'[r] \in Sessions /\ worker'[r] \in Workers,
         pc'[r] \in {"set", "set_sent"} => worker'[r] \in Workers,
         pc'[r] \in {"exists", "get", "got"} => ~accepted'[r]
  PROVE  StageInv'
BY DEF IInv, StageInv, OthersKeep

(* Records of other sessions than the one r stores are not written.        *)
MayStore(r) ==
  \A s \in Sessions : redisSession[s] = 0 =>
    redisSession'[s] = 0 \/ (pc[r] = "set" /\ s = fresh[r])

LEMMA EndedKept ==
  ASSUME IInv, NEW r \in Requests, OthersKeep(r), UNCHANGED mode, MayStore(r),
         pc[r] # "done",
         mode = "redis" =>
           /\ \A s \in ended' \ ended : s \in Sessions /\ redisSession[s] = 0 /\ pc[r] # "set"
           /\ pc'[r] = "revoke_sent" => redisSession'[sid'[r]] = 0
           /\ late'[r].ended => sid'[r] \in ended' /\ ~found'[r] /\ ~accepted'[r],
         ended \subseteq ended'
  PROVE  EndedInv'
<1>. SUFFICES ASSUME mode = "redis"
              PROVE  /\ \A s \in ended' : redisSession'[s] = 0
                     /\ \A q \in Requests : pc'[q] = "revoke_sent" => redisSession'[sid'[q]] = 0
                     /\ \A q \in Requests : late'[q].ended =>
                          sid'[q] \in ended' /\ ~found'[q] /\ ~accepted'[q]
  BY DEF EndedInv
<1>1. /\ MintInv /\ StageInv /\ EndedInv /\ ended \subseteq Sessions
      /\ sid \in [Requests -> Sessions \cup {NoSession}]
  BY DEF IInv, TypeOK
(* r holds its new session alone, and it is not done: nobody presented it. *)
<1>2. pc[r] = "set" => fresh[r] \notin ended /\ \A q \in Requests : sid[q] # fresh[r]
  BY <1>1 DEF MintInv
<1>3. \A s \in ended' : redisSession'[s] = 0
  BY <1>1, <1>2 DEF EndedInv, MayStore
<1>4. \A q \in Requests : pc'[q] = "revoke_sent" => redisSession'[sid'[q]] = 0
  BY <1>1, <1>2 DEF EndedInv, StageInv, MayStore, OthersKeep
<1>5. \A q \in Requests : late'[q].ended => sid'[q] \in ended' /\ ~found'[q] /\ ~accepted'[q]
  BY <1>1 DEF EndedInv, OthersKeep
<1>. QED
  BY <1>3, <1>4, <1>5

-----------------------------------------------------------------------------
(* The two ways a step ends for its request: it responds, or it goes on to *)
(* another await.                                                          *)

Progress(r) ==
  /\ pc' \in [Requests -> Stages] /\ answer' \in [Requests -> Answers]
  /\ found' \in [Requests -> BOOLEAN]
  /\ ttl' \in [Requests -> Nat] /\ \A q \in Requests : ttl'[q] % Second = 0
  /\ \A q \in Requests \ {r} : pc'[q] = pc[q] /\ answer'[q] = answer[q] /\ found'[q] = found[q]

LEMMA RespondFacts ==
  ASSUME IInv, NEW r \in Requests, NEW what \in Answers, Respond(r, what)
  PROVE  Progress(r) /\ pc'[r] = "done" /\ answer'[r] = what /\ ~found'[r]
<1>1. 0 % Second = 0 /\ "done" \in Stages
  BY StoreAssumption DEF Stages
<1>2. found' \in [Requests -> BOOLEAN] /\ found'[r] = FALSE
      /\ \A q \in Requests \ {r} : found'[q] = found[q]
  BY DEF Respond, IInv, TypeOK
<1>. QED
  BY <1>1, <1>2 DEF Progress, Respond, Goto, IInv, TypeOK

LEMMA GotoFacts ==
  ASSUME IInv, NEW r \in Requests, NEW stage \in Stages, Goto(r, stage),
         UNCHANGED <<answer, ttl, found>>
  PROVE  Progress(r) /\ pc'[r] = stage /\ answer'[r] = answer[r] /\ found'[r] = found[r]
BY DEF Progress, Goto, IInv, TypeOK

LEMMA LifetimeFacts ==
  ASSUME IInv, NEW r \in Requests, NEW stage \in Stages, Goto(r, stage),
         NEW s \in Sessions, IsDecodable(s),
         ttl' = [ttl EXCEPT ![r] = WholeSeconds(expiry[s] - now)],
         UNCHANGED <<answer, found>>
  PROVE  Progress(r) /\ pc'[r] = stage /\ answer'[r] = answer[r] /\ found'[r] = found[r]
<1>1. expiry[s] - now \in Nat
  BY DEF IsDecodable, IInv, TypeOK, StoreTypeOK
<1>. DEFINE t == WholeSeconds(expiry[s] - now)
<1>2. t \in Nat /\ t % Second = 0
  BY <1>1, Lifetime
<1>. HIDE DEF t
<1>3. ttl' \in [Requests -> Nat] /\ \A q \in Requests : ttl'[q] % Second = 0
  BY <1>2 DEF IInv, TypeOK, t
<1>. QED
  BY <1>3 DEF Progress, Goto, IInv, TypeOK

-----------------------------------------------------------------------------
(* A request arrives.                                                      *)

LEMMA LoginStep ==
  ASSUME IInv, NEW r \in Requests, NEW w \in Workers, Login(r, w)
  PROVE  IInv'
<1>1. /\ pc[r] = "idle" /\ pc' = [pc EXCEPT ![r] = "set"]
      /\ op' = [op EXCEPT ![r] = "login"]
      /\ worker' = [worker EXCEPT ![r] = w]
      /\ UNCHANGED <<redisSession, redisRevoked, localSessions, localRevoked>>
      /\ UNCHANGED <<mode, now, sid, found, accepted, answer, ended, denied, late>>
  BY DEF Login, UnchangedStore, Goto, At
<1>2. /\ expiry' \in [Sessions -> Nat] /\ fresh' \in [Requests -> Sessions \cup {NoSession}]
      /\ ttl' \in [Requests -> Nat] /\ \A q \in Requests : ttl'[q] % Second = 0
      /\ fresh'[r] \in Sessions /\ MayMint(r)
      /\ \A q \in Requests \ {r} : fresh'[q] = fresh[q]
  BY MintFacts DEF Login, MayMint
<1>3. OthersKeep(r)
  BY <1>1, <1>2 DEF OthersKeep, IInv, TypeOK
<1>4. pc'[r] = "set" /\ worker'[r] = w
  BY <1>1 DEF IInv, TypeOK
<1>5. TypeOK'
  BY <1>1, <1>2 DEF IInv, TypeOK, StoreTypeOK, Stages, Ops
<1>6. MintInv'
  BY <1>1, <1>2, <1>3, <1>4, MintKept DEF IInv, MintInv
<1>7. StageInv'
  BY <1>3, <1>4, StageKept
<1>8. EndedInv'
  BY <1>1, <1>3, <1>4, EndedKept DEF MayStore, IInv, StageInv, OnTime
<1>. QED
  BY <1>5, <1>6, <1>7, <1>8 DEF IInv

(* The browser presents a token that some request delivered.               *)
LEMMA ArriveFacts ==
  ASSUME IInv, NEW r \in Requests, NEW w \in Workers, NEW s \in Delivered,
         NEW route \in {"session", "logout", "refresh"}, Arrive(r, route, w, s)
  PROVE  /\ pc[r] = "idle" /\ IsDelivered(s) /\ s \in Sessions /\ ~found[r] /\ ~accepted[r]
         /\ op' \in [Requests -> Ops]
         /\ worker' \in [Requests -> Workers \cup {NoWorker}] /\ worker'[r] = w
         /\ sid' \in [Requests -> Sessions \cup {NoSession}] /\ sid'[r] = s
         /\ late' \in [Requests -> [ended : BOOLEAN, denied : BOOLEAN]]
         /\ late'[r].ended = (s \in ended)
         /\ \A q \in Requests \ {r} :
              worker'[q] = worker[q] /\ sid'[q] = sid[q] /\ late'[q] = late[q]
<1>1. pc[r] = "idle" /\ IsDelivered(s) /\ s \in Sessions /\ ~found[r] /\ ~accepted[r]
  BY DEF Arrive, At, Delivered, IsDelivered, IInv, MintInv, StageInv
<1>2. /\ op' \in [Requests -> Ops]
      /\ worker' \in [Requests -> Workers \cup {NoWorker}] /\ worker'[r] = w
      /\ sid' \in [Requests -> Sessions \cup {NoSession}] /\ sid'[r] = s
      /\ \A q \in Requests \ {r} : worker'[q] = worker[q] /\ sid'[q] = sid[q]
  BY <1>1 DEF Arrive, IInv, TypeOK, Ops
<1>3. PICK x \in [ended : BOOLEAN, denied : BOOLEAN] :
        x.ended = (s \in ended) /\ late' = [late EXCEPT ![r] = x]
  <2>. DEFINE x == [ended |-> s \in ended, denied |-> s \in denied[w]]
  <2>1. x \in [ended : BOOLEAN, denied : BOOLEAN] /\ x.ended = (s \in ended)
    OBVIOUS
  <2>2. late' = [late EXCEPT ![r] = x]
    BY DEF Arrive
  <2>. HIDE DEF x
  <2>. QED
    BY <2>1, <2>2, Zenon
<1>4. late \in [Requests -> [ended : BOOLEAN, denied : BOOLEAN]]
  BY DEF IInv, TypeOK
<1>5. /\ late' \in [Requests -> [ended : BOOLEAN, denied : BOOLEAN]]
      /\ late'[r].ended = (s \in ended)
      /\ \A q \in Requests \ {r} : late'[q] = late[q]
  BY <1>3, <1>4
<1>. QED
  BY <1>1, <1>2, <1>5

LEMMA ResolveStep ==
  ASSUME IInv, NEW r \in Requests, NEW w \in Workers, NEW s \in Delivered,
         Resolve(r, w, s)
  PROVE  IInv'
<1>1. PICK route \in {"session", "logout", "refresh"} : Arrive(r, route, w, s)
  BY DEF Resolve
<1>2. UNCHANGED <<mode, now, expiry, fresh, accepted, ended, denied, redisSession, redisRevoked>>
  BY DEF Resolve, UnchangedRedis
<1>3. \/ Respond(r, "refused")
      \/ Goto(r, "exists") /\ UNCHANGED <<answer, ttl, found>>
  BY DEF Resolve
<1>4. /\ Progress(r) /\ pc'[r] \in {"done", "exists"} /\ ~found'[r]
      /\ answer'[r] # "issued"
  BY <1>1, <1>3, ArriveFacts, RespondFacts, GotoFacts DEF Answers, Stages, IInv, MintInv
<1>5. UNCHANGED <<localSessions, localRevoked>> \/ LocalClean(w)
  BY DEF Resolve, UnchangedLocal
<1>6. /\ localSessions' \in [Workers -> SUBSET Sessions]
      /\ localRevoked' \in [Workers -> [Sessions -> Nat]]
  BY <1>1, <1>5, ArriveFacts, LocalTypes DEF IInv, TypeOK, StoreTypeOK
<1>7. OthersKeep(r)
  BY <1>1, <1>2, <1>4, ArriveFacts DEF OthersKeep, Progress
<1>8. TypeOK'
  BY <1>1, <1>2, <1>4, <1>6, ArriveFacts DEF Progress, IInv, TypeOK, StoreTypeOK
<1>9. MintInv'
  BY <1>1, <1>2, <1>4, <1>7, ArriveFacts, MintKept DEF MayMint
<1>10. StageInv'
  BY <1>1, <1>2, <1>4, <1>7, ArriveFacts, StageKept
<1>11. EndedInv'
  BY <1>1, <1>2, <1>4, <1>7, ArriveFacts, EndedKept DEF MayStore
<1>. QED
  BY <1>8, <1>9, <1>10, <1>11 DEF IInv

LEMMA LogoutStep ==
  ASSUME IInv, NEW r \in Requests, NEW w \in Workers, NEW s \in Delivered,
         Logout(r, w, s)
  PROVE  IInv'
<1>1. Arrive(r, "logout", w, s)
  BY DEF Logout
<1>2. /\ UNCHANGED <<mode, now, expiry, fresh, accepted, ended, denied>>
      /\ UNCHANGED <<redisSession, redisRevoked, localSessions, localRevoked>>
  BY DEF Logout, UnchangedStore
<1>3. /\ Progress(r) /\ pc'[r] \in {"done", "revoke"} /\ ~found'[r]
      /\ answer'[r] # "issued"
  BY <1>1, ArriveFacts, RespondFacts, LifetimeFacts
     DEF Logout, Answers, Stages, IInv, MintInv
<1>4. OthersKeep(r)
  BY <1>1, <1>2, <1>3, ArriveFacts DEF OthersKeep, Progress
<1>5. TypeOK'
  BY <1>1, <1>2, <1>3, ArriveFacts DEF Progress, IInv, TypeOK, StoreTypeOK
<1>6. MintInv'
  BY <1>1, <1>2, <1>3, <1>4, ArriveFacts, MintKept DEF MayMint
<1>7. StageInv'
  BY <1>1, <1>2, <1>3, <1>4, ArriveFacts, StageKept
<1>8. EndedInv'
  BY <1>1, <1>2, <1>3, <1>4, ArriveFacts, EndedKept DEF MayStore
<1>. QED
  BY <1>5, <1>6, <1>7, <1>8 DEF IInv

-----------------------------------------------------------------------------
(* resolve, over its three awaits.                                         *)

LEMMA AskRevokedStep ==
  ASSUME IInv, NEW r \in Requests, AskRevoked(r)
  PROVE  IInv'
<1>1. /\ pc[r] = "exists"
      /\ UNCHANGED <<redisSession, redisRevoked, localSessions, localRevoked>>
      /\ UNCHANGED <<mode, now, expiry, op, worker, sid, fresh, accepted, ended, denied, late>>
  BY DEF AskRevoked, UnchangedStore, At
<1>2. answer[r] # "issued"
  BY <1>1 DEF IInv, MintInv
<1>3. /\ Progress(r) /\ pc'[r] \in {"done", "get"} /\ answer'[r] # "issued"
      /\ found[r] = FALSE => ~found'[r]
  BY <1>2, RespondFacts, GotoFacts DEF AskRevoked, Answers, Stages
<1>4. OthersKeep(r)
  BY <1>1, <1>2, <1>3 DEF OthersKeep, Progress
<1>5. TypeOK'
  BY <1>1, <1>2, <1>3 DEF Progress, IInv, TypeOK, StoreTypeOK
<1>6. MintInv'
  BY <1>1, <1>2, <1>3, <1>4, MintKept DEF MayMint, IInv, MintInv
<1>7. StageInv'
  BY <1>1, <1>2, <1>3, <1>4, StageKept DEF IInv, StageInv
<1>8. EndedInv'
  BY <1>1, <1>2, <1>3, <1>4, EndedKept DEF MayStore, IInv, StageInv, EndedInv
<1>. QED
  BY <1>5, <1>6, <1>7, <1>8 DEF IInv

LEMMA GetRecordStep ==
  ASSUME IInv, NEW r \in Requests, GetRecord(r)
  PROVE  IInv'
<1>1. /\ pc[r] = "get" /\ pc' = [pc EXCEPT ![r] = "got"]
      /\ UNCHANGED <<redisSession, redisRevoked, localSessions, localRevoked>>
      /\ UNCHANGED <<mode, now, expiry, op, worker, sid, fresh, ttl, accepted, answer,
                     ended, denied, late>>
  BY DEF GetRecord, UnchangedStore, At, Goto
<1>2. found' \in [Requests -> BOOLEAN] /\ \A q \in Requests \ {r} : found'[q] = found[q]
  <2>1. RedisHas(sid[r]) \in BOOLEAN /\ found' = [found EXCEPT ![r] = RedisHas(sid[r])]
    BY DEF GetRecord, RedisHas
  <2>2. found \in [Requests -> BOOLEAN]
    BY DEF IInv, TypeOK
  <2>. QED
    BY <2>1, <2>2
<1>3. /\ Progress(r) /\ pc'[r] = "got" /\ answer'[r] # "issued"
      /\ redisSession[sid[r]] = 0 => ~found'[r]
  <2>1. redisSession[sid[r]] = 0 => ~found'[r]
    BY <1>1 DEF GetRecord, RedisHas, IInv, TypeOK, StoreTypeOK, StageInv
  <2>2. Progress(r)
    BY <1>1, <1>2 DEF Progress, Stages, IInv, TypeOK
  <2>. QED
    BY <1>1, <2>1, <2>2 DEF IInv, MintInv, TypeOK
<1>4. OthersKeep(r)
  BY <1>1, <1>2, <1>3 DEF OthersKeep, Progress
<1>5. TypeOK'
  BY <1>1, <1>2, <1>3 DEF Progress, IInv, TypeOK, StoreTypeOK
<1>6. MintInv'
  BY <1>1, <1>2, <1>3, <1>4, MintKept DEF MayMint, IInv, MintInv
<1>7. StageInv'
  BY <1>1, <1>2, <1>3, <1>4, StageKept DEF IInv, StageInv
<1>8. EndedInv'
  BY <1>1, <1>2, <1>3, <1>4, EndedKept DEF MayStore, IInv, StageInv, EndedInv
<1>. QED
  BY <1>5, <1>6, <1>7, <1>8 DEF IInv

(* resolve returns, with a session or without.                             *)
LEMMA ConcludeFacts ==
  ASSUME IInv, NEW r \in Requests, NEW ok \in BOOLEAN, Conclude(r, ok),
         answer[r] # "issued"
  PROVE  /\ Progress(r) /\ pc'[r] \in {"load", "done"} /\ answer'[r] # "issued"
         /\ ~found'[r] /\ accepted' \in [Requests -> BOOLEAN] /\ accepted'[r] = ok
         /\ \A q \in Requests \ {r} : accepted'[q] = accepted[q]
<1>1. /\ accepted' \in [Requests -> BOOLEAN] /\ accepted'[r] = ok
      /\ \A q \in Requests \ {r} : accepted'[q] = accepted[q]
  BY DEF Conclude, IInv, TypeOK
<1>2. CASE ok /\ op[r] = "refresh"
  <2>1. found' = [found EXCEPT ![r] = FALSE] /\ Goto(r, "load") /\ UNCHANGED <<answer, ttl>>
    BY <1>2 DEF Conclude
  <2>2. /\ found' \in [Requests -> BOOLEAN] /\ found'[r] = FALSE
        /\ \A q \in Requests \ {r} : found'[q] = found[q]
    BY <2>1 DEF IInv, TypeOK
  <2>3. Progress(r) /\ pc'[r] = "load"
    BY <2>1, <2>2 DEF Progress, Goto, Stages, IInv, TypeOK
  <2>. QED
    BY <1>1, <2>1, <2>2, <2>3
<1>3. CASE ~(ok /\ op[r] = "refresh")
  <2>1. \E what \in {"valid", "refused"} : Respond(r, what)
    BY <1>3 DEF Conclude
  <2>. QED
    BY <1>1, <2>1, RespondFacts DEF Answers
<1>. QED
  BY <1>2, <1>3

LEMMA RecordArrivesStep ==
  ASSUME IInv, NEW r \in Requests, RecordArrives(r)
  PROVE  IInv'
<1>1. /\ pc[r] = "got"
      /\ UNCHANGED <<redisSession, redisRevoked, localSessions, localRevoked>>
      /\ UNCHANGED <<mode, now, expiry, op, worker, sid, fresh, ended, denied, late>>
  BY DEF RecordArrives, UnchangedStore, At
<1>. DEFINE ok == found[r] /\ IsFresh(sid[r])
<1>2. answer[r] # "issued" /\ Conclude(r, ok) /\ ok \in BOOLEAN /\ (ok => found[r])
  <2>1. answer[r] # "issued" /\ found[r] \in BOOLEAN
    BY <1>1 DEF IInv, MintInv, TypeOK
  <2>2. Conclude(r, ok)
    BY DEF RecordArrives
  <2>3. IsFresh(sid[r]) \in BOOLEAN
    BY DEF IsFresh
  <2>. QED
    BY <2>1, <2>2, <2>3, Zenon
<1>. HIDE DEF ok
<1>3. /\ Progress(r) /\ pc'[r] \in {"load", "done"} /\ answer'[r] # "issued"
      /\ ~found'[r] /\ accepted' \in [Requests -> BOOLEAN] /\ (accepted'[r] => found[r])
      /\ \A q \in Requests \ {r} : accepted'[q] = accepted[q]
  BY <1>2, ConcludeFacts
<1>4. OthersKeep(r)
  BY <1>1, <1>2, <1>3 DEF OthersKeep, Progress
<1>5. TypeOK'
  BY <1>1, <1>2, <1>3 DEF Progress, IInv, TypeOK, StoreTypeOK
<1>6. MintInv'
  BY <1>1, <1>2, <1>3, <1>4, MintKept DEF MayMint, IInv, MintInv
<1>7. StageInv'
  BY <1>1, <1>2, <1>3, <1>4, StageKept DEF IInv, StageInv
<1>8. EndedInv'
  BY <1>1, <1>2, <1>3, <1>4, EndedKept DEF MayStore, IInv, StageInv, EndedInv
<1>. QED
  BY <1>5, <1>6, <1>7, <1>8 DEF IInv

LEMMA GetFailsStep ==
  ASSUME IInv, NEW r \in Requests, GetFails(r)
  PROVE  IInv'
<1>1. /\ pc[r] \in {"exists", "get", "got"} /\ sid[r] \in Sessions /\ worker[r] \in Workers
      /\ UNCHANGED <<redisSession, redisRevoked>>
      /\ UNCHANGED <<mode, now, expiry, op, worker, sid, fresh, ended, denied, late>>
  BY DEF GetFails, UnchangedRedis, IInv, StageInv
<1>2. /\ localSessions' \in [Workers -> SUBSET Sessions]
      /\ localRevoked' \in [Workers -> [Sessions -> Nat]]
  <2>1. UNCHANGED <<localSessions, localRevoked>> \/ LocalClean(worker[r])
    BY DEF GetFails, UnchangedLocal
  <2>. QED
    BY <1>1, <2>1, LocalTypes DEF IInv, TypeOK, StoreTypeOK
<1>3. /\ Progress(r) /\ pc'[r] \in {"load", "done"} /\ answer'[r] # "issued"
      /\ ~found'[r] /\ accepted' \in [Requests -> BOOLEAN]
      /\ mode = "redis" => accepted'[r] = accepted[r]
      /\ \A q \in Requests \ {r} : accepted'[q] = accepted[q]
  <2>1. answer[r] # "issued"
    BY <1>1 DEF IInv, MintInv
  <2>2. CASE FallbackAllowed
    <3>. DEFINE ok == LocallyHas(worker[r], sid[r])
    <3>1. Conclude(r, ok) /\ ok \in BOOLEAN /\ mode # "redis"
      BY <2>2 DEF GetFails, FallbackAllowed, LocallyHas
    <3>. HIDE DEF ok
    <3>. QED
      BY <2>1, <3>1, ConcludeFacts
  <2>3. CASE ~FallbackAllowed
    BY <2>3, RespondFacts DEF GetFails, Answers, IInv, TypeOK
  <2>. QED
    BY <2>2, <2>3
<1>4. OthersKeep(r)
  BY <1>1, <1>2, <1>3 DEF OthersKeep, Progress
<1>5. TypeOK'
  BY <1>1, <1>2, <1>3 DEF Progress, IInv, TypeOK, StoreTypeOK
<1>6. MintInv'
  BY <1>1, <1>2, <1>3, <1>4, MintKept DEF MayMint, IInv, MintInv
<1>7. StageInv'
  BY <1>1, <1>2, <1>3, <1>4, StageKept DEF IInv, StageInv
<1>8. EndedInv'
  BY <1>1, <1>2, <1>3, <1>4, EndedKept DEF MayStore, IInv, StageInv, EndedInv
<1>. QED
  BY <1>5, <1>6, <1>7, <1>8 DEF IInv

-----------------------------------------------------------------------------
(* /refresh and /logout: the old session ends, a new one is minted.        *)

LEMMA EmployeeLoadedStep ==
  ASSUME IInv, NEW r \in Requests, EmployeeLoaded(r)
  PROVE  IInv'
<1>1. /\ pc[r] = "load" /\ sid[r] \in Sessions /\ worker[r] \in Workers
      /\ UNCHANGED <<redisSession, redisRevoked, localSessions, localRevoked>>
      /\ UNCHANGED <<mode, now, op, worker, sid, found, accepted, answer, ended, denied, late>>
  BY DEF EmployeeLoaded, UnchangedStore, At, IInv, StageInv
<1>2. /\ expiry' \in [Sessions -> Nat] /\ fresh' \in [Requests -> Sessions \cup {NoSession}]
      /\ \A q \in Requests \ {r} : fresh'[q] = fresh[q]
      /\ MayMint(r)
  BY MintFacts DEF EmployeeLoaded, MayMint, IInv, TypeOK, StoreTypeOK
<1>3. /\ Progress(r) /\ pc'[r] \in {"revoke", "set"} /\ answer'[r] # "issued"
      /\ found'[r] = found[r] /\ (pc'[r] = "set" => fresh'[r] \in Sessions)
  <2>1. answer[r] # "issued"
    BY <1>1 DEF IInv, MintInv
  <2>2. CASE IsDecodable(sid[r])
    BY <1>1, <2>1, <2>2, LifetimeFacts DEF EmployeeLoaded, Stages
  <2>3. CASE ~IsDecodable(sid[r])
    <3>1. Goto(r, "set") /\ Mint(r)
      BY <2>3 DEF EmployeeLoaded
    <3>2. /\ ttl' \in [Requests -> Nat] /\ \A q \in Requests : ttl'[q] % Second = 0
          /\ fresh'[r] \in Sessions
      BY <3>1, MintFacts
    <3>. QED
      BY <1>1, <2>1, <3>1, <3>2 DEF Progress, Goto, Stages, IInv, TypeOK
  <2>. QED
    BY <2>2, <2>3
<1>4. OthersKeep(r)
  BY <1>1, <1>2, <1>3 DEF OthersKeep, Progress
<1>5. TypeOK'
  BY <1>1, <1>2, <1>3 DEF Progress, IInv, TypeOK, StoreTypeOK
<1>6. MintInv'
  BY <1>1, <1>2, <1>3, <1>4, MintKept DEF MayMint, IInv, MintInv
<1>7. StageInv'
  BY <1>1, <1>2, <1>3, <1>4, StageKept DEF IInv, StageInv
<1>8. EndedInv'
  BY <1>1, <1>2, <1>3, <1>4, EndedKept DEF MayStore, IInv, StageInv, EndedInv
<1>. QED
  BY <1>5, <1>6, <1>7, <1>8 DEF IInv

LEMMA EmployeeRefusedStep ==
  ASSUME IInv, NEW r \in Requests, EmployeeRefused(r)
  PROVE  IInv'
<1>1. /\ pc[r] = "load"
      /\ UNCHANGED <<redisSession, redisRevoked, localSessions, localRevoked>>
      /\ UNCHANGED <<mode, now, expiry, op, worker, sid, fresh, accepted, ended, denied, late>>
  BY DEF EmployeeRefused, UnchangedStore, At
<1>2. \E what \in {"refused", "unavailable"} : Respond(r, what)
  BY DEF EmployeeRefused
<1>3. Progress(r) /\ pc'[r] = "done" /\ answer'[r] # "issued" /\ ~found'[r]
  BY <1>2, RespondFacts DEF Answers
<1>4. OthersKeep(r)
  BY <1>1, <1>2, <1>3 DEF OthersKeep, Progress
<1>5. TypeOK'
  BY <1>1, <1>2, <1>3 DEF Progress, IInv, TypeOK, StoreTypeOK
<1>6. MintInv'
  BY <1>1, <1>2, <1>3, <1>4, MintKept DEF MayMint, IInv, MintInv
<1>7. StageInv'
  BY <1>1, <1>2, <1>3, <1>4, StageKept DEF IInv, StageInv
<1>8. EndedInv'
  BY <1>1, <1>2, <1>3, <1>4, EndedKept DEF MayStore, IInv, StageInv, EndedInv
<1>. QED
  BY <1>5, <1>6, <1>7, <1>8 DEF IInv

LEMMA SendRevokeStep ==
  ASSUME IInv, NEW r \in Requests, SendRevoke(r)
  PROVE  IInv'
<1>1. /\ pc[r] = "revoke" /\ sid[r] \in Sessions /\ Goto(r, "revoke_sent")
      /\ UNCHANGED <<localSessions, localRevoked>>
      /\ UNCHANGED <<mode, now, expiry, op, worker, sid, fresh, ttl, found, accepted,
                     answer, ended, denied, late>>
  BY DEF SendRevoke, UnchangedLocal, At, IInv, StageInv
<1>2. /\ redisSession' \in [Sessions -> Nat] /\ redisRevoked' \in [Sessions -> Nat]
      /\ redisSession'[sid[r]] = 0
      /\ \A s \in Sessions : redisSession[s] = 0 => redisSession'[s] = 0
  <2>1. now + ttl[r] \in Nat
    BY DEF IInv, TypeOK, StoreTypeOK
  <2>. QED
    BY <1>1, <2>1 DEF SendRevoke, RedisRevoke, IInv, TypeOK, StoreTypeOK
<1>3. /\ Progress(r) /\ pc'[r] = "revoke_sent" /\ answer'[r] # "issued"
      /\ found'[r] = found[r]
  BY <1>1, GotoFacts DEF Stages, IInv, MintInv
<1>4. OthersKeep(r)
  BY <1>1, <1>2, <1>3 DEF OthersKeep, Progress
<1>5. TypeOK'
  BY <1>1, <1>2, <1>3 DEF Progress, IInv, TypeOK, StoreTypeOK
<1>6. MintInv'
  BY <1>1, <1>2, <1>3, <1>4, MintKept DEF MayMint, IInv, MintInv
<1>7. StageInv'
  BY <1>1, <1>2, <1>3, <1>4, StageKept DEF IInv, StageInv
<1>8. EndedInv'
  BY <1>1, <1>2, <1>3, <1>4, EndedKept DEF MayStore, IInv, StageInv, EndedInv
<1>. QED
  BY <1>5, <1>6, <1>7, <1>8 DEF IInv

(* destroy returned: the record is gone from Redis, where Redis is used.   *)
LEMMA RevokedFacts ==
  ASSUME IInv, NEW r \in Requests, Revoked(r), answer[r] # "issued",
         sid[r] \in Sessions
  PROVE  /\ Progress(r) /\ pc'[r] \in {"done", "set"} /\ answer'[r] # "issued"
         /\ (found[r] = FALSE => ~found'[r])
         /\ ended' = ended \cup {sid[r]}
         /\ expiry' \in [Sessions -> Nat] /\ fresh' \in [Requests -> Sessions \cup {NoSession}]
         /\ \A q \in Requests \ {r} : fresh'[q] = fresh[q]
         /\ MayMint(r) /\ (pc'[r] = "set" => fresh'[r] \in Sessions)
<1>1. ended' = ended \cup {sid[r]}
  BY DEF Revoked
<1>2. CASE op[r] = "logout"
  <2>1. Respond(r, "signed_out") /\ UNCHANGED <<expiry, fresh>>
    BY <1>2 DEF Revoked
  <2>. QED
    BY <1>1, <2>1, RespondFacts DEF Answers, MayMint, IInv, TypeOK, StoreTypeOK
<1>3. CASE op[r] # "logout"
  <2>1. Goto(r, "set") /\ Mint(r) /\ UNCHANGED <<answer, found>>
    BY <1>3 DEF Revoked
  <2>2. /\ ttl' \in [Requests -> Nat] /\ \A q \in Requests : ttl'[q] % Second = 0
        /\ fresh'[r] \in Sessions
        /\ expiry' \in [Sessions -> Nat] /\ fresh' \in [Requests -> Sessions \cup {NoSession}]
        /\ \A q \in Requests \ {r} : fresh'[q] = fresh[q]
        /\ MayMint(r)
    BY <2>1, MintFacts DEF MayMint
  <2>3. Progress(r) /\ pc'[r] = "set" /\ answer'[r] = answer[r] /\ found'[r] = found[r]
    BY <2>1, <2>2 DEF Progress, Goto, Stages, IInv, TypeOK
  <2>. QED
    BY <1>1, <2>2, <2>3
<1>. QED
  BY <1>2, <1>3

LEMMA RevokeConfirmedStep ==
  ASSUME IInv, NEW r \in Requests, RevokeConfirmed(r)
  PROVE  IInv'
<1>1. /\ pc[r] = "revoke_sent" /\ sid[r] \in Sessions /\ worker[r] \in Workers
      /\ answer[r] # "issued"
      /\ UNCHANGED <<redisSession, redisRevoked, localSessions, localRevoked>>
      /\ UNCHANGED <<mode, now, op, worker, sid, accepted, denied, late>>
  BY DEF RevokeConfirmed, UnchangedStore, At, IInv, StageInv, MintInv
<1>2. mode = "redis" => redisSession[sid[r]] = 0
  BY <1>1 DEF IInv, EndedInv
<1>3. /\ Progress(r) /\ pc'[r] \in {"done", "set"} /\ answer'[r] # "issued"
      /\ (found[r] = FALSE => ~found'[r])
      /\ ended' = ended \cup {sid[r]}
      /\ expiry' \in [Sessions -> Nat] /\ fresh' \in [Requests -> Sessions \cup {NoSession}]
      /\ \A q \in Requests \ {r} : fresh'[q] = fresh[q]
      /\ MayMint(r) /\ (pc'[r] = "set" => fresh'[r] \in Sessions)
  BY <1>1, RevokedFacts DEF RevokeConfirmed
<1>4. OthersKeep(r)
  BY <1>1, <1>2, <1>3 DEF OthersKeep, Progress
<1>5. TypeOK'
  BY <1>1, <1>2, <1>3 DEF Progress, IInv, TypeOK, StoreTypeOK
<1>6. MintInv'
  BY <1>1, <1>2, <1>3, <1>4, MintKept DEF MayMint, IInv, MintInv
<1>7. StageInv'
  BY <1>1, <1>2, <1>3, <1>4, StageKept DEF IInv, StageInv
<1>8. EndedInv'
  BY <1>1, <1>2, <1>3, <1>4, EndedKept DEF MayStore, IInv, StageInv, EndedInv
<1>. QED
  BY <1>5, <1>6, <1>7, <1>8 DEF IInv

LEMMA RevokeFailsStep ==
  ASSUME IInv, NEW r \in Requests, RevokeFails(r)
  PROVE  IInv'
<1>1. /\ pc[r] \in {"revoke", "revoke_sent"} /\ sid[r] \in Sessions /\ worker[r] \in Workers
      /\ answer[r] # "issued"
      /\ UNCHANGED <<redisSession, redisRevoked>>
      /\ UNCHANGED <<mode, now, op, worker, sid, accepted, late>>
  BY DEF RevokeFails, UnchangedRedis, IInv, StageInv, MintInv
<1>2. /\ localSessions' \in [Workers -> SUBSET Sessions]
      /\ localRevoked' \in [Workers -> [Sessions -> Nat]]
      /\ denied' \in [Workers -> SUBSET Sessions]
  <2>1. LocalDeny(worker[r], sid[r], ttl[r]) /\ ttl[r] \in Nat
    BY DEF RevokeFails, IInv, TypeOK
  <2>2. denied' \in [Workers -> SUBSET Sessions]
    BY <1>1 DEF RevokeFails, IInv, TypeOK
  <2>. QED
    BY <1>1, <2>1, <2>2, LocalTypes DEF IInv
<1>3. /\ Progress(r) /\ pc'[r] \in {"done", "set"} /\ answer'[r] # "issued"
      /\ (found[r] = FALSE => ~found'[r])
      /\ ended' \in SUBSET Sessions /\ ended \subseteq ended' /\ ended' \subseteq ended \cup {sid[r]}
      /\ (mode = "redis" => ended' = ended)
      /\ expiry' \in [Sessions -> Nat] /\ fresh' \in [Requests -> Sessions \cup {NoSession}]
      /\ \A q \in Requests \ {r} : fresh'[q] = fresh[q]
      /\ MayMint(r) /\ (pc'[r] = "set" => fresh'[r] \in Sessions)
  <2>1. CASE FailsClosed
    <3>1. Respond(r, "unavailable") /\ UNCHANGED <<expiry, fresh, ended>>
      BY <2>1 DEF RevokeFails
    <3>. QED
      BY <3>1, RespondFacts DEF Answers, MayMint, IInv, TypeOK, StoreTypeOK
  <2>2. CASE ~FailsClosed
    <3>1. Revoked(r) /\ mode # "redis" /\ ended \in SUBSET Sessions
      BY <2>2 DEF RevokeFails, FailsClosed, FallbackAllowed, IInv, TypeOK
    <3>. QED
      BY <1>1, <3>1, RevokedFacts
  <2>. QED
    BY <2>1, <2>2
<1>4. OthersKeep(r)
  BY <1>1, <1>2, <1>3 DEF OthersKeep, Progress
<1>5. TypeOK'
  BY <1>1, <1>2, <1>3 DEF Progress, IInv, TypeOK, StoreTypeOK
<1>6. MintInv'
  BY <1>1, <1>2, <1>3, <1>4, MintKept DEF MayMint, IInv, MintInv
<1>7. StageInv'
  BY <1>1, <1>2, <1>3, <1>4, StageKept DEF IInv, StageInv
<1>8. EndedInv'
  BY <1>1, <1>2, <1>3, <1>4, EndedKept DEF MayStore, IInv, StageInv, EndedInv
<1>. QED
  BY <1>5, <1>6, <1>7, <1>8 DEF IInv

-----------------------------------------------------------------------------
(* The new session is stored and the response carries its cookie.          *)

LEMMA SendSetStep ==
  ASSUME IInv, NEW r \in Requests, SendSet(r)
  PROVE  IInv'
<1>1. /\ pc[r] = "set" /\ fresh[r] \in Sessions /\ worker[r] \in Workers
      /\ Goto(r, "set_sent")
      /\ UNCHANGED <<localSessions, localRevoked>>
      /\ UNCHANGED <<mode, now, expiry, op, worker, sid, fresh, ttl, found, accepted,
                     answer, ended, denied, late>>
  BY DEF SendSet, UnchangedLocal, At, IInv, StageInv, MintInv
<1>2. /\ redisSession' \in [Sessions -> Nat] /\ UNCHANGED redisRevoked
      /\ \A s \in Sessions : s # fresh[r] => redisSession'[s] = redisSession[s]
  <2>1. now + ttl[r] \in Nat
    BY DEF IInv, TypeOK, StoreTypeOK
  <2>. QED
    BY <1>1, <2>1 DEF SendSet, RedisSet, IInv, TypeOK, StoreTypeOK
<1>3. /\ Progress(r) /\ pc'[r] = "set_sent" /\ answer'[r] # "issued"
      /\ found'[r] = found[r]
  BY <1>1, GotoFacts DEF Stages, IInv, MintInv
<1>4. OthersKeep(r)
  BY <1>1, <1>2, <1>3 DEF OthersKeep, Progress
<1>5. TypeOK'
  BY <1>1, <1>2, <1>3 DEF Progress, IInv, TypeOK, StoreTypeOK
<1>6. MintInv'
  BY <1>1, <1>2, <1>3, <1>4, MintKept DEF MayMint, IInv, MintInv
<1>7. StageInv'
  BY <1>1, <1>2, <1>3, <1>4, StageKept DEF IInv, StageInv
<1>8. EndedInv'
  BY <1>1, <1>2, <1>3, <1>4, EndedKept DEF MayStore, IInv, StageInv, EndedInv
<1>. QED
  BY <1>5, <1>6, <1>7, <1>8 DEF IInv

LEMMA SetConfirmedStep ==
  ASSUME IInv, NEW r \in Requests, SetConfirmed(r)
  PROVE  IInv'
<1>1. /\ pc[r] = "set_sent" /\ fresh[r] \in Sessions
      /\ UNCHANGED <<redisSession, redisRevoked, localSessions, localRevoked>>
      /\ UNCHANGED <<mode, now, expiry, op, worker, sid, fresh, accepted, ended, denied, late>>
  BY DEF SetConfirmed, UnchangedStore, At, IInv, MintInv
<1>2. Respond(r, "issued")
  BY DEF SetConfirmed
<1>3. Progress(r) /\ pc'[r] = "done" /\ ~found'[r]
  BY <1>2, RespondFacts DEF Answers
<1>4. OthersKeep(r)
  BY <1>1, <1>2, <1>3 DEF OthersKeep, Progress
<1>5. TypeOK'
  BY <1>1, <1>2, <1>3 DEF Progress, IInv, TypeOK, StoreTypeOK
<1>6. MintInv'
  BY <1>1, <1>2, <1>3, <1>4, MintKept DEF MayMint, IInv, MintInv
<1>7. StageInv'
  BY <1>1, <1>2, <1>3, <1>4, StageKept DEF IInv, StageInv
<1>8. EndedInv'
  BY <1>1, <1>2, <1>3, <1>4, EndedKept DEF MayStore, IInv, StageInv, EndedInv
<1>. QED
  BY <1>5, <1>6, <1>7, <1>8 DEF IInv

LEMMA SetFailsStep ==
  ASSUME IInv, NEW r \in Requests, SetFails(r)
  PROVE  IInv'
<1>1. /\ pc[r] \in {"set", "set_sent"} /\ fresh[r] \in Sessions /\ worker[r] \in Workers
      /\ UNCHANGED <<redisSession, redisRevoked>>
      /\ UNCHANGED <<mode, now, expiry, op, worker, sid, fresh, accepted, ended, denied, late>>
  BY DEF SetFails, UnchangedRedis, IInv, StageInv, MintInv
<1>2. /\ localSessions' \in [Workers -> SUBSET Sessions]
      /\ localRevoked' \in [Workers -> [Sessions -> Nat]]
  <2>1. UNCHANGED <<localSessions, localRevoked>> \/ LocalSet(worker[r], fresh[r])
    BY DEF SetFails, UnchangedLocal
  <2>. QED
    BY <1>1, <2>1, LocalTypes DEF IInv, TypeOK, StoreTypeOK
<1>3. Progress(r) /\ pc'[r] = "done" /\ ~found'[r]
  BY RespondFacts DEF SetFails, Answers
<1>4. OthersKeep(r)
  BY <1>1, <1>2, <1>3 DEF OthersKeep, Progress
<1>5. TypeOK'
  BY <1>1, <1>2, <1>3 DEF Progress, IInv, TypeOK, StoreTypeOK
<1>6. MintInv'
  BY <1>1, <1>2, <1>3, <1>4, MintKept DEF MayMint, IInv, MintInv
<1>7. StageInv'
  BY <1>1, <1>2, <1>3, <1>4, StageKept DEF IInv, StageInv
<1>8. EndedInv'
  BY <1>1, <1>2, <1>3, <1>4, EndedKept DEF MayStore, IInv, StageInv, EndedInv
<1>. QED
  BY <1>5, <1>6, <1>7, <1>8 DEF IInv

-----------------------------------------------------------------------------
(* A worker dies, or time passes.                                          *)

LEMMA CrashStep ==
  ASSUME IInv, NEW w \in Workers, Crash(w)
  PROVE  IInv'
<1>1. /\ UNCHANGED <<redisSession, redisRevoked>>
      /\ UNCHANGED <<mode, now, expiry, op, worker, sid, fresh, ttl, found, accepted,
                     answer, ended, late>>
      /\ pc' = [r \in Requests |-> IF worker[r] = w /\ pc[r] # "done" THEN "dead" ELSE pc[r]]
      /\ localSessions' = [localSessions EXCEPT ![w] = {}]
      /\ localRevoked'  = [localRevoked EXCEPT ![w] = [s \in Sessions |-> 0]]
      /\ denied' = [denied EXCEPT ![w] = {}]
  BY DEF Crash, UnchangedRedis
<1>2. \A r \in Requests : pc'[r] = "dead" \/ pc'[r] = pc[r]
  BY <1>1
<1>3. \A r \in Requests : pc[r] = "done" => pc'[r] = "done"
  BY <1>1
<1>4. TypeOK'
  <2>1. /\ pc' \in [Requests -> Stages]
        /\ localSessions' \in [Workers -> SUBSET Sessions]
        /\ localRevoked' \in [Workers -> [Sessions -> Nat]]
        /\ denied' \in [Workers -> SUBSET Sessions]
    BY <1>1 DEF IInv, TypeOK, StoreTypeOK, Stages
  <2>. QED
    BY <1>1, <2>1 DEF IInv, TypeOK, StoreTypeOK
<1>5. MintInv'
  BY <1>1, <1>2, <1>3 DEF IInv, MintInv
<1>6. StageInv'
  BY <1>1, <1>2 DEF IInv, StageInv
<1>7. EndedInv'
  BY <1>1, <1>2 DEF IInv, EndedInv
<1>. QED
  BY <1>4, <1>5, <1>6, <1>7 DEF IInv

LEMMA TickStep ==
  ASSUME IInv, Tick
  PROVE  IInv'
<1>1. /\ now' = now + 1
      /\ UNCHANGED <<redisSession, redisRevoked, localSessions, localRevoked>>
      /\ UNCHANGED <<mode, expiry, pc, op, worker, sid, fresh, ttl, found, accepted,
                     answer, ended, denied, late>>
  BY DEF Tick, UnchangedStore, requestVars
<1>. QED
  BY <1>1 DEF IInv, TypeOK, StoreTypeOK, MintInv, StageInv, EndedInv

(* Every step keeps the invariant.                                         *)
LEMMA NextIInv ==
  ASSUME IInv, [Next]_vars
  PROVE  IInv'
<1>1. ASSUME NEW r \in Requests, Step(r)
      PROVE  IInv'
  BY <1>1, LoginStep, ResolveStep, LogoutStep, AskRevokedStep, GetRecordStep,
     RecordArrivesStep, GetFailsStep, EmployeeLoadedStep, EmployeeRefusedStep,
     SendRevokeStep, RevokeConfirmedStep, RevokeFailsStep, SendSetStep,
     SetConfirmedStep, SetFailsStep DEF Step
<1>2. ASSUME NEW w \in Workers, Crash(w)
      PROVE  IInv'
  BY <1>2, CrashStep
<1>3. ASSUME Tick
      PROVE  IInv'
  BY <1>3, TickStep
<1>4. ASSUME UNCHANGED vars
      PROVE  IInv'
  BY <1>4 DEF vars, storeVars, requestVars, IInv, TypeOK, StoreTypeOK, MintInv,
              StageInv, EndedInv
<1>. QED
  BY <1>1, <1>2, <1>3, <1>4 DEF Next

-----------------------------------------------------------------------------
(* The theorems.                                                           *)

(* The inductive invariant holds in every reachable state.                 *)
THEOREM Invariant == Spec => []IInv
<1>. QED
  BY InitIInv, NextIInv, PTL DEF Spec

(* Every variable has its type.                                            *)
THEOREM TypeCorrect == Spec => []TypeOK
<1>1. IInv => TypeOK
  BY DEF IInv
<1>. QED
  BY <1>1, Invariant, PTL

(* With Redis alone, no request that arrives after a response reported its *)
(* session signed out or rotated is accepted, on any worker.               *)
THEOREM EndedStaysEnded == Spec => []EndedSessionIsRefused
<1>1. IInv => EndedSessionIsRefused
  BY DEF IInv, EndedInv, EndedSessionIsRefused
<1>. QED
  BY <1>1, Invariant, PTL

(* A request is accepted only by a step that looks at the token's expiry.  *)
LEMMA AcceptStep ==
  ASSUME IInv, [Next]_vars, NEW r \in Requests, accepted'[r], ~accepted[r]
  PROVE  now < expiry[sid[r]]
<1>1. accepted \in [Requests -> BOOLEAN]
  BY DEF IInv, TypeOK
<1>2. ASSUME NEW q \in Requests, RecordArrives(q)
      PROVE  now < expiry[sid[r]]
  <2>. DEFINE ok == found[q] /\ IsFresh(sid[q])
  <2>1. accepted' = [accepted EXCEPT ![q] = ok]
    BY <1>2 DEF RecordArrives, Conclude
  <2>2. q = r /\ ok
    BY <1>1, <2>1, Zenon
  <2>. QED
    BY <2>2 DEF IsFresh
<1>3. ASSUME NEW q \in Requests, GetFails(q)
      PROVE  now < expiry[sid[r]]
  <2>. DEFINE ok == LocallyHas(worker[q], sid[q])
  <2>1. UNCHANGED accepted \/ accepted' = [accepted EXCEPT ![q] = ok]
    BY <1>3 DEF GetFails, Conclude
  <2>2. q = r /\ ok
    BY <1>1, <2>1, Zenon
  <2>. QED
    BY <2>2 DEF LocallyHas, KeptSessions
<1>4. ASSUME NEW q \in Requests, Step(q), ~RecordArrives(q), ~GetFails(q)
      PROVE  UNCHANGED accepted
  BY <1>4 DEF Step, Login, Resolve, Logout, AskRevoked, GetRecord, EmployeeLoaded,
              EmployeeRefused, SendRevoke, RevokeConfirmed, RevokeFails, SendSet,
              SetConfirmed, SetFails
<1>5. ASSUME \/ \E w \in Workers : Crash(w)
             \/ Tick
             \/ UNCHANGED vars
      PROVE  UNCHANGED accepted
  BY <1>5 DEF Crash, Tick, vars, requestVars
<1>. QED
  BY <1>2, <1>3, <1>4, <1>5 DEF Next

(* No request is accepted with a token that expired while it was waiting   *)
(* for Redis.                                                              *)
THEOREM AcceptedInTime == Spec => AcceptedIsUnexpired
<1>1. IInv /\ [Next]_vars =>
        [\A r \in Requests : accepted'[r] /\ ~accepted[r] => now < expiry[sid[r]]]_vars
  BY AcceptStep
<1>. QED
  BY <1>1, Invariant, PTL DEF Spec, AcceptedIsUnexpired

-----------------------------------------------------------------------------
(* A refresh mints its new session only when the old one is over. What     *)
(* "over" rests on differs by mode: the token has expired, or Redis was    *)
(* told, or the worker's memory was.                                       *)

OldIsOver(r) ==
  \/ ~IsDecodable(sid[r])
  \/ mode = "redis"  /\ sid[r] \in ended
  \/ mode = "memory" /\ sid[r] \notin localSessions[worker[r]]
  \/ mode = "both"

RotInv ==
  \A r \in Requests :
    /\ pc[r] = "idle" => fresh[r] = NoSession
    /\ pc[r] = "revoke_sent" => mode # "memory"
    /\ op[r] = "refresh" => sid[r] \in Sessions /\ worker[r] \in Workers
    /\ op[r] = "refresh" /\ fresh[r] # NoSession => OldIsOver(r)

(* What a step leaves alone: its request's new session may come into a     *)
(* worker's memory, and nothing else does.                                 *)
LocalGrowth(q) ==
  \A w \in Workers : \A s \in localSessions'[w] :
    s \in localSessions[w] \/ (pc[q] \in {"set", "set_sent"} /\ s = fresh[q])

RotFrame(q) ==
  /\ mode' = mode /\ now' = now
  /\ ended \subseteq ended'
  /\ \A s \in Sessions : expiry[s] > 0 => expiry'[s] = expiry[s]
  /\ \A r \in Requests \ {q} :
       /\ pc'[r] = pc[r] /\ op'[r] = op[r] /\ sid'[r] = sid[r]
       /\ worker'[r] = worker[r] /\ fresh'[r] = fresh[r]
  /\ LocalGrowth(q)

LEMMA GrowthFacts ==
  ASSUME IInv, NEW q \in Requests,
         \/ UNCHANGED localSessions
         \/ \E w \in Workers : LocalClean(w)
         \/ \E w \in Workers, s \in Sessions, t \in Nat : LocalDeny(w, s, t)
         \/ \E w \in Workers : LocalSet(w, fresh[q]) /\ pc[q] \in {"set", "set_sent"}
  PROVE  LocalGrowth(q)
<1>. /\ localSessions \in [Workers -> SUBSET Sessions]
     /\ \A w \in Workers : KeptSessions(w) \subseteq localSessions[w]
  BY DEF IInv, TypeOK, StoreTypeOK, KeptSessions
<1>. QED
  BY DEF LocalGrowth, LocalClean, LocalDeny, LocalSet

(* A token that was presented is minted, and no request is storing it.     *)
LEMMA PresentedFacts ==
  ASSUME IInv, NEW r \in Requests, sid[r] \in Sessions
  PROVE  /\ expiry[sid[r]] > 0
         /\ \A q \in Requests : pc[q] \in {"set", "set_sent"} => fresh[q] # sid[r]
BY DEF IInv, MintInv

(* An old session that is over stays over under a step that keeps the      *)
(* session and the worker of its request.                                  *)
LEMMA OverStays ==
  ASSUME IInv, NEW q \in Requests, RotFrame(q), NEW r \in Requests,
         sid[r] \in Sessions, worker[r] \in Workers, OldIsOver(r),
         sid'[r] = sid[r], worker'[r] = worker[r]
  PROVE  OldIsOver(r)'
<1>1. /\ expiry[sid[r]] > 0
      /\ \A p \in Requests : pc[p] \in {"set", "set_sent"} => fresh[p] # sid[r]
  BY PresentedFacts
<1>2. CASE ~IsDecodable(sid[r])
  BY <1>1, <1>2 DEF RotFrame, IsDecodable, OldIsOver
<1>3. CASE mode = "redis" /\ sid[r] \in ended
  BY <1>3 DEF RotFrame, OldIsOver
<1>4. CASE mode = "memory" /\ sid[r] \notin localSessions[worker[r]]
  BY <1>1, <1>4 DEF RotFrame, LocalGrowth, OldIsOver
<1>5. CASE mode = "both"
  BY <1>5 DEF RotFrame, OldIsOver
<1>. QED
  BY <1>2, <1>3, <1>4, <1>5 DEF OldIsOver

(* It is enough to look at the request that takes the step.                *)
LEMMA RotKept ==
  ASSUME IInv, RotInv, NEW q \in Requests, RotFrame(q), pc'[q] # "idle",
         pc'[q] = "revoke_sent" => mode # "memory",
         op'[q] = "refresh" => sid'[q] \in Sessions /\ worker'[q] \in Workers,
         op'[q] = "refresh" /\ fresh'[q] # NoSession => OldIsOver(q)'
  PROVE  RotInv'
<1>1. ASSUME NEW r \in Requests, r # q
      PROVE  /\ pc'[r] = pc[r] /\ op'[r] = op[r] /\ sid'[r] = sid[r]
             /\ worker'[r] = worker[r] /\ fresh'[r] = fresh[r]
  BY <1>1 DEF RotFrame
<1>2. mode' = mode
  BY DEF RotFrame
<1>3. ASSUME NEW r \in Requests, r # q, op[r] = "refresh", fresh[r] # NoSession
      PROVE  OldIsOver(r)'
  BY <1>1, <1>3, OverStays DEF RotInv
<1>. QED
  BY <1>1, <1>2, <1>3 DEF RotInv

LEMMA OwnFieldsKept ==
  ASSUME IInv, RotInv, NEW q \in Requests, RotFrame(q), pc'[q] # "idle",
         pc'[q] = "revoke_sent" => mode # "memory",
         UNCHANGED <<op, sid, worker, fresh>>
  PROVE  RotInv'
<1>1. ASSUME op[q] = "refresh"
      PROVE  sid[q] \in Sessions /\ worker[q] \in Workers
  BY <1>1 DEF RotInv
<1>2. ASSUME op[q] = "refresh", fresh[q] # NoSession
      PROVE  OldIsOver(q)'
  BY <1>1, <1>2, OverStays DEF RotInv
<1>. QED
  BY <1>1, <1>2, RotKept

(* Steps that neither mint nor take in a token.                            *)
LEMMA RotQuiet ==
  ASSUME IInv, RotInv, NEW q \in Requests,
         \/ AskRevoked(q) \/ GetRecord(q) \/ RecordArrives(q) \/ GetFails(q)
         \/ EmployeeRefused(q) \/ SendRevoke(q)
         \/ SendSet(q) \/ SetConfirmed(q) \/ SetFails(q)
  PROVE  RotInv'
<1>1. /\ UNCHANGED <<op, sid, worker, fresh, mode, now, expiry, ended>>
      /\ UNCHANGED localSessions \/ LocalClean(worker[q])
         \/ (LocalSet(worker[q], fresh[q]) /\ pc[q] \in {"set", "set_sent"})
      /\ pc[q] # "idle"
  BY DEF AskRevoked, GetRecord, RecordArrives, GetFails, EmployeeRefused, SendRevoke,
         SendSet, SetConfirmed, SetFails, At, UnchangedStore, UnchangedLocal
<1>2. worker[q] \in Workers \/ UNCHANGED localSessions
  BY <1>1 DEF GetFails, SetFails, AskRevoked, GetRecord, RecordArrives, EmployeeRefused,
              SendRevoke, SendSet, SetConfirmed, UnchangedStore, UnchangedLocal,
              IInv, StageInv
<1>3. LocalGrowth(q)
  BY <1>1, <1>2, GrowthFacts
<1>4. /\ \A r \in Requests \ {q} : pc'[r] = pc[r]
      /\ pc'[q] # "idle"
      /\ pc'[q] = "revoke_sent" => mode # "memory"
  BY DEF AskRevoked, GetRecord, RecordArrives, GetFails, EmployeeRefused, SendRevoke,
         SendSet, SetConfirmed, SetFails, Conclude, Respond, Goto, IInv, TypeOK
<1>5. RotFrame(q)
  BY <1>1, <1>3, <1>4 DEF RotFrame
<1>. QED
  BY <1>1, <1>4, <1>5, OwnFieldsKept

LEMMA RotLogin ==
  ASSUME IInv, RotInv, NEW q \in Requests, NEW w \in Workers, Login(q, w)
  PROVE  RotInv'
<1>1. /\ pc' = [pc EXCEPT ![q] = "set"] /\ op' = [op EXCEPT ![q] = "login"]
      /\ worker' = [worker EXCEPT ![q] = w]
      /\ UNCHANGED <<mode, now, sid, ended, localSessions>>
  BY DEF Login, Goto, UnchangedStore
<1>2. /\ \A s \in Sessions : expiry[s] > 0 => expiry'[s] = expiry[s]
      /\ \A r \in Requests \ {q} : fresh'[r] = fresh[r]
  BY MintFacts DEF Login
<1>3. LocalGrowth(q)
  BY <1>1, GrowthFacts
<1>4. pc'[q] = "set" /\ op'[q] = "login"
  BY <1>1 DEF IInv, TypeOK
<1>5. RotFrame(q)
  BY <1>1, <1>2, <1>3 DEF RotFrame, IInv, TypeOK
<1>. QED
  BY <1>4, <1>5, RotKept

LEMMA RotArrive ==
  ASSUME IInv, RotInv, NEW q \in Requests, NEW w \in Workers, NEW s \in Delivered,
         Resolve(q, w, s) \/ Logout(q, w, s)
  PROVE  RotInv'
<1>1. PICK route \in {"session", "logout", "refresh"} : Arrive(q, route, w, s)
  BY DEF Resolve, Logout
<1>2. /\ pc[q] = "idle" /\ s \in Sessions
      /\ worker'[q] = w /\ sid'[q] = s
      /\ \A r \in Requests \ {q} : worker'[r] = worker[r] /\ sid'[r] = sid[r]
  BY <1>1, ArriveFacts
<1>3. \A r \in Requests \ {q} : op'[r] = op[r]
  BY <1>1 DEF Arrive, IInv, TypeOK
<1>4. UNCHANGED <<mode, now, expiry, fresh, ended>>
  BY DEF Resolve, Logout
<1>5. UNCHANGED localSessions \/ LocalClean(w)
  BY DEF Resolve, Logout, UnchangedStore, UnchangedLocal
<1>6. LocalGrowth(q)
  BY <1>5, GrowthFacts
<1>7. pc'[q] \in {"done", "exists", "revoke"} /\ \A r \in Requests \ {q} : pc'[r] = pc[r]
  BY DEF Resolve, Logout, Respond, Goto, IInv, TypeOK
<1>8. RotFrame(q)
  BY <1>2, <1>3, <1>4, <1>6, <1>7 DEF RotFrame
<1>9. fresh'[q] = NoSession
  BY <1>2, <1>4 DEF RotInv
<1>. QED
  BY <1>2, <1>7, <1>8, <1>9, RotKept

(* The refresh goes on: an old token that has expired meanwhile needs no   *)
(* revocation.                                                             *)
LEMMA RotLoaded ==
  ASSUME IInv, RotInv, NEW q \in Requests, EmployeeLoaded(q)
  PROVE  RotInv'
<1>1. /\ sid[q] \in Sessions /\ worker[q] \in Workers
      /\ UNCHANGED <<mode, now, op, worker, sid, ended, localSessions>>
  BY DEF EmployeeLoaded, UnchangedStore, At, IInv, StageInv
<1>2. LocalGrowth(q)
  BY <1>1, GrowthFacts
<1>3. pc'[q] \in {"revoke", "set"} /\ \A r \in Requests \ {q} : pc'[r] = pc[r]
  BY DEF EmployeeLoaded, Goto, IInv, TypeOK
<1>4. CASE IsDecodable(sid[q])
  <2>1. UNCHANGED <<expiry, fresh>>
    BY <1>4 DEF EmployeeLoaded
  <2>2. RotFrame(q)
    BY <1>1, <1>2, <1>3, <2>1 DEF RotFrame
  <2>. QED
    BY <1>1, <1>3, <2>1, <2>2, OwnFieldsKept
<1>5. CASE ~IsDecodable(sid[q])
  <2>1. /\ \A s \in Sessions : expiry[s] > 0 => expiry'[s] = expiry[s]
        /\ \A r \in Requests \ {q} : fresh'[r] = fresh[r]
    BY <1>5, MintFacts DEF EmployeeLoaded
  <2>2. RotFrame(q)
    BY <1>1, <1>2, <1>3, <2>1 DEF RotFrame
  <2>3. expiry'[sid[q]] = expiry[sid[q]]
    BY <1>1, <2>1, PresentedFacts
  <2>4. OldIsOver(q)'
    BY <1>1, <1>5, <2>3 DEF OldIsOver, IsDecodable
  <2>. QED
    BY <1>1, <1>3, <2>2, <2>4, RotKept
<1>. QED
  BY <1>4, <1>5

(* destroy returned.                                                       *)
LEMMA RotRevoked ==
  ASSUME IInv, RotInv, NEW q \in Requests, Revoked(q), sid[q] \in Sessions,
         worker[q] \in Workers, LocalGrowth(q),
         UNCHANGED <<mode, now, op, worker, sid>>,
         mode = "memory" => sid[q] \notin localSessions'[worker[q]]
  PROVE  RotInv'
<1>1. ended' = ended \cup {sid[q]}
  BY DEF Revoked
<1>2. OldIsOver(q)'
  BY <1>1 DEF OldIsOver, IInv, TypeOK, StoreTypeOK, Modes
<1>3. /\ \A s \in Sessions : expiry[s] > 0 => expiry'[s] = expiry[s]
      /\ \A r \in Requests \ {q} : fresh'[r] = fresh[r]
  BY MintFacts DEF Revoked
<1>4. pc'[q] \in {"done", "set"} /\ \A r \in Requests \ {q} : pc'[r] = pc[r]
  BY DEF Revoked, Respond, Goto, IInv, TypeOK
<1>5. RotFrame(q)
  BY <1>1, <1>3, <1>4 DEF RotFrame
<1>. QED
  BY <1>2, <1>4, <1>5, RotKept

LEMMA RotRevokeConfirmed ==
  ASSUME IInv, RotInv, NEW q \in Requests, RevokeConfirmed(q)
  PROVE  RotInv'
<1>1. /\ pc[q] = "revoke_sent" /\ sid[q] \in Sessions /\ worker[q] \in Workers
      /\ Revoked(q) /\ UNCHANGED <<mode, now, op, worker, sid, localSessions>>
  BY DEF RevokeConfirmed, UnchangedStore, At, IInv, StageInv
<1>2. LocalGrowth(q) /\ mode # "memory"
  BY <1>1, GrowthFacts DEF RotInv
<1>. QED
  BY <1>1, <1>2, RotRevoked

LEMMA RotRevokeFails ==
  ASSUME IInv, RotInv, NEW q \in Requests, RevokeFails(q)
  PROVE  RotInv'
<1>1. /\ sid[q] \in Sessions /\ worker[q] \in Workers /\ ttl[q] \in Nat
      /\ LocalDeny(worker[q], sid[q], ttl[q])
      /\ UNCHANGED <<mode, now, op, worker, sid>>
  BY DEF RevokeFails, IInv, StageInv, TypeOK
<1>2. LocalGrowth(q)
  BY <1>1, GrowthFacts
<1>3. sid[q] \notin localSessions'[worker[q]]
  BY <1>1 DEF LocalDeny, IInv, TypeOK, StoreTypeOK
<1>4. CASE FailsClosed
  <2>1. Respond(q, "unavailable") /\ UNCHANGED <<expiry, fresh, ended>>
    BY <1>4 DEF RevokeFails
  <2>2. pc'[q] = "done" /\ \A r \in Requests \ {q} : pc'[r] = pc[r]
    BY <2>1 DEF Respond, Goto, IInv, TypeOK
  <2>3. RotFrame(q)
    BY <1>1, <1>2, <2>1, <2>2 DEF RotFrame
  <2>. QED
    BY <1>1, <2>1, <2>2, <2>3, OwnFieldsKept
<1>5. CASE ~FailsClosed
  <2>1. Revoked(q)
    BY <1>5 DEF RevokeFails
  <2>. QED
    BY <1>1, <1>2, <1>3, <2>1, RotRevoked
<1>. QED
  BY <1>4, <1>5

(* A crash clears the worker's memory, and time only ends tokens.          *)
LEMMA RotCrash ==
  ASSUME IInv, RotInv, NEW w \in Workers, Crash(w)
  PROVE  RotInv'
<1>1. /\ UNCHANGED <<mode, now, expiry, op, worker, sid, fresh, ended>>
      /\ pc' = [r \in Requests |-> IF worker[r] = w /\ pc[r] # "done" THEN "dead" ELSE pc[r]]
      /\ localSessions' = [localSessions EXCEPT ![w] = {}]
  BY DEF Crash
<1>2. \A r \in Requests : pc'[r] = pc[r] \/ pc'[r] = "dead"
  BY <1>1
<1>3. \A v \in Workers : localSessions'[v] \subseteq localSessions[v]
  BY <1>1 DEF IInv, TypeOK, StoreTypeOK
<1>. QED
  BY <1>1, <1>2, <1>3 DEF RotInv, OldIsOver, IsDecodable

LEMMA RotTick ==
  ASSUME IInv, RotInv, Tick
  PROVE  RotInv'
<1>1. /\ now' = now + 1 /\ now \in Nat /\ expiry \in [Sessions -> Nat]
      /\ UNCHANGED <<mode, expiry, pc, op, worker, sid, fresh, ended, localSessions>>
  BY DEF Tick, UnchangedStore, requestVars, IInv, TypeOK, StoreTypeOK
<1>2. ASSUME NEW r \in Requests, sid[r] \in Sessions, OldIsOver(r)
      PROVE  OldIsOver(r)'
  BY <1>1, <1>2 DEF OldIsOver, IsDecodable
<1>. QED
  BY <1>1, <1>2 DEF RotInv

LEMMA NextRotInv ==
  ASSUME IInv, RotInv, [Next]_vars
  PROVE  RotInv'
<1>1. ASSUME NEW q \in Requests, Step(q)
      PROVE  RotInv'
  BY <1>1, RotQuiet, RotLogin, RotArrive, RotLoaded, RotRevokeConfirmed, RotRevokeFails
     DEF Step
<1>2. ASSUME NEW w \in Workers, Crash(w)
      PROVE  RotInv'
  BY <1>2, RotCrash
<1>3. ASSUME Tick
      PROVE  RotInv'
  BY <1>3, RotTick
<1>4. ASSUME UNCHANGED vars
      PROVE  RotInv'
  BY <1>4 DEF vars, storeVars, requestVars, RotInv, OldIsOver, IsDecodable
<1>. QED
  BY <1>1, <1>2, <1>3, <1>4 DEF Next

(* A refresh mints its new session only when the old one can no longer be  *)
(* resolved in Redis, or in the memory of the worker that serves it.       *)
THEOREM RotationsEnd == Spec => []RotationEndsOldSession
<1>1. Init => RotInv
  BY DEF Init, RotInv
<1>2. IInv /\ RotInv => RotationEndsOldSession
  <2>. SUFFICES ASSUME IInv, RotInv, NEW r \in Requests,
                       op[r] = "refresh", fresh[r] # NoSession
                PROVE  /\ mode = "redis" => ~(RedisHas(sid[r]) /\ IsDecodable(sid[r]))
                       /\ mode = "memory" => ~LocallyHas(worker[r], sid[r])
    BY DEF RotationEndsOldSession, IInv, TypeOK, StoreTypeOK, Modes
  <2>1. OldIsOver(r) /\ sid[r] \in Sessions
    BY DEF RotInv
  <2>2. mode = "redis" /\ sid[r] \in ended => ~RedisHas(sid[r])
    BY DEF IInv, EndedInv, RedisHas, TypeOK, StoreTypeOK
  <2>3. LocallyHas(worker[r], sid[r]) =>
          IsDecodable(sid[r]) /\ sid[r] \in localSessions[worker[r]]
    BY DEF LocallyHas, KeptSessions, IsDecodable
  <2>. QED
    BY <2>1, <2>2, <2>3 DEF OldIsOver
<1>3. IInv /\ RotInv /\ [Next]_vars => RotInv'
  BY NextRotInv
<1>. QED
  BY <1>1, <1>2, <1>3, Invariant, PTL DEF Spec

-----------------------------------------------------------------------------
(* A denial in a worker's memory lasts as long as the token it denies, but *)
(* for the part of a second that int() cuts off.                           *)

LastSecond(s) == expiry[s] - now < Second

DenialHolds(w, s) == LastSecond(s) \/ localRevoked[w][s] + Second > expiry[s]

DenyInv ==
  /\ \A w \in Workers : \A s \in denied[w] : IsDelivered(s) /\ DenialHolds(w, s)
  /\ \A r \in Requests :
       /\ pc[r] \in {"revoke", "revoke_sent"} =>
            now + ttl[r] + Second > expiry[sid[r]]
       /\ pc[r] \in {"exists", "get", "got"} /\ late[r].denied => LastSecond(sid[r])

LEMMA CutLifetime ==
  ASSUME NEW t \in Nat
  PROVE  WholeSeconds(t) + Second > t
<1>1. Second \in Nat /\ Second > 0
  BY StoreAssumption
<1>2. t = (t \div Second) * Second + (t % Second) /\ t % Second < Second /\ t % Second \in Nat
      /\ (t \div Second) * Second \in Nat
  BY <1>1
<1>. QED
  BY <1>1, <1>2 DEF WholeSeconds

(* What a worker remembers of a denial: it stays, has run out, is about    *)
(* the session that the request stores, or is long enough.                 *)
DenialsChange(q) ==
  \A w \in Workers, s \in Sessions :
    \/ localRevoked'[w][s] = localRevoked[w][s]
    \/ localRevoked[w][s] <= now
    \/ pc[q] \in {"set", "set_sent"} /\ s = fresh[q]
    \/ localRevoked'[w][s] + Second > expiry[s]

DenyFrame(q) ==
  /\ now' = now
  /\ \A s \in Sessions : expiry[s] > 0 => expiry'[s] = expiry[s]
  /\ \A r \in Requests \ {q} :
       /\ pc'[r] = pc[r] /\ sid'[r] = sid[r] /\ ttl'[r] = ttl[r]
       /\ late'[r] = late[r] /\ fresh'[r] = fresh[r]
  /\ DenialsChange(q)
  /\ pc[q] # "done" /\ pc'[q] # "idle"

LEMMA ChangeFacts ==
  ASSUME IInv, NEW q \in Requests,
         \/ UNCHANGED localRevoked
         \/ \E w \in Workers : LocalClean(w)
         \/ \E w \in Workers : LocalSet(w, fresh[q]) /\ pc[q] \in {"set", "set_sent"}
         \/ \E w \in Workers, s \in Sessions, t \in Nat :
              LocalDeny(w, s, t) /\ now + t + Second > expiry[s]
  PROVE  DenialsChange(q)
<1>0. /\ localRevoked \in [Workers -> [Sessions -> Nat]] /\ now \in Nat
      /\ \A w \in Workers : DOMAIN KeptDenials(w) = Sessions
      /\ \A w \in Workers, s \in Sessions :
           KeptDenials(w)[s] = localRevoked[w][s] \/ localRevoked[w][s] <= now
  BY DEF IInv, TypeOK, StoreTypeOK, KeptDenials
<1>1. ASSUME NEW w \in Workers, LocalClean(w)
      PROVE  DenialsChange(q)
  <2>1. \A v \in Workers, s \in Sessions :
          localRevoked'[v][s] = localRevoked[v][s] \/ (v = w /\ localRevoked'[v][s] = KeptDenials(w)[s])
    BY <1>0, <1>1 DEF LocalClean
  <2>. QED
    BY <1>0, <2>1 DEF DenialsChange
<1>2. ASSUME NEW w \in Workers, LocalSet(w, fresh[q]), pc[q] \in {"set", "set_sent"}
      PROVE  DenialsChange(q)
  <2>1. \A v \in Workers, s \in Sessions :
          \/ localRevoked'[v][s] = localRevoked[v][s]
          \/ v = w /\ localRevoked'[v][s] = KeptDenials(w)[s]
          \/ s = fresh[q]
    BY <1>0, <1>2 DEF LocalSet
  <2>. QED
    BY <1>0, <1>2, <2>1 DEF DenialsChange
<1>3. ASSUME NEW w \in Workers, NEW s \in Sessions, NEW t \in Nat, LocalDeny(w, s, t),
             now + t + Second > expiry[s]
      PROVE  DenialsChange(q)
  <2>1. \A v \in Workers, x \in Sessions :
          \/ localRevoked'[v][x] = localRevoked[v][x]
          \/ v = w /\ localRevoked'[v][x] = KeptDenials(w)[x]
          \/ x = s /\ localRevoked'[v][x] = now + t
    BY <1>0, <1>3 DEF LocalDeny
  <2>. QED
    BY <1>0, <1>3, <2>1 DEF DenialsChange
<1>. QED
  BY <1>1, <1>2, <1>3 DEF DenialsChange

(* It is enough to look at the request that takes the step, and at what    *)
(* its worker denies now.                                                  *)
LEMMA DenyKept ==
  ASSUME IInv, DenyInv, NEW q \in Requests, DenyFrame(q),
         pc'[q] \in {"revoke", "revoke_sent"} =>
           now + ttl'[q] + Second > expiry'[sid'[q]],
         pc'[q] \in {"exists", "get", "got"} /\ late'[q].denied => LastSecond(sid[q])',
         \A w \in Workers : \A s \in denied'[w] :
           s \in denied[w] \/ (IsDelivered(s) /\ localRevoked'[w][s] + Second > expiry[s])
  PROVE  DenyInv'
<1>1. ASSUME NEW s, IsDelivered(s)
      PROVE  /\ expiry[s] > 0 /\ expiry'[s] = expiry[s]
             /\ \A p \in Requests : pc[p] \in {"set", "set_sent"} => fresh[p] # s
             /\ IsDelivered(s)'
  BY <1>1 DEF IsDelivered, DenyFrame, IInv, MintInv
<1>2. /\ now \in Nat /\ now' = now /\ expiry \in [Sessions -> Nat] /\ Second \in Nat
      /\ localRevoked \in [Workers -> [Sessions -> Nat]]
  BY StoreAssumption DEF DenyFrame, IInv, TypeOK, StoreTypeOK
<1>3. ASSUME NEW w \in Workers, NEW s \in denied'[w]
      PROVE  IsDelivered(s)' /\ DenialHolds(w, s)'
  <2>1. CASE s \in denied[w]
    <3>1. IsDelivered(s) /\ DenialHolds(w, s) /\ s \in Sessions
      BY <2>1 DEF DenyInv, IsDelivered
    <3>2. \/ localRevoked'[w][s] = localRevoked[w][s]
          \/ localRevoked[w][s] <= now
          \/ localRevoked'[w][s] + Second > expiry[s]
      BY <1>1, <3>1 DEF DenyFrame, DenialsChange
    <3>. QED
      BY <1>1, <1>2, <3>1, <3>2 DEF DenialHolds, LastSecond
  <2>2. CASE IsDelivered(s) /\ localRevoked'[w][s] + Second > expiry[s]
    BY <1>1, <2>2 DEF DenialHolds
  <2>. QED
    BY <1>3, <2>1, <2>2
<1>4. ASSUME NEW r \in Requests, r # q
      PROVE  /\ pc'[r] \in {"revoke", "revoke_sent"} =>
                  now' + ttl'[r] + Second > expiry'[sid'[r]]
             /\ pc'[r] \in {"exists", "get", "got"} /\ late'[r].denied => LastSecond(sid[r])'
  <2>1. /\ pc'[r] = pc[r] /\ sid'[r] = sid[r] /\ ttl'[r] = ttl[r] /\ late'[r] = late[r]
    BY <1>4 DEF DenyFrame
  <2>2. pc[r] \in {"revoke", "revoke_sent", "exists", "get", "got"} =>
          expiry'[sid[r]] = expiry[sid[r]]
    BY <1>1 DEF IsDelivered, IInv, StageInv, MintInv
  <2>. QED
    BY <1>2, <2>1, <2>2 DEF DenyInv, LastSecond
<1>. QED
  BY <1>2, <1>3, <1>4 DEF DenyInv

(* Steps that keep the session of their request and deny nothing.          *)
LEMMA DenyQuiet ==
  ASSUME IInv, DenyInv, NEW q \in Requests,
         \/ AskRevoked(q) \/ GetRecord(q) \/ RecordArrives(q) \/ GetFails(q)
         \/ EmployeeRefused(q) \/ SendRevoke(q)
         \/ SendSet(q) \/ SetConfirmed(q) \/ SetFails(q)
  PROVE  DenyInv'
<1>1. /\ UNCHANGED <<sid, late, fresh, now, expiry, denied>>
      /\ UNCHANGED localRevoked \/ LocalClean(worker[q])
         \/ (LocalSet(worker[q], fresh[q]) /\ pc[q] \in {"set", "set_sent"})
      /\ pc[q] \notin {"idle", "done"}
  BY DEF AskRevoked, GetRecord, RecordArrives, GetFails, EmployeeRefused, SendRevoke,
         SendSet, SetConfirmed, SetFails, At, UnchangedStore, UnchangedLocal
<1>2. worker[q] \in Workers \/ UNCHANGED localRevoked
  BY <1>1 DEF GetFails, SetFails, AskRevoked, GetRecord, RecordArrives, EmployeeRefused,
              SendRevoke, SendSet, SetConfirmed, UnchangedStore, UnchangedLocal,
              IInv, StageInv
<1>3. DenialsChange(q)
  BY <1>1, <1>2, ChangeFacts
<1>4. /\ \A r \in Requests \ {q} : pc'[r] = pc[r] /\ ttl'[r] = ttl[r]
      /\ pc'[q] # "idle"
  BY DEF AskRevoked, GetRecord, RecordArrives, GetFails, EmployeeRefused, SendRevoke,
         SendSet, SetConfirmed, SetFails, Conclude, Respond, Goto, IInv, TypeOK
<1>5. /\ pc'[q] \in {"revoke", "revoke_sent"} => pc[q] = "revoke" /\ ttl'[q] = ttl[q]
      /\ pc'[q] \in {"exists", "get", "got"} => pc[q] \in {"exists", "get"}
  BY DEF AskRevoked, GetRecord, RecordArrives, GetFails, EmployeeRefused, SendRevoke,
         SendSet, SetConfirmed, SetFails, Conclude, Respond, Goto, At, IInv, TypeOK
<1>6. DenyFrame(q)
  BY <1>1, <1>3, <1>4 DEF DenyFrame
<1>7. pc'[q] \in {"revoke", "revoke_sent"} => now + ttl'[q] + Second > expiry'[sid'[q]]
  BY <1>1, <1>5 DEF DenyInv
<1>8. pc'[q] \in {"exists", "get", "got"} /\ late'[q].denied => LastSecond(sid[q])'
  BY <1>1, <1>5 DEF DenyInv, LastSecond
<1>. QED
  BY <1>1, <1>6, <1>7, <1>8, DenyKept

LEMMA DenyLogin ==
  ASSUME IInv, DenyInv, NEW q \in Requests, NEW w \in Workers, Login(q, w)
  PROVE  DenyInv'
<1>1. /\ pc[q] = "idle" /\ pc' = [pc EXCEPT ![q] = "set"]
      /\ UNCHANGED <<now, sid, late, denied, localRevoked>>
  BY DEF Login, Goto, At, UnchangedStore
<1>2. /\ \A s \in Sessions : expiry[s] > 0 => expiry'[s] = expiry[s]
      /\ \A r \in Requests \ {q} : fresh'[r] = fresh[r]
  BY MintFacts DEF Login
<1>3. \A r \in Requests \ {q} : ttl'[r] = ttl[r]
  BY DEF Login, Mint, IInv, TypeOK
<1>4. DenialsChange(q) /\ pc'[q] = "set"
  BY <1>1, ChangeFacts DEF IInv, TypeOK
<1>5. DenyFrame(q)
  BY <1>1, <1>2, <1>3, <1>4 DEF DenyFrame, IInv, TypeOK
<1>. QED
  BY <1>1, <1>4, <1>5, DenyKept

(* A request that its worker has denied the session of goes on to Redis    *)
(* only in the last second of the token.                                   *)
LEMMA DenyResolve ==
  ASSUME IInv, DenyInv, NEW q \in Requests, NEW w \in Workers, NEW s \in Delivered,
         Resolve(q, w, s)
  PROVE  DenyInv'
<1>1. PICK route \in {"session", "logout", "refresh"} : Arrive(q, route, w, s)
  BY DEF Resolve
<1>2. /\ pc[q] = "idle" /\ s \in Sessions /\ sid'[q] = s
      /\ \A r \in Requests \ {q} : sid'[r] = sid[r] /\ late'[r] = late[r]
  BY <1>1, ArriveFacts
<1>3. late'[q].denied => s \in denied[w]
  BY <1>1 DEF Arrive, IInv, TypeOK
<1>4. /\ UNCHANGED <<now, expiry, fresh, denied>>
      /\ UNCHANGED localRevoked \/ LocalClean(w)
  BY DEF Resolve, UnchangedLocal
<1>5. DenialsChange(q)
  BY <1>4, ChangeFacts
<1>6. /\ \A r \in Requests \ {q} : pc'[r] = pc[r] /\ ttl'[r] = ttl[r]
      /\ pc'[q] \in {"done", "exists"}
      /\ pc'[q] = "exists" => ~IsDenied(w, s)
  BY DEF Resolve, Respond, Goto, IInv, TypeOK
<1>7. DenyFrame(q)
  BY <1>2, <1>4, <1>5, <1>6 DEF DenyFrame
<1>8. pc'[q] \in {"exists", "get", "got"} /\ late'[q].denied => LastSecond(sid[q])'
  <2>. SUFFICES ASSUME pc'[q] = "exists", late'[q].denied
                PROVE  LastSecond(s)
    BY <1>2, <1>4, <1>6 DEF LastSecond
  <2>1. DenialHolds(w, s)
    BY <1>3 DEF DenyInv
  <2>2. localRevoked[w][s] <= now
    BY <1>2, <1>6 DEF IsDenied, KeptDenials, IInv, TypeOK, StoreTypeOK
  <2>. QED
    BY <1>2, <2>1, <2>2, StoreAssumption DEF DenialHolds, LastSecond, IInv, TypeOK, StoreTypeOK
<1>. QED
  BY <1>4, <1>6, <1>7, <1>8, DenyKept

LEMMA DenyLogout ==
  ASSUME IInv, DenyInv, NEW q \in Requests, NEW w \in Workers, NEW s \in Delivered,
         Logout(q, w, s)
  PROVE  DenyInv'
<1>1. Arrive(q, "logout", w, s)
  BY DEF Logout
<1>2. /\ pc[q] = "idle" /\ s \in Sessions /\ sid'[q] = s
      /\ \A r \in Requests \ {q} : sid'[r] = sid[r] /\ late'[r] = late[r]
  BY <1>1, ArriveFacts
<1>3. UNCHANGED <<now, expiry, fresh, denied, localRevoked>>
  BY DEF Logout, UnchangedStore
<1>4. /\ \A r \in Requests \ {q} : pc'[r] = pc[r] /\ ttl'[r] = ttl[r]
      /\ pc'[q] \in {"done", "revoke"}
      /\ pc'[q] = "revoke" =>
           IsDecodable(s) /\ ttl' = [ttl EXCEPT ![q] = WholeSeconds(expiry[s] - now)]
  BY DEF Logout, Respond, Goto, IInv, TypeOK
<1>5. DenyFrame(q)
  BY <1>2, <1>3, <1>4, ChangeFacts DEF DenyFrame
<1>6. pc'[q] = "revoke" => now + ttl'[q] + Second > expiry'[sid'[q]]
  <2>. SUFFICES ASSUME pc'[q] = "revoke"
                PROVE  now + ttl'[q] + Second > expiry[s]
    BY <1>2, <1>3
  <2>. DEFINE t == expiry[s] - now
  <2>1. now \in Nat /\ expiry[s] \in Nat /\ DOMAIN ttl = Requests
    BY <1>2 DEF IInv, TypeOK, StoreTypeOK
  <2>2. t \in Nat /\ expiry[s] = now + t
    BY <1>4, <2>1 DEF IsDecodable
  <2>3. ttl' = [ttl EXCEPT ![q] = WholeSeconds(t)]
    BY <1>4
  <2>. HIDE DEF t
  <2>4. t \in Nat /\ ttl'[q] = WholeSeconds(t) /\ now \in Nat /\ expiry[s] = now + t
    BY <2>3, <2>1, <2>2
  <2>5. WholeSeconds(t) + Second > t /\ WholeSeconds(t) \in Nat
    BY <2>4, CutLifetime, Lifetime
  <2>6. Second \in Nat
    BY StoreAssumption
  <2>7. now + WholeSeconds(t) + Second > now + t
    BY <2>4, <2>5, <2>6
  <2>. QED
    BY <2>4, <2>7
<1>. QED
  BY <1>3, <1>4, <1>5, <1>6, DenyKept

LEMMA DenyLoaded ==
  ASSUME IInv, DenyInv, NEW q \in Requests, EmployeeLoaded(q)
  PROVE  DenyInv'
<1>1. /\ pc[q] = "load" /\ sid[q] \in Sessions
      /\ UNCHANGED <<now, sid, late, denied, localRevoked>>
  BY DEF EmployeeLoaded, UnchangedStore, At, IInv, StageInv
<1>2. /\ \A r \in Requests \ {q} : pc'[r] = pc[r]
      /\ pc'[q] \in {"revoke", "set"}
      /\ pc'[q] = "revoke" => IsDecodable(sid[q])
  BY DEF EmployeeLoaded, Goto, IInv, TypeOK
<1>3. /\ \A s \in Sessions : expiry[s] > 0 => expiry'[s] = expiry[s]
      /\ \A r \in Requests \ {q} : fresh'[r] = fresh[r]
  BY MintFacts DEF EmployeeLoaded
<1>4. \A r \in Requests \ {q} : ttl'[r] = ttl[r]
  BY DEF EmployeeLoaded, Mint, IInv, TypeOK
<1>5. DenyFrame(q)
  BY <1>1, <1>2, <1>3, <1>4, ChangeFacts DEF DenyFrame
<1>6. pc'[q] = "revoke" => now + ttl'[q] + Second > expiry'[sid'[q]]
  <2>. SUFFICES ASSUME pc'[q] = "revoke"
                PROVE  now + ttl'[q] + Second > expiry[sid[q]]
    BY <1>1, <1>3, PresentedFacts
  <2>. DEFINE t == expiry[sid[q]] - now
  <2>1. ttl' = [ttl EXCEPT ![q] = WholeSeconds(t)]
    BY <1>2 DEF EmployeeLoaded
  <2>2. now \in Nat /\ expiry[sid[q]] \in Nat /\ DOMAIN ttl = Requests
    BY <1>1 DEF IInv, TypeOK, StoreTypeOK
  <2>3. t \in Nat /\ expiry[sid[q]] = now + t
    BY <1>2, <2>2 DEF IsDecodable
  <2>. HIDE DEF t
  <2>4. t \in Nat /\ ttl'[q] = WholeSeconds(t) /\ now \in Nat /\ expiry[sid[q]] = now + t
    BY <2>1, <2>2, <2>3
  <2>5. WholeSeconds(t) + Second > t /\ WholeSeconds(t) \in Nat
    BY <2>4, CutLifetime, Lifetime
  <2>6. Second \in Nat
    BY StoreAssumption
  <2>7. now + WholeSeconds(t) + Second > now + t
    BY <2>4, <2>5, <2>6
  <2>. QED
    BY <2>4, <2>7
<1>. QED
  BY <1>1, <1>2, <1>5, <1>6, DenyKept

LEMMA DenyRevoked ==
  ASSUME IInv, NEW q \in Requests, Revoked(q)
  PROVE  /\ \A s \in Sessions : expiry[s] > 0 => expiry'[s] = expiry[s]
         /\ \A r \in Requests \ {q} :
              fresh'[r] = fresh[r] /\ pc'[r] = pc[r] /\ ttl'[r] = ttl[r]
         /\ pc'[q] \in {"done", "set"}
<1>1. /\ \A s \in Sessions : expiry[s] > 0 => expiry'[s] = expiry[s]
      /\ \A r \in Requests \ {q} : fresh'[r] = fresh[r]
  BY MintFacts DEF Revoked
<1>2. /\ \A r \in Requests \ {q} : pc'[r] = pc[r] /\ ttl'[r] = ttl[r]
      /\ pc'[q] \in {"done", "set"}
  BY DEF Revoked, Respond, Goto, Mint, IInv, TypeOK
<1>. QED
  BY <1>1, <1>2

LEMMA DenyRevokeConfirmed ==
  ASSUME IInv, DenyInv, NEW q \in Requests, RevokeConfirmed(q)
  PROVE  DenyInv'
<1>1. /\ pc[q] = "revoke_sent" /\ Revoked(q)
      /\ UNCHANGED <<now, sid, late, denied, localRevoked>>
  BY DEF RevokeConfirmed, UnchangedStore, At
<1>2. DenyFrame(q) /\ pc'[q] \in {"done", "set"}
  BY <1>1, DenyRevoked, ChangeFacts DEF DenyFrame
<1>. QED
  BY <1>1, <1>2, DenyKept

(* The worker denies the session for what was left of it.                  *)
LEMMA DenyRevokeFails ==
  ASSUME IInv, DenyInv, NEW q \in Requests, RevokeFails(q)
  PROVE  DenyInv'
<1>. DEFINE w == worker[q]
            s == sid[q]
<1>1. /\ pc[q] \in {"revoke", "revoke_sent"} /\ s \in Sessions /\ w \in Workers
      /\ ttl[q] \in Nat /\ now + ttl[q] + Second > expiry[s]
      /\ LocalDeny(w, s, ttl[q]) /\ IsDelivered(s)
      /\ UNCHANGED <<now, sid, late>>
  BY DEF RevokeFails, IInv, StageInv, MintInv, TypeOK, DenyInv, IsDelivered
<1>2. denied' = [denied EXCEPT ![w] = @ \cup {s}]
  BY DEF RevokeFails
<1>3. localRevoked'[w][s] = now + ttl[q]
  BY <1>1 DEF LocalDeny, KeptDenials, IInv, TypeOK, StoreTypeOK
<1>. HIDE DEF w, s
<1>4. DenialsChange(q)
  BY <1>1, ChangeFacts
<1>5. /\ \A x \in Sessions : expiry[x] > 0 => expiry'[x] = expiry[x]
      /\ \A r \in Requests \ {q} :
           fresh'[r] = fresh[r] /\ pc'[r] = pc[r] /\ ttl'[r] = ttl[r]
      /\ pc'[q] \in {"done", "set"}
  <2>1. CASE FailsClosed
    BY <2>1 DEF RevokeFails, Respond, Goto, IInv, TypeOK
  <2>2. CASE ~FailsClosed
    BY <2>2, DenyRevoked DEF RevokeFails
  <2>. QED
    BY <2>1, <2>2
<1>6. DenyFrame(q)
  BY <1>1, <1>4, <1>5 DEF DenyFrame
<1>7. \A v \in Workers : \A x \in denied'[v] : x \in denied[v] \/ (v = w /\ x = s)
  BY <1>1, <1>2 DEF IInv, TypeOK
<1>8. \A v \in Workers : \A x \in denied'[v] :
        x \in denied[v] \/ (IsDelivered(x) /\ localRevoked'[v][x] + Second > expiry[x])
  BY <1>1, <1>3, <1>7
<1>. QED
  BY <1>5, <1>6, <1>8, DenyKept

LEMMA DenyCrash ==
  ASSUME IInv, DenyInv, NEW w \in Workers, Crash(w)
  PROVE  DenyInv'
<1>1. /\ UNCHANGED <<now, expiry, sid, fresh, ttl, late>>
      /\ pc' = [r \in Requests |-> IF worker[r] = w /\ pc[r] # "done" THEN "dead" ELSE pc[r]]
      /\ localRevoked' = [localRevoked EXCEPT ![w] = [s \in Sessions |-> 0]]
      /\ denied' = [denied EXCEPT ![w] = {}]
  BY DEF Crash
<1>2. \A r \in Requests : /\ pc'[r] = pc[r] \/ pc'[r] = "dead"
                          /\ pc[r] = "done" => pc'[r] = "done"
  BY <1>1
<1>3. /\ denied'[w] = {}
      /\ \A v \in Workers \ {w} : denied'[v] = denied[v] /\ localRevoked'[v] = localRevoked[v]
  BY <1>1 DEF IInv, TypeOK, StoreTypeOK
<1>4. ASSUME NEW v \in Workers, NEW s \in denied'[v]
      PROVE  IsDelivered(s)' /\ DenialHolds(v, s)'
  <2>1. v # w /\ s \in denied[v]
    BY <1>3, <1>4
  <2>2. IsDelivered(s) /\ DenialHolds(v, s)
    BY <2>1 DEF DenyInv
  <2>. QED
    BY <1>1, <1>2, <1>3, <2>1, <2>2 DEF IsDelivered, DenialHolds, LastSecond
<1>5. ASSUME NEW r \in Requests
      PROVE  /\ pc'[r] \in {"revoke", "revoke_sent"} =>
                  now' + ttl'[r] + Second > expiry'[sid'[r]]
             /\ pc'[r] \in {"exists", "get", "got"} /\ late'[r].denied => LastSecond(sid[r])'
  BY <1>1, <1>2 DEF DenyInv, LastSecond
<1>. QED
  BY <1>4, <1>5 DEF DenyInv

LEMMA DenyTick ==
  ASSUME IInv, DenyInv, Tick
  PROVE  DenyInv'
<1>1. /\ now' = now + 1 /\ now \in Nat /\ expiry \in [Sessions -> Nat] /\ Second \in Nat
      /\ ttl \in [Requests -> Nat]
      /\ UNCHANGED <<expiry, pc, sid, fresh, ttl, late, denied, localRevoked>>
  BY StoreAssumption DEF Tick, UnchangedStore, requestVars, IInv, TypeOK, StoreTypeOK
<1>2. ASSUME NEW w \in Workers, NEW s \in denied[w]
      PROVE  IsDelivered(s)' /\ DenialHolds(w, s)'
  <2>1. IsDelivered(s) /\ DenialHolds(w, s) /\ s \in Sessions
    BY <1>2 DEF DenyInv, IsDelivered
  <2>. QED
    BY <1>1, <2>1 DEF IsDelivered, DenialHolds, LastSecond
<1>3. ASSUME NEW r \in Requests, pc[r] \in {"exists", "get", "got", "revoke", "revoke_sent"}
      PROVE  sid[r] \in Sessions
  BY <1>3 DEF IInv, StageInv
<1>4. ASSUME NEW r \in Requests
      PROVE  /\ pc'[r] \in {"revoke", "revoke_sent"} =>
                  now' + ttl'[r] + Second > expiry'[sid'[r]]
             /\ pc'[r] \in {"exists", "get", "got"} /\ late'[r].denied => LastSecond(sid[r])'
  BY <1>1, <1>3 DEF DenyInv, LastSecond
<1>. QED
  BY <1>1, <1>2, <1>4 DEF DenyInv

LEMMA NextDenyInv ==
  ASSUME IInv, DenyInv, [Next]_vars
  PROVE  DenyInv'
<1>1. ASSUME NEW q \in Requests, Step(q)
      PROVE  DenyInv'
  BY <1>1, DenyQuiet, DenyLogin, DenyResolve, DenyLogout, DenyLoaded,
     DenyRevokeConfirmed, DenyRevokeFails DEF Step
<1>2. ASSUME NEW w \in Workers, Crash(w)
      PROVE  DenyInv'
  BY <1>2, DenyCrash
<1>3. ASSUME Tick
      PROVE  DenyInv'
  BY <1>3, DenyTick
<1>4. ASSUME UNCHANGED vars
      PROVE  DenyInv'
  BY <1>4 DEF vars, storeVars, requestVars, DenyInv, IsDelivered, DenialHolds, LastSecond
<1>. QED
  BY <1>1, <1>2, <1>3, <1>4 DEF Next

(* A request is accepted with a session its worker had denied before it    *)
(* came only in the last second of the token.                              *)
LEMMA DeniedStep ==
  ASSUME IInv, DenyInv, [Next]_vars, NEW r \in Requests,
         late'[r].denied, accepted'[r], ~accepted[r]
  PROVE  expiry[sid[r]] - now < Second
<1>1. accepted \in [Requests -> BOOLEAN]
  BY DEF IInv, TypeOK
<1>2. ASSUME NEW q \in Requests, RecordArrives(q)
      PROVE  pc[r] \in {"exists", "get", "got"} /\ UNCHANGED late
  <2>. DEFINE ok == found[q] /\ IsFresh(sid[q])
  <2>1. accepted' = [accepted EXCEPT ![q] = ok] /\ pc[q] = "got" /\ UNCHANGED late
    BY <1>2 DEF RecordArrives, Conclude, At
  <2>. HIDE DEF ok
  <2>2. q = r
    BY <1>1, <2>1, Zenon
  <2>. QED
    BY <2>1, <2>2
<1>3. ASSUME NEW q \in Requests, GetFails(q)
      PROVE  pc[r] \in {"exists", "get", "got"} /\ UNCHANGED late
  <2>. DEFINE ok == LocallyHas(worker[q], sid[q])
  <2>1. /\ UNCHANGED accepted \/ accepted' = [accepted EXCEPT ![q] = ok]
        /\ pc[q] \in {"exists", "get", "got"} /\ UNCHANGED late
    BY <1>3 DEF GetFails, Conclude
  <2>. HIDE DEF ok
  <2>2. q = r
    BY <1>1, <2>1, Zenon
  <2>. QED
    BY <2>1, <2>2
<1>4. ASSUME NEW q \in Requests, Step(q), ~RecordArrives(q), ~GetFails(q)
      PROVE  UNCHANGED accepted
  BY <1>4 DEF Step, Login, Resolve, Logout, AskRevoked, GetRecord, EmployeeLoaded,
              EmployeeRefused, SendRevoke, RevokeConfirmed, RevokeFails, SendSet,
              SetConfirmed, SetFails
<1>5. ASSUME \/ \E w \in Workers : Crash(w)
             \/ Tick
             \/ UNCHANGED vars
      PROVE  UNCHANGED accepted
  BY <1>5 DEF Crash, Tick, vars, requestVars
<1>6. pc[r] \in {"exists", "get", "got"} /\ UNCHANGED late
  BY <1>2, <1>3, <1>4, <1>5 DEF Next
<1>. QED
  BY <1>6 DEF DenyInv, LastSecond

(* A worker that had to deny a session itself goes on refusing it until it *)
(* restarts, or until the last second of the token.                        *)
THEOREM DenialsLast == Spec => DenialOutlivesOutage
<1>1. Init => DenyInv
  BY DEF Init, DenyInv, OnTime
<1>2. IInv /\ DenyInv /\ [Next]_vars => DenyInv'
  BY NextDenyInv
<1>3. IInv /\ DenyInv /\ [Next]_vars =>
        [\A r \in Requests :
           late'[r].denied /\ accepted'[r] /\ ~accepted[r]
             => expiry[sid[r]] - now < Second]_vars
  BY DeniedStep
<1>. QED
  BY <1>1, <1>2, <1>3, Invariant, PTL DEF Spec, DenialOutlivesOutage

=============================================================================
