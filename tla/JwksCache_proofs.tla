-------------------------- MODULE JwksCache_proofs --------------------------
(***************************************************************************)
(* What logins do to the workers' copies of the provider's key set, for    *)
(* any number of logins, workers and keys, any rotation of the keys, any   *)
(* cache lifetimes, and any delays up to the timeout.                      *)
(***************************************************************************)
EXTENDS Gateway, TLAPS

PCs == {"idle", "asking", "pinging", "counting", "removing", "closing",
        "allowed", "refused", "unavailable", "handled"}

Underway == {"discovering", "fetching", "served"}

CallType == [by : Logins \cup {Nobody}, started : Nat, asked : Nat, doc : SUBSET Keys]
CopyType == [keys : SUBSET Keys, expires : Nat, fetched : Nat]

(* A copy is what the provider published at one time since fetched.        *)
IsTrueCopy(c) ==
  /\ c.expires = c.fetched + CacheSeconds
  /\ \E s \in Nat : c.fetched <= s /\ s <= now /\ c.keys = Published(s)

(* Whoever has the lock stands at the call, which is no older than it may  *)
(* be, and has the document of a moment of this call, or none yet.         *)
IsSound(c, w) ==
  /\ on[c.by] = w /\ login[c.by] \in Underway
  /\ c.started <= c.asked /\ c.asked <= now /\ now <= c.asked + Timeout
  /\ login[c.by] # "served" => c.doc = {}
  /\ c.doc # {} => \E s \in Nat : c.asked <= s /\ s <= now /\ c.doc = Published(s)

PlaceInv ==
  /\ now \in Nat /\ pc \in [Logins -> PCs] /\ on \in [Logins -> Servers]
  /\ \A r \in Logins : pc[r] # "handled" => login[r] = "none"

KeysInv ==
  /\ PlaceInv /\ KeysTypeOK
  /\ \A w \in Servers : jwks[w] = NoKeys \/ IsTrueCopy(jwks[w])
  /\ \A w \in Servers : IsLocked(w) => IsSound(call[w], w)
  /\ \A w \in Servers : \A r \in queue[w] : on[r] = w /\ login[r] = "waiting"
  /\ \A r \in forced : login[r] \in Underway \cup {"waiting"}

LEMMA KeyConstants ==
  /\ Nobody \notin Logins
  /\ \A k \in Keys : Schedule[k].since \in Nat /\ Schedule[k].until \in Nat
  /\ CacheSeconds \in Nat /\ RefreshMin \in Nat /\ UrlSeconds \in Nat
  /\ Timeout \in Nat \ {0} /\ Timeout <= CacheSeconds
BY KeysAssumption

-----------------------------------------------------------------------------
(* What a step of r does to the copies, the lock, its queue and the stages.*)
KeepsCopies ==
  \A w \in Servers : jwks'[w] = jwks[w] \/ IsTrueCopy(jwks[w])'

LoginMoves(r) ==
  /\ \A q \in Logins \ {r} : login'[q] = login[q]
  /\ \A w \in Servers \ {on[r]} : call'[w] = call[w] /\ queue'[w] = queue[w]
  /\ queue'[on[r]] \subseteq queue[on[r]] \cup {r}
  /\ r \in queue'[on[r]] => login'[r] = "waiting"
  /\ call'[on[r]].by \notin {r, Nobody} => call'[on[r]] = call[on[r]]
  /\ forced' \subseteq forced \cup {r}
  /\ r \in forced' => login'[r] \in Underway \cup {"waiting"}

LEMMA LoginFrame ==
  ASSUME KeysInv, NEW r \in Logins, pc[r] = "handled", LoginMoves(r),
         call'[on[r]].by = r => IsSound(call[on[r]], on[r])',
         KeysTypeOK', KeepsCopies, UNCHANGED <<now, on, pc>>
  PROVE  KeysInv'
<1>0. on[r] \in Servers
  BY DEF KeysInv, PlaceInv
<1>1. PlaceInv'
  BY DEF KeysInv, PlaceInv, LoginMoves
<1>3. ASSUME NEW w \in Servers
      PROVE  jwks'[w] = NoKeys \/ IsTrueCopy(jwks[w])'
  <2>1. CASE jwks'[w] = jwks[w]
    BY <2>1 DEF KeysInv, IsTrueCopy, Published
  <2>2. CASE IsTrueCopy(jwks[w])'
    BY <2>2
  <2>. QED
    BY <2>1, <2>2 DEF KeepsCopies
<1>4. ASSUME NEW w \in Servers, IsLocked(w)'
      PROVE  IsSound(call[w], w)'
  <2>1. CASE w = on[r] /\ call'[w].by = r
    BY <2>1
  <2>2. CASE ~ (w = on[r] /\ call'[w].by = r)
    <3>1. call'[w] = call[w] /\ call[w].by # Nobody /\ call[w].by \in Logins
      BY <1>4, <2>2 DEF IsLocked, KeysInv, KeysTypeOK, LoginMoves
    <3>2. IsSound(call[w], w)
      BY <3>1 DEF KeysInv, IsLocked
    <3>3. call[w].by # r
      BY <2>2, <3>1, <3>2 DEF IsSound
    <3>4. login'[call[w].by] = login[call[w].by]
      BY <3>1, <3>3 DEF LoginMoves
    <3>. QED
      BY <3>1, <3>2, <3>4 DEF IsSound, Published
  <2>. QED
    BY <2>1, <2>2
<1>5. ASSUME NEW w \in Servers, NEW q \in queue'[w]
      PROVE  on'[q] = w /\ login'[q] = "waiting"
  <2>1. q \in Logins
    BY DEF KeysTypeOK
  <2>2. CASE q = r
    <3>1. w = on[r]
      BY <2>2 DEF LoginMoves, KeysInv
    <3>. QED
      BY <2>2, <3>1 DEF LoginMoves
  <2>3. CASE q # r
    <3>1. q \in queue[w]
      BY <2>3 DEF LoginMoves
    <3>. QED
      BY <2>1, <2>3, <3>1 DEF KeysInv, LoginMoves
  <2>. QED
    BY <2>2, <2>3
<1>6. ASSUME NEW q \in forced'
      PROVE  login'[q] \in Underway \cup {"waiting"}
  <2>1. CASE q = r
    BY <1>6, <2>1 DEF LoginMoves
  <2>2. CASE q # r
    <3>1. q \in forced /\ q \in Logins
      BY <2>2 DEF KeysInv, KeysTypeOK, LoginMoves
    <3>. QED
      BY <2>2, <3>1 DEF KeysInv, LoginMoves
  <2>. QED
    BY <2>1, <2>2
<1>. QED
  BY <1>1, <1>3, <1>4, <1>5, <1>6 DEF KeysInv

(* Entering the lock, or calling with it, moves one login and no copy.     *)
LEMMA CallsKeep ==
  ASSUME KeysInv, NEW r \in Logins, pc[r] = "handled",
         Calls(r, on[r], now), forced' \subseteq forced \cup {r},
         jwks' \in [Servers -> CopyType], KeepsCopies,
         UNCHANGED <<now, on, pc, urlUntil, kid>>
  PROVE  KeysInv'
<1>0. /\ now \in Nat /\ queue \in [Servers -> SUBSET Logins] /\ call \in [Servers -> CallType]
      /\ login \in [Logins -> LoginStages] /\ on[r] \in Servers
  BY DEF KeysInv, KeysTypeOK, CallType, PlaceInv
<1>1. PICK next \in {"fetching", "discovering"} : login' = [login EXCEPT ![r] = next]
  BY DEF Calls, Stands
<1>2. /\ next \in LoginStages /\ next \in Underway
      /\ login'[r] = next /\ \A q \in Logins \ {r} : login'[q] = login[q]
  BY <1>0, <1>1 DEF LoginStages, Underway
<1>3. /\ call'[on[r]] = [by |-> r, started |-> now, asked |-> now, doc |-> {}]
      /\ queue'[on[r]] = queue[on[r]] \ {r}
      /\ \A w \in Servers \ {on[r]} : call'[w] = call[w] /\ queue'[w] = queue[w]
  BY <1>0 DEF Calls
<1>4. call' \in [Servers -> CallType] /\ queue' \in [Servers -> SUBSET Logins]
  BY <1>0 DEF Calls, CallType
<1>5. KeysTypeOK'
  BY <1>0, <1>1, <1>2, <1>4 DEF KeysInv, KeysTypeOK, CallType, CopyType
<1>6. LoginMoves(r)
  BY <1>2, <1>3 DEF LoginMoves
<1>7. IsSound(call[on[r]], on[r])'
  BY <1>0, <1>2, <1>3, KeyConstants DEF IsSound
<1>. QED
  BY <1>5, <1>6, <1>7, LoginFrame

LEMMA WaitingKeeps ==
  ASSUME KeysInv, NEW r \in Logins, pc[r] = "handled",
         Stands(r, "waiting"),
         call' = [call EXCEPT ![on[r]] = IF @.by = r THEN NoCall ELSE @],
         queue' = [queue EXCEPT ![on[r]] = @ \cup {r}],
         forced' \subseteq forced \cup {r},
         jwks' \in [Servers -> CopyType], KeepsCopies,
         UNCHANGED <<now, on, pc, urlUntil, kid>>
  PROVE  KeysInv'
<1>0. /\ queue \in [Servers -> SUBSET Logins] /\ call \in [Servers -> CallType]
      /\ login \in [Logins -> LoginStages] /\ on[r] \in Servers
  BY DEF KeysInv, KeysTypeOK, CallType, PlaceInv
<1>1. /\ login'[r] = "waiting" /\ \A q \in Logins \ {r} : login'[q] = login[q]
      /\ login' \in [Logins -> LoginStages]
  BY <1>0 DEF Stands, LoginStages
<1>2. /\ call'[on[r]] = IF call[on[r]].by = r THEN NoCall ELSE call[on[r]]
      /\ queue'[on[r]] = queue[on[r]] \cup {r}
      /\ \A w \in Servers \ {on[r]} : call'[w] = call[w] /\ queue'[w] = queue[w]
  BY <1>0
<1>3. call' \in [Servers -> CallType] /\ queue' \in [Servers -> SUBSET Logins]
  BY <1>0 DEF CallType, NoCall
<1>4. KeysTypeOK'
  BY <1>1, <1>3 DEF KeysInv, KeysTypeOK, CallType, CopyType
<1>5. LoginMoves(r)
  BY <1>1, <1>2 DEF LoginMoves, NoCall
<1>6. call'[on[r]].by # r
  BY <1>2, KeyConstants DEF NoCall
<1>. QED
  BY <1>4, <1>5, <1>6, LoginFrame

LEMMA EntersKeeps ==
  ASSUME KeysInv, NEW r \in Logins, pc[r] = "handled",
         Enters(r, on[r], now), forced' \subseteq forced \cup {r},
         jwks' \in [Servers -> CopyType], KeepsCopies,
         UNCHANGED <<now, on, pc, urlUntil, kid>>
  PROVE  KeysInv'
<1>1. CASE call[on[r]].by \in {Nobody, r} /\ queue[on[r]] \subseteq {r}
  BY <1>1, CallsKeep DEF Enters
<1>2. CASE ~ (call[on[r]].by \in {Nobody, r} /\ queue[on[r]] \subseteq {r})
  BY <1>2, WaitingKeeps DEF Enters
<1>. QED
  BY <1>1, <1>2

LEMMA EndsKeeps ==
  ASSUME KeysInv, NEW r \in Logins, pc[r] = "handled",
         NEW verdict \in {"verified", "invalid", "unavailable"}, Ends(r, on[r], verdict),
         jwks' \in [Servers -> CopyType], KeepsCopies,
         UNCHANGED <<now, on, pc, urlUntil, kid>>
  PROVE  KeysInv'
<1>0. /\ queue \in [Servers -> SUBSET Logins] /\ call \in [Servers -> CallType]
      /\ login \in [Logins -> LoginStages] /\ on[r] \in Servers
  BY DEF KeysInv, KeysTypeOK, CallType, PlaceInv
<1>1. /\ \A q \in Logins \ {r} : login'[q] = login[q]
      /\ login' \in [Logins -> LoginStages] /\ forced' = forced \ {r}
  BY <1>0 DEF Ends, Stands, LoginStages
<1>2. /\ call'[on[r]] = IF call[on[r]].by = r THEN NoCall ELSE call[on[r]]
      /\ queue'[on[r]] = queue[on[r]] \ {r}
      /\ \A w \in Servers \ {on[r]} : call'[w] = call[w] /\ queue'[w] = queue[w]
  BY <1>0 DEF Ends, LeavesLock
<1>3. call' \in [Servers -> CallType] /\ queue' \in [Servers -> SUBSET Logins]
  BY <1>0 DEF CallType, NoCall, Ends, LeavesLock
<1>4. KeysTypeOK'
  BY <1>1, <1>3 DEF KeysInv, KeysTypeOK, CallType, CopyType
<1>5. LoginMoves(r)
  BY <1>1, <1>2 DEF LoginMoves, NoCall
<1>6. call'[on[r]].by # r
  BY <1>2, KeyConstants DEF NoCall
<1>. QED
  BY <1>4, <1>5, <1>6, LoginFrame

LEMMA DecidesKeeps ==
  ASSUME KeysInv, NEW r \in Logins, pc[r] = "handled", NEW set,
         Decides(r, on[r], now, set),
         jwks' \in [Servers -> CopyType], KeepsCopies,
         UNCHANGED <<now, on, pc, urlUntil, kid>>
  PROVE  KeysInv'
<1>1. CASE kid[r] \in set.keys
  BY <1>1, EndsKeeps DEF Decides
<1>2. CASE kid[r] \notin set.keys /\ MayForce(r, set, now)
  BY <1>2, EntersKeeps DEF Decides
<1>3. CASE kid[r] \notin set.keys /\ ~MayForce(r, set, now)
  BY <1>3, EndsKeeps DEF Decides
<1>. QED
  BY <1>1, <1>2, <1>3

(* The steps of a login.                                                   *)
LEMMA HolderFacts ==
  ASSUME KeysInv, NEW r \in Logins, login[r] # "none"
  PROVE  /\ pc[r] = "handled" /\ on[r] \in Servers /\ call[on[r]] \in CallType
         /\ jwks[on[r]] \in CopyType
         /\ call[on[r]].by = r => IsSound(call[on[r]], on[r])
BY KeyConstants DEF KeysInv, PlaceInv, KeysTypeOK, CallType, CopyType, IsLocked

LEMMA KeysStepKeeps ==
  ASSUME KeysInv, NEW r \in Logins, KeysStep(r, on[r], now), UNCHANGED <<now, on, pc>>
  PROVE  KeysInv'
<1>0. jwks \in [Servers -> CopyType] /\ call \in [Servers -> CallType]
  BY DEF KeysInv, KeysTypeOK, CallType, CopyType
<1>1. CASE LookUp(r, on[r], now)
  <2>1. login[r] # "none" /\ pc[r] = "handled" /\ jwks' = jwks
    BY <1>1, HolderFacts DEF LookUp
  <2>2. jwks' \in [Servers -> CopyType] /\ KeepsCopies
    BY <1>0, <2>1 DEF KeepsCopies
  <2>3. CASE IsFresh(on[r], now)
    BY <1>1, <2>1, <2>2, <2>3, DecidesKeeps DEF LookUp
  <2>4. CASE ~IsFresh(on[r], now)
    BY <1>1, <2>1, <2>2, <2>4, EntersKeeps DEF LookUp
  <2>. QED
    BY <2>3, <2>4
<1>2. CASE GetsLock(r, on[r], now)
  <2>1. on[r] \in Servers /\ login[r] = "waiting"
    BY <1>2 DEF GetsLock, KeysInv, PlaceInv
  <2>2. pc[r] = "handled" /\ jwks' = jwks
    BY <1>2, <2>1, HolderFacts DEF GetsLock
  <2>3. jwks' \in [Servers -> CopyType] /\ KeepsCopies
    BY <1>0, <2>2 DEF KeepsCopies
  <2>4. CASE r \notin forced /\ IsFresh(on[r], now)
    BY <1>2, <2>2, <2>3, <2>4, DecidesKeeps DEF GetsLock
  <2>5. CASE ~ (r \notin forced /\ IsFresh(on[r], now))
    BY <1>2, <2>2, <2>3, <2>5, CallsKeep DEF GetsLock
  <2>. QED
    BY <2>4, <2>5
<1>3. CASE Discovered(r, on[r], now)
  <2> DEFINE c == call[on[r]]
  <2>1. /\ pc[r] = "handled" /\ on[r] \in Servers /\ c \in CallType /\ c.by = r
        /\ IsSound(c, on[r]) /\ login[r] = "discovering" /\ jwks' = jwks
    BY <1>3, HolderFacts DEF Discovered
  <2>2. /\ login' = [login EXCEPT ![r] = "fetching"] /\ "fetching" \in LoginStages
        /\ call' = [call EXCEPT ![on[r]].asked = now]
        /\ urlUntil' = [urlUntil EXCEPT ![on[r]] = c.asked + UrlSeconds]
        /\ queue' = queue /\ kid' = kid /\ forced' = forced /\ now \in Nat
    BY <1>3 DEF Discovered, Stands, LoginStages, KeysInv, PlaceInv
  <2>3. /\ call'[on[r]] = [by |-> r, started |-> c.started, asked |-> now, doc |-> c.doc]
        /\ \A w \in Servers \ {on[r]} : call'[w] = call[w]
        /\ call' \in [Servers -> CallType]
    BY <1>0, <2>1, <2>2 DEF CallType
  <2>4. urlUntil' \in [Servers -> Nat]
    <3>1. c.asked + UrlSeconds \in Nat
      BY <2>1, KeyConstants DEF CallType
    <3>. QED
      BY <2>2, <3>1 DEF KeysInv, KeysTypeOK
  <2>5. KeysTypeOK' /\ KeepsCopies
    BY <2>1, <2>2, <2>3, <2>4 DEF KeysInv, KeysTypeOK, CallType, KeepsCopies
  <2>6. login'[r] = "fetching" /\ \A q \in Logins \ {r} : login'[q] = login[q]
    BY <2>2 DEF KeysInv, KeysTypeOK
  <2>7. LoginMoves(r)
    <3>1. r \notin queue[on[r]]
      BY <2>1 DEF KeysInv
    <3>2. call'[on[r]].by = r
      BY <2>3
    <3>. QED
      BY <2>2, <2>3, <2>6, <3>1, <3>2 DEF LoginMoves, Underway
  <2>8. IsSound(call[on[r]], on[r])'
    <3>1. /\ c.started <= c.asked /\ c.asked <= now /\ c.doc = {}
          /\ c.started \in Nat /\ c.asked \in Nat
      BY <2>1 DEF IsSound, CallType
    <3>. QED
      BY <2>2, <2>3, <2>6, <3>1, KeyConstants DEF IsSound, Underway
  <2>. QED
    BY <2>1, <2>5, <2>7, <2>8, LoginFrame
<1>4. CASE Served(r, on[r], now)
  <2> DEFINE c == call[on[r]]
  <2>1. /\ pc[r] = "handled" /\ on[r] \in Servers /\ c \in CallType /\ c.by = r
        /\ IsSound(c, on[r]) /\ login[r] = "fetching" /\ jwks' = jwks
    BY <1>4, HolderFacts DEF Served
  <2>2. /\ login' = [login EXCEPT ![r] = "served"] /\ "served" \in LoginStages
        /\ call' = [call EXCEPT ![on[r]].doc = Published(now)]
        /\ Published(now) \in SUBSET Keys
        /\ urlUntil' = urlUntil
        /\ queue' = queue /\ kid' = kid /\ forced' = forced /\ now \in Nat
    BY <1>4 DEF Served, Stands, LoginStages, KeysInv, PlaceInv, Published
  <2>3. /\ call'[on[r]] = [by |-> r, started |-> c.started, asked |-> c.asked,
                           doc |-> Published(now)]
        /\ \A w \in Servers \ {on[r]} : call'[w] = call[w]
        /\ call' \in [Servers -> CallType]
    BY <1>0, <2>1, <2>2 DEF CallType
  <2>5. KeysTypeOK' /\ KeepsCopies
    BY <2>1, <2>2, <2>3 DEF KeysInv, KeysTypeOK, CallType, KeepsCopies
  <2>6. login'[r] = "served" /\ \A q \in Logins \ {r} : login'[q] = login[q]
    BY <2>2 DEF KeysInv, KeysTypeOK
  <2>7. LoginMoves(r)
    <3>1. r \notin queue[on[r]]
      BY <2>1 DEF KeysInv
    <3>2. call'[on[r]].by = r
      BY <2>3
    <3>. QED
      BY <2>2, <2>3, <2>6, <3>1, <3>2 DEF LoginMoves, Underway
  <2>8. IsSound(call[on[r]], on[r])'
    <3>1. c.started <= c.asked /\ c.asked <= now /\ now <= c.asked + Timeout
      BY <2>1 DEF IsSound
    <3>2. Published(now)' = Published(now)
      BY DEF Published
    <3>. QED
      BY <2>2, <2>3, <2>6, <3>1, <3>2 DEF IsSound, Underway
  <2>. QED
    BY <2>1, <2>5, <2>7, <2>8, LoginFrame
<1>5. CASE Fetched(r, on[r], now)
  <2> DEFINE c == call[on[r]]
             f == FetchedBy(on[r])
  <2>1. /\ pc[r] = "handled" /\ on[r] \in Servers /\ c \in CallType /\ c.by = r
        /\ IsSound(c, on[r]) /\ c.doc # {} /\ jwks' = [jwks EXCEPT ![on[r]] = f]
        /\ Decides(r, on[r], now, f) /\ UNCHANGED <<urlUntil, kid>>
    BY <1>5, HolderFacts DEF Fetched
  <2>2. f \in CopyType
    BY <2>1, KeyConstants DEF FetchedBy, CallType, CopyType
  <2>3. IsTrueCopy(f)
    BY <2>1 DEF FetchedBy, CallType, IsSound, IsTrueCopy
  <2>4. jwks' \in [Servers -> CopyType] /\ jwks'[on[r]] = f
        /\ \A w \in Servers \ {on[r]} : jwks'[w] = jwks[w]
    BY <1>0, <2>1, <2>2
  <2>5. IsTrueCopy(jwks[on[r]])'
    BY <2>3, <2>4 DEF IsTrueCopy, Published
  <2>6. KeepsCopies
    BY <2>4, <2>5 DEF KeepsCopies
  <2> HIDE DEF f
  <2>. QED
    BY <2>1, <2>4, <2>6, DecidesKeeps
<1>. QED
  BY <1>1, <1>2, <1>3, <1>4, <1>5 DEF KeysStep

LEMMA CallFailsKeeps ==
  ASSUME KeysInv, NEW r \in Logins, CallFails(r, on[r]), UNCHANGED <<now, on, pc>>
  PROVE  KeysInv'
<1>1. login[r] # "none" /\ pc[r] = "handled" /\ jwks' = jwks
  BY HolderFacts DEF CallFails
<1>2. jwks' \in [Servers -> CopyType] /\ KeepsCopies
  BY <1>1 DEF KeysInv, KeysTypeOK, CopyType, KeepsCopies
<1>. QED
  BY <1>1, <1>2, EndsKeeps DEF CallFails

(* Steps of the limiter, of handlers and of time, which leave the copies.  *)
LEMMA SameKeys ==
  ASSUME KeysInv, UNCHANGED keyVars, PlaceInv', now <= now',
         \A r \in Logins : login[r] # "none" => on'[r] = on[r],
         now' # now => now' = now + 1 /\ CallsAreInTime(now)
  PROVE  KeysInv'
<1>0. now \in Nat /\ now' \in Nat
  BY DEF KeysInv, PlaceInv
<1>1. KeysTypeOK'
  BY DEF KeysInv, KeysTypeOK, keyVars
<1>2. ASSUME NEW w \in Servers
      PROVE  jwks'[w] = NoKeys \/ IsTrueCopy(jwks[w])'
  <2>1. CASE IsTrueCopy(jwks[w])
    <3>1. jwks' = jwks
      BY DEF keyVars
    <3>2. PICK s \in Nat : jwks[w].fetched <= s /\ s <= now /\ jwks[w].keys = Published(s)
      BY <2>1 DEF IsTrueCopy
    <3>3. s <= now'
      BY <1>0, <3>2
    <3>. QED
      BY <2>1, <3>1, <3>2, <3>3 DEF IsTrueCopy, Published
  <2>. QED
    BY <2>1 DEF KeysInv, keyVars, NoKeys
<1>3. ASSUME NEW w \in Servers, IsLocked(w)'
      PROVE  IsSound(call[w], w)'
  <2> DEFINE c == call[w]
  <2>1. /\ call' = call /\ login' = login /\ IsLocked(w) /\ IsSound(c, w)
        /\ c.started \in Nat /\ c.asked \in Nat /\ c.by \in Logins
    BY <1>3 DEF KeysInv, keyVars, IsLocked, KeysTypeOK
  <2>2. on'[c.by] = on[c.by]
    BY <2>1 DEF IsSound, Underway
  <2>3. c.asked <= now' /\ now' <= c.asked + Timeout
    BY <1>0, <2>1, KeyConstants DEF IsSound, CallsAreInTime
  <2>4. c.doc # {} => \E s \in Nat : c.asked <= s /\ s <= now' /\ c.doc = Published(s)
    <3>1. SUFFICES ASSUME c.doc # {}
                   PROVE  \E s \in Nat : c.asked <= s /\ s <= now' /\ c.doc = Published(s)
      OBVIOUS
    <3>2. PICK s \in Nat : c.asked <= s /\ s <= now /\ c.doc = Published(s)
      BY <2>1, <3>1 DEF IsSound
    <3>. QED
      BY <1>0, <3>2
  <2>. QED
    BY <2>1, <2>2, <2>3, <2>4 DEF IsSound, Published
<1>4. ASSUME NEW w \in Servers, NEW r \in queue'[w]
      PROVE  on'[r] = w /\ login'[r] = "waiting"
  <2>1. r \in queue[w] /\ r \in Logins /\ login' = login
    BY DEF keyVars, KeysInv, KeysTypeOK
  <2>. QED
    BY <2>1 DEF KeysInv
<1>5. \A r \in forced' : login'[r] \in Underway \cup {"waiting"}
  BY DEF KeysInv, keyVars
<1>. QED
  BY <1>1, <1>2, <1>3, <1>4, <1>5 DEF KeysInv

LEMMA PresentsKeeps ==
  ASSUME KeysInv, NEW r \in Logins, NEW k \in Keys, Presents(r, k),
         pc' = [pc EXCEPT ![r] = "handled"], UNCHANGED <<now, on>>
  PROVE  KeysInv'
<1>1. /\ login' \in [Logins -> LoginStages] /\ kid' \in [Logins -> Keys]
      /\ login[r] = "none" /\ login'[r] = "asked"
      /\ \A q \in Logins \ {r} : login'[q] = login[q]
      /\ UNCHANGED <<jwks, urlUntil, call, queue, forced>>
  BY DEF Presents, Stands, KeysInv, KeysTypeOK, LoginStages
<1>2. PlaceInv'
  BY <1>1 DEF KeysInv, PlaceInv, PCs
<1>3. KeysTypeOK'
  BY <1>1 DEF KeysInv, KeysTypeOK
<1>4. ASSUME NEW w \in Servers
      PROVE  jwks'[w] = NoKeys \/ IsTrueCopy(jwks[w])'
  BY <1>1 DEF KeysInv, NoKeys, IsTrueCopy, Published
<1>5. ASSUME NEW w \in Servers, IsLocked(w)'
      PROVE  IsSound(call[w], w)'
  <2>1. IsLocked(w) /\ IsSound(call[w], w) /\ call[w].by \in Logins
    BY <1>1, <1>5 DEF KeysInv, IsLocked, KeysTypeOK
  <2>2. login'[call[w].by] = login[call[w].by]
    BY <1>1, <2>1 DEF IsSound, Underway
  <2>. QED
    BY <1>1, <2>1, <2>2 DEF IsSound, Published
<1>6. ASSUME NEW w \in Servers, NEW q \in queue'[w]
      PROVE  on'[q] = w /\ login'[q] = "waiting"
  <2>1. q \in queue[w] /\ q \in Logins /\ on[q] = w /\ login[q] = "waiting"
    BY <1>1 DEF KeysInv, KeysTypeOK
  <2>. QED
    BY <1>1, <2>1
<1>7. ASSUME NEW q \in forced'
      PROVE  login'[q] \in Underway \cup {"waiting"}
  <2>1. q \in Logins /\ login[q] \in Underway \cup {"waiting"}
    BY <1>1 DEF KeysInv, KeysTypeOK
  <2>2. q # r
    BY <1>1, <2>1 DEF Underway
  <2>. QED
    BY <1>1, <2>1, <2>2
<1>. QED
  BY <1>2, <1>3, <1>4, <1>5, <1>6, <1>7 DEF KeysInv

LEMMA InitKeysInv ==
  ASSUME Init
  PROVE  KeysInv
<1>1. (CHOOSE k \in Keys : TRUE) \in Keys
  BY KeysAssumption
<1>2. PlaceInv
  <2>1. (CHOOSE w \in Workers : TRUE) \in Workers
    BY LimiterAssumption
  <2>. QED
    BY <2>1, GatewayAssumption DEF Init, LimiterInit, KeysInit, PlaceInv, PCs
<1>3. KeysTypeOK
  BY <1>1 DEF Init, KeysInit, KeysTypeOK, NoKeys, NoCall, LoginStages
<1>. QED
  BY <1>2, <1>3 DEF Init, KeysInit, KeysInv, IsLocked, NoCall

(* The limiter's steps leave a request where its login is.                 *)
LEMMA LimiterStepPlaces ==
  ASSUME KeysInv, NEW r \in Logins, LimiterStep(r)
  PROVE  PlaceInv' \/ ~UNCHANGED keyVars
<1>. SUFFICES ASSUME UNCHANGED keyVars
              PROVE  PlaceInv'
  OBVIOUS
<1>1. pc[r] # "handled"
  BY DEF LimiterStep, Ask, Dial, DoWithout, Pinged, PingFails, Counted, Removed, Closed,
         CountFails, RemoveFails
<1>2. UNCHANGED <<now, on>>
  BY DEF LimiterStep, Ask, Dial, DoWithout, Pinged, PingFails, Counted, Removed, Closed,
         CountFails, RemoveFails, clocks
<1>3. \E s \in PCs \ {"handled"} : pc' = [pc EXCEPT ![r] = s]
  BY DEF LimiterStep, Ask, Dial, DoWithout, Pinged, PingFails, Counted, Removed, Closed,
         CountFails, RemoveFails, Fail, GiveUp, DecideLocally, Admit, Count, Goes, PCs
<1>. QED
  BY <1>1, <1>2, <1>3 DEF KeysInv, PlaceInv, keyVars

LEMMA NextKeepsKeys ==
  ASSUME KeysInv, Next
  PROVE  KeysInv'
<1>0. Requests = Logins /\ Servers = Workers /\ now \in Nat
  BY GatewayAssumption DEF KeysInv, PlaceInv
<1>1. ASSUME NEW r \in Requests, NEW w \in Workers, Arrive(r, w), UNCHANGED keyVars
      PROVE  KeysInv'
  <2>1. /\ pc[r] = "idle" /\ now' = now /\ on' = [on EXCEPT ![r] = w]
        /\ \E s \in PCs \ {"handled"} : pc' = [pc EXCEPT ![r] = s]
    BY <1>1 DEF Arrive, Goes, clocks, PCs
  <2>2. PlaceInv' /\ \A q \in Logins : login[q] # "none" => on'[q] = on[q]
    BY <1>0, <1>1, <2>1 DEF KeysInv, PlaceInv, keyVars
  <2>. QED
    BY <1>0, <1>1, <2>1, <2>2, SameKeys
<1>2. ASSUME NEW r \in Requests, LimiterStep(r), UNCHANGED keyVars
      PROVE  KeysInv'
  <2>1. UNCHANGED <<now, on>>
    BY <1>2 DEF LimiterStep, Ask, Dial, DoWithout, Pinged, PingFails, Counted, Removed,
                Closed, CountFails, RemoveFails, clocks
  <2>. QED
    BY <1>0, <1>2, <2>1, LimiterStepPlaces, SameKeys
<1>3. ASSUME NEW r \in Requests, Handle(r)
      PROVE  KeysInv'
  <2>1. pc' = [pc EXCEPT ![r] = "handled"] /\ UNCHANGED <<now, on>>
    BY <1>3 DEF Handle, Goes, clocks
  <2>2. CASE path[r] = "login"
    BY <1>0, <1>3, <2>1, <2>2, PresentsKeeps DEF Handle
  <2>3. CASE path[r] # "login"
    <3>1. UNCHANGED keyVars
      BY <1>3, <2>3 DEF Handle
    <3>2. PlaceInv'
      BY <1>0, <2>1, <3>1 DEF KeysInv, PlaceInv, PCs, keyVars
    <3>. QED
      BY <1>0, <2>1, <3>1, <3>2, SameKeys
  <2>. QED
    BY <2>2, <2>3
<1>4. ASSUME UNCHANGED <<now, on, pc, keyVars>>
      PROVE  KeysInv'
  <2>1. PlaceInv'
    BY <1>4 DEF KeysInv, PlaceInv, keyVars
  <2>. QED
    BY <1>0, <1>4, <2>1, SameKeys
<1>5. ASSUME NEW r \in Requests, TurnStep(r), UNCHANGED <<limiterVars, keyVars>>
      PROVE  KeysInv'
  BY <1>4, <1>5 DEF limiterVars, clocks, asked
<1>6. ASSUME NEW r \in Requests, KeysStep(r, on[r], now), UNCHANGED limiterVars
      PROVE  KeysInv'
  BY <1>0, <1>6, KeysStepKeeps DEF limiterVars, clocks, asked
<1>7. ASSUME NEW r \in Requests, ProviderFails(r)
      PROVE  KeysInv'
  BY <1>0, <1>7, CallFailsKeeps DEF ProviderFails, clocks, asked
<1>8. ASSUME Surroundings, now' # now => CallsAreInTime(now), UNCHANGED keyVars
      PROVE  KeysInv'
  <2>1. UNCHANGED <<on, pc>> /\ (now' = now \/ now' = now + 1)
    BY <1>8 DEF Surroundings, Tick, Restart, Evict, clocks, asked
  <2>2. now <= now' /\ PlaceInv'
    BY <1>0, <1>8, <2>1 DEF KeysInv, PlaceInv, keyVars
  <2>. QED
    BY <1>8, <2>1, <2>2, SameKeys
<1>. QED
  BY <1>1, <1>2, <1>3, <1>5, <1>6, <1>7, <1>8 DEF Next, Request

LEMMA KeysInvariant == Spec => []KeysInv
<1>1. Init => KeysInv
  BY InitKeysInv
<1>2. KeysInv /\ [Next]_vars => KeysInv'
  <2>1. CASE Next
    BY <2>1, NextKeepsKeys
  <2>2. CASE UNCHANGED vars
    <3>1. UNCHANGED <<now, on, pc, keyVars>>
      BY <2>2 DEF vars, limiterVars, clocks, asked
    <3>2. KeysInv => PlaceInv'
      BY <3>1 DEF KeysInv, PlaceInv, keyVars
    <3>3. KeysInv => now \in Nat
      BY DEF KeysInv, PlaceInv
    <3>. QED
      BY <3>1, <3>2, <3>3, SameKeys
  <2>. QED
    BY <2>1, <2>2
<1>. QED
  BY <1>1, <1>2, PTL DEF Spec

-----------------------------------------------------------------------------
(* Verdicts.                                                               *)
IsRight(r) == LET k == kid[r] IN
  /\ login[r] # "verified" /\ login'[r] = "verified" =>
       Schedule[k].since <= now /\ now < Schedule[k].until + CacheSeconds
  /\ login[r] # "invalid" /\ login'[r] = "invalid" =>
       k \notin Published(now) \/ IsNew(k)

(* A set that is good to decide with: it was published at a time s, that   *)
(* is recent where the copy has a long life, and for a login that has no   *)
(* other fetch to hope for.                                                *)
IsUsable(set, r) ==
  /\ set.fetched \in Nat
  /\ \E s \in Nat : /\ set.fetched <= s /\ s <= now /\ set.keys = Published(s)
                    /\ now < set.fetched + CacheSeconds \/ now <= s + Timeout
                    /\ r \in forced => now <= s + Timeout

LEMMA DecidesRight ==
  ASSUME KeysInv, NEW r \in Logins, NEW set, IsUsable(set, r),
         Decides(r, on[r], now, set)
  PROVE  IsRight(r)
<1> DEFINE k == kid[r]
<1>0. /\ now \in Nat /\ k \in Keys /\ login \in [Logins -> LoginStages]
      /\ Schedule[k].since \in Nat /\ Schedule[k].until \in Nat
  BY KeyConstants DEF KeysInv, PlaceInv, KeysTypeOK
<1>1. PICK s \in Nat : /\ set.fetched <= s /\ s <= now /\ set.keys = Published(s)
                       /\ now < set.fetched + CacheSeconds \/ now <= s + Timeout
                       /\ r \in forced => now <= s + Timeout
  BY DEF IsUsable
<1>2. set.fetched \in Nat
  BY DEF IsUsable
<1>3. CASE k \in set.keys
  <2>1. login'[r] = "verified"
    BY <1>0, <1>3 DEF Decides, Ends, Stands
  <2>2. Schedule[k].since <= s /\ s < Schedule[k].until
    BY <1>1, <1>3 DEF Published
  <2>3. Schedule[k].since <= now /\ now < Schedule[k].until + CacheSeconds
    BY <1>0, <1>1, <1>2, <2>2, KeyConstants
  <2>. QED
    BY <2>1, <2>3 DEF IsRight
<1>4. CASE k \notin set.keys /\ MayForce(r, set, now)
  <2>1. login'[r] \in {"waiting", "fetching", "discovering"}
    BY <1>0, <1>4 DEF Decides, Enters, Calls, Stands
  <2>. QED
    BY <2>1 DEF IsRight
<1>5. CASE k \notin set.keys /\ ~MayForce(r, set, now)
  <2>1. login'[r] = "invalid"
    BY <1>0, <1>5 DEF Decides, Ends, Stands
  <2>2. ASSUME k \in Published(now)
        PROVE  IsNew(k)
    <3>1. Schedule[k].since <= now /\ now < Schedule[k].until
      BY <2>2 DEF Published
    <3>2. s < Schedule[k].since
      BY <1>0, <1>1, <1>5, <3>1 DEF Published
    <3>3. CASE r \in forced
      BY <1>0, <1>1, <3>2, <3>3, KeyConstants DEF IsNew
    <3>4. CASE now - set.fetched < RefreshMin
      BY <1>0, <1>1, <1>2, <3>2, <3>4, KeyConstants DEF IsNew
    <3>5. now - set.fetched \in Int
      BY <1>0, <1>2
    <3>. QED
      BY <1>5, <3>3, <3>4, <3>5, KeyConstants DEF MayForce
  <2>. QED
    BY <2>1, <2>2 DEF IsRight
<1>. QED
  BY <1>3, <1>4, <1>5

(* The other steps give no verdict.                                        *)
LEMMA NoVerdict ==
  ASSUME NEW r, login'[r] \notin {"verified", "invalid"} \/ login'[r] = login[r]
  PROVE  IsRight(r)
BY DEF IsRight

LEMMA FreshIsUsable ==
  ASSUME KeysInv, NEW r \in Logins, login[r] # "none", r \notin forced, IsFresh(on[r], now)
  PROVE  IsUsable(jwks[on[r]], r)
<1>1. on[r] \in Servers /\ jwks[on[r]] \in CopyType /\ now \in Nat
  BY HolderFacts DEF KeysInv, PlaceInv
<1>2. jwks[on[r]] # NoKeys
  BY <1>1 DEF IsFresh, NoKeys
<1>3. IsTrueCopy(jwks[on[r]])
  BY <1>1, <1>2 DEF KeysInv
<1>. QED
  BY <1>1, <1>3 DEF IsTrueCopy, IsUsable, IsFresh, CopyType

LEMMA KeysStepRight ==
  ASSUME KeysInv, NEW r \in Logins, KeysStep(r, on[r], now)
  PROVE  IsRight(r)
<1>0. login \in [Logins -> LoginStages] /\ now \in Nat
  BY DEF KeysInv, KeysTypeOK, PlaceInv
<1>1. CASE LookUp(r, on[r], now)
  <2>1. login[r] = "asked" /\ r \notin forced
    BY <1>1 DEF LookUp, KeysInv, Underway
  <2>2. CASE IsFresh(on[r], now)
    BY <1>1, <2>1, <2>2, FreshIsUsable, DecidesRight DEF LookUp
  <2>3. CASE ~IsFresh(on[r], now)
    <3>1. login'[r] \in {"waiting", "fetching", "discovering"}
      BY <1>0, <1>1, <2>3 DEF LookUp, Enters, Calls, Stands
    <3>. QED
      BY <3>1, NoVerdict
  <2>. QED
    BY <2>2, <2>3
<1>2. CASE GetsLock(r, on[r], now)
  <2>1. login[r] = "waiting"
    BY <1>2 DEF GetsLock, KeysInv, PlaceInv
  <2>2. CASE r \notin forced /\ IsFresh(on[r], now)
    BY <1>2, <2>1, <2>2, FreshIsUsable, DecidesRight DEF GetsLock
  <2>3. CASE ~ (r \notin forced /\ IsFresh(on[r], now))
    <3>1. login'[r] \in {"fetching", "discovering"}
      BY <1>0, <1>2, <2>3 DEF GetsLock, Calls, Stands
    <3>. QED
      BY <3>1, NoVerdict
  <2>. QED
    BY <2>2, <2>3
<1>3. CASE Discovered(r, on[r], now) \/ Served(r, on[r], now)
  <2>1. login'[r] \in {"fetching", "served"}
    BY <1>0, <1>3 DEF Discovered, Served, Stands
  <2>. QED
    BY <2>1, NoVerdict
<1>4. CASE Fetched(r, on[r], now)
  <2>1. /\ IsSound(call[on[r]], on[r]) /\ call[on[r]] \in CallType
        /\ call[on[r]].doc # {} /\ Decides(r, on[r], now, FetchedBy(on[r]))
    BY <1>4, HolderFacts DEF Fetched
  <2>2. PICK s \in Nat : call[on[r]].asked <= s /\ s <= now /\ call[on[r]].doc = Published(s)
    BY <2>1 DEF IsSound
  <2>3. now <= s + Timeout /\ call[on[r]].started <= s /\ call[on[r]].started \in Nat
    BY <1>0, <2>1, <2>2, KeyConstants DEF IsSound, CallType
  <2>4. IsUsable(FetchedBy(on[r]), r)
    BY <2>2, <2>3 DEF IsUsable, FetchedBy
  <2>. QED
    BY <2>1, <2>4, DecidesRight
<1>. QED
  BY <1>1, <1>2, <1>3, <1>4 DEF KeysStep

(* Every verdict on a key follows what the provider published, whatever the*)
(* rotation, the lifetimes and the delays: over a copy of the key set only *)
(* what is a cache lifetime old, and no refusal of a key that was there to *)
(* be fetched.                                                             *)
THEOREM VerdictsAreRight == Spec => VerdictsFollowTheKeys
<1>1. KeysInv /\ [Next]_vars => [\A r \in Requests : IsRight(r)]_vars
  <2> SUFFICES ASSUME KeysInv, Next, NEW r \in Requests
               PROVE  IsRight(r)
    OBVIOUS
  <2>0. Requests = Logins /\ login \in [Logins -> LoginStages]
    BY GatewayAssumption DEF KeysInv, KeysTypeOK
  <2>1. CASE UNCHANGED keyVars
    BY <2>1, NoVerdict DEF keyVars
  <2>2. ASSUME NEW q \in Requests, Handle(q)
        PROVE  IsRight(r)
    <3>1. login' = login \/ Stands(q, "asked")
      BY <2>2 DEF Handle, Presents, keyVars
    <3>2. login'[r] = "asked" \/ login'[r] = login[r]
      BY <2>0, <3>1 DEF Stands
    <3>. QED
      BY <3>2, NoVerdict
  <2>3. ASSUME NEW q \in Requests, KeysStep(q, on[q], now)
        PROVE  IsRight(r)
    <3>1. CASE q = r
      BY <2>0, <2>3, <3>1, KeysStepRight
    <3>2. CASE q # r
      <4>1. \E s \in LoginStages : login' = [login EXCEPT ![q] = s]
        BY <2>3 DEF KeysStep, LookUp, GetsLock, Discovered, Served, Fetched, Decides, Enters,
                    Ends, Calls, Stands, LoginStages
      <4>2. login'[r] = login[r]
        BY <2>0, <3>2, <4>1
      <4>. QED
        BY <4>2, NoVerdict
    <3>. QED
      BY <3>1, <3>2
  <2>4. ASSUME NEW q \in Requests, ProviderFails(q)
        PROVE  IsRight(r)
    <3>1. login' = [login EXCEPT ![q] = "unavailable"]
      BY <2>4 DEF ProviderFails, CallFails, Ends, Stands
    <3>2. login'[r] = "unavailable" \/ login'[r] = login[r]
      BY <2>0, <3>1
    <3>. QED
      BY <3>2, NoVerdict
  <2>. QED
    BY <2>1, <2>2, <2>3, <2>4 DEF Next
<1>. QED
  BY <1>1, KeysInvariant, PTL DEF Spec, VerdictsFollowTheKeys, IsRight
=============================================================================
