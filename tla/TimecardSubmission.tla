------------------------- MODULE TimecardSubmission -------------------------
(***************************************************************************)
(* acreate_many of backend/services/otl_client.py over the idempotency     *)
(* store: every row of a request is one invocation of _submit_single       *)
(* (a caller), the rows of all requests run concurrently, each hands its   *)
(* store calls to a thread and awaits Oracle in between.                   *)
(*                                                                         *)
(* A retry by the browser is a new caller with the same key. A caller may  *)
(* die at any await (the process is killed). Oracle is external: a POST    *)
(* that was sent may be applied at any later time, or never, whatever the  *)
(* caller was told. In demo mode, and where the row cannot be mapped to    *)
(* Oracle's payload, there is a result but no POST.                        *)
(***************************************************************************)
EXTENDS IdempotencyStore

CONSTANTS
  NoKey,    \* an entry that carries no requestId: submitted without the store
  Wait,     \* wait_seconds of wait_for_result, in ticks
  Demo,     \* is_demo_mode
  Horizon   \* bound: the clock stops here

ASSUME SubmissionAssumption ==
  /\ NoKey \notin Keys
  /\ Wait \in Nat
  /\ Demo \in BOOLEAN
  /\ Horizon \in Nat

VARIABLES
  now,      \* time.time()
  pc,       \* where each invocation of _submit_single stands
  key,      \* its scoped key
  hash,     \* the fingerprint of its entry
  at,       \* the clock as its current store call read it
  left,     \* ticks left before its wait_for_result gives up (monotonic clock)
  outcome,  \* what the POST came back with, as the caller classifies it
  sent,     \* whether its POST went out to Oracle
  reply,    \* the result handed to the route
  source,   \* the invocation whose outcome the reply reports
  held      \* history: when the claim was granted, its lease and its expiry

taskVars == <<pc, key, hash, at, left, outcome, sent, reply, source, held>>
vars == <<backend, records, now, taskVars>>

Stages == {"idle", "claiming", "waiting", "claimed", "posted", "completing",
           "done", "dead"}

(* created: a 2xx body. busy: 409 or 429, which is_retryable_result calls  *)
(* retryable. rejected: any other 4xx. unavailable: a 5xx, or any          *)
(* exception of the client, coded oracle_unavailable.                      *)
Definitive == {"created", "rejected", "busy"}
Outcomes   == Definitive \cup {"unavailable"}
(* Mutation: a 5xx or a lost connection is memoised like any other result. *)
BugNeverAmbiguous(o) == FALSE
IsAmbiguous(o) == o = "unavailable"

Replies == Outcomes \cup {"none", "conflict", "in_progress", "claim_lost",
                          "store_unavailable"}

NoClaim == [from |-> 0, lease |-> 0, expires |-> 0]

TypeOK ==
  /\ StoreTypeOK
  /\ now     \in Nat
  /\ pc      \in [Callers -> Stages]
  /\ key     \in [Callers -> Keys \cup {NoKey}]
  /\ hash    \in [Callers -> Fingerprints \cup {NoCaller}]
  /\ at      \in [Callers -> Nat]
  /\ left    \in [Callers -> Nat]
  /\ outcome \in [Callers -> Outcomes \cup {"none"}]
  /\ sent    \in [Callers -> BOOLEAN]
  /\ reply   \in [Callers -> Replies]
  /\ source  \in [Callers -> Callers \cup {NoCaller}]
  /\ held    \in [Callers -> [from : Nat, lease : Nat, expires : Nat]]

IdleTasks ==
  /\ pc      = [c \in Callers |-> "idle"]
  /\ key     = [c \in Callers |-> NoKey]
  /\ hash    = [c \in Callers |-> NoCaller]
  /\ at      = [c \in Callers |-> 0]
  /\ left    = [c \in Callers |-> 0]
  /\ outcome = [c \in Callers |-> "none"]
  /\ sent    = [c \in Callers |-> FALSE]
  /\ reply   = [c \in Callers |-> "none"]
  /\ source  = [c \in Callers |-> NoCaller]
  /\ held    = [c \in Callers |-> NoClaim]

Init ==
  /\ StoreInit
  /\ now = 0
  /\ IdleTasks

-----------------------------------------------------------------------------
Move(c, from, to) ==
  /\ pc[c] = from
  /\ pc' = [pc EXCEPT ![c] = to]

(* The row's result: what it says and whose outcome it reports.            *)
Answer(c, from, what, by) ==
  /\ Move(c, from, "done")
  /\ reply'  = [reply EXCEPT ![c] = what]
  /\ source' = [source EXCEPT ![c] = by]
  /\ at'     = [at EXCEPT ![c] = 0]
  /\ left'   = [left EXCEPT ![c] = 0]
  /\ UNCHANGED <<now, key, hash, outcome, sent, held>>

(* A row with a requestId enters store.claim in a thread, which reads the  *)
(* clock and then queues for the lock or the transaction.                  *)
Submit(c, k, h) ==
  /\ Move(c, "idle", "claiming")
  /\ key'  = [key EXCEPT ![c] = k]
  /\ hash' = [hash EXCEPT ![c] = h]
  /\ at'   = [at EXCEPT ![c] = now]
  /\ UNCHANGED <<backend, records, now, left, outcome, sent, reply, source, held>>

(* A row without a requestId goes straight to the POST.                    *)
SubmitUnkeyed(c, h) ==
  /\ Move(c, "idle", "claimed")
  /\ hash' = [hash EXCEPT ![c] = h]
  /\ UNCHANGED <<backend, records, now, key, at, left, outcome, sent, reply,
                 source, held>>

ClaimGranted(c) ==
  /\ Move(c, "claiming", "claimed")
  /\ Grant(c, key[c], hash[c], at[c])
  /\ held' = [held EXCEPT ![c] =
                 [from    |-> now,
                  lease   |-> records'[key[c]].lease,
                  expires |-> records'[key[c]].expires]]
  /\ UNCHANGED <<backend, now, key, hash, at, left, outcome, sent, reply, source>>

ClaimConflict(c) ==
  /\ pc[c] = "claiming"
  /\ IsConflict(key[c], hash[c], at[c])
  /\ Purge(at[c])
  /\ Answer(c, "claiming", "conflict", NoCaller)
  /\ UNCHANGED backend

ClaimReplay(c) ==
  /\ pc[c] = "claiming"
  /\ IsReplay(key[c], hash[c], at[c])
  /\ Purge(at[c])
  /\ LET by == records[key[c]].writer IN Answer(c, "claiming", outcome[by], by)
  /\ UNCHANGED backend

(* A live claim of another invocation: wait_for_result starts its clock.   *)
ClaimPending(c) ==
  /\ Move(c, "claiming", "waiting")
  /\ IsPending(key[c], hash[c], at[c])
  /\ Purge(at[c])
  /\ left' = [left EXCEPT ![c] = Wait]
  /\ UNCHANGED <<backend, now, key, hash, at, outcome, sent, reply, source, held>>

(* sqlite3.Error: nothing is written, the row fails closed with a 503.     *)
ClaimUnavailable(c) ==
  /\ backend = "sqlite"
  /\ Answer(c, "claiming", "store_unavailable", NoCaller)
  /\ UNCHANGED <<backend, records>>

Claim(c) == \/ ClaimGranted(c)
            \/ ClaimConflict(c)
            \/ ClaimReplay(c)
            \/ ClaimPending(c)
            \/ ClaimUnavailable(c)

-----------------------------------------------------------------------------
(* acreate_timecard_entry: one POST, never retried.                        *)
Send(c) ==
  /\ ~Demo
  /\ Move(c, "claimed", "posted")
  /\ sent' = [sent EXCEPT ![c] = TRUE]
  /\ UNCHANGED <<backend, records, now, key, hash, at, left, outcome, reply,
                 source, held>>

(* With a claim the thread of store.complete starts by reading the clock;  *)
(* without one the row is answered.                                        *)
Settle(c, from, o) ==
  /\ pc[c] = from
  /\ outcome' = [outcome EXCEPT ![c] = o]
  /\ IF key[c] = NoKey
     THEN /\ pc' = [pc EXCEPT ![c] = "done"]
          /\ reply' = [reply EXCEPT ![c] = o]
          /\ source' = [source EXCEPT ![c] = c]
          /\ UNCHANGED at
     ELSE /\ pc' = [pc EXCEPT ![c] = "completing"]
          /\ at' = [at EXCEPT ![c] = now]
          /\ UNCHANGED <<reply, source>>
  /\ UNCHANGED <<backend, records, now, key, hash, left, sent, held>>

(* The await of the POST returns.                                          *)
PostReturns(c, o) == Settle(c, "posted", o)

(* What a row is told that sent none: in demo mode an id is made up, else  *)
(* map_entry_to_otl has raised its OtlError(400), which the caller treats  *)
(* like a refusal of Oracle.                                               *)
Unposted == IF Demo THEN "created" ELSE "rejected"
NoPost(c) == Settle(c, "claimed", Unposted)

CompleteStored(c) ==
  /\ pc[c] = "completing"
  /\ Complete(c, key[c], at[c], IsAmbiguous(outcome[c]))
  /\ Answer(c, "completing", outcome[c], c)
  /\ UNCHANGED backend

(* rowcount is not 1: another claim took the record, or it is gone. The    *)
(* row reports idempotency_claim_lost whatever Oracle answered.            *)
CompleteLost(c) ==
  /\ pc[c] = "completing"
  /\ ~CanComplete(c, key[c], at[c], IsAmbiguous(outcome[c]))
  /\ Answer(c, "completing", "claim_lost", NoCaller)
  /\ UNCHANGED <<backend, records>>

(* The result could not be stored: the record stays pending until its      *)
(* lease runs out.                                                         *)
CompleteUnavailable(c) ==
  /\ backend = "sqlite"
  /\ Answer(c, "completing", "store_unavailable", NoCaller)
  /\ UNCHANGED <<backend, records>>

Finish(c) == CompleteStored(c) \/ CompleteLost(c) \/ CompleteUnavailable(c)

-----------------------------------------------------------------------------
(* One round of wait_for_result: read, by key alone, with a clock reading  *)
(* taken at some time `seen` since the wait began.                         *)
PollHit(c, seen) ==
  /\ pc[c] = "waiting"
  /\ CanRead(key[c], seen)
  /\ Purge(seen)
  /\ LET by == records[key[c]].writer IN Answer(c, "waiting", outcome[by], by)
  /\ UNCHANGED backend

PollTimeout(c, seen) ==
  /\ pc[c] = "waiting"
  /\ ~CanRead(key[c], seen)
  /\ left[c] = 0
  /\ Purge(seen)
  /\ Answer(c, "waiting", "in_progress", NoCaller)
  /\ UNCHANGED backend

(* Nothing yet: sleep and read again. Only the purge leaves a trace.       *)
PollAgain(c, seen) ==
  /\ pc[c] = "waiting"
  /\ ~CanRead(key[c], seen)
  /\ left[c] > 0
  /\ Purge(seen)
  /\ UNCHANGED <<backend, now, taskVars>>

PollUnavailable(c) ==
  /\ backend = "sqlite"
  /\ Answer(c, "waiting", "store_unavailable", NoCaller)
  /\ UNCHANGED <<backend, records>>

Poll(c) ==
  \/ \E seen \in at[c]..now : \/ PollHit(c, seen)
                              \/ PollTimeout(c, seen)
                              \/ PollAgain(c, seen)
  \/ PollUnavailable(c)

-----------------------------------------------------------------------------
(* The process serving the row is killed. The SQLite file survives.        *)
Die(c) ==
  /\ backend = "sqlite"
  /\ pc[c] \in Stages \ {"idle", "done", "dead"}
  /\ pc'   = [pc EXCEPT ![c] = "dead"]
  /\ hash' = [hash EXCEPT ![c] = NoCaller]
  /\ at'   = [at EXCEPT ![c] = 0]
  /\ left' = [left EXCEPT ![c] = 0]
  /\ UNCHANGED <<backend, records, now, key, outcome, sent, reply, source, held>>

(* With ":memory:" the records live and die with the process and its rows. *)
Restart ==
  /\ backend = "memory"
  /\ records' = [k \in Keys |-> NoRecord]
  /\ pc'      = [c \in Callers |-> "idle"]
  /\ key'     = [c \in Callers |-> NoKey]
  /\ hash'    = [c \in Callers |-> NoCaller]
  /\ at'      = [c \in Callers |-> 0]
  /\ left'    = [c \in Callers |-> 0]
  /\ outcome' = [c \in Callers |-> "none"]
  /\ sent'    = [c \in Callers |-> FALSE]
  /\ reply'   = [c \in Callers |-> "none"]
  /\ source'  = [c \in Callers |-> NoCaller]
  /\ held'   = [c \in Callers |-> NoClaim]
  /\ UNCHANGED <<backend, now>>

(* Mutations: the wait runs below zero; its deadline is recomputed in      *)
(* every round.                                                            *)
BugUnclampedWait(c) == IF pc[c] = "waiting" THEN left[c] - 1 ELSE left[c]
BugRestartedWait(c) == left[c]

Remaining(c) ==
  IF pc[c] = "waiting" /\ left[c] > 0 THEN left[c] - 1 ELSE left[c]

(* time.time() stops at the horizon, the monotonic clock of the waits does *)
(* not.                                                                    *)
Tick ==
  /\ now' = IF now < Horizon THEN now + 1 ELSE now
  /\ left' = [c \in Callers |-> Remaining(c)]
  /\ UNCHANGED <<backend, records, pc, key, hash, at, outcome, sent, reply,
                 source, held>>

Next ==
  \/ \E c \in Callers :
       \/ \E k \in Keys, h \in Fingerprints : Submit(c, k, h)
       \/ \E h \in Fingerprints : SubmitUnkeyed(c, h)
       \/ Claim(c)
       \/ Send(c)
       \/ NoPost(c)
       \/ \E o \in Outcomes : PostReturns(c, o)
       \/ Finish(c)
       \/ Poll(c)
       \/ Die(c)
  \/ Restart
  \/ Tick

Spec == Init /\ [][Next]_vars

(* The event loop and its threads run every started row on; the client's   *)
(* timeouts end every POST; time passes. Nothing forces a browser to       *)
(* submit, Oracle to decide, or the process to die.                        *)
Fairness ==
  /\ WF_vars(Tick)
  /\ \A c \in Callers :
       /\ WF_vars(Claim(c))
       /\ WF_vars(Send(c) \/ NoPost(c))
       /\ WF_vars(\E o \in Outcomes : PostReturns(c, o))
       /\ WF_vars(Finish(c))
       /\ WF_vars(\E seen \in at[c]..now : PollHit(c, seen) \/ PollTimeout(c, seen))

FairSpec == Spec /\ Fairness

-----------------------------------------------------------------------------
(* Properties.                                                             *)

Min2(a, b) == IF a <= b THEN a ELSE b

(* The invocations whose claim is granted and not yet settled.             *)
Holding(c) ==
  /\ pc[c] \in {"claimed", "posted", "completing"}
  /\ key[c] # NoKey

(* A claim protects its holder until its lease or its record ends.         *)
Deadline(c) == Min2(held[c].lease, held[c].expires)

(* Two invocations never work on the same key at once while both claims    *)
(* are live: claim refuses everyone else until the lease or the record     *)
(* runs out, whatever stale clock readings the threads carry.              *)
ExclusiveClaim ==
  \A c, d \in Callers :
    /\ Holding(c) /\ Holding(d) /\ key[c] = key[d]
    /\ now < Deadline(c) /\ now < Deadline(d)
    => c = d

(* complete() reported success for a definitive result, or a release.      *)
Stored(c)   == key[c] # NoKey /\ source[c] = c /\ reply[c] \in Definitive
Released(c) == key[c] # NoKey /\ source[c] = c /\ IsAmbiguous(reply[c])

(* d was rightly granted the key after c had been: c had released it, or   *)
(* c's claim had lapsed, or c's memoised result had expired.               *)
RightlyAfter(c, d) ==
  \/ Released(c)
  \/ held[d].from >= (IF Stored(c) THEN held[c].expires ELSE Deadline(c))

(* Oracle is sent a second POST for a key only for one of those reasons:   *)
(* in particular never within the lifetime of a memoised result.           *)
SecondPostIsJustified ==
  \A c, d \in Callers :
    /\ c # d /\ key[c] = key[d] /\ key[c] # NoKey
    /\ sent[c] /\ sent[d]
    => RightlyAfter(c, d) \/ RightlyAfter(d, c)

(* A row answered from the store reports what became of an invocation of   *)
(* the same key that was told the same: an unknown outcome is never        *)
(* replayed, and no success or busy answer for which Oracle was not asked. *)
(* Only what never went out at all (a row that cannot be mapped, demo      *)
(* mode) is replayed without a POST.                                       *)
ReplayIsTruthful ==
  \A c \in Callers : source[c] \notin {c, NoCaller} =>
    LET w == source[c] IN
      /\ key[w] = key[c]
      /\ Stored(w)
      /\ sent[w] \/ outcome[w] = Unposted
      /\ reply[c] = outcome[w]

(* A live claimant is never told that its claim was lost.                  *)
LostOnlyAfterDeadline ==
  \A c \in Callers : reply[c] = "claim_lost" => Deadline(c) <= now

(* A memoised result never changes and is never reopened for a new claim   *)
(* before it expires (unless the memory backend's process restarts).       *)
MemoisedResultIsFinal ==
  [][Restart \/ \A k \in Keys :
       records[k].state = "complete" /\ now < records[k].expires
         => records'[k] = records[k]]_vars

(* Every submitted row is answered, or its process dies.                   *)
EveryRowIsAnswered ==
  \A c \in Callers : pc[c] \notin {"idle", "done", "dead"}
                       ~> pc[c] \in {"idle", "done", "dead"}

-----------------------------------------------------------------------------
(* The store under concurrent rows implements WriteOnce: a record is a     *)
(* slot, an answered row has been told its reply.                          *)
SlotOf(r) ==
  CASE r.state = "absent"   -> [kind |-> "free", by |-> NoCaller]
    [] r.state = "pending"  -> [kind |-> "held", by |-> r.owner]
    [] r.state = "complete" -> [kind |-> "written", by |-> r.writer]

ToldTo(c) ==
  [ kind |-> IF reply[c] = "none" THEN "nothing"
             ELSE IF source[c] = NoCaller THEN "refused"
             ELSE IF source[c] = c THEN "own" ELSE "echo",
    by   |-> source[c] ]

Once == INSTANCE WriteOnce WITH
          slot <- [k \in Keys |-> SlotOf(records[k])],
          told <- [c \in Callers |-> ToldTo(c)]

(* Whatever the clocks, crashes and outages, a row is answered once, with  *)
(* its own result if it was still the holder of its key and with the       *)
(* writer's result if it found a written record.                           *)
ImplementsWriteOnce == Once!Spec

-----------------------------------------------------------------------------
(* What the repository says and the code does not do.                      *)

(* idempotency.py:181 calls a 409 or a 429 of Oracle retryable: "re-sending*)
(* the same requestId can change the outcome".                             *)
RetryableResultIsNotMemoised ==
  \A k \in Keys : records[k].state = "complete"
                    => outcome[records[k].writer] # "busy"

(* idempotency.py:76-78: a requestId "already used for different timecard  *)
(* data" is a conflict, so no row is answered with another payload's       *)
(* result.                                                                 *)
ReplayIsForTheSameData ==
  \A c \in Callers : source[c] # NoCaller => hash[source[c]] = hash[c]
=============================================================================
