-------------------------- MODULE IdempotencyStore --------------------------
(***************************************************************************)
(* The write-deduplication store of backend/services/idempotency.py: one   *)
(* record per scoped key, the claim / complete / read operations of its    *)
(* two backends (a dict behind a lock, an SQLite file behind BEGIN         *)
(* IMMEDIATE), each a single transaction on `records`.                     *)
(*                                                                         *)
(* Every operation reads time.time() BEFORE it enters the lock or the      *)
(* transaction, so it works with a reading `at` that may lie behind the    *)
(* clock by the time the transaction runs: `at` is a parameter here.       *)
(*                                                                         *)
(* A uuid4 token is drawn at most once per invocation of _submit_single,   *)
(* so the invocation itself (a member of Callers) stands for the token.    *)
(* The stored result_json is represented by `writer`, the invocation whose *)
(* outcome it records.                                                     *)
(***************************************************************************)
EXTENDS Integers

CONSTANTS
  Keys,          \* scoped idempotency keys: timecard:<employee>:<requestId>
  Fingerprints,  \* request fingerprints: hashes of the entry's data
  Callers,       \* invocations of _submit_single, one per row of a request
  NoCaller,      \* a None owner_token or a NULL result_json
  Ttl,           \* ttl_seconds, in ticks of the model's clock
  Lease          \* lease_seconds, in ticks

(* __init__ clamps ttl_seconds from below and lease_seconds to (0, ttl]. *)
ASSUME StoreAssumption ==
  /\ Ttl \in Nat \ {0}
  /\ Lease \in 1..Ttl
  /\ NoCaller \notin Callers

VARIABLES
  backend,  \* which backend get_idempotency_store() built
  records   \* the table, or the dict: key -> record

Backends == {"memory", "sqlite"}

Record == [ state   : {"absent", "pending", "complete"},
            hash    : Fingerprints \cup {NoCaller},
            owner   : Callers \cup {NoCaller},
            lease   : Nat,
            expires : Nat,
            writer  : Callers \cup {NoCaller} ]

NoRecord == [ state |-> "absent", hash |-> NoCaller, owner |-> NoCaller,
              lease |-> 0, expires |-> 0, writer |-> NoCaller ]

StoreTypeOK ==
  /\ backend \in Backends
  /\ records \in [Keys -> Record]

StoreInit ==
  /\ backend \in Backends
  /\ records = [k \in Keys |-> NoRecord]

-----------------------------------------------------------------------------
(* _cleanup, and the DELETE ... WHERE expires_at <= ? that opens claim and *)
(* read: rows of every key are removed, not only of the one asked for.     *)
Purged(at) ==
  [k \in Keys |-> IF records[k].expires <= at THEN NoRecord ELSE records[k]]

Purge(at) == records' = Purged(at)

(* The four answers of claim, in the order in which the code tests them.   *)
IsVacant(k, at)   == Purged(at)[k].state = "absent"

IsConflict(k, h, at) ==
  /\ ~IsVacant(k, at)
  /\ records[k].hash # h

IsReplay(k, h, at) ==
  /\ ~IsVacant(k, at)
  /\ records[k].hash = h
  /\ records[k].state = "complete"

(* Mutations: a pending record is reclaimed without the lease test; the    *)
(* lease is tested before the state, and a completed record's lease is 0.  *)
BugLapsedAtOnce(k, h, at) ==
  /\ ~IsVacant(k, at)
  /\ records[k].hash = h
  /\ records[k].state = "pending"

BugLapsedWhenComplete(k, h, at) ==
  /\ ~IsVacant(k, at)
  /\ records[k].hash = h
  /\ records[k].lease <= at

IsLapsed(k, h, at) ==
  /\ ~IsVacant(k, at)
  /\ records[k].hash = h
  /\ records[k].state = "pending"
  /\ records[k].lease <= at

IsPending(k, h, at) ==
  /\ ~IsVacant(k, at)
  /\ records[k].hash = h
  /\ records[k].state = "pending"
  /\ at < records[k].lease

FreshRecord(c, h, at) ==
  [ state |-> "pending", hash |-> h, owner |-> c, lease |-> at + Lease,
    expires |-> at + Ttl, writer |-> NoCaller ]

(* Reclaiming moves the token and the lease and leaves expires_at alone.   *)
ReclaimedRecord(c, r, at) == [r EXCEPT !.owner = c, !.lease = at + Lease]

GrantedRecord(c, k, h, at) ==
  IF IsVacant(k, at) THEN FreshRecord(c, h, at)
                     ELSE ReclaimedRecord(c, records[k], at)

Grant(c, k, h, at) ==
  /\ IsVacant(k, at) \/ IsLapsed(k, h, at)
  /\ records' = [Purged(at) EXCEPT ![k] = GrantedRecord(c, k, h, at)]

-----------------------------------------------------------------------------
(* Mutation: completing without the owner_token test.                      *)
BugCompleteAnyToken(c, k, at, ambiguous) ==
  /\ records[k].state = "pending"
  /\ \/ ambiguous /\ backend = "sqlite"
     \/ at < records[k].lease /\ at < records[k].expires

(* complete's precondition. SQLite releases an ambiguous result with a     *)
(* DELETE that tests the token only; every other path tests the lease and  *)
(* the expiry too. Neither backend purges here.                            *)
CanComplete(c, k, at, ambiguous) ==
  /\ records[k].state = "pending"
  /\ records[k].owner = c
  /\ \/ ambiguous /\ backend = "sqlite"
     \/ at < records[k].lease /\ at < records[k].expires

CompletedRecord(c, r) ==
  [r EXCEPT !.state = "complete", !.owner = NoCaller, !.lease = 0, !.writer = c]

(* An ambiguous result is never memoised: the claim is released.           *)
Complete(c, k, at, ambiguous) ==
  /\ CanComplete(c, k, at, ambiguous)
  /\ records' = [records EXCEPT ![k] =
                   IF ambiguous THEN NoRecord ELSE CompletedRecord(c, @)]

(* read finds a result only in a complete record that has not expired.     *)
CanRead(k, at) == Purged(at)[k].state = "complete"
=============================================================================
