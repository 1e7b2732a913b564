---------------------------- MODULE TimecardRoute ----------------------------
(***************************************************************************)
(* POST /api/otl/timecard (submit_timecard of backend/api/v1/timecards.py) *)
(* around the rules of TimecardRules: what it refuses, what it resolves,   *)
(* what it hands to acreate_many and what it answers, while the catalogue  *)
(* is refreshed, midnight passes and the browser sends a request again.    *)
(*                                                                         *)
(* An attempt is one request; a later attempt resends an earlier one's     *)
(* body. The claim, the POST and the completion of a row are one step      *)
(* here: how they interleave is the subject of TimecardSubmission.         *)
(***************************************************************************)
EXTENDS TimecardRules, Sequences

CONSTANTS
  Attempts, Keys,
  Me, NumericIds,  \* the sessions' employee; the ids made of digits
  Names,           \* the display names Oracle gives for them
  Bodies,          \* what browsers send: [form, rows, id, header]
  Resent,          \* bound: those of them that a second attempt sends again
  Catalogues,      \* the states of the catalogue: [loaded, index]
  MaxRows,         \* MAX_TIMECARD_ENTRIES
  LastDay          \* bound: the days that pass

ASSUME RouteAssumption ==
  /\ None \notin Keys /\ Bad \notin Keys
  /\ Resent \subseteq Bodies
  /\ MaxRows \in Nat /\ LastDay \in Nat

(* A body has a list of rows with keys of their own, and has keys itself;   *)
(* what is read as a time is one of the day.                               *)
ASSUME BodiesAssumption ==
  \A b \in Bodies :
    /\ b.form \in {"entries", "message", "malformed"}
    /\ {b.id, b.header} \subseteq Keys \cup {None, Bad}
    /\ Len(b.rows) \in Nat /\ DOMAIN b.rows = 1..Len(b.rows)
    /\ \A i \in DOMAIN b.rows :
         /\ EntryFields \subseteq DOMAIN b.rows[i]
         /\ {b.rows[i].id, b.rows[i].other, b.rows[i].third, b.rows[i].alias,
             b.rows[i].otherAlias} \subseteq Keys \cup {None, Bad}
         /\ {b.rows[i].start, b.rows[i].stop} \subseteq (0..Day-1) \cup {None, Bad}

(* An employee's projects are a list, and so are a project's tasks; no     *)
(* project is loaded without an id.                                        *)
ASSUME CataloguesAssumption ==
  \A c \in Catalogues :
    /\ DOMAIN c.index[Me] \subseteq Nat
    /\ \A i \in DOMAIN c.index[Me] : /\ DOMAIN c.index[Me][i].tasks \subseteq Nat
                                     /\ c.index[Me][i].pid # None

VARIABLES
  catalogue, today,
  pc, body,
  fullName, \* ctx.full_name of the session the attempt came with
  list,     \* the assignments the attempt was validated and resolved with
  rows,     \* its resolved rows
  result,   \* what became of each of them
  status,   \* the HTTP status, 0 before there is one
  records,  \* the memoised results: the row's fingerprint and its outcome
  booked    \* the POSTs sent to Oracle, and whether it took them

vars == <<catalogue, today, pc, body, fullName, list, rows, result, status, records,
          booked>>

NoBody == [form |-> "none", rows |-> << >>, id |-> None, header |-> None]
NoRecord == [hash |-> None, outcome |-> "none"]
Outcomes == {"created", "rejected", "busy", "unavailable"}
Results  == Outcomes \cup {"none", "conflict", "store_unavailable"}

TypeOK ==
  /\ catalogue \in Catalogues
  /\ today \in 0..LastDay
  /\ pc \in [Attempts -> {"idle", "looking", "looked", "rows", "answered"}]
  /\ \A a \in Attempts : body[a].form \in {"none", "entries", "message", "malformed"}
  /\ fullName \in [Attempts -> Names \cup {None}]
  /\ status \in [Attempts -> {0, 200, 400, 422, 502, 503}]
  /\ \A a \in Attempts : /\ DOMAIN result[a] = DOMAIN rows[a]
                         /\ \A i \in DOMAIN rows[a] : result[a][i] \in Results
  /\ \A k \in Keys : records[k].outcome \in Outcomes \cup {"none"}
  /\ \A p \in booked : p.by \in Attempts /\ p.applied \in BOOLEAN

Init ==
  /\ catalogue \in Catalogues
  /\ today = 0
  /\ pc = [a \in Attempts |-> "idle"]
  /\ body = [a \in Attempts |-> NoBody]
  /\ fullName = [a \in Attempts |-> None]
  /\ list = [a \in Attempts |-> << >>]
  /\ rows = [a \in Attempts |-> << >>]
  /\ result = [a \in Attempts |-> << >>]
  /\ status = [a \in Attempts |-> 0]
  /\ records = [k \in Keys |-> NoRecord]
  /\ booked = {}

-----------------------------------------------------------------------------
(* body.entries as they come, or those of the fenced block in the          *)
(* assistant's message, which are normalised.                              *)
EntriesOf(b) ==
  IF b.form = "message" THEN [i \in DOMAIN b.rows |-> Normalized(b.rows[i])]
  ELSE b.rows

RequestId(b) == IF b.id # None THEN b.id ELSE b.header

EntryKey(e) == KeyOf(KeysIn(e, None))

AreDistinct(keys) ==
  \A i, j \in DOMAIN keys : keys[i] = keys[j] /\ keys[i] # None => i = j

(* The keys of the request and of its rows, as the route compares them: it *)
(* does not fold request_id and idempotency_key first.                     *)
KeysOk(b) ==
  LET es == EntriesOf(b)
      rid == RequestId(b)
      keys == [i \in DOMAIN es |-> EntryKey(es[i])]
  IN /\ ~KeyError({b.id, b.header} \ {None})
     /\ rid # None => Len(es) = 1
     /\ \A i \in DOMAIN es : /\ ~KeyError(KeysIn(es[i], None))
                             /\ rid # None => keys[i] \in {None, rid}
     /\ AreDistinct(keys)

(* Mutation: the keys of the rows are not compared.                        *)
BugTrustsKeys(b) ==
  IF b.form = "malformed" \/ Len(EntriesOf(b)) > MaxRows THEN 422
  ELSE IF b.rows = << >> \/ ~RowsOk(EntriesOf(b)) THEN 400 ELSE 0

(* What is refused before anything is looked up.                           *)
Refusal(b) ==
  CASE b.form = "malformed" -> 422
    [] Len(EntriesOf(b)) > MaxRows -> 422
    [] b.rows = << >> -> 400
    [] OTHER -> IF KeysOk(b) /\ RowsOk(EntriesOf(b)) THEN 0 ELSE 400

(* What acreate_many refuses before it touches the store.                  *)
PreflightOk(rs, rid) ==
  LET fallback == IF Len(rs) = 1 THEN rid ELSE None IN
    /\ Len(rs) <= MaxRows
    /\ rid # None => Len(rs) = 1
    /\ \A i \in DOMAIN rs : ~KeyError(KeysIn(rs[i], fallback)) /\ WellFormed(rs[i])
    /\ AreDistinct([i \in DOMAIN rs |-> KeyOf(KeysIn(rs[i], fallback))])

Keyed(rs, rid) ==
  IF rid # None /\ Len(rs) = 1 THEN <<[rs[1] EXCEPT !.id = rid]>> ELSE rs

(* Mutation: the fingerprint takes in the day the row is booked on.        *)
BugHashesTheDay(r) == <<[r EXCEPT !.id = None, !.other = None, !.third = None], today>>

(* request_fingerprint: all of the resolved row but its keys. The session's *)
(* employeeName, which it means to leave out, is compared with a casefolded *)
(* key and never matches.                                                  *)
Fingerprint(r) == [r EXCEPT !.id = None, !.other = None, !.third = None]

-----------------------------------------------------------------------------
Answer(a, code) ==
  /\ pc' = [pc EXCEPT ![a] = "answered"]
  /\ status' = [status EXCEPT ![a] = code]

(* The name is that of the login or refresh that opened the session.       *)
Receive(a, b) ==
  /\ pc[a] = "idle"
  /\ body' = [body EXCEPT ![a] = b]
  /\ \E n \in Names : fullName' = [fullName EXCEPT ![a] = n]
  /\ IF Refusal(b) # 0
     THEN Answer(a, Refusal(b))
     ELSE pc' = [pc EXCEPT ![a] = "looking"] /\ UNCHANGED status
  /\ UNCHANGED <<catalogue, today, list, rows, result, records, booked>>

(* The browser sends its one request, or sends it again: it got a          *)
(* retryable answer, or none.                                              *)
Send(a) ==
  \/ /\ \A c \in Attempts : body[c] = NoBody
     /\ \E b \in Bodies : Receive(a, b)
  \/ \E c \in Attempts : body[c] \in Resent /\ Receive(a, body[c])

(* alist_assignments_for_worker, in a thread.                              *)
Lookup(a) ==
  /\ pc[a] = "looking"
  /\ pc' = [pc EXCEPT ![a] = "looked"]
  /\ list' = [list EXCEPT ![a] = AssignmentsOf(catalogue, Me, Me \in NumericIds)]
  /\ UNCHANGED <<catalogue, today, body, fullName, rows, result, status, records, booked>>

LookupFails(a) ==
  /\ pc[a] = "looking"
  /\ Answer(a, 503)
  /\ UNCHANGED <<catalogue, today, body, fullName, list, rows, result, records, booked>>

RefuseAssignment(a) ==
  /\ pc[a] = "looked"
  /\ ~RowsAssigned(EntriesOf(body[a]), list[a])
  /\ Answer(a, 400)
  /\ UNCHANGED <<catalogue, today, body, fullName, list, rows, result, records, booked>>

(* The rows are resolved and handed on; what acreate_many raises is a 502. *)
Dispatch(a) ==
  LET es == EntriesOf(body[a])
      rid == RequestId(body[a])
      rs == [i \in DOMAIN es |-> Resolved(es[i], Me, fullName[a], list[a])]
  IN /\ pc[a] = "looked"
     /\ RowsAssigned(es, list[a])
     /\ IF PreflightOk(rs, rid)
        THEN /\ pc' = [pc EXCEPT ![a] = "rows"]
             /\ rows' = [rows EXCEPT ![a] = Keyed(rs, rid)]
             /\ result' = [result EXCEPT ![a] = [i \in DOMAIN rs |-> "none"]]
             /\ UNCHANGED status
        ELSE Answer(a, 502) /\ UNCHANGED <<rows, result>>
     /\ UNCHANGED <<catalogue, today, body, fullName, list, records, booked>>

-----------------------------------------------------------------------------
(* _submit_single, one row of the gather.                                  *)
IsOpen(a, i) == pc[a] = "rows" /\ i \in DOMAIN rows[a] /\ result[a][i] = "none"

Settle(a, i, res) ==
  /\ result' = [result EXCEPT ![a][i] = res]
  /\ UNCHANGED <<catalogue, today, pc, body, fullName, list, rows, status>>

IsGranted(r) == EntryKey(r) # None => records[EntryKey(r)] = NoRecord

Memoise(r, outcome) ==
  records' = IF EntryKey(r) = None \/ outcome = "unavailable" THEN records
             ELSE [records EXCEPT ![EntryKey(r)] =
                     [hash |-> Fingerprint(r), outcome |-> outcome]]

(* The claim finds a record: of the same data, or of other data.           *)
RowFromStore(a, i) ==
  LET r == rows[a][i] IN
    /\ IsOpen(a, i) /\ ~IsGranted(r)
    /\ Settle(a, i, IF records[EntryKey(r)].hash = Fingerprint(r)
                    THEN records[EntryKey(r)].outcome ELSE "conflict")
    /\ UNCHANGED <<records, booked>>

(* map_entry_to_otl refuses the row after the claim, as if Oracle had.     *)
RowNotMapped(a, i) ==
  LET r == rows[a][i] IN
    /\ IsOpen(a, i) /\ IsGranted(r) /\ ~IsMappable(r)
    /\ Memoise(r, "rejected")
    /\ Settle(a, i, "rejected")
    /\ UNCHANGED booked

(* An unavailable Oracle may have taken the row. The result may fail to be *)
(* stored, or the claim be lost; the claim then runs out by itself, and    *)
(* both answers are retryable.                                             *)
RowPosted(a, i, o, applied, stored) ==
  LET r == rows[a][i] IN
    /\ IsOpen(a, i) /\ IsGranted(r) /\ IsMappable(r)
    /\ o = "created" => applied
    /\ o \in {"rejected", "busy"} => ~applied
    /\ stored \/ EntryKey(r) # None
    /\ booked' = booked \cup {[by |-> a, row |-> i, payload |-> Payload(r, today),
                               applied |-> applied]}
    /\ IF stored THEN Memoise(r, o) ELSE UNCHANGED records
    /\ Settle(a, i, IF stored THEN o ELSE "store_unavailable")

(* The store fails this claim: no claim, no POST.                          *)
RowUnclaimed(a, i) ==
  /\ IsOpen(a, i) /\ EntryKey(rows[a][i]) # None
  /\ Settle(a, i, "store_unavailable")
  /\ UNCHANGED <<records, booked>>

(* No store at all: as one row needs it, none of the request is submitted. *)
StoreMissing(a) ==
  /\ pc[a] = "rows"
  /\ \E i \in DOMAIN rows[a] : EntryKey(rows[a][i]) # None
  /\ \A i \in DOMAIN rows[a] : IsOpen(a, i)
  /\ result' = [result EXCEPT ![a] = [i \in DOMAIN rows[a] |-> "store_unavailable"]]
  /\ UNCHANGED <<catalogue, today, pc, body, fullName, list, rows, status, records, booked>>

Row(a, i) ==
  \/ RowFromStore(a, i)
  \/ RowNotMapped(a, i)
  \/ \E o \in Outcomes, applied, stored \in BOOLEAN : RowPosted(a, i, o, applied, stored)
  \/ RowUnclaimed(a, i)

Retryable == {"unavailable", "store_unavailable", "busy"}

(* Mutations: the answer is final as soon as one row's is; a conflict has  *)
(* a status of its own.                                                    *)
BugConflictStatus(a) ==
  LET results == {result[a][i] : i \in DOMAIN rows[a]} IN
    IF "created" \in results THEN 200 ELSE IF "conflict" \in results THEN 409
    ELSE IF results \cap Retryable # {} THEN 502 ELSE 422

BugAllRetryable(a) ==
  LET results == {result[a][i] : i \in DOMAIN rows[a]} IN
    IF "created" \in results THEN 200 ELSE IF results \subseteq Retryable THEN 502 ELSE 422

(* 200 if any row went through, else whether sending it again can help.    *)
Verdict(a) ==
  LET results == {result[a][i] : i \in DOMAIN rows[a]} IN
    IF "created" \in results THEN 200
    ELSE IF results \cap Retryable # {} THEN 502 ELSE 422

Respond(a) ==
  /\ pc[a] = "rows"
  /\ \A i \in DOMAIN rows[a] : result[a][i] # "none"
  /\ Answer(a, Verdict(a))
  /\ UNCHANGED <<catalogue, today, body, fullName, list, rows, result, records, booked>>

-----------------------------------------------------------------------------
(* Another worker or this one replaces the catalogue; midnight passes.     *)
Refresh ==
  /\ catalogue' \in Catalogues
  /\ UNCHANGED <<today, pc, body, fullName, list, rows, result, status, records, booked>>

Midnight ==
  /\ today < LastDay
  /\ today' = today + 1
  /\ UNCHANGED <<catalogue, pc, body, fullName, list, rows, result, status, records, booked>>

Next ==
  \/ \E a \in Attempts : \/ Send(a) \/ Lookup(a) \/ LookupFails(a)
                         \/ RefuseAssignment(a) \/ Dispatch(a)
                         \/ \E i \in DOMAIN rows[a] : Row(a, i)
                         \/ StoreMissing(a) \/ Respond(a)
  \/ Refresh
  \/ Midnight

Spec == Init /\ [][Next]_vars

-----------------------------------------------------------------------------
(* Properties.                                                             *)

(* Whatever the browser sends, and whenever the catalogue changes, a POST  *)
(* books the session's employee on a project the catalogue assigned to     *)
(* them in this very request, and on a task of that project.               *)
BookedWorkIsAssigned ==
  \A p \in booked :
    /\ p.payload.who = Me
    /\ \E i \in DOMAIN list[p.by] :
         LET q == list[p.by][i] IN
           /\ q.pid = p.payload.pid
           /\ p.payload.task # None => p.payload.task \in TaskIdsOf(q)

(* What is booked is a stretch of one day as long as the hours it claims,  *)
(* under an allowed type (none only where the default is empty), also      *)
(* where its start or stop was made up.                                    *)
BookedTimesAreWhole ==
  \A p \in booked : LET q == p.payload IN
    /\ 0 <= q.start /\ q.start < q.stop /\ q.stop < Day
    /\ q.stop - q.start = q.measure
    /\ q.type \in Types \/ (q.type = None /\ DefaultType = None)

HoursBooked(a, d) ==
  MapThenSumSet(LAMBDA p : p.payload.measure,
                {p \in booked : p.by = a /\ p.payload.day = d})

(* The rows of one request book no more than the daily limit on a day,     *)
(* unless it mixes rows of that date with rows without one.                *)
DaysStayWithinLimit ==
  \A a \in Attempts, d \in 0..LastDay :
    HoursBooked(a, d) > MaxDay =>
      {None, d} \subseteq {rows[a][i].date : i \in DOMAIN rows[a]}

(* The status tells the browser whether to send the request again: it must *)
(* not say 200 if nothing of the request is in Oracle, nor a final 4xx, or *)
(* that nothing was submitted, if Oracle took one of its rows.             *)
IsTakenFor(a, i) ==
  \E p \in booked : /\ p.applied
                    /\ \/ p.by = a /\ p.row = i
                       \/ /\ EntryKey(rows[a][i]) # None
                          /\ EntryKey(rows[p.by][p.row]) = EntryKey(rows[a][i])
StatusIsTrue ==
  \A a \in Attempts :
    /\ status[a] = 200 => \E i \in DOMAIN rows[a] : IsTakenFor(a, i)
    /\ status[a] \in {400, 422, 503} => ~ \E p \in booked : p.by = a /\ p.applied

(* What the route lets through, acreate_many accepts: nothing that sending *)
(* it again cannot change is answered 502, unless a row of a structured    *)
(* body hides a key behind request_id or idempotency_key, which the route  *)
(* does not fold before it compares.                                       *)
PreflightAgreesWithTheRoute ==
  \A a \in Attempts :
    status[a] = 502 /\ rows[a] = << >> =>
      /\ body[a].form = "entries"
      /\ \E i \in DOMAIN body[a].rows :
           {body[a].rows[i].alias, body[a].rows[i].otherAlias} # {None}

(* A request sent again as it was is told that its key "was already used   *)
(* for different timecard data" (idempotency.py:78) only where a row of    *)
(* that key was handed on which hashes differently, and only because the   *)
(* assignments or the session's display name changed between the two: not  *)
(* for passing midnight, nor for what became of the other rows.            *)
ConflictIsExplained ==
  \A a \in Attempts : \A i \in DOMAIN rows[a] :
    result[a][i] = "conflict" =>
      \E c \in Attempts : \E j \in DOMAIN rows[c] :
        /\ EntryKey(rows[c][j]) = EntryKey(rows[a][i])
        /\ Fingerprint(rows[c][j]) # Fingerprint(rows[a][i])
        /\ list[c] # list[a] \/ fullName[c] # fullName[a]

=============================================================================
