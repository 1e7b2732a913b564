------------------------ MODULE TimecardRoute_proofs ------------------------
(***************************************************************************)
(* Theorems about TimecardRoute for any bodies, catalogues, keys and       *)
(* number of attempts.                                                     *)
(***************************************************************************)
EXTENDS TimecardRoute, FiniteSetTheorems, WellFoundedInduction, TLAPS

(* The rows an attempt hands on follow from its body, the session's name   *)
(* and its assignments.                                                    *)
RowsFor(b, n, l) ==
  Keyed([i \in DOMAIN EntriesOf(b) |-> Resolved(EntriesOf(b)[i], Me, n, l)], RequestId(b))

IsOfWork(task, pid, l) ==
  \E j \in DOMAIN l : /\ l[j].pid = pid
                      /\ task \notin {None, 0} => task \in TaskIdsOf(l[j])

(* Once rows are handed on: where they come from, what they name, and that *)
(* no two of them have a key in common.                                    *)
AreHandedOn(rs, b, n, l) ==
  /\ rs = RowsFor(b, n, l) /\ b \in Bodies
  /\ \A i \in DOMAIN rs : /\ rs[i].who = Me
                          /\ IsOfWork(rs[i].task, rs[i].pid, l)
                          /\ EntryKey(rs[i]) \in Keys \cup {None}
  /\ AreDistinct([i \in DOMAIN rs |-> EntryKey(rs[i])])

RowsInv ==
  \A a \in Attempts :
    \/ rows[a] = << >>
    \/ pc[a] \in {"rows", "answered"} /\ AreHandedOn(rows[a], body[a], fullName[a], list[a])

BaseInv ==
  /\ catalogue \in Catalogues
  /\ pc \in [Attempts -> {"idle", "looking", "looked", "rows", "answered"}]
  /\ body \in [Attempts -> Bodies \cup {NoBody}] /\ fullName \in [Attempts -> Names \cup {None}]
  /\ DOMAIN list = Attempts /\ DOMAIN rows = Attempts /\ DOMAIN result = Attempts
  /\ DOMAIN records = Keys
  /\ \A a \in Attempts : /\ pc[a] = "idle" <=> body[a] = NoBody
                         /\ pc[a] # "rows" /\ pc[a] # "answered" => rows[a] = << >>
                         /\ DOMAIN result[a] = DOMAIN rows[a]
  /\ \A a, c \in Attempts : body[a] \in Bodies /\ body[c] \in Bodies => body[a] = body[c]
  /\ \A a \in Attempts : /\ DOMAIN list[a] \subseteq Nat
                         /\ \A j \in DOMAIN list[a] : /\ DOMAIN list[a][j].tasks \subseteq Nat
                                                      /\ list[a][j].pid # None

(* A memoised result is of a row that was handed on, and is no conflict.   *)
RecordsInv ==
  \A k \in Keys :
    records[k] # NoRecord =>
      /\ records[k].outcome # "conflict"
      /\ \E c \in Attempts : \E j \in DOMAIN rows[c] :
           EntryKey(rows[c][j]) = k /\ records[k].hash = Fingerprint(rows[c][j])

BookedInv ==
  /\ \A p \in booked : p.by \in Attempts /\ rows[p.by] # << >>
  /\ BookedWorkIsAssigned

(* Why a row meets a conflict.                                             *)
IsExplained(a, i) ==
  \E c \in Attempts : \E j \in DOMAIN rows[c] :
    /\ EntryKey(rows[c][j]) = EntryKey(rows[a][i])
    /\ Fingerprint(rows[c][j]) # Fingerprint(rows[a][i])
    /\ list[c] # list[a] \/ fullName[c] # fullName[a]

IInv == BaseInv /\ RowsInv /\ RecordsInv /\ BookedInv /\ ConflictIsExplained

(* The status of an answer, where it comes from, and what it waits for.    *)
AnswerInv ==
  /\ status \in [Attempts -> {0, 200, 400, 422, 502, 503}]
  /\ \A a \in Attempts :
       /\ pc[a] \in {"looking", "looked"} => Refusal(body[a]) = 0
       /\ pc[a] # "answered" => status[a] = 0
       /\ pc[a] = "answered" =>
            \/ rows[a] = << >> /\ status[a] \in {400, 422, 502, 503}
            \/ /\ \A i \in DOMAIN rows[a] : result[a][i] # "none"
               /\ status[a] = Verdict(a)

(* What is said to be created was taken, also by the store; what was taken *)
(* was said to be created, or may be sent again.                           *)
TakenInv ==
  /\ \A a \in Attempts : \A i \in DOMAIN rows[a] :
       result[a][i] = "created" => IsTakenFor(a, i)
  /\ \A k \in Keys : records[k].outcome = "none" => records[k] = NoRecord
  /\ \A k \in Keys : records[k].outcome = "created" =>
       \E p \in booked : p.applied /\ EntryKey(rows[p.by][p.row]) = k
  /\ \A p \in booked : p.applied =>
       /\ p.row \in DOMAIN rows[p.by]
       /\ result[p.by][p.row] \in {"created"} \cup Retryable

(* What the client of Oracle refuses as a whole hides a key.               *)
Hides(b) ==
  /\ b.form = "entries"
  /\ \E i \in DOMAIN b.rows : {b.rows[i].alias, b.rows[i].otherAlias} # {None}

PreflightInv == \A a \in Attempts : status[a] = 502 /\ rows[a] = << >> => Hides(body[a])

SInv == AnswerInv /\ TakenInv /\ PreflightInv

-----------------------------------------------------------------------------
(* Lists, rows and keys.                                                   *)
LEMMA FirstIsIn ==
  ASSUME NEW s, s \subseteq Nat, s # {}
  PROVE  FirstOf(s) \in s /\ \A j \in s : FirstOf(s) <= j
<1>1. PICK x \in s : \A y \in s : ~ (<<y, x>> \in OpToRel(<, Nat))
  BY NatLessThanWellFounded, WFMin
<1>2. \A y \in s : ~ (y < x)
  BY <1>1 DEF OpToRel
<1>3. \A y \in s : x <= y
  BY <1>2
<1>. QED
  BY <1>3 DEF FirstOf

LEMMA LengthOf ==
  ASSUME NEW n \in Nat, NEW S, NEW f \in [1..n -> S]
  PROVE  Len(f) = n
<1>1. f \in Seq(S)
  OBVIOUS
<1>. QED
  BY <1>1

LEMMA ResolvedFacts ==
  ASSUME NEW e, EntryFields \subseteq DOMAIN e, NEW called, NEW l, DOMAIN l \subseteq Nat,
         \A j \in DOMAIN l : DOMAIN l[j].tasks \subseteq Nat, IsAssigned(e, l)
  PROVE  /\ EntryFields \subseteq DOMAIN Resolved(e, Me, called, l)
         /\ Resolved(e, Me, called, l).who = Me
         /\ IsOfWork(Resolved(e, Me, called, l).task, Resolved(e, Me, called, l).pid, l)
         /\ Resolved(e, Me, called, l).id = Normalized(e).id
         /\ Resolved(e, Me, called, l).other = Normalized(e).other
         /\ Resolved(e, Me, called, l).third = e.third
<1> DEFINE s == Matches(e, l)
           p == ProjectFor(e, l)
           n == Normalized(e)
           r == Resolved(e, Me, called, l)
<1>1. s # {} /\ s \subseteq DOMAIN l
  BY DEF IsAssigned, HasProject, Matches
<1>2. FirstOf(s) \in DOMAIN l /\ p = l[FirstOf(s)]
  <2>1. s \subseteq Nat
    BY <1>1
  <2> HIDE DEF s
  <2>2. FirstOf(s) \in s
    BY <1>1, <2>1, FirstIsIn
  <2>. QED
    BY <1>1, <2>2 DEF ProjectFor, s
<1>3. DOMAIN n = DOMAIN e /\ n.third = e.third
  BY DEF Normalized, EntryFields
<1>4. /\ DOMAIN r = DOMAIN n /\ r.who = Me /\ r.pid = p.pid /\ r.task = TaskFor(e, p)
      /\ r.id = n.id /\ r.other = n.other /\ r.third = n.third
  BY <1>3 DEF Resolved, EntryFields
<1>5. TaskFor(e, p) \notin {None, 0} => TaskFor(e, p) \in TaskIdsOf(p)
  <2>1. CASE e.task \notin {None, 0}
    BY <2>1 DEF IsAssigned, TaskFor
  <2>2. CASE e.task \in {None, 0}
    <3> DEFINE t == TasksNamed(p, e.details)
    <3>1. t \subseteq DOMAIN p.tasks /\ DOMAIN p.tasks \subseteq Nat
      BY <1>2 DEF TasksNamed
    <3>2. CASE t = {}
      BY <2>2, <3>2 DEF TaskFor
    <3>3. CASE t # {}
      <4>1. FirstOf(t) \in DOMAIN p.tasks
        <5> HIDE DEF t
        <5>. QED
          BY <3>1, <3>3, FirstIsIn
      <4>2. TaskFor(e, p) = p.tasks[FirstOf(t)].id
        BY <2>2, <3>3 DEF TaskFor
      <4>. QED
        BY <4>1, <4>2 DEF TaskIdsOf
    <3>. QED
      BY <3>2, <3>3
  <2>. QED
    BY <2>1, <2>2
<1> HIDE DEF r, p, n, s
<1>6. IsOfWork(r.task, r.pid, l)
  BY <1>2, <1>4, <1>5 DEF IsOfWork
<1>. QED
  BY <1>3, <1>4, <1>6 DEF r, n

LEMMA KeyIsOne ==
  ASSUME NEW r, {r.id, r.other, r.third} \subseteq Keys \cup {None, Bad},
         Bad \notin {r.id, r.other, r.third}
  PROVE  EntryKey(r) \in Keys \cup {None}
<1> DEFINE keys == KeysIn(r, None)
<1>1. keys \subseteq Keys
  BY DEF KeysIn
<1>2. keys # {} => KeyOf(keys) \in keys
  BY DEF KeyOf
<1>3. keys = {} => KeyOf(keys) = None
  BY DEF KeyOf
<1>. QED
  BY <1>1, <1>2, <1>3 DEF EntryKey

LEMMA EntriesFacts ==
  ASSUME NEW b \in Bodies
  PROVE  /\ DOMAIN EntriesOf(b) = DOMAIN b.rows
         /\ \A i \in DOMAIN b.rows :
              /\ EntryFields \subseteq DOMAIN EntriesOf(b)[i]
              /\ {EntriesOf(b)[i].id, EntriesOf(b)[i].other, EntriesOf(b)[i].third,
                  EntriesOf(b)[i].alias, EntriesOf(b)[i].otherAlias} \subseteq Keys \cup {None, Bad}
<1>1. CASE b.form = "message"
  <2>1. EntriesOf(b) = [i \in DOMAIN b.rows |-> Normalized(b.rows[i])]
    BY <1>1 DEF EntriesOf
  <2>2. ASSUME NEW i \in DOMAIN b.rows
        PROVE  LET e == Normalized(b.rows[i]) IN
                 /\ EntryFields \subseteq DOMAIN e
                 /\ {e.id, e.other, e.third, e.alias, e.otherAlias} \subseteq Keys \cup {None, Bad}
    <3>1. /\ EntryFields \subseteq DOMAIN b.rows[i]
          /\ {b.rows[i].id, b.rows[i].other, b.rows[i].third, b.rows[i].alias,
              b.rows[i].otherAlias} \subseteq Keys \cup {None, Bad}
      BY BodiesAssumption
    <3>. QED
      BY <3>1 DEF Normalized, EntryFields
  <2>. QED
    BY <2>1, <2>2
<1>2. CASE b.form # "message"
  BY <1>2, BodiesAssumption DEF EntriesOf
<1>. QED
  BY <1>1, <1>2

(* What the preflight lets through: rows of assigned work whose keys, once *)
(* the request's own is among them, are distinct.                          *)
LEMMA RowsForFacts ==
  ASSUME NEW b \in Bodies, NEW called, NEW l, DOMAIN l \subseteq Nat,
         \A j \in DOMAIN l : DOMAIN l[j].tasks \subseteq Nat,
         RowsAssigned(EntriesOf(b), l),
         NEW rs, rs = [i \in DOMAIN EntriesOf(b) |-> Resolved(EntriesOf(b)[i], Me, called, l)],
         PreflightOk(rs, RequestId(b))
  PROVE  LET kept == Keyed(rs, RequestId(b)) IN
           /\ DOMAIN kept = DOMAIN rs
           /\ \A i \in DOMAIN kept : /\ kept[i].who = Me
                                     /\ IsOfWork(kept[i].task, kept[i].pid, l)
                                     /\ EntryKey(kept[i]) \in Keys \cup {None}
           /\ AreDistinct([i \in DOMAIN kept |-> EntryKey(kept[i])])
<1> DEFINE n == Len(b.rows)
           rid == RequestId(b)
<1>1. n \in Nat /\ DOMAIN rs = 1..n
  BY BodiesAssumption, EntriesFacts
<1>2. Len(rs) = n
  <2>1. rs \in [1..n -> {rs[i] : i \in 1..n}]
    BY <1>1
  <2>. QED
    BY <1>1, <2>1, LengthOf
<1>3. ASSUME NEW i \in DOMAIN rs
      PROVE  /\ EntryFields \subseteq DOMAIN rs[i] /\ rs[i].who = Me
             /\ IsOfWork(rs[i].task, rs[i].pid, l)
             /\ {rs[i].id, rs[i].other, rs[i].third} \subseteq Keys \cup {None, Bad}
  <2> DEFINE e == EntriesOf(b)[i]
  <2>1. /\ EntryFields \subseteq DOMAIN e /\ IsAssigned(e, l)
        /\ {e.id, e.other, e.third, e.alias, e.otherAlias} \subseteq Keys \cup {None, Bad} /\ rs[i] = Resolved(e, Me, called, l)
    BY EntriesFacts DEF RowsAssigned
  <2>2. Normalized(e).id \in {e.id, e.alias} /\ Normalized(e).other \in {e.other, e.otherAlias}
    BY <2>1 DEF Normalized, EntryFields
  <2> HIDE DEF e
  <2>. QED
    BY <2>1, <2>2, ResolvedFacts
<1>4. rid \in Keys \cup {None, Bad}
  BY BodiesAssumption DEF RequestId
<1>5. CASE rid # None /\ n = 1
  <2> DEFINE r == [rs[1] EXCEPT !.id = rid]
  <2>1. Keyed(rs, rid) = <<r>> /\ 1 \in DOMAIN rs /\ DOMAIN rs = {1}
    BY <1>1, <1>2, <1>5 DEF Keyed
  <2>2. /\ r.who = Me /\ IsOfWork(r.task, r.pid, l) /\ r.id = rid
        /\ r.other = rs[1].other /\ r.third = rs[1].third
    BY <1>3, <2>1 DEF EntryFields
  <2>3. Bad \notin {rid, rs[1].other, rs[1].third}
    BY <1>2, <1>5, <2>1, RulesAssumption DEF PreflightOk, KeyError, KeysIn
  <2>4. EntryKey(r) \in Keys \cup {None}
    <3>1. {r.other, r.third} \subseteq Keys \cup {None, Bad}
      BY <1>3, <2>1, <2>2
    <3> HIDE DEF r
    <3>. QED
      BY <1>4, <2>2, <2>3, <3>1, KeyIsOne
  <2> HIDE DEF r
  <2>5. AreDistinct([i \in DOMAIN <<r>> |-> EntryKey(<<r>>[i])])
    BY DEF AreDistinct
  <2>. QED
    BY <2>1, <2>2, <2>4, <2>5
<1>6. CASE ~ (rid # None /\ n = 1)
  <2>1. Keyed(rs, rid) = rs
    BY <1>2, <1>6 DEF Keyed
  <2>2. rid = None
    BY <1>2, <1>6 DEF PreflightOk
  <2>3. \A i \in DOMAIN rs : ~KeyError(KeysIn(rs[i], None))
    BY <2>2 DEF PreflightOk
  <2>4. AreDistinct([i \in DOMAIN rs |-> EntryKey(rs[i])])
    BY <2>2 DEF PreflightOk, EntryKey
  <2>5. \A i \in DOMAIN rs : EntryKey(rs[i]) \in Keys \cup {None}
    <3>. SUFFICES ASSUME NEW i \in DOMAIN rs
                  PROVE  EntryKey(rs[i]) \in Keys \cup {None}
      OBVIOUS
    <3>1. Bad \notin {rs[i].id, rs[i].other, rs[i].third}
      BY <2>3, RulesAssumption DEF KeyError, KeysIn
    <3>. QED
      BY <1>3, <3>1, KeyIsOne
  <2>. QED
    BY <1>3, <2>1, <2>4, <2>5
<1>. QED
  BY <1>5, <1>6

(* The projects looked up are a list of lists, as the catalogue's are.     *)
LEMMA AssignmentsFacts ==
  ASSUME NEW c \in Catalogues, NEW numeric
  PROVE  LET l == AssignmentsOf(c, Me, numeric) IN
           /\ DOMAIN l \subseteq Nat
           /\ \A j \in DOMAIN l : DOMAIN l[j].tasks \subseteq Nat /\ l[j].pid # None
<1> DEFINE ps == ProjectsOf(c.index, Me, numeric)
<1>1. ps = c.index[Me] \/ ps = << >>
  BY DEF ProjectsOf
<1>2. /\ DOMAIN ps \subseteq Nat
      /\ \A i \in DOMAIN ps : DOMAIN ps[i].tasks \subseteq Nat /\ ps[i].pid # None
  BY <1>1, CataloguesAssumption
<1>3. CASE c.loaded
  <2>1. AssignmentsOf(c, Me, numeric) = [i \in DOMAIN ps |-> AsAssignment(ps[i])]
    BY <1>3 DEF AssignmentsOf
  <2>2. \A i \in DOMAIN ps : /\ DOMAIN AsAssignment(ps[i]).tasks = DOMAIN ps[i].tasks
                             /\ AsAssignment(ps[i]).pid = ps[i].pid
    BY DEF AsAssignment
  <2>. QED
    BY <1>2, <2>1, <2>2
<1>4. CASE ~c.loaded
  BY <1>4 DEF AssignmentsOf
<1>. QED
  BY <1>3, <1>4

-----------------------------------------------------------------------------
(* Steps.                                                                  *)
HandedOn == {a \in Attempts : rows[a] # << >>}

(* A step that leaves alone what rows that were handed on came from.       *)
LEMMA RowsStay ==
  ASSUME IInv, rows' = rows,
         \A a \in HandedOn : /\ list'[a] = list[a] /\ body'[a] = body[a]
                             /\ fullName'[a] = fullName[a]
                             /\ pc'[a] \in {"rows", "answered"}
  PROVE  /\ RowsInv'
         /\ records' = records => RecordsInv'
         /\ booked' = booked => BookedInv'
         /\ result' = result => ConflictIsExplained'
<1>1. RowsInv'
  BY DEF IInv, RowsInv, HandedOn
<1>2. ASSUME records' = records
      PROVE  RecordsInv'
  BY <1>2 DEF IInv, RecordsInv
<1>3. ASSUME booked' = booked
      PROVE  BookedInv'
  BY <1>3 DEF IInv, BookedInv, BookedWorkIsAssigned, HandedOn
<1>4. ASSUME result' = result
      PROVE  ConflictIsExplained'
  <2>. SUFFICES ASSUME NEW a \in Attempts, NEW i \in DOMAIN rows[a], result[a][i] = "conflict"
                PROVE  IsExplained(a, i)'
    BY <1>4 DEF ConflictIsExplained, IsExplained
  <2>1. PICK c \in Attempts : \E j \in DOMAIN rows[c] :
          /\ EntryKey(rows[c][j]) = EntryKey(rows[a][i])
          /\ Fingerprint(rows[c][j]) # Fingerprint(rows[a][i])
          /\ list[c] # list[a] \/ fullName[c] # fullName[a]
    BY DEF IInv, ConflictIsExplained
  <2>2. {a, c} \subseteq HandedOn
    BY <2>1 DEF HandedOn
  <2>3. /\ list'[c] = list[c] /\ list'[a] = list[a]
        /\ fullName'[c] = fullName[c] /\ fullName'[a] = fullName[a]
    BY <2>2
  <2>. QED
    BY <2>1, <2>3 DEF IsExplained
<1>. QED
  BY <1>1, <1>2, <1>3, <1>4

LEMMA HandedOnFacts ==
  ASSUME IInv, NEW a \in HandedOn
  PROVE  pc[a] \in {"rows", "answered"} /\ body[a] \in Bodies
BY DEF IInv, RowsInv, AreHandedOn, HandedOn

LEMMA NotABody == NoBody \notin Bodies
BY BodiesAssumption DEF NoBody

LEMMA ReceiveKeeps ==
  ASSUME IInv, NEW a \in Attempts, NEW b \in Bodies, Receive(a, b),
         \A c \in Attempts : body[c] \in Bodies => body[c] = b
  PROVE  IInv'
<1>1. /\ pc[a] = "idle" /\ body' = [body EXCEPT ![a] = b]
      /\ UNCHANGED <<catalogue, today, list, rows, result, records, booked>>
  BY DEF Receive
<1>2. PICK s \in {"answered", "looking"} : pc' = [pc EXCEPT ![a] = s]
  BY DEF Receive, Answer
<1>. PICK n \in Names : fullName' = [fullName EXCEPT ![a] = n]
  BY DEF Receive
<1>3. BaseInv'
  BY <1>1, <1>2, NotABody DEF IInv, BaseInv
<1>4. \A c \in HandedOn : /\ list'[c] = list[c] /\ body'[c] = body[c]
                          /\ fullName'[c] = fullName[c] /\ pc'[c] \in {"rows", "answered"}
  BY <1>1, <1>2, HandedOnFacts DEF IInv, BaseInv, HandedOn
<1>. QED
  BY <1>1, <1>3, <1>4, RowsStay DEF IInv

(* What an attempt does before it has rows, and its answer.                *)
LEMMA MoveKeeps ==
  ASSUME IInv, NEW a \in Attempts, NEW s \in {"looked", "answered"},
         pc[a] \notin {"idle", "answered"}, pc' = [pc EXCEPT ![a] = s],
         pc[a] = "rows" => s = "answered",
         \/ list' = list
         \/ pc[a] = "looking" /\ list' = [list EXCEPT ![a] =
                                    AssignmentsOf(catalogue, Me, Me \in NumericIds)],
         UNCHANGED <<catalogue, body, fullName, rows, result, records, booked>>
  PROVE  IInv'
<1>1. /\ DOMAIN list' = Attempts
      /\ \A c \in Attempts : /\ DOMAIN list'[c] \subseteq Nat
                             /\ \A j \in DOMAIN list'[c] : /\ DOMAIN list'[c][j].tasks \subseteq Nat
                                                           /\ list'[c][j].pid # None
  <2>1. CASE list' = list
    BY <2>1 DEF IInv, BaseInv
  <2>2. CASE list' = [list EXCEPT ![a] = AssignmentsOf(catalogue, Me, Me \in NumericIds)]
    <3> DEFINE l == AssignmentsOf(catalogue, Me, Me \in NumericIds)
    <3>1. /\ DOMAIN l \subseteq Nat
          /\ \A j \in DOMAIN l : DOMAIN l[j].tasks \subseteq Nat /\ l[j].pid # None
      BY AssignmentsFacts DEF IInv, BaseInv
    <3> HIDE DEF l
    <3>. QED
      BY <2>2, <3>1 DEF IInv, BaseInv, l
  <2>. QED
    BY <2>1, <2>2
<1>2. BaseInv'
  BY <1>1 DEF IInv, BaseInv
<1>3. \A c \in HandedOn : /\ list'[c] = list[c] /\ body'[c] = body[c]
                          /\ fullName'[c] = fullName[c] /\ pc'[c] \in {"rows", "answered"}
  BY HandedOnFacts DEF IInv, BaseInv, HandedOn
<1>. QED
  BY <1>2, <1>3, RowsStay DEF IInv

LEMMA DispatchKeeps ==
  ASSUME IInv, NEW a \in Attempts, Dispatch(a)
  PROVE  IInv'
<1> DEFINE es == EntriesOf(body[a])
           rid == RequestId(body[a])
           rs == [i \in DOMAIN es |-> Resolved(es[i], Me, fullName[a], list[a])]
           kept == Keyed(rs, rid)
<1>1. /\ pc[a] = "looked" /\ rows[a] = << >> /\ body[a] \in Bodies
      /\ RowsAssigned(es, list[a])
      /\ UNCHANGED <<catalogue, today, body, fullName, list, records, booked>>
  BY DEF Dispatch, IInv, BaseInv
<1>2. CASE ~PreflightOk(rs, rid)
  <2>1. pc' = [pc EXCEPT ![a] = "answered"] /\ UNCHANGED <<rows, result>>
    BY <1>2 DEF Dispatch, Answer
  <2>. QED
    BY <1>1, <2>1, MoveKeeps
<1>3. CASE PreflightOk(rs, rid)
  <2>1. /\ pc' = [pc EXCEPT ![a] = "rows"] /\ rows' = [rows EXCEPT ![a] = kept]
        /\ result' = [result EXCEPT ![a] = [i \in DOMAIN rs |-> "none"]]
    BY <1>3 DEF Dispatch
  <2>2. DOMAIN kept = DOMAIN rs /\ AreHandedOn(kept, body[a], fullName[a], list[a])
    <3>1. DOMAIN list[a] \subseteq Nat /\ \A j \in DOMAIN list[a] : DOMAIN list[a][j].tasks \subseteq Nat
      BY DEF IInv, BaseInv
    <3>2. kept = RowsFor(body[a], fullName[a], list[a])
      BY DEF RowsFor
    <3> HIDE DEF rs
    <3>3. /\ DOMAIN kept = DOMAIN rs
          /\ \A i \in DOMAIN kept : /\ kept[i].who = Me
                                    /\ IsOfWork(kept[i].task, kept[i].pid, list[a])
                                    /\ EntryKey(kept[i]) \in Keys \cup {None}
          /\ AreDistinct([i \in DOMAIN kept |-> EntryKey(kept[i])])
      BY <1>1, <1>3, <3>1, RowsForFacts DEF rs
    <3>. QED
      BY <1>1, <3>2, <3>3 DEF AreHandedOn
  <2> HIDE DEF kept
  <2>3. /\ rows'[a] = kept /\ pc'[a] = "rows"
        /\ \A c \in Attempts \ {a} : /\ rows'[c] = rows[c] /\ pc'[c] = pc[c]
                                     /\ result'[c] = result[c]
        /\ result'[a] = [i \in DOMAIN rs |-> "none"]
    BY <2>1 DEF IInv, BaseInv
  <2>4. BaseInv'
    <3>1. /\ pc' \in [Attempts -> {"idle", "looking", "looked", "rows", "answered"}]
          /\ DOMAIN rows' = Attempts /\ DOMAIN result' = Attempts
      BY <2>1 DEF IInv, BaseInv
    <3>2. ASSUME NEW c \in Attempts
          PROVE  /\ pc'[c] = "idle" <=> body'[c] = NoBody
                 /\ pc'[c] # "rows" /\ pc'[c] # "answered" => rows'[c] = << >>
                 /\ DOMAIN result'[c] = DOMAIN rows'[c]
      <4>1. CASE c = a
        BY <1>1, <2>2, <2>3, <4>1, NotABody
      <4>2. CASE c # a
        BY <1>1, <2>3, <4>2 DEF IInv, BaseInv
      <4>. QED
        BY <4>1, <4>2
    <3>3. /\ catalogue' = catalogue /\ body' = body /\ list' = list /\ records' = records
          /\ fullName' = fullName
      BY <1>1
    <3>4. /\ catalogue' \in Catalogues /\ body' \in [Attempts -> Bodies \cup {NoBody}]
          /\ fullName' \in [Attempts -> Names \cup {None}]
          /\ DOMAIN list' = Attempts /\ DOMAIN records' = Keys
          /\ \A c, d \in Attempts : body'[c] \in Bodies /\ body'[d] \in Bodies => body'[c] = body'[d]
          /\ \A c \in Attempts :
               /\ DOMAIN list'[c] \subseteq Nat
               /\ \A j \in DOMAIN list'[c] : /\ DOMAIN list'[c][j].tasks \subseteq Nat
                                             /\ list'[c][j].pid # None
      BY <3>3 DEF IInv, BaseInv
    <3>. QED
      BY <3>1, <3>2, <3>4 DEF BaseInv
  <2>5. RowsInv'
    <3>. SUFFICES ASSUME NEW c \in Attempts, rows'[c] # << >>
                  PROVE  pc'[c] \in {"rows", "answered"} /\ AreHandedOn(rows'[c], body[c], fullName[c], list[c])
      BY <1>1 DEF RowsInv
    <3>1. CASE c = a
      BY <2>2, <2>3, <3>1
    <3>2. CASE c # a
      BY <2>3, <3>2 DEF IInv, RowsInv
    <3>. QED
      BY <3>1, <3>2
  <2>6. RecordsInv'
    BY <1>1, <2>3 DEF IInv, RecordsInv
  <2>7. BookedInv'
    BY <1>1, <2>3 DEF IInv, BookedInv, BookedWorkIsAssigned
  <2>8. ConflictIsExplained'
    <3>. SUFFICES ASSUME NEW c \in Attempts, NEW i \in DOMAIN rows'[c], result'[c][i] = "conflict"
                  PROVE  IsExplained(c, i)'
      BY DEF ConflictIsExplained, IsExplained
    <3>1. c # a
      BY <2>2, <2>3
    <3>2. rows'[c] = rows[c] /\ result'[c] = result[c]
      BY <2>3, <3>1
    <3>3. PICK d \in Attempts : \E j \in DOMAIN rows[d] :
            /\ EntryKey(rows[d][j]) = EntryKey(rows[c][i])
            /\ Fingerprint(rows[d][j]) # Fingerprint(rows[c][i])
            /\ list[d] # list[c] \/ fullName[d] # fullName[c]
      BY <3>2 DEF IInv, ConflictIsExplained
    <3>4. d # a
      BY <1>1, <3>3
    <3>5. rows'[d] = rows[d] /\ list' = list /\ fullName' = fullName
      BY <1>1, <2>3, <3>4
    <3>. QED
      BY <3>2, <3>3, <3>5 DEF IsExplained
  <2>. QED
    BY <2>4, <2>5, <2>6, <2>7, <2>8 DEF IInv
<1>. QED
  BY <1>2, <1>3

(* One row: what it is told is explained, and what it books is its own.    *)
LEMMA RowKeeps ==
  ASSUME IInv, NEW a \in Attempts, NEW i \in DOMAIN rows[a], Row(a, i)
  PROVE  IInv'
<1> DEFINE r == rows[a][i]
           k == EntryKey(r)
<1>1. rows[a] # << >>
  OBVIOUS
<1>2. /\ a \in HandedOn /\ pc[a] \in {"rows", "answered"}
      /\ AreHandedOn(rows[a], body[a], fullName[a], list[a])
      /\ r.who = Me /\ IsOfWork(r.task, r.pid, list[a]) /\ k \in Keys \cup {None}
  BY <1>1 DEF IInv, RowsInv, HandedOn, AreHandedOn
<1>3. PICK res : /\ Settle(a, i, res)
                 /\ res = "conflict" => /\ k # None /\ records[k] # NoRecord
                                        /\ records[k].hash # Fingerprint(r)
  <2>1. CASE RowFromStore(a, i)
    <3>1. k # None /\ records[k] # NoRecord
      BY <2>1 DEF RowFromStore, IsGranted
    <3>2. records[k].outcome # "conflict"
      BY <1>2, <3>1 DEF IInv, RecordsInv
    <3>. QED
      BY <2>1, <3>1, <3>2 DEF RowFromStore
  <2>2. CASE RowNotMapped(a, i)
    BY <2>2 DEF RowNotMapped
  <2>3. CASE \E o \in Outcomes, applied, stored \in BOOLEAN : RowPosted(a, i, o, applied, stored)
    BY <2>3 DEF RowPosted, Outcomes
  <2>4. CASE RowUnclaimed(a, i)
    BY <2>4 DEF RowUnclaimed
  <2>. QED
    BY <2>1, <2>2, <2>3, <2>4 DEF Row
<1>4. /\ result' = [result EXCEPT ![a][i] = res]
      /\ UNCHANGED <<catalogue, today, pc, body, fullName, list, rows, status>>
  BY <1>3 DEF Settle
<1>5. \/ records' = records
      \/ /\ k # None
         /\ \E o : /\ o # "conflict"
                   /\ records' = [records EXCEPT ![k] = [hash |-> Fingerprint(r), outcome |-> o]]
  BY DEF Row, RowFromStore, RowNotMapped, RowPosted, RowUnclaimed, Memoise, Outcomes
<1> HIDE DEF k
<1>6. BaseInv'
  <2>1. DOMAIN records' = Keys
    BY <1>5 DEF IInv, BaseInv
  <2>2. DOMAIN result' = Attempts /\ \A c \in Attempts : DOMAIN result'[c] = DOMAIN rows[c]
    BY <1>4 DEF IInv, BaseInv
  <2>. QED
    BY <1>4, <2>1, <2>2 DEF IInv, BaseInv
<1>7. RowsInv'
  BY <1>4, HandedOnFacts, RowsStay
<1>8. RecordsInv'
  <2>. SUFFICES ASSUME NEW q \in Keys, records'[q] # NoRecord
                PROVE  /\ records'[q].outcome # "conflict"
                       /\ \E c \in Attempts : \E j \in DOMAIN rows[c] :
                            EntryKey(rows[c][j]) = q /\ records'[q].hash = Fingerprint(rows[c][j])
    BY <1>4 DEF RecordsInv
  <2>1. CASE records'[q] = records[q]
    BY <2>1 DEF IInv, RecordsInv
  <2>2. CASE records'[q] # records[q]
    <3>1. q = k /\ records'[q].hash = Fingerprint(r) /\ records'[q].outcome # "conflict"
      BY <1>5, <2>2 DEF IInv, BaseInv
    <3>. QED
      BY <3>1 DEF k
  <2>. QED
    BY <2>1, <2>2
<1>9. BookedInv'
  <2>1. CASE booked' = booked
    BY <1>4, <2>1, HandedOnFacts, RowsStay
  <2>2. CASE booked' # booked
    <3>1. PICK applied : booked' = booked \cup {[by |-> a, row |-> i, payload |-> Payload(r, today),
                                                 applied |-> applied]}
      BY <2>2 DEF Row, RowFromStore, RowNotMapped, RowPosted, RowUnclaimed
    <3> DEFINE new == [by |-> a, row |-> i, payload |-> Payload(r, today), applied |-> applied]
    <3>2. /\ Payload(r, today).who = Me /\ Payload(r, today).pid = r.pid
          /\ Payload(r, today).task = IF r.task = 0 THEN None ELSE r.task
      BY <1>2 DEF Payload
    <3>3. \E j \in DOMAIN list[a] :
            /\ list[a][j].pid = Payload(r, today).pid
            /\ Payload(r, today).task # None => Payload(r, today).task \in TaskIdsOf(list[a][j])
      BY <1>2, <3>2 DEF IsOfWork
    <3>4. /\ new.by \in Attempts /\ rows[new.by] # << >> /\ new.payload.who = Me
          /\ \E j \in DOMAIN list[new.by] :
               /\ list[new.by][j].pid = new.payload.pid
               /\ new.payload.task # None => new.payload.task \in TaskIdsOf(list[new.by][j])
      BY <1>1, <3>2, <3>3
    <3>5. booked' = booked \cup {new}
      BY <3>1
    <3> HIDE DEF new
    <3>. QED
      BY <1>4, <3>4, <3>5 DEF IInv, BookedInv, BookedWorkIsAssigned
  <2>. QED
    BY <2>1, <2>2
<1>10. ConflictIsExplained'
  <2>. SUFFICES ASSUME NEW c \in Attempts, NEW j \in DOMAIN rows[c], result'[c][j] = "conflict"
                PROVE  IsExplained(c, j)
    BY <1>4 DEF ConflictIsExplained, IsExplained
  <2>1. CASE result'[c][j] = result[c][j]
    BY <2>1 DEF IInv, ConflictIsExplained, IsExplained
  <2>2. CASE result'[c][j] # result[c][j]
    <3>1. c = a /\ j = i /\ res = "conflict"
      BY <1>4, <2>2 DEF IInv, BaseInv
    <3>2. k # None /\ records[k] # NoRecord /\ records[k].hash # Fingerprint(r)
      BY <1>3, <3>1
    <3>3. PICK d \in Attempts : \E m \in DOMAIN rows[d] :
            EntryKey(rows[d][m]) = k /\ records[k].hash = Fingerprint(rows[d][m])
      BY <1>2, <3>2 DEF IInv, RecordsInv
    <3>4. rows[d] # << >> /\ AreHandedOn(rows[d], body[d], fullName[d], list[d])
      BY <3>3 DEF IInv, RowsInv
    <3>5. body[d] = body[a]
      BY <1>2, <3>4 DEF IInv, BaseInv, AreHandedOn
    <3>6. ASSUME list[d] = list[a], fullName[d] = fullName[a]
          PROVE  FALSE
      <4>1. rows[d] = rows[a]
        BY <1>2, <3>4, <3>5, <3>6 DEF AreHandedOn
      <4>2. PICK m \in DOMAIN rows[a] :
              EntryKey(rows[a][m]) = k /\ records[k].hash = Fingerprint(rows[a][m])
        BY <3>3, <4>1
      <4>3. m = i
        BY <1>2, <3>2, <4>2 DEF AreHandedOn, AreDistinct, k
      <4>. QED
        BY <3>2, <4>2, <4>3
    <3>7. PICK m \in DOMAIN rows[d] : /\ EntryKey(rows[d][m]) = EntryKey(rows[a][i])
                                      /\ Fingerprint(rows[d][m]) # Fingerprint(rows[a][i])
      BY <3>2, <3>3 DEF k
    <3>. QED
      BY <3>1, <3>6, <3>7 DEF IsExplained
  <2>. QED
    BY <2>1, <2>2
<1>. QED
  BY <1>6, <1>7, <1>8, <1>9, <1>10 DEF IInv

(* No store: every row of the request is told so.                          *)
LEMMA StoreMissingKeeps ==
  ASSUME IInv, NEW a \in Attempts, StoreMissing(a)
  PROVE  IInv'
<1>1. /\ result' = [result EXCEPT ![a] = [i \in DOMAIN rows[a] |-> "store_unavailable"]]
      /\ UNCHANGED <<catalogue, today, pc, body, fullName, list, rows, status, records, booked>>
  BY DEF StoreMissing
<1>2. /\ DOMAIN result' = Attempts
      /\ \A c \in Attempts : DOMAIN result'[c] = DOMAIN rows[c]
      /\ \A c \in Attempts : \A i \in DOMAIN rows[c] :
           result'[c][i] \in {result[c][i], "store_unavailable"}
  BY <1>1 DEF IInv, BaseInv
<1>3. BaseInv'
  BY <1>1, <1>2 DEF IInv, BaseInv
<1>4. RowsInv' /\ RecordsInv' /\ BookedInv'
  BY <1>1, HandedOnFacts, RowsStay
<1>5. ConflictIsExplained'
  <2>. SUFFICES ASSUME NEW c \in Attempts, NEW i \in DOMAIN rows[c], result'[c][i] = "conflict"
                PROVE  IsExplained(c, i)
    BY <1>1 DEF ConflictIsExplained, IsExplained
  <2>1. result[c][i] = "conflict"
    BY <1>2
  <2>. QED
    BY <2>1 DEF IInv, ConflictIsExplained, IsExplained
<1>. QED
  BY <1>3, <1>4, <1>5 DEF IInv

LEMMA InitIInv ==
  ASSUME Init
  PROVE  IInv
<1>1. BaseInv
  BY NotABody DEF Init, BaseInv
<1>2. RowsInv /\ RecordsInv
  BY DEF Init, RowsInv, RecordsInv
<1>3. BookedInv /\ ConflictIsExplained
  BY DEF Init, BookedInv, BookedWorkIsAssigned, ConflictIsExplained
<1>. QED
  BY <1>1, <1>2, <1>3 DEF IInv

LEMMA NextKeeps ==
  ASSUME IInv, [Next]_vars
  PROVE  IInv'
<1>1. ASSUME NEW a \in Attempts, Send(a)
      PROVE  IInv'
  <2>1. CASE (\A c \in Attempts : body[c] = NoBody) /\ \E b \in Bodies : Receive(a, b)
    BY <2>1, NotABody, ReceiveKeeps
  <2>2. CASE \E c \in Attempts : body[c] \in Resent /\ Receive(a, body[c])
    <3>1. PICK c \in Attempts : body[c] \in Bodies /\ Receive(a, body[c])
      BY <2>2, RouteAssumption
    <3>2. \A d \in Attempts : body[d] \in Bodies => body[d] = body[c]
      BY <3>1 DEF IInv, BaseInv
    <3>. QED
      BY <3>1, <3>2, ReceiveKeeps
  <2>. QED
    BY <1>1, <2>1, <2>2 DEF Send
<1>2. ASSUME NEW a \in Attempts, Lookup(a)
      PROVE  IInv'
  BY <1>2, MoveKeeps DEF Lookup
<1>3. ASSUME NEW a \in Attempts, LookupFails(a)
      PROVE  IInv'
  BY <1>3, MoveKeeps DEF LookupFails, Answer
<1>4. ASSUME NEW a \in Attempts, RefuseAssignment(a)
      PROVE  IInv'
  BY <1>4, MoveKeeps DEF RefuseAssignment, Answer
<1>5. ASSUME NEW a \in Attempts, Respond(a)
      PROVE  IInv'
  BY <1>5, MoveKeeps DEF Respond, Answer
<1>6. ASSUME \/ Refresh \/ Midnight \/ UNCHANGED vars
      PROVE  IInv'
  <2>1. /\ catalogue' \in Catalogues
        /\ UNCHANGED <<pc, body, fullName, list, rows, result, records, booked>>
    BY <1>6 DEF Refresh, Midnight, vars, IInv, BaseInv
  <2>2. BaseInv'
    BY <2>1 DEF IInv, BaseInv
  <2>. QED
    BY <2>1, <2>2, HandedOnFacts, RowsStay DEF IInv
<1>. QED
  BY <1>1, <1>2, <1>3, <1>4, <1>5, <1>6, DispatchKeeps, RowKeeps, StoreMissingKeeps DEF Next

LEMMA Invariant == Spec => []IInv
<1>1. IInv /\ [Next]_vars => IInv'
  BY NextKeeps
<1>. QED
  BY <1>1, InitIInv, PTL DEF Spec

-----------------------------------------------------------------------------
(* Keys that agree are one key; rows that the route lets through, and      *)
(* resolves, acreate_many lets through.                                    *)
LEMMA OneKey ==
  ASSUME NEW x, NEW y, NEW z, NEW w, NEW s, s = {x, y, z, w} \ {None}
  PROVE  Cardinality(s) > 1 <=> \E u, v \in s : u # v
<1>1. IsFiniteSet(s) /\ Cardinality(s) \in Nat
  <2>1. IsFiniteSet({x}) /\ IsFiniteSet({y}) /\ IsFiniteSet({z}) /\ IsFiniteSet({w})
    BY FS_Singleton
  <2>2. IsFiniteSet({x} \cup {y}) /\ IsFiniteSet({z} \cup {w})
    BY <2>1, FS_Union
  <2>3. IsFiniteSet(({x} \cup {y}) \cup ({z} \cup {w}))
    BY <2>2, FS_Union
  <2>4. s \subseteq ({x} \cup {y}) \cup ({z} \cup {w})
    OBVIOUS
  <2>5. IsFiniteSet(s)
    BY <2>3, <2>4, FS_Subset
  <2>. QED
    BY <2>5, FS_CardinalityType
<1>2. ASSUME NEW u \in s, NEW v \in s, u # v
      PROVE  Cardinality(s) > 1
  <2>1. IsFiniteSet({u}) /\ Cardinality({u}) = 1
    BY FS_Singleton
  <2>2. IsFiniteSet({u} \cup {v}) /\ Cardinality({u} \cup {v}) = 2
    BY <1>2, <2>1, FS_AddElement
  <2>3. {u} \cup {v} \subseteq s
    OBVIOUS
  <2>4. Cardinality({u} \cup {v}) <= Cardinality(s)
    BY <1>1, <2>3, FS_Subset
  <2>. QED
    BY <1>1, <2>2, <2>4
<1>3. ASSUME \A u, v \in s : u = v
      PROVE  ~ (Cardinality(s) > 1)
  <2>1. CASE s = {}
    BY <2>1, FS_EmptySet
  <2>2. CASE s # {}
    <3>1. PICK u \in s : TRUE
      BY <2>2
    <3>2. s = {u}
      BY <1>3, <3>1, Zenon
    <3>3. Cardinality({u}) = 1
      BY FS_Singleton, Zenon
    <3>4. Cardinality(s) = 1
      BY <3>2, <3>3, Zenon
    <3>. QED
      BY <3>4
  <2>. QED
    BY <2>1, <2>2
<1>. QED
  BY <1>2, <1>3

LEMMA KeysAgree ==
  ASSUME NEW e, NEW fb
  PROVE  /\ KeyError(KeysIn(e, fb)) <=> \/ Bad \in KeysIn(e, fb)
                                        \/ \E u, v \in KeysIn(e, fb) : u # v
         /\ KeysIn(e, fb) # {} => KeyOf(KeysIn(e, fb)) \in KeysIn(e, fb)
         /\ KeysIn(e, fb) = {} => KeyOf(KeysIn(e, fb)) = None
         /\ None \notin KeysIn(e, fb)
<1>1. Cardinality(KeysIn(e, fb)) > 1 <=> \E u, v \in KeysIn(e, fb) : u # v
  <2>1. KeysIn(e, fb) = {e.id, e.other, e.third, fb} \ {None}
    BY DEF KeysIn
  <2>. QED
    BY <2>1, OneKey
<1>2. None \notin KeysIn(e, fb)
  BY DEF KeysIn
<1>3. /\ KeysIn(e, fb) # {} => KeyOf(KeysIn(e, fb)) \in KeysIn(e, fb)
      /\ KeysIn(e, fb) = {} => KeyOf(KeysIn(e, fb)) = None
  BY DEF KeyOf
<1>. QED
  BY <1>1, <1>2, <1>3 DEF KeyError

LEMMA SameNormalized ==
  ASSUME NEW e, NEW f, EntryFields \subseteq DOMAIN e, EntryFields \subseteq DOMAIN f,
         e.id = f.id, e.other = f.other, e.alias = f.alias, e.otherAlias = f.otherAlias
  PROVE  /\ Normalized(e).id = Normalized(f).id /\ Normalized(e).other = Normalized(f).other
         /\ Normalized(e).third = e.third
BY DEF Normalized, EntryFields

LEMMA SameKeys ==
  ASSUME NEW e, NEW f, e.id = f.id, e.other = f.other, e.third = f.third
  PROVE  KeysIn(e, None) = KeysIn(f, None)
BY DEF KeysIn

(* What resolving a row leaves as it was.                                  *)
LEMMA ResolvedKeeps ==
  ASSUME NEW e, NEW called, NEW l, EntryFields \subseteq DOMAIN e
  PROVE  LET x == Resolved(e, Me, called, l)
             f == Normalized(e) IN
         /\ x.id = f.id /\ x.other = f.other /\ x.third = e.third
         /\ x.alias = e.alias /\ x.otherAlias = e.otherAlias
         /\ x.hours = e.hours /\ x.date = e.date
         /\ x.start = e.start /\ x.stop = e.stop /\ x.type = e.type
         /\ DOMAIN x = DOMAIN e
<1> DEFINE f == Normalized(e)
           p == ProjectFor(e, l)
           t == TaskFor(e, p)
           x == [f EXCEPT !.who = Me, !.called = called, !.pid = p.pid, !.no = p.no,
                          !.name = p.name, !.order = p.order, !.task = t]
<1>1. DOMAIN f = DOMAIN e
  BY DEF Normalized, EntryFields
<1>2. /\ f.third = e.third /\ f.alias = e.alias /\ f.otherAlias = e.otherAlias
      /\ f.hours = e.hours /\ f.date = e.date
      /\ f.start = e.start /\ f.stop = e.stop /\ f.type = e.type
  BY DEF Normalized, EntryFields
<1>3. Resolved(e, Me, called, l) = x
  BY Zenon DEF Resolved
<1> HIDE DEF f, p, t
<1>4. DOMAIN x = DOMAIN e
  BY <1>1 DEF EntryFields
<1>5. /\ x.id = f.id /\ x.other = f.other /\ x.third = f.third
      /\ x.alias = f.alias /\ x.otherAlias = f.otherAlias
      /\ x.hours = f.hours /\ x.date = f.date
      /\ x.start = f.start /\ x.stop = f.stop /\ x.type = f.type
  BY <1>1 DEF EntryFields
<1> HIDE DEF x
<1>. QED
  BY <1>2, <1>3, <1>4, <1>5 DEF f

(* The preflight repeats what the route has checked, on rows that resolve  *)
(* to the same keys, hours and times: nothing is new, unless a row of a    *)
(* structured body hides a key behind an alias.                            *)
LEMMA PreflightFollows ==
  ASSUME NEW b \in Bodies, NEW called, NEW l, Refusal(b) = 0, ~Hides(b),
         NEW rs, rs = [i \in DOMAIN EntriesOf(b) |-> Resolved(EntriesOf(b)[i], Me, called, l)]
  PROVE  PreflightOk(rs, RequestId(b))
<1> DEFINE es == EntriesOf(b)
           rid == RequestId(b)
           n == Len(b.rows)
<1>1. KeysOk(b) /\ RowsOk(es) /\ ~ (Len(es) > MaxRows)
  BY DEF Refusal
<1>2. n \in Nat /\ DOMAIN es = 1..n /\ DOMAIN rs = 1..n
  BY BodiesAssumption, EntriesFacts
<1>3. Len(rs) = n
  <2>1. rs \in [1..n -> {rs[i] : i \in 1..n}]
    BY <1>2
  <2>. QED
    BY <1>2, <2>1, LengthOf
<1>4. Len(es) = n
  <2>1. CASE b.form = "message"
    <3>1. es = [i \in 1..n |-> Normalized(b.rows[i])]
      BY <2>1, BodiesAssumption DEF EntriesOf
    <3>2. es \in [1..n -> {Normalized(b.rows[i]) : i \in 1..n}]
      BY <3>1
    <3>. QED
      BY <1>2, <3>2, LengthOf
  <2>2. CASE b.form # "message"
    BY <2>2 DEF EntriesOf
  <2>. QED
    BY <2>1, <2>2
<1>5. ASSUME NEW i \in 1..n
      PROVE  /\ EntryFields \subseteq DOMAIN es[i] /\ rs[i] = Resolved(es[i], Me, called, l)
             /\ Normalized(es[i]).id = es[i].id /\ Normalized(es[i]).other = es[i].other
  <2>1. i \in DOMAIN b.rows /\ EntryFields \subseteq DOMAIN b.rows[i]
    BY BodiesAssumption
  <2>2. EntryFields \subseteq DOMAIN es[i] /\ rs[i] = Resolved(es[i], Me, called, l)
    BY <1>2, <2>1, EntriesFacts
  <2> DEFINE e == b.rows[i]
  <2>3. CASE b.form = "message"
    <3>1. es[i] = Normalized(e)
      BY <2>1, <2>3 DEF EntriesOf
    <3> HIDE DEF e
    <3>2. ASSUME EntryFields \subseteq DOMAIN e
          PROVE  /\ Normalized(Normalized(e)).id = Normalized(e).id
                 /\ Normalized(Normalized(e)).other = Normalized(e).other
      BY <3>2 DEF Normalized, EntryFields
    <3>. QED
      BY <2>1, <2>2, <3>1, <3>2 DEF e
  <2>4. CASE b.form # "message"
    <3>1. b.form = "entries"
      BY <2>4, BodiesAssumption DEF Refusal
    <3>2. es[i] = e /\ e.alias = None /\ e.otherAlias = None
      BY <2>1, <2>4, <3>1 DEF EntriesOf, Hides
    <3>. QED
      BY <2>1, <2>2, <3>2 DEF Normalized, EntryFields
  <2>. QED
    BY <2>3, <2>4
<1>6. ASSUME NEW i \in 1..n
      PROVE  /\ rs[i].id = es[i].id /\ rs[i].other = es[i].other /\ rs[i].third = es[i].third
             /\ rs[i].alias = es[i].alias /\ rs[i].otherAlias = es[i].otherAlias
             /\ rs[i].hours = es[i].hours /\ rs[i].date = es[i].date
             /\ rs[i].start = es[i].start /\ rs[i].stop = es[i].stop
             /\ rs[i].type = es[i].type /\ EntryFields \subseteq DOMAIN rs[i]
  <2> DEFINE e == es[i]
             x == Resolved(e, Me, called, l)
  <2>1. /\ EntryFields \subseteq DOMAIN e /\ rs[i] = x
        /\ Normalized(e).id = e.id /\ Normalized(e).other = e.other
    BY <1>5
  <2> HIDE DEF e
  <2>2. /\ x.id = e.id /\ x.other = e.other /\ x.third = e.third
        /\ x.alias = e.alias /\ x.otherAlias = e.otherAlias
        /\ x.hours = e.hours /\ x.date = e.date
        /\ x.start = e.start /\ x.stop = e.stop /\ x.type = e.type
        /\ DOMAIN x = DOMAIN e
    BY <2>1, ResolvedKeeps
  <2> HIDE DEF x
  <2>. QED
    BY <2>1, <2>2 DEF e
<1>7. ASSUME NEW i \in 1..n
      PROVE  WellFormed(rs[i]) /\ KeysIn(rs[i], None) = KeysIn(es[i], None)
  <2> DEFINE x == rs[i]
             e == es[i]
             X == Normalized(x)
             E == Normalized(e)
  <2>1. WellFormed(e)
    BY <1>1, <1>2 DEF RowsOk
  <2>2. /\ x.id = e.id /\ x.other = e.other /\ x.third = e.third
        /\ x.alias = e.alias /\ x.otherAlias = e.otherAlias
        /\ x.hours = e.hours /\ x.date = e.date
        /\ x.start = e.start /\ x.stop = e.stop /\ x.type = e.type
        /\ EntryFields \subseteq DOMAIN x /\ EntryFields \subseteq DOMAIN e
    BY <1>5, <1>6
  <2> HIDE DEF x, e
  <2>3. X.id = E.id /\ X.other = E.other /\ X.third = x.third
    BY <2>2, SameNormalized
  <2>4. E.third = e.third
    BY <2>2, SameNormalized
  <2> HIDE DEF X, E
  <2>5. KeysIn(x, None) = KeysIn(e, None) /\ KeysIn(X, None) = KeysIn(E, None)
    BY <2>2, <2>3, <2>4, SameKeys
  <2>6. WellFormed(x)
    BY <2>1, <2>2, <2>5 DEF WellFormed, HoursOk, TimesOk, TypeOk, X, E
  <2>. QED
    BY <2>5, <2>6 DEF x, e
<1> HIDE DEF es, rid, n
<1>8. /\ rid # None => n = 1
      /\ rid # Bad
      /\ \A i \in 1..n : ~KeyError(KeysIn(es[i], None)) /\ (rid # None => EntryKey(es[i]) \in {None, rid})
      /\ AreDistinct([i \in 1..n |-> EntryKey(es[i])])
  <2>1. rid = Bad => Bad \in {b.id, b.header} \ {None}
    BY RulesAssumption DEF RequestId, rid
  <2>. QED
    BY <1>1, <1>2, <1>4, <2>1 DEF KeysOk, KeyError, es, rid
<1> DEFINE fb == IF Len(rs) = 1 THEN rid ELSE None
<1>9. ASSUME NEW i \in 1..n
      PROVE  ~KeyError(KeysIn(rs[i], fb)) /\ (fb = None => KeysIn(rs[i], fb) = KeysIn(es[i], None))
  <2>1. CASE fb = None
    BY <1>7, <1>8, <2>1
  <2>2. CASE fb # None
    <3>1. fb = rid /\ rid # None
      BY <2>2
    <3>2. KeysIn(rs[i], rid) = KeysIn(es[i], None) \cup {rid}
      <4>1. KeysIn(rs[i], rid) = KeysIn(rs[i], None) \cup {rid}
        BY <3>1 DEF KeysIn
      <4>. QED
        BY <1>7, <4>1
    <3>3. KeysIn(es[i], None) \subseteq {rid}
      BY <1>8, <3>1, KeysAgree DEF EntryKey
    <3>4. KeysIn(rs[i], rid) = {rid}
      BY <3>2, <3>3
    <3>. QED
      BY <1>8, <3>1, <3>4, KeysAgree
  <2>. QED
    BY <2>1, <2>2
<1>10. AreDistinct([i \in 1..n |-> KeyOf(KeysIn(rs[i], fb))])
  <2>1. CASE n = 1
    BY <2>1 DEF AreDistinct
  <2>2. CASE n # 1
    <3>1. fb = None
      BY <1>8, <2>2
    <3>2. [i \in 1..n |-> KeyOf(KeysIn(rs[i], fb))] = [i \in 1..n |-> EntryKey(es[i])]
      BY <1>9, <3>1 DEF EntryKey
    <3>. QED
      BY <1>8, <3>2
  <2>. QED
    BY <2>1, <2>2
<1>11. /\ \A i \in DOMAIN rs : ~KeyError(KeysIn(rs[i], fb)) /\ WellFormed(rs[i])
       /\ AreDistinct([i \in DOMAIN rs |-> KeyOf(KeysIn(rs[i], fb))])
  BY <1>2, <1>7, <1>9, <1>10
<1>12. n <= MaxRows
  BY <1>1, <1>2, <1>4, RouteAssumption
<1>. QED
  BY <1>3, <1>8, <1>11, <1>12 DEF PreflightOk, rid

-----------------------------------------------------------------------------
(* Steps and the invariants of what was taken, and what was answered.      *)
LEMMA ReceiveAnswers ==
  ASSUME IInv, SInv, NEW a \in Attempts, NEW b \in Bodies, Receive(a, b)
  PROVE  SInv'
<1>1. /\ pc[a] = "idle" /\ body' = [body EXCEPT ![a] = b] /\ rows[a] = << >>
      /\ UNCHANGED <<catalogue, today, list, rows, result, records, booked>>
  BY DEF Receive, IInv, BaseInv
<1>2. Refusal(b) \in {0, 400, 422}
  BY DEF Refusal
<1>3. \/ /\ Refusal(b) # 0
         /\ pc' = [pc EXCEPT ![a] = "answered"] /\ status' = [status EXCEPT ![a] = Refusal(b)]
      \/ /\ Refusal(b) = 0
         /\ pc' = [pc EXCEPT ![a] = "looking"] /\ UNCHANGED status
  BY DEF Receive, Answer
<1>4. /\ DOMAIN status = Attempts /\ DOMAIN pc = Attempts /\ DOMAIN body = Attempts
      /\ status[a] = 0
  BY <1>1 DEF IInv, BaseInv, SInv, AnswerInv
<1>5. \A c \in Attempts \ {a} : pc'[c] = pc[c] /\ status'[c] = status[c] /\ body'[c] = body[c]
  BY <1>1, <1>3, <1>4
<1>6. AnswerInv'
  <2>. SUFFICES ASSUME NEW c \in Attempts
                PROVE  /\ pc'[c] \in {"looking", "looked"} => Refusal(body'[c]) = 0
                       /\ pc'[c] # "answered" => status'[c] = 0
                       /\ pc'[c] = "answered" =>
                            \/ rows[c] = << >> /\ status'[c] \in {400, 422, 502, 503}
                            \/ /\ \A i \in DOMAIN rows[c] : result[c][i] # "none"
                               /\ status'[c] = Verdict(c)
    BY <1>1, <1>2, <1>3, <1>4 DEF SInv, AnswerInv, Verdict
  <2>1. CASE c = a
    BY <1>1, <1>2, <1>3, <1>4, <2>1
  <2>2. CASE c # a
    BY <1>5, <2>2 DEF SInv, AnswerInv
  <2>. QED
    BY <2>1, <2>2
<1>7. TakenInv'
  BY <1>1 DEF SInv, TakenInv, IsTakenFor
<1>8. PreflightInv'
  <2>1. status'[a] # 502
    BY <1>2, <1>3, <1>4
  <2>2. ASSUME NEW c \in Attempts, status'[c] = 502, rows[c] = << >>
        PROVE  Hides(body'[c])
    BY <1>5, <2>1, <2>2 DEF SInv, PreflightInv
  <2>. QED
    BY <1>1, <2>2 DEF PreflightInv
<1>. QED
  BY <1>6, <1>7, <1>8 DEF SInv

(* An attempt goes on, or is answered, and nothing is taken.               *)
LEMMA MoveAnswers ==
  ASSUME IInv, SInv, NEW a \in Attempts, NEW s \in {"looked", "answered"}, NEW code,
         pc' = [pc EXCEPT ![a] = s], status' = [status EXCEPT ![a] = code],
         s = "looked" => code = 0 /\ pc[a] = "looking",
         s = "answered" =>
           \/ rows[a] = << >> /\ code \in {400, 503}
           \/ /\ rows[a] = << >> /\ code = 502
              /\ Hides(body[a])
           \/ /\ \A i \in DOMAIN rows[a] : result[a][i] # "none"
              /\ code = Verdict(a),
         UNCHANGED <<body, rows, result, records, booked>>
  PROVE  SInv'
<1>1. DOMAIN status = Attempts /\ DOMAIN pc = Attempts
  BY DEF IInv, BaseInv, SInv, AnswerInv
<1>2. /\ pc'[a] = s /\ status'[a] = code
      /\ \A c \in Attempts \ {a} : pc'[c] = pc[c] /\ status'[c] = status[c]
  BY <1>1
<1>3. rows[a] = << >> => Verdict(a) = 422
  BY DEF Verdict, IInv, BaseInv
<1>4. AnswerInv'
  <2>0. status' \in [Attempts -> {0, 200, 400, 422, 502, 503}]
    <3>1. code \in {0, 200, 400, 422, 502, 503}
      BY DEF Verdict
    <3>. QED
      BY <3>1 DEF SInv, AnswerInv
  <2>. SUFFICES ASSUME NEW c \in Attempts
                PROVE  /\ pc'[c] \in {"looking", "looked"} => Refusal(body[c]) = 0
                       /\ pc'[c] # "answered" => status'[c] = 0
                       /\ pc'[c] = "answered" =>
                            \/ rows[c] = << >> /\ status'[c] \in {400, 422, 502, 503}
                            \/ /\ \A i \in DOMAIN rows[c] : result[c][i] # "none"
                               /\ status'[c] = Verdict(c)
    BY <1>1, <2>0 DEF AnswerInv, Verdict
  <2>1. CASE c = a
    BY <1>2, <2>1 DEF SInv, AnswerInv
  <2>2. CASE c # a
    BY <1>2, <2>2 DEF SInv, AnswerInv
  <2>. QED
    BY <2>1, <2>2
<1>5. TakenInv'
  BY DEF SInv, TakenInv, IsTakenFor
<1>6. PreflightInv'
  <2>. SUFFICES ASSUME NEW c \in Attempts, status'[c] = 502, rows[c] = << >>
                PROVE  Hides(body[c])
    BY DEF PreflightInv
  <2>1. CASE c = a
    BY <1>2, <1>3, <2>1
  <2>2. CASE c # a
    BY <1>2, <2>2 DEF SInv, PreflightInv
  <2>. QED
    BY <2>1, <2>2
<1>. QED
  BY <1>4, <1>5, <1>6 DEF SInv

LEMMA DispatchAnswers ==
  ASSUME IInv, SInv, NEW a \in Attempts, Dispatch(a)
  PROVE  SInv'
<1> DEFINE es == EntriesOf(body[a])
           rid == RequestId(body[a])
           rs == [i \in DOMAIN es |-> Resolved(es[i], Me, fullName[a], list[a])]
           kept == Keyed(rs, rid)
<1>1. /\ pc[a] = "looked" /\ rows[a] = << >> /\ body[a] \in Bodies
      /\ Refusal(body[a]) = 0 /\ status[a] = 0 /\ RowsAssigned(es, list[a])
      /\ UNCHANGED <<catalogue, today, body, fullName, list, records, booked>>
  BY DEF Dispatch, IInv, BaseInv, SInv, AnswerInv
<1>2. CASE ~PreflightOk(rs, rid)
  <2>1. /\ pc' = [pc EXCEPT ![a] = "answered"] /\ status' = [status EXCEPT ![a] = 502]
        /\ UNCHANGED <<rows, result>>
    BY <1>2 DEF Dispatch, Answer
  <2>2. Hides(body[a])
    BY <1>1, <1>2, PreflightFollows
  <2>. QED
    BY <1>1, <2>1, <2>2, MoveAnswers
<1>3. CASE PreflightOk(rs, rid)
  <2>1. /\ pc' = [pc EXCEPT ![a] = "rows"] /\ rows' = [rows EXCEPT ![a] = kept]
        /\ result' = [result EXCEPT ![a] = [i \in DOMAIN rs |-> "none"]] /\ UNCHANGED status
    BY <1>3 DEF Dispatch
  <2>2. DOMAIN kept = DOMAIN rs /\ AreHandedOn(kept, body[a], fullName[a], list[a])
    <3>1. DOMAIN list[a] \subseteq Nat /\ \A j \in DOMAIN list[a] : DOMAIN list[a][j].tasks \subseteq Nat
      BY DEF IInv, BaseInv
    <3>2. kept = RowsFor(body[a], fullName[a], list[a])
      BY DEF RowsFor
    <3> HIDE DEF rs
    <3>3. /\ DOMAIN kept = DOMAIN rs
          /\ \A i \in DOMAIN kept : /\ kept[i].who = Me
                                    /\ IsOfWork(kept[i].task, kept[i].pid, list[a])
                                    /\ EntryKey(kept[i]) \in Keys \cup {None}
          /\ AreDistinct([i \in DOMAIN kept |-> EntryKey(kept[i])])
      BY <1>1, <1>3, <3>1, RowsForFacts DEF rs
    <3>. QED
      BY <1>1, <3>2, <3>3 DEF AreHandedOn
  <2> HIDE DEF kept
  <2>3. /\ rows'[a] = kept /\ pc'[a] = "rows" /\ \A i \in DOMAIN kept : result'[a][i] = "none"
        /\ \A c \in Attempts \ {a} : /\ rows'[c] = rows[c] /\ pc'[c] = pc[c]
                                     /\ result'[c] = result[c]
    BY <2>1, <2>2 DEF IInv, BaseInv
  <2>4. \A p \in booked : p.by \in Attempts \ {a}
    BY <1>1 DEF IInv, BookedInv
  <2>5. AnswerInv'
    <3>. SUFFICES ASSUME NEW c \in Attempts
                  PROVE  /\ pc'[c] \in {"looking", "looked"} => Refusal(body[c]) = 0
                         /\ pc'[c] # "answered" => status[c] = 0
                         /\ pc'[c] = "answered" =>
                              \/ rows'[c] = << >> /\ status[c] \in {400, 422, 502, 503}
                              \/ /\ \A i \in DOMAIN rows'[c] : result'[c][i] # "none"
                                 /\ status[c] = Verdict(c)'
      BY <1>1, <2>1 DEF AnswerInv, SInv
    <3>1. CASE c = a
      BY <1>1, <2>3, <3>1
    <3>2. CASE c # a
      BY <2>3, <3>2 DEF SInv, AnswerInv, Verdict
    <3>. QED
      BY <3>1, <3>2
  <2>6. TakenInv'
    <3>1. ASSUME NEW c \in Attempts, NEW i \in DOMAIN rows'[c], result'[c][i] = "created"
          PROVE  IsTakenFor(c, i)'
      <4>1. c # a /\ rows'[c] = rows[c] /\ result'[c] = result[c]
        BY <2>3, <3>1
      <4>2. IsTakenFor(c, i)
        BY <3>1, <4>1 DEF SInv, TakenInv
      <4>. QED
        BY <1>1, <2>3, <2>4, <4>1, <4>2 DEF IsTakenFor
    <3>2. \A k \in Keys : records[k].outcome = "created" =>
            \E p \in booked : p.applied /\ EntryKey(rows'[p.by][p.row]) = k
      BY <2>3, <2>4 DEF SInv, TakenInv
    <3>3. \A p \in booked : p.applied => /\ p.row \in DOMAIN rows'[p.by]
                                         /\ result'[p.by][p.row] \in {"created"} \cup Retryable
      BY <2>3, <2>4 DEF SInv, TakenInv
    <3>4. \A k \in Keys : records[k].outcome = "none" => records[k] = NoRecord
      BY DEF SInv, TakenInv
    <3>. QED
      BY <1>1, <3>1, <3>2, <3>3, <3>4 DEF TakenInv
  <2>7. PreflightInv'
    <3>. SUFFICES ASSUME NEW c \in Attempts, status[c] = 502, rows'[c] = << >>
                  PROVE  Hides(body[c])
      BY <1>1, <2>1 DEF PreflightInv
    <3>1. c # a
      BY <1>1
    <3>. QED
      BY <2>3, <3>1 DEF SInv, PreflightInv
  <2>. QED
    BY <2>5, <2>6, <2>7 DEF SInv
<1>. QED
  BY <1>2, <1>3

(* What a row is told, which bookings it makes and what it memoises.       *)
Memoises(r, o) ==
  LET k == EntryKey(r) IN
    /\ k # None /\ o # "none"
    /\ records' = [records EXCEPT ![k] = [hash |-> Fingerprint(r), outcome |-> o]]

RowDoes(a, i, res, new) ==
  /\ Settle(a, i, res) /\ res # "none"
  /\ booked' = booked \cup new
  /\ \A p \in new : p.by = a /\ p.row = i /\ (p.applied => res \in {"created"} \cup Retryable)
  /\ \A p \in new : p.payload = Payload(rows[a][i], today) /\ new = {p}
  /\ res = "created" =>
       \/ \E p \in new : p.applied
       \/ EntryKey(rows[a][i]) # None /\ records[EntryKey(rows[a][i])].outcome = "created"
  /\ \/ records' = records
     \/ \E o \in Outcomes : Memoises(rows[a][i], o) /\ (o = "created" => \E p \in new : p.applied)

LEMMA RowCases ==
  ASSUME IInv, SInv, NEW a \in Attempts, NEW i \in DOMAIN rows[a], Row(a, i),
         EntryKey(rows[a][i]) \in Keys \cup {None}
  PROVE  \E res, new : RowDoes(a, i, res, new)
<1> DEFINE r == rows[a][i]
           k == EntryKey(r)
<1>1. CASE RowFromStore(a, i)
  <2> DEFINE res == IF records[k].hash = Fingerprint(r) THEN records[k].outcome ELSE "conflict"
  <2>1. k # None /\ records[k] # NoRecord /\ Settle(a, i, res) /\ UNCHANGED <<records, booked>>
    BY <1>1 DEF RowFromStore, IsGranted
  <2>2. records[k].outcome # "none"
    BY <2>1 DEF SInv, TakenInv
  <2>3. res # "none" /\ (res = "created" => records[k].outcome = "created")
    BY <2>2
  <2> HIDE DEF res
  <2>4. RowDoes(a, i, res, {})
    BY <2>1, <2>3 DEF RowDoes
  <2>. QED
    BY <2>4
<1>2. CASE RowNotMapped(a, i)
  <2>1. Settle(a, i, "rejected") /\ booked' = booked
    BY <1>2 DEF RowNotMapped
  <2>2. records' = records \/ Memoises(r, "rejected")
    BY <1>2 DEF RowNotMapped, Memoise, Memoises
  <2>3. RowDoes(a, i, "rejected", {})
    BY <2>1, <2>2 DEF RowDoes, Outcomes
  <2>. QED
    BY <2>3
<1>3. ASSUME NEW o \in Outcomes, NEW applied \in BOOLEAN, NEW stored \in BOOLEAN,
             RowPosted(a, i, o, applied, stored)
      PROVE  \E res, new : RowDoes(a, i, res, new)
  <2> DEFINE res == IF stored THEN o ELSE "store_unavailable"
             p == [by |-> a, row |-> i, payload |-> Payload(r, today), applied |-> applied]
  <2>1. /\ Settle(a, i, res) /\ booked' = booked \cup {p}
        /\ o = "created" => applied
        /\ o \in {"rejected", "busy"} => ~applied
    BY <1>3 DEF RowPosted
  <2>2. records' = records \/ Memoises(r, o)
    BY <1>3 DEF RowPosted, Memoise, Memoises, Outcomes
  <2>3. /\ p.by = a /\ p.row = i /\ p.applied = applied /\ p.payload = Payload(r, today)
        /\ applied => res \in {"created"} \cup Retryable
        /\ res # "none" /\ (res = "created" => applied)
    BY <2>1 DEF Outcomes, Retryable
  <2> HIDE DEF res, p
  <2>4. RowDoes(a, i, res, {p})
    BY <2>1, <2>2, <2>3 DEF RowDoes
  <2>. QED
    BY <2>4
<1>4. CASE RowUnclaimed(a, i)
  <2>1. Settle(a, i, "store_unavailable") /\ booked' = booked /\ records' = records
    BY <1>4 DEF RowUnclaimed
  <2>2. RowDoes(a, i, "store_unavailable", {})
    BY <2>1 DEF RowDoes
  <2>. QED
    BY <2>2
<1>. QED
  BY <1>1, <1>2, <1>3, <1>4 DEF Row

(* One row: whatever it is told, Oracle took it if it was created, and it  *)
(* may be sent again if Oracle took it and it was not.                     *)
LEMMA RowAnswers ==
  ASSUME IInv, SInv, NEW a \in Attempts, NEW i \in DOMAIN rows[a], Row(a, i)
  PROVE  SInv'
<1> DEFINE r == rows[a][i]
           k == EntryKey(r)
<1>1. pc[a] = "rows" /\ result[a][i] = "none" /\ rows[a] # << >>
  BY DEF Row, RowFromStore, RowNotMapped, RowPosted, RowUnclaimed, IsOpen
<1>2. k \in Keys \cup {None}
  BY <1>1 DEF IInv, RowsInv, AreHandedOn
<1>3. PICK res, new : RowDoes(a, i, res, new)
  BY <1>2, RowCases
<1>30. /\ Settle(a, i, res) /\ res # "none"
       /\ booked' = booked \cup new
       /\ \A p \in new : p.by = a /\ p.row = i /\ (p.applied => res \in {"created"} \cup Retryable)
       /\ res = "created" =>
            \/ \E p \in new : p.applied
            \/ k # None /\ records[k].outcome = "created"
       /\ \/ records' = records
          \/ \E o \in Outcomes : Memoises(r, o) /\ (o = "created" => \E p \in new : p.applied)
  BY <1>3 DEF RowDoes
<1>4. /\ result' = [result EXCEPT ![a][i] = res] /\ result'[a][i] = res
      /\ \A c \in Attempts : \A j \in DOMAIN rows[c] :
           c # a \/ j # i => result'[c][j] = result[c][j]
      /\ UNCHANGED <<catalogue, today, pc, body, list, rows, status>>
  <2>1. result' = [result EXCEPT ![a][i] = res] /\ UNCHANGED <<catalogue, today, pc, body, list, rows, status>>
    BY <1>30 DEF Settle
  <2>2. DOMAIN result = Attempts /\ \A c \in Attempts : DOMAIN result[c] = DOMAIN rows[c]
    BY DEF IInv, BaseInv
  <2>. QED
    BY <2>1, <2>2
<1>5. AnswerInv'
  <2>. SUFFICES ASSUME NEW c \in Attempts, pc[c] = "answered"
                PROVE  \/ rows[c] = << >> /\ status[c] \in {400, 422, 502, 503}
                       \/ /\ \A j \in DOMAIN rows[c] : result'[c][j] # "none"
                          /\ status[c] = Verdict(c)'
    BY <1>4 DEF SInv, AnswerInv
  <2>1. c # a
    BY <1>1
  <2>2. \A j \in DOMAIN rows[c] : result'[c][j] = result[c][j]
    BY <1>4, <2>1
  <2>3. Verdict(c)' = Verdict(c)
    <3>1. {result'[c][j] : j \in DOMAIN rows[c]} = {result[c][j] : j \in DOMAIN rows[c]}
      BY <2>2
    <3>. QED
      BY <1>4, <3>1 DEF Verdict
  <2>. QED
    BY <2>2, <2>3 DEF SInv, AnswerInv
<1>6. TakenInv'
  <2>1. ASSUME NEW c \in Attempts, NEW j \in DOMAIN rows[c], result'[c][j] = "created"
        PROVE  IsTakenFor(c, j)'
    <3>1. CASE c # a \/ j # i
      <4>1. IsTakenFor(c, j)
        BY <1>4, <2>1, <3>1 DEF SInv, TakenInv
      <4>. QED
        BY <1>30, <1>4, <4>1 DEF IsTakenFor
    <3>2. CASE c = a /\ j = i
      <4>1. res = "created"
        BY <1>4, <2>1, <3>2
      <4>2. CASE \E p \in new : p.applied
        BY <1>30, <1>4, <3>2, <4>2 DEF IsTakenFor
      <4>3. CASE k # None /\ records[k].outcome = "created"
        <5>1. PICK p \in booked : p.applied /\ EntryKey(rows[p.by][p.row]) = k
          BY <1>2, <4>3 DEF SInv, TakenInv
        <5>. QED
          BY <1>30, <1>4, <3>2, <4>3, <5>1 DEF IsTakenFor
      <4>. QED
        BY <1>30, <4>1, <4>2, <4>3
    <3>. QED
      BY <3>1, <3>2
  <2>2. ASSUME NEW q \in Keys, records'[q].outcome = "created"
        PROVE  \E p \in booked' : p.applied /\ EntryKey(rows[p.by][p.row]) = q
    <3>1. CASE records'[q] = records[q]
      BY <1>30, <2>2, <3>1 DEF SInv, TakenInv
    <3>2. CASE records'[q] # records[q]
      <4>1. PICK o : /\ k # None
                     /\ records' = [records EXCEPT ![k] = [hash |-> Fingerprint(r), outcome |-> o]]
                     /\ o # "none"
                     /\ o = "created" => \E p \in new : p.applied
        BY <1>30, <3>2 DEF Memoises
      <4>2. DOMAIN records = Keys
        BY DEF IInv, BaseInv
      <4> HIDE DEF k
      <4>3. q = k
        BY <3>2, <4>1, <4>2
      <4>4. o = "created"
        BY <2>2, <4>1, <4>2, <4>3
      <4>. QED
        BY <1>30, <4>1, <4>3, <4>4 DEF k
    <3>. QED
      BY <3>1, <3>2
  <2>4. ASSUME NEW q \in Keys, records'[q].outcome = "none"
        PROVE  records'[q] = NoRecord
    <3>1. records'[q] = records[q]
      <4>1. DOMAIN records = Keys
        BY DEF IInv, BaseInv
      <4>. SUFFICES ASSUME records'[q] # records[q]
                    PROVE  FALSE
        OBVIOUS
      <4>2. PICK o : /\ o # "none"
                     /\ records' = [records EXCEPT ![k] = [hash |-> Fingerprint(r), outcome |-> o]]
        BY <1>30 DEF Memoises
      <4> HIDE DEF k, r
      <4>. QED
        BY <2>4, <4>1, <4>2
    <3>. QED
      BY <2>4, <3>1 DEF SInv, TakenInv
  <2>3. ASSUME NEW p \in booked', p.applied
        PROVE  p.row \in DOMAIN rows[p.by] /\ result'[p.by][p.row] \in {"created"} \cup Retryable
    <3>1. CASE p \in new
      BY <1>30, <1>4, <2>3, <3>1
    <3>2. CASE p \in booked
      <4>1. /\ p.by \in Attempts /\ p.row \in DOMAIN rows[p.by]
            /\ result[p.by][p.row] \in {"created"} \cup Retryable
        BY <2>3, <3>2 DEF SInv, TakenInv, IInv, BookedInv
      <4>2. p.by # a \/ p.row # i
        BY <1>1, <4>1 DEF Retryable
      <4>. QED
        BY <1>4, <4>1, <4>2
    <3>. QED
      BY <1>30, <3>1, <3>2
  <2>. QED
    BY <1>4, <2>1, <2>2, <2>3, <2>4 DEF TakenInv
<1>7. PreflightInv'
  BY <1>4 DEF SInv, PreflightInv
<1>. QED
  BY <1>5, <1>6, <1>7 DEF SInv

LEMMA StoreMissingFacts ==
  ASSUME IInv, NEW a \in Attempts, StoreMissing(a)
  PROVE  /\ pc[a] = "rows" /\ UNCHANGED <<today, pc, body, rows, status, records, booked>>
         /\ DOMAIN result' = Attempts
         /\ \A c \in Attempts \ {a} : result'[c] = result[c]
         /\ \A i \in DOMAIN rows[a] : result[a][i] = "none" /\ result'[a][i] = "store_unavailable"
         /\ DOMAIN result'[a] = DOMAIN rows[a]
BY DEF StoreMissing, IsOpen, IInv, BaseInv

LEMMA StoreMissingAnswers ==
  ASSUME IInv, SInv, NEW a \in Attempts, StoreMissing(a)
  PROVE  SInv'
<1>1. /\ pc[a] = "rows" /\ UNCHANGED <<pc, body, rows, status, records, booked>>
      /\ \A c \in Attempts \ {a} : result'[c] = result[c]
      /\ \A i \in DOMAIN rows[a] : result'[a][i] = "store_unavailable"
  BY StoreMissingFacts
<1>2. AnswerInv'
  <2>. SUFFICES ASSUME NEW c \in Attempts, pc[c] = "answered"
                PROVE  \/ rows[c] = << >> /\ status[c] \in {400, 422, 502, 503}
                       \/ /\ \A j \in DOMAIN rows[c] : result'[c][j] # "none"
                          /\ status[c] = Verdict(c)'
    BY <1>1 DEF SInv, AnswerInv
  <2>1. result'[c] = result[c]
    BY <1>1
  <2>2. Verdict(c)' = Verdict(c)
    BY <1>1, <2>1 DEF Verdict
  <2>. QED
    BY <2>1, <2>2 DEF SInv, AnswerInv
<1>3. TakenInv'
  <2>1. ASSUME NEW c \in Attempts, NEW j \in DOMAIN rows[c], result'[c][j] = "created"
        PROVE  IsTakenFor(c, j)'
    <3>1. c # a
      BY <1>1, <2>1
    <3>2. IsTakenFor(c, j)
      BY <1>1, <2>1, <3>1 DEF SInv, TakenInv
    <3>. QED
      BY <1>1, <3>2 DEF IsTakenFor
  <2>2. ASSUME NEW p \in booked, p.applied
        PROVE  p.row \in DOMAIN rows[p.by] /\ result'[p.by][p.row] \in {"created"} \cup Retryable
    <3>1. /\ p.by \in Attempts /\ p.row \in DOMAIN rows[p.by]
          /\ result[p.by][p.row] \in {"created"} \cup Retryable
      BY <2>2 DEF SInv, TakenInv, IInv, BookedInv
    <3>2. CASE p.by = a
      BY <1>1, <3>1, <3>2 DEF Retryable
    <3>3. CASE p.by # a
      BY <1>1, <3>1, <3>3
    <3>. QED
      BY <3>1, <3>2, <3>3
  <2>. QED
    BY <1>1, <2>1, <2>2 DEF SInv, TakenInv
<1>4. PreflightInv'
  BY <1>1 DEF SInv, PreflightInv
<1>. QED
  BY <1>2, <1>3, <1>4 DEF SInv

LEMMA InitSInv ==
  ASSUME Init
  PROVE  SInv
<1>1. AnswerInv
  BY DEF Init, AnswerInv
<1>2. TakenInv
  BY DEF Init, TakenInv, NoRecord
<1>3. PreflightInv
  BY DEF Init, PreflightInv
<1>. QED
  BY <1>1, <1>2, <1>3 DEF SInv

LEMMA NextAnswers ==
  ASSUME IInv, SInv, [Next]_vars
  PROVE  SInv'
<1>1. ASSUME NEW a \in Attempts, Send(a)
      PROVE  SInv'
  <2>1. PICK b \in Bodies : Receive(a, b)
    BY <1>1, RouteAssumption DEF Send
  <2>. QED
    BY <2>1, ReceiveAnswers
<1>2. ASSUME NEW a \in Attempts, Lookup(a)
      PROVE  SInv'
  <2>1. /\ pc[a] = "looking" /\ pc' = [pc EXCEPT ![a] = "looked"] /\ status[a] = 0
        /\ UNCHANGED <<body, rows, result, status, records, booked>>
    BY <1>2 DEF Lookup, SInv, AnswerInv
  <2>2. status' = [status EXCEPT ![a] = 0]
    BY <2>1 DEF SInv, AnswerInv
  <2>. QED
    BY <2>1, <2>2, MoveAnswers
<1>3. ASSUME NEW a \in Attempts, LookupFails(a)
      PROVE  SInv'
  <2>1. rows[a] = << >>
    BY <1>3 DEF LookupFails, IInv, BaseInv
  <2>. QED
    BY <1>3, <2>1, MoveAnswers DEF LookupFails, Answer
<1>4. ASSUME NEW a \in Attempts, RefuseAssignment(a)
      PROVE  SInv'
  <2>1. rows[a] = << >>
    BY <1>4 DEF RefuseAssignment, IInv, BaseInv
  <2>. QED
    BY <1>4, <2>1, MoveAnswers DEF RefuseAssignment, Answer
<1>5. ASSUME NEW a \in Attempts, Respond(a)
      PROVE  SInv'
  BY <1>5, MoveAnswers DEF Respond, Answer
<1>6. ASSUME \/ Refresh \/ Midnight \/ UNCHANGED vars
      PROVE  SInv'
  <2>1. UNCHANGED <<pc, body, rows, result, status, records, booked>>
    BY <1>6 DEF Refresh, Midnight, vars
  <2>. QED
    BY <2>1 DEF SInv, AnswerInv, Verdict, TakenInv, IsTakenFor, PreflightInv
<1>. QED
  BY <1>1, <1>2, <1>3, <1>4, <1>5, <1>6, DispatchAnswers, RowAnswers, StoreMissingAnswers DEF Next

LEMMA AnswersInvariant == Spec => []SInv
<1>1. IInv /\ SInv /\ [Next]_vars => SInv'
  BY NextAnswers
<1>. QED
  BY <1>1, InitSInv, Invariant, PTL DEF Spec

-----------------------------------------------------------------------------
(* Times.                                                                  *)
Moments == (0..Day-1) \cup {None, Bad}

LEMMA RowsAreAsSent ==
  ASSUME NEW b \in Bodies, NEW called, NEW l
  PROVE  /\ DOMAIN RowsFor(b, called, l) = DOMAIN EntriesOf(b)
         /\ \E n \in Nat : DOMAIN EntriesOf(b) = 1..n
         /\ \A i \in DOMAIN RowsFor(b, called, l) :
              /\ {RowsFor(b, called, l)[i].start, RowsFor(b, called, l)[i].stop} \subseteq Moments
              /\ RowsFor(b, called, l)[i].hours = EntriesOf(b)[i].hours
              /\ RowsFor(b, called, l)[i].date = EntriesOf(b)[i].date
<1> DEFINE es == EntriesOf(b)
           rs == [j \in DOMAIN es |-> Resolved(es[j], Me, called, l)]
           n == Len(b.rows)
<1>1. n \in Nat /\ DOMAIN es = 1..n /\ DOMAIN b.rows = 1..n
  BY BodiesAssumption, EntriesFacts
<1>2. ASSUME NEW j \in 1..n
      PROVE  /\ {rs[j].start, rs[j].stop} \subseteq Moments /\ EntryFields \subseteq DOMAIN rs[j]
             /\ rs[j].hours = es[j].hours /\ rs[j].date = es[j].date
  <2>1. /\ EntryFields \subseteq DOMAIN b.rows[j]
        /\ {b.rows[j].start, b.rows[j].stop} \subseteq Moments
    BY <1>1, BodiesAssumption DEF Moments
  <2>2. es[j].start = b.rows[j].start /\ es[j].stop = b.rows[j].stop
    BY <1>1, <2>1 DEF EntriesOf, Normalized, EntryFields
  <2>3. EntryFields \subseteq DOMAIN es[j]
    BY <1>1, EntriesFacts
  <2> DEFINE e == es[j]
  <2>4. rs[j] = Resolved(e, Me, called, l)
    BY <1>1
  <2> HIDE DEF e
  <2>5. ASSUME EntryFields \subseteq DOMAIN e
        PROVE  /\ Resolved(e, Me, called, l).start = e.start /\ Resolved(e, Me, called, l).stop = e.stop
               /\ Resolved(e, Me, called, l).hours = e.hours /\ Resolved(e, Me, called, l).date = e.date
               /\ EntryFields \subseteq DOMAIN Resolved(e, Me, called, l)
    BY <2>5 DEF Resolved, Normalized, EntryFields
  <2>. QED
    BY <2>1, <2>2, <2>3, <2>4, <2>5 DEF e
<1>3. Len(rs) = n
  <2>1. rs \in [1..n -> {rs[j] : j \in 1..n}]
    BY <1>1
  <2>. QED
    BY <1>1, <2>1, LengthOf
<1>4. RowsFor(b, called, l) = Keyed(rs, RequestId(b)) /\ DOMAIN rs = 1..n
  BY <1>1 DEF RowsFor
<1> HIDE DEF rs, es
<1>5. CASE RowsFor(b, called, l) = rs
  BY <1>1, <1>2, <1>4, <1>5 DEF es
<1>6. CASE RowsFor(b, called, l) # rs
  <2>1. n = 1 /\ RowsFor(b, called, l) = <<[rs[1] EXCEPT !.id = RequestId(b)]>>
    BY <1>3, <1>4, <1>6 DEF Keyed
  <2>2. DOMAIN RowsFor(b, called, l) = 1..1
    BY <2>1
  <2>3. /\ RowsFor(b, called, l)[1].start = rs[1].start /\ RowsFor(b, called, l)[1].stop = rs[1].stop
        /\ RowsFor(b, called, l)[1].hours = rs[1].hours /\ RowsFor(b, called, l)[1].date = rs[1].date
    BY <1>2, <2>1 DEF EntryFields
  <2>. QED
    BY <1>1, <1>2, <2>1, <2>2, <2>3 DEF es
<1>. QED
  BY <1>5, <1>6

(* What map_entry_to_otl makes of a row it does not refuse.                *)
LEMMA PayloadTimes ==
  ASSUME NEW r, {r.start, r.stop} \subseteq Moments, IsMappable(r), r.pid # None, NEW d
  PROVE  LET q == Payload(r, d) IN
           /\ 0 <= q.start /\ q.start < q.stop /\ q.stop < Day
           /\ q.stop - q.start = q.measure
           /\ q.type \in Types \/ (q.type = None /\ DefaultType = None)
<1>1. /\ Payload(r, d).start = StartOf(r) /\ Payload(r, d).stop = StopOf(r)
      /\ Payload(r, d).measure = r.hours /\ Payload(r, d).type = BookedAs(r)
  BY DEF Payload
<1>2. /\ r.hours \in 1..MaxEntry /\ r.start # Bad /\ r.stop # Bad
      /\ r.stop # None => r.start # None
      /\ r.start # None /\ r.stop # None => r.stop > r.start /\ r.stop - r.start = r.hours
      /\ r.stop = None => StopOf(r) < Day
      /\ BookedAs(r) \in Types \/ (BookedAs(r) = None /\ DefaultType = None)
  BY DEF IsMappable, WellFormed, HoursOk, TimesOk, BookedAs
<1>3. /\ Day \in Nat /\ DefaultStart \in 0..Day-1 /\ MaxEntry \in Nat
      /\ r.start \in (0..Day-1) \cup {None} /\ r.stop \in (0..Day-1) \cup {None}
  BY <1>2, RulesAssumption DEF Moments
<1>4. StartOf(r) \in 0..Day-1
  BY <1>3 DEF StartOf
<1>5. CASE r.stop = None
  <2>1. StopOf(r) = StartOf(r) + r.hours
    BY <1>5 DEF StopOf
  <2>. QED
    BY <1>1, <1>2, <1>3, <1>4, <1>5, <2>1
<1>6. CASE r.stop # None
  <2>1. StopOf(r) = r.stop /\ StartOf(r) = r.start
    BY <1>2, <1>6 DEF StopOf, StartOf
  <2>. QED
    BY <1>1, <1>2, <1>3, <1>4, <1>6, <2>1
<1>. QED
  BY <1>5, <1>6

LEMMA RowKeepsTimes ==
  ASSUME IInv, BookedTimesAreWhole, NEW a \in Attempts, NEW i \in DOMAIN rows[a], Row(a, i)
  PROVE  BookedTimesAreWhole'
<1> DEFINE r == rows[a][i]
<1>1. CASE booked' = booked
  BY <1>1 DEF BookedTimesAreWhole
<1>2. CASE booked' # booked
  <2>1. PICK applied : /\ IsMappable(r)
                       /\ booked' = booked \cup {[by |-> a, row |-> i, payload |-> Payload(r, today),
                                                 applied |-> applied]}
    BY <1>2 DEF Row, RowFromStore, RowNotMapped, RowPosted, RowUnclaimed
  <2>2. AreHandedOn(rows[a], body[a], fullName[a], list[a])
    <3>1. rows[a] # << >>
      OBVIOUS
    <3>. QED
      BY <3>1 DEF IInv, RowsInv
  <2>3. {r.start, r.stop} \subseteq Moments
    BY <2>2, RowsAreAsSent DEF AreHandedOn
  <2>4. r.pid # None
    BY <2>2 DEF AreHandedOn, IsOfWork, IInv, BaseInv
  <2> DEFINE q == Payload(r, today)
  <2>5. /\ 0 <= q.start /\ q.start < q.stop /\ q.stop < Day
        /\ q.stop - q.start = q.measure
        /\ q.type \in Types \/ (q.type = None /\ DefaultType = None)
    BY <2>1, <2>3, <2>4, PayloadTimes
  <2> HIDE DEF q, r
  <2>6. booked' = booked \cup {[by |-> a, row |-> i, payload |-> q, applied |-> applied]}
    BY <2>1 DEF q
  <2>. QED
    BY <2>5, <2>6 DEF BookedTimesAreWhole
<1>. QED
  BY <1>1, <1>2

-----------------------------------------------------------------------------
(* timecards.py: whatever is sent and whenever the catalogue changes, what *)
(* is booked is the employee's own and assigned to them in that request.   *)
THEOREM BookingsAreAssigned == Spec => []BookedWorkIsAssigned
<1>1. IInv => BookedWorkIsAssigned
  BY DEF IInv, BookedInv
<1>. QED
  BY <1>1, Invariant, PTL

(* idempotency.py: a request sent again meets a conflict only where a row  *)
(* of that key was handed on which hashes differently, and the catalogue   *)
(* or the session's display name changed between the two.                  *)
THEOREM ConflictsAreExplained == Spec => []ConflictIsExplained
<1>1. IInv => ConflictIsExplained
  BY DEF IInv
<1>. QED
  BY <1>1, Invariant, PTL

(* timecards.py: what the status says of a submission is true of Oracle.   *)
THEOREM StatusesAreTrue == Spec => []StatusIsTrue
<1>1. ASSUME IInv, SInv, NEW a \in Attempts
      PROVE  /\ status[a] = 200 => \E i \in DOMAIN rows[a] : IsTakenFor(a, i)
             /\ status[a] \in {400, 422, 503} => ~ \E p \in booked : p.by = a /\ p.applied
  <2>1. \/ status[a] = 0
        \/ rows[a] = << >> /\ status[a] \in {400, 422, 502, 503}
        \/ status[a] = Verdict(a)
    BY <1>1 DEF SInv, AnswerInv
  <2> DEFINE results == {result[a][i] : i \in DOMAIN rows[a]}
  <2>2. Verdict(a) = IF "created" \in results THEN 200
                     ELSE IF results \cap Retryable # {} THEN 502 ELSE 422
    BY DEF Verdict
  <2>3. ASSUME status[a] = 200
        PROVE  \E i \in DOMAIN rows[a] : IsTakenFor(a, i)
    <3>1. "created" \in results
      BY <2>1, <2>2, <2>3
    <3>. QED
      BY <1>1, <3>1 DEF SInv, TakenInv
  <2>4. ASSUME status[a] \in {400, 422, 503}, NEW p \in booked, p.by = a, p.applied
        PROVE  FALSE
    <3>1. p.row \in DOMAIN rows[a] /\ result[a][p.row] \in {"created"} \cup Retryable
      BY <1>1, <2>4 DEF SInv, TakenInv
    <3>2. "created" \notin results /\ results \cap Retryable = {}
      BY <2>1, <2>2, <2>4, <3>1
    <3>. QED
      BY <3>1, <3>2
  <2>. QED
    BY <2>3, <2>4
<1>2. IInv /\ SInv => StatusIsTrue
  BY <1>1 DEF StatusIsTrue
<1>. QED
  BY <1>2, Invariant, AnswersInvariant, PTL

(* otl_client.py: what the route lets through, the client of Oracle        *)
(* accepts, but for a key behind request_id or idempotency_key that the    *)
(* route does not fold.                                                    *)
THEOREM PreflightsAgree == Spec => []PreflightAgreesWithTheRoute
<1>1. SInv => PreflightAgreesWithTheRoute
  BY DEF SInv, PreflightInv, Hides, PreflightAgreesWithTheRoute
<1>. QED
  BY <1>1, AnswersInvariant, PTL

(* otl_client.py: a booking is a stretch of one day, as long as its hours, *)
(* under an allowed type if any, also where its start or stop is made up.  *)
THEOREM BookingsAreWhole == Spec => []BookedTimesAreWhole
<1>1. Init => BookedTimesAreWhole
  BY DEF Init, BookedTimesAreWhole
<1>2. ASSUME IInv, BookedTimesAreWhole, [Next]_vars
      PROVE  BookedTimesAreWhole'
  <2>1. CASE booked' = booked
    BY <1>2, <2>1 DEF BookedTimesAreWhole
  <2>2. CASE booked' # booked
    <3>1. PICK a \in Attempts : \E i \in DOMAIN rows[a] : Row(a, i)
      BY <1>2, <2>2 DEF Next, vars, Send, Receive, Lookup, LookupFails, RefuseAssignment, Dispatch,
                        StoreMissing, Respond, Refresh, Midnight
    <3>. QED
      BY <1>2, <3>1, RowKeepsTimes
  <2>. QED
    BY <2>1, <2>2
<1>3. IInv /\ BookedTimesAreWhole /\ [Next]_vars => BookedTimesAreWhole'
  BY <1>2
<1>. QED
  BY <1>1, <1>3, Invariant, PTL DEF Spec

(* What the theorem on types needs of results, outcomes and bookings.      *)
ValuesInv ==
  /\ today \in 0..LastDay
  /\ \A a \in Attempts : \A i \in DOMAIN rows[a] : result[a][i] \in Results
  /\ \A k \in Keys : records[k].outcome \in Outcomes \cup {"none"}
  /\ \A p \in booked : p.applied \in BOOLEAN

LEMMA RowKeepsValues ==
  ASSUME IInv, ValuesInv, NEW a \in Attempts, NEW i \in DOMAIN rows[a], Row(a, i)
  PROVE  ValuesInv'
<1> DEFINE r == rows[a][i]
           k == EntryKey(r)
<1>1. rows[a] # << >>
  OBVIOUS
<1>2. k \in Keys \cup {None}
  BY <1>1 DEF IInv, RowsInv, AreHandedOn
<1>3. \E res \in Results : Settle(a, i, res)
  <2>1. CASE RowFromStore(a, i)
    <3>1. k \in Keys
      BY <1>2, <2>1 DEF RowFromStore, IsGranted
    <3>. QED
      BY <2>1, <3>1 DEF RowFromStore, ValuesInv, Results
  <2>2. CASE RowNotMapped(a, i)
    BY <2>2 DEF RowNotMapped, Results, Outcomes
  <2>3. CASE \E o \in Outcomes, applied, stored \in BOOLEAN : RowPosted(a, i, o, applied, stored)
    BY <2>3 DEF RowPosted, Results
  <2>4. CASE RowUnclaimed(a, i)
    BY <2>4 DEF RowUnclaimed, Results
  <2>. QED
    BY <2>1, <2>2, <2>3, <2>4 DEF Row
<1>4. UNCHANGED <<today, rows>> /\ \A c \in Attempts : \A j \in DOMAIN rows[c] : result'[c][j] \in Results
  <2>1. PICK res \in Results : /\ result' = [result EXCEPT ![a][i] = res]
                                /\ UNCHANGED <<today, rows>>
    BY <1>3 DEF Settle
  <2>. QED
    BY <2>1 DEF IInv, BaseInv, ValuesInv
<1>5. \/ records' = records
      \/ \E o \in Outcomes : records' = [records EXCEPT ![k] = [hash |-> Fingerprint(r), outcome |-> o]]
  BY DEF Row, RowFromStore, RowNotMapped, RowPosted, RowUnclaimed, Memoise, Outcomes
<1>6. \/ booked' = booked
      \/ \E applied \in BOOLEAN :
           booked' = booked \cup {[by |-> a, row |-> i, payload |-> Payload(r, today), applied |-> applied]}
  BY DEF Row, RowFromStore, RowNotMapped, RowPosted, RowUnclaimed
<1>7. \A q \in Keys : records'[q].outcome \in Outcomes \cup {"none"}
  <2> HIDE DEF k, r
  <2>. QED
    BY <1>5 DEF ValuesInv, IInv, BaseInv
<1>. QED
  BY <1>4, <1>6, <1>7 DEF ValuesInv

LEMMA ValuesInvariant == Spec => []ValuesInv
<1>1. Init => ValuesInv
  BY RouteAssumption DEF Init, ValuesInv, NoRecord
<1>2. ASSUME IInv, ValuesInv, [Next]_vars
      PROVE  ValuesInv'
  <2>1. ASSUME NEW a \in Attempts, Dispatch(a)
        PROVE  ValuesInv'
    <3>1. /\ UNCHANGED <<today, records, booked>>
          /\ \/ UNCHANGED <<rows, result>>
             \/ \E kept, n : /\ rows' = [rows EXCEPT ![a] = kept] /\ DOMAIN kept = n
                             /\ result' = [result EXCEPT ![a] = [i \in n |-> "none"]]
      <4> DEFINE es == EntriesOf(body[a])
                 rid == RequestId(body[a])
                 rs == [i \in DOMAIN es |-> Resolved(es[i], Me, fullName[a], list[a])]
                 kept == Keyed(rs, rid)
      <4>1. CASE PreflightOk(rs, rid)
        <5>1. /\ rows' = [rows EXCEPT ![a] = kept]
              /\ result' = [result EXCEPT ![a] = [i \in DOMAIN rs |-> "none"]]
          BY <2>1, <4>1 DEF Dispatch
        <5>2. DOMAIN kept = DOMAIN rs
          <6>1. DOMAIN result'[a] = DOMAIN rows'[a]
            BY <1>2, <2>1, DispatchKeeps DEF IInv, BaseInv
          <6> HIDE DEF kept, rs
          <6>. QED
            BY <1>2, <5>1, <6>1 DEF IInv, BaseInv
        <5> HIDE DEF kept, rs
        <5>. QED
          BY <2>1, <5>1, <5>2 DEF Dispatch
      <4>2. CASE ~PreflightOk(rs, rid)
        BY <2>1, <4>2 DEF Dispatch
      <4>. QED
        BY <4>1, <4>2
    <3>2. \A c \in Attempts : \A i \in DOMAIN rows'[c] : result'[c][i] \in Results
      BY <1>2, <3>1 DEF ValuesInv, Results, IInv, BaseInv
    <3>. QED
      BY <1>2, <3>1, <3>2 DEF ValuesInv
  <2>4. ASSUME NEW a \in Attempts, StoreMissing(a)
        PROVE  ValuesInv'
    <3>1. \A c \in Attempts : \A i \in DOMAIN rows[c] : result'[c][i] \in Results
      BY <1>2, <2>4, StoreMissingFacts DEF ValuesInv, Results
    <3>. QED
      BY <1>2, <2>4, <3>1, StoreMissingFacts DEF ValuesInv
  <2>2. CASE Midnight
    BY <1>2, <2>2, RouteAssumption DEF Midnight, ValuesInv
  <2>3. CASE UNCHANGED <<today, rows, result, records, booked>>
    BY <1>2, <2>3 DEF ValuesInv
  <2>. QED
    BY <1>2, <2>1, <2>2, <2>3, <2>4, RowKeepsValues
       DEF Next, vars, Send, Receive, Lookup, LookupFails, RefuseAssignment, Respond, Refresh
<1>3. IInv /\ ValuesInv /\ [Next]_vars => ValuesInv'
  BY <1>2
<1>. QED
  BY <1>1, <1>3, Invariant, PTL DEF Spec

(* timecards.py, otl_client.py: every answer is one of the six, a row has  *)
(* one result, and what is memoised is an outcome of Oracle.               *)
THEOREM TypeCorrect == Spec => []TypeOK
<1>1. IInv /\ SInv /\ ValuesInv => TypeOK
  <2>. SUFFICES ASSUME IInv, SInv, ValuesInv
                PROVE  TypeOK
    OBVIOUS
  <2>1. \A a \in Attempts : body[a].form \in {"none", "entries", "message", "malformed"}
    <3>1. \A a \in Attempts : body[a] \in Bodies \cup {NoBody}
      BY DEF IInv, BaseInv
    <3>. QED
      BY <3>1, BodiesAssumption DEF NoBody
  <2>2. /\ catalogue \in Catalogues
        /\ pc \in [Attempts -> {"idle", "looking", "looked", "rows", "answered"}]
        /\ \A a \in Attempts : DOMAIN result[a] = DOMAIN rows[a]
        /\ \A p \in booked : p.by \in Attempts
        /\ fullName \in [Attempts -> Names \cup {None}]
    BY DEF IInv, BaseInv, BookedInv
  <2>3. status \in [Attempts -> {0, 200, 400, 422, 502, 503}]
    BY DEF SInv, AnswerInv
  <2>. QED
    BY <2>1, <2>2, <2>3 DEF TypeOK, ValuesInv
<1>. QED
  BY <1>1, Invariant, AnswersInvariant, ValuesInvariant, PTL
-----------------------------------------------------------------------------
(* Sums over finite sets. Induction is by a counterexample of least size.  *)
Total(f, S) == MapThenSumSet(LAMBDA x : f[x], S)

AnyOf(s) == CHOOSE x \in s : TRUE
IsFold(g, D, f) ==
  g = [s \in D |-> IF s = {} THEN 0 ELSE f[AnyOf(s)] + g[s \ {AnyOf(s)}]]
UpTo(S, n) == {s \in SUBSET S : Cardinality(s) <= n}

LEMMA TotalIsFold ==
  ASSUME NEW f, NEW S
  PROVE  Total(f, S) = (CHOOSE g : IsFold(g, SUBSET S, f))[S]
BY DEF Total, MapThenSumSet, MapThenFoldSet, IsFold, AnyOf

LEMMA SmallestSet ==
  ASSUME NEW B, B # {}, \A s \in B : IsFiniteSet(s)
  PROVE  \E s \in B : \A t \in B : Cardinality(s) <= Cardinality(t)
<1> DEFINE N == {Cardinality(s) : s \in B}
<1>1. N \subseteq Nat /\ N # {}
  BY FS_CardinalityType
<1>2. FirstOf(N) \in N /\ \A j \in N : FirstOf(N) <= j
  <2> HIDE DEF N
  <2>. QED
    BY <1>1, FirstIsIn
<1>. QED
  BY <1>2

LEMMA AnyIsIn ==
  ASSUME NEW s, s # {}, IsFiniteSet(s)
  PROVE  /\ AnyOf(s) \in s /\ IsFiniteSet(s \ {AnyOf(s)})
         /\ Cardinality(s) \in Nat
         /\ Cardinality(s \ {AnyOf(s)}) = Cardinality(s) - 1
<1>1. AnyOf(s) \in s
  BY DEF AnyOf
<1>. QED
  BY <1>1, FS_RemoveElement, FS_CardinalityType

LEMMA FoldUpTo ==
  ASSUME NEW S, IsFiniteSet(S), NEW f
  PROVE  \A n \in Nat : \E g : IsFold(g, UpTo(S, n), f)
<1> DEFINE Missing == {n \in Nat : ~ \E g : IsFold(g, UpTo(S, n), f)}
<1> SUFFICES ASSUME Missing # {} PROVE FALSE
  OBVIOUS
<1> DEFINE m == FirstOf(Missing)
<1>1. m \in Missing /\ \A j \in Missing : m <= j
  <2> HIDE DEF Missing
  <2>1. Missing \subseteq Nat
    BY DEF Missing
  <2>. QED
    BY <2>1, FirstIsIn
<1> HIDE DEF m
<1>0. \A s \in SUBSET S : IsFiniteSet(s) /\ Cardinality(s) \in Nat
  BY FS_Subset, FS_CardinalityType
<1>2. CASE m = 0
  <2> DEFINE g == [s \in UpTo(S, m) |-> 0]
  <2>1. \A s \in UpTo(S, m) : s = {}
    BY <1>0, <1>2, FS_EmptySet DEF UpTo
  <2>2. IsFold(g, UpTo(S, m), f)
    BY <2>1 DEF IsFold
  <2>. QED
    BY <1>1, <2>2
<1>3. CASE m # 0
  <2>1. m - 1 \in Nat /\ m - 1 \notin Missing
    BY <1>1, <1>3
  <2>2. PICK g : IsFold(g, UpTo(S, m-1), f)
    BY <2>1
  <2> DEFINE V(k, s) == IF s = {} THEN 0 ELSE f[AnyOf(s)] + k[s \ {AnyOf(s)}]
             h == [s \in UpTo(S, m) |-> V(g, s)]
  <2>3. \A s \in UpTo(S, m-1) : g[s] = V(g, s) /\ s \in UpTo(S, m)
    <3>1. g = [s \in UpTo(S, m-1) |-> V(g, s)]
      BY <2>2 DEF IsFold
    <3>2. UpTo(S, m-1) \subseteq UpTo(S, m)
      BY <1>0, <1>1, <2>1 DEF UpTo
    <3> HIDE DEF V
    <3>3. \A s \in UpTo(S, m-1) : g[s] = V(g, s)
      BY <3>1
    <3>. QED
      BY <3>2, <3>3
  <2>4. \A s \in UpTo(S, m) : s # {} => s \ {AnyOf(s)} \in UpTo(S, m-1)
    BY <1>0, <1>1, AnyIsIn DEF UpTo
  <2>5. \A s \in UpTo(S, m-1) : h[s] = g[s]
    BY <2>3
  <2>6. \A s \in UpTo(S, m) : V(g, s) = V(h, s)
    <3> HIDE DEF h
    <3>. QED
      BY <2>4, <2>5
  <2>7. h = [s \in UpTo(S, m) |-> V(h, s)]
    <3>1. \A s \in UpTo(S, m) : h[s] = V(h, s)
      BY <2>6
    <3>. QED
      BY <3>1
  <2>8. IsFold(h, UpTo(S, m), f)
    <3> HIDE DEF h
    <3>. QED
      BY <2>7 DEF IsFold
  <2>. QED
    BY <1>1, <2>8
<1>. QED
  BY <1>2, <1>3

LEMMA FoldExists ==
  ASSUME NEW S, IsFiniteSet(S), NEW f
  PROVE  \E g : IsFold(g, SUBSET S, f)
<1>1. \A s \in SUBSET S : Cardinality(s) <= Cardinality(S)
  BY FS_Subset
<1>2. UpTo(S, Cardinality(S)) = SUBSET S
  BY <1>1 DEF UpTo
<1>3. Cardinality(S) \in Nat
  BY FS_CardinalityType
<1>4. \E g : IsFold(g, UpTo(S, Cardinality(S)), f)
  BY <1>3, FoldUpTo
<1>. QED
  BY <1>2, <1>4

LEMMA SmallerWithout ==
  ASSUME NEW s, IsFiniteSet(s), NEW x \in s
  PROVE  IsFiniteSet(s \ {x}) /\ ~ (Cardinality(s) <= Cardinality(s \ {x}))
<1>1. /\ Cardinality(s) \in Nat /\ IsFiniteSet(s \ {x})
      /\ Cardinality(s \ {x}) = Cardinality(s) - 1
  BY FS_RemoveElement, FS_CardinalityType
<1>. QED
  BY <1>1

(* Folds agree wherever the functions they sum do.                         *)
LEMMA FoldIsUnique ==
  ASSUME NEW S, NEW T, NEW f, NEW e, NEW g, NEW h, NEW u, IsFiniteSet(u),
         IsFold(g, SUBSET S, f), IsFold(h, SUBSET T, e), u \subseteq S, u \subseteq T,
         \A x \in u : f[x] = e[x]
  PROVE  g[u] = h[u]
<1> DEFINE B == {s \in SUBSET u : g[s] # h[s]}
<1> SUFFICES ASSUME B # {} PROVE FALSE
  OBVIOUS
<1>1. \A s \in B : IsFiniteSet(s)
  BY FS_Subset
<1>2. PICK s \in B : \A t \in B : Cardinality(s) <= Cardinality(t)
  <2> HIDE DEF B
  <2>. QED
    BY <1>1, SmallestSet
<1>3. /\ g[s] = IF s = {} THEN 0 ELSE f[AnyOf(s)] + g[s \ {AnyOf(s)}]
      /\ h[s] = IF s = {} THEN 0 ELSE e[AnyOf(s)] + h[s \ {AnyOf(s)}]
  <2>1. s \in SUBSET S /\ s \in SUBSET T
    OBVIOUS
  <2>. QED
    BY <2>1 DEF IsFold
<1>4. s # {}
  BY <1>3
<1>5. /\ AnyOf(s) \in s
      /\ ~ (Cardinality(s) <= Cardinality(s \ {AnyOf(s)}))
  <2>1. IsFiniteSet(s) /\ AnyOf(s) \in s
    BY <1>1, <1>4 DEF AnyOf
  <2>. QED
    BY <2>1, SmallerWithout
<1>6. s \ {AnyOf(s)} \notin B
  BY <1>2, <1>5
<1>7. g[s \ {AnyOf(s)}] = h[s \ {AnyOf(s)}]
  BY <1>6
<1>. QED
  BY <1>3, <1>4, <1>5, <1>7

LEMMA TotalEquation ==
  ASSUME NEW S, IsFiniteSet(S), NEW f
  PROVE  /\ Total(f, {}) = 0
         /\ S # {} => Total(f, S) = f[AnyOf(S)] + Total(f, S \ {AnyOf(S)})
<1> DEFINE G(X) == CHOOSE g : IsFold(g, SUBSET X, f)
<1>1. \A X : IsFiniteSet(X) => IsFold(G(X), SUBSET X, f)
  BY FoldExists
<1>2. \A X : Total(f, X) = G(X)[X]
  BY TotalIsFold
<1> HIDE DEF G
<1>3. G({})[{}] = 0
  BY <1>1, FS_EmptySet DEF IsFold
<1>4. ASSUME S # {}
      PROVE  G(S)[S] = f[AnyOf(S)] + G(S \ {AnyOf(S)})[S \ {AnyOf(S)}]
  <2> DEFINE R == S \ {AnyOf(S)}
  <2>1. IsFiniteSet(R) /\ R \subseteq S
    BY FS_Subset
  <2>2. G(S)[S] = f[AnyOf(S)] + G(S)[R]
    BY <1>1, <1>4 DEF IsFold
  <2>3. G(S)[R] = G(R)[R]
    <3> HIDE DEF R
    <3>1. IsFold(G(S), SUBSET S, f) /\ IsFold(G(R), SUBSET R, f)
      BY <1>1, <2>1
    <3>. QED
      BY <2>1, <3>1, FoldIsUnique
  <2>. QED
    BY <2>2, <2>3
<1>. QED
  BY <1>2, <1>3, <1>4

LEMMA TotalIsNat ==
  ASSUME NEW S, IsFiniteSet(S), NEW f, \A x \in S : f[x] \in Nat
  PROVE  \A T \in SUBSET S : Total(f, T) \in Nat
<1> DEFINE B == {s \in SUBSET S : Total(f, s) \notin Nat}
<1> SUFFICES ASSUME B # {} PROVE FALSE
  OBVIOUS
<1>1. \A s \in B : IsFiniteSet(s)
  BY FS_Subset
<1>2. PICK s \in B : \A t \in B : Cardinality(s) <= Cardinality(t)
  <2> HIDE DEF B
  <2>. QED
    BY <1>1, SmallestSet
<1>3. s # {}
  BY <1>1, <1>2, TotalEquation
<1>4. /\ AnyOf(s) \in s
      /\ ~ (Cardinality(s) <= Cardinality(s \ {AnyOf(s)}))
  <2>1. IsFiniteSet(s) /\ AnyOf(s) \in s
    BY <1>1, <1>3 DEF AnyOf
  <2>. QED
    BY <2>1, SmallerWithout
<1>5. Total(f, s \ {AnyOf(s)}) \in Nat
  BY <1>2, <1>4
<1>6. Total(f, s) = f[AnyOf(s)] + Total(f, s \ {AnyOf(s)})
  BY <1>1, <1>3, TotalEquation
<1>. QED
  BY <1>4, <1>5, <1>6

(* Any element may be taken out first.                                     *)
LEMMA TotalWithout ==
  ASSUME NEW S, IsFiniteSet(S), NEW f, \A x \in S : f[x] \in Nat, NEW y \in S
  PROVE  Total(f, S) = f[y] + Total(f, S \ {y})
<1> DEFINE P(s, z) == Total(f, s) = f[z] + Total(f, s \ {z})
           B == {s \in SUBSET S : \E z \in s : ~ P(s, z)}
<1> SUFFICES ASSUME B # {} PROVE FALSE
  OBVIOUS
<1>1. \A s \in SUBSET S : IsFiniteSet(s) /\ Total(f, s) \in Nat
  BY FS_Subset, TotalIsNat
<1>2. PICK s \in B : \A t \in B : Cardinality(s) <= Cardinality(t)
  <2>1. \A s \in B : IsFiniteSet(s)
    BY <1>1
  <2> HIDE DEF B
  <2>. QED
    BY <2>1, SmallestSet
<1>3. PICK z \in s : ~ P(s, z)
  BY <1>2
<1> DEFINE x == AnyOf(s)
<1>4. \A w \in s : s \ {w} \in SUBSET S /\ ~ (Cardinality(s) <= Cardinality(s \ {w}))
  <2>1. IsFiniteSet(s) /\ s \subseteq S
    BY <1>1
  <2>. QED
    BY <2>1, SmallerWithout
<1>5. \A w \in s : \A v \in s \ {w} : P(s \ {w}, v)
  BY <1>2, <1>4
<1>6. x \in s /\ P(s, x)
  BY <1>1, <1>3, AnyIsIn, TotalEquation
<1>7. x # z
  BY <1>3, <1>6
<1> HIDE DEF x
<1>8. P(s \ {x}, z) /\ P(s \ {z}, x)
  <2>1. z \in s \ {x} /\ x \in s \ {z}
    BY <1>6, <1>7
  <2> HIDE DEF P
  <2>. QED
    BY <1>5, <1>6, <1>3, <2>1
<1>9. (s \ {x}) \ {z} = (s \ {z}) \ {x}
  OBVIOUS
<1> DEFINE r == (s \ {z}) \ {x}
<1>10. r \in SUBSET S /\ f[x] \in Nat /\ f[z] \in Nat
  BY <1>2, <1>3, <1>6
<1>11. Total(f, r) \in Nat
  BY <1>1, <1>10
<1>12. /\ Total(f, s) = f[x] + (f[z] + Total(f, r))
       /\ Total(f, s \ {z}) = f[x] + Total(f, r)
  BY <1>6, <1>8, <1>9
<1>13. P(s, z)
  BY <1>10, <1>11, <1>12
<1>. QED
  BY <1>3, <1>13

(* A sum is not larger than another that covers it term by term.           *)
LEMMA TotalIsCovered ==
  ASSUME NEW S, IsFiniteSet(S), NEW T, IsFiniteSet(T), NEW f, NEW e, NEW h,
         \A x \in S : f[x] \in Nat, \A y \in T : e[y] \in Nat,
         \A x \in S : h[x] \in T /\ f[x] = e[h[x]],
         \A x, y \in S : h[x] = h[y] => x = y
  PROVE  Total(f, S) <= Total(e, T)
<1> DEFINE Image(s) == {h[x] : x \in s}
           B == {s \in SUBSET S : \E t \in SUBSET T : /\ Image(s) \subseteq t
                                                      /\ ~ (Total(f, s) <= Total(e, t))}
<1> SUFFICES ASSUME B # {} PROVE FALSE
  OBVIOUS
<1>1. /\ \A s \in SUBSET S : IsFiniteSet(s) /\ Total(f, s) \in Nat
      /\ \A t \in SUBSET T : IsFiniteSet(t) /\ Total(e, t) \in Nat
  BY FS_Subset, TotalIsNat
<1>2. PICK s \in B : \A t \in B : Cardinality(s) <= Cardinality(t)
  <2>1. \A s \in B : IsFiniteSet(s)
    BY <1>1
  <2> HIDE DEF B
  <2>. QED
    BY <2>1, SmallestSet
<1>3. PICK t \in SUBSET T : Image(s) \subseteq t /\ ~ (Total(f, s) <= Total(e, t))
  BY <1>2
<1>4. s # {}
  <2>1. SUFFICES ASSUME s = {} PROVE FALSE
    OBVIOUS
  <2>2. Total(f, s) = 0 /\ Total(e, t) \in Nat
    BY <1>1, <2>1, TotalEquation, FS_EmptySet
  <2>. QED
    BY <1>3, <2>2
<1>5. PICK x \in s : TRUE
  BY <1>4
<1>6. /\ s \ {x} \in SUBSET S /\ t \ {h[x]} \in SUBSET T
      /\ ~ (Cardinality(s) <= Cardinality(s \ {x}))
  <2>1. IsFiniteSet(s) /\ s \subseteq S
    BY <1>1
  <2>. QED
    BY <2>1, SmallerWithout
<1>7. Total(f, s \ {x}) <= Total(e, t \ {h[x]})
  <2>1. s \ {x} \notin B
    BY <1>2, <1>6
  <2>2. Image(s \ {x}) \subseteq t \ {h[x]}
    BY <1>2, <1>3, <1>5
  <2>. QED
    BY <1>6, <2>1, <2>2
<1>8. h[x] \in t /\ x \in S
  BY <1>2, <1>3, <1>5
<1>9. Total(f, s) = f[x] + Total(f, s \ {x})
  BY <1>1, <1>2, <1>5, TotalWithout
<1>10. Total(e, t) = e[h[x]] + Total(e, t \ {h[x]})
  BY <1>1, <1>3, <1>8, TotalWithout
<1>11. f[x] = e[h[x]] /\ f[x] \in Nat
  BY <1>8
<1>12. Total(f, s \ {x}) \in Nat /\ Total(e, t \ {h[x]}) \in Nat
  BY <1>1, <1>6
<1>. QED
  BY <1>3, <1>7, <1>9, <1>10, <1>11, <1>12

LEMMA OneSumOfASet ==
  ASSUME NEW S, NEW f, NEW g, NEW h, IsFiniteSet(S),
         IsFold(g, SUBSET S, f), IsFold(h, SUBSET S, f)
  PROVE  g[S] = h[S]
  BY FoldIsUnique

(* The hours of the rows of a day, and of the bookings of a day.           *)
LEMMA HoursOnIsTotal ==
  ASSUME NEW rs, NEW d, NEW B, B = {i \in DOMAIN rs : rs[i].date = d}, IsFiniteSet(B),
         NEW f, \A i \in B : f[i] = rs[i].hours
  PROVE  HoursOn(rs, d) = Total(f, B)
<1> DEFINE IsIt(g) == g = [s \in SUBSET B |-> IF s = {} THEN 0
                                              ELSE rs[AnyOf(s)].hours + g[s \ {AnyOf(s)}]]
           G == CHOOSE g : IsIt(g)
           H == CHOOSE g : IsFold(g, SUBSET B, f)
<1>1. HoursOn(rs, d) = G[B]
  BY DEF HoursOn, MapThenSumSet, MapThenFoldSet, AnyOf
<1>2. \A s \in SUBSET B : s # {} => rs[AnyOf(s)].hours = f[AnyOf(s)]
  BY DEF AnyOf
<1>3. \A g : IsIt(g) <=> IsFold(g, SUBSET B, f)
  BY <1>2 DEF IsFold
<1>4. IsFold(H, SUBSET B, f)
  BY FoldExists
<1>5. IsFold(G, SUBSET B, f)
  <2> HIDE DEF H, IsIt
  <2>. QED
    BY <1>3, <1>4
<1> HIDE DEF G, H, IsIt
<1>6. G[B] = H[B]
  BY <1>4, <1>5, OneSumOfASet, Z3
<1>. QED
  BY <1>1, <1>6, TotalIsFold DEF H

LEMMA HoursBookedIsTotal ==
  ASSUME NEW a, NEW d, NEW A, A = {p \in booked : p.by = a /\ p.payload.day = d},
         IsFiniteSet(A), NEW f, \A p \in A : f[p] = p.payload.measure
  PROVE  HoursBooked(a, d) = Total(f, A)
<1> DEFINE IsIt(g) == g = [s \in SUBSET A |-> IF s = {} THEN 0
                                              ELSE AnyOf(s).payload.measure + g[s \ {AnyOf(s)}]]
           G == CHOOSE g : IsIt(g)
           H == CHOOSE g : IsFold(g, SUBSET A, f)
<1>1. HoursBooked(a, d) = G[A]
  BY DEF HoursBooked, MapThenSumSet, MapThenFoldSet, AnyOf
<1>2. \A s \in SUBSET A : s # {} => AnyOf(s).payload.measure = f[AnyOf(s)]
  BY DEF AnyOf
<1>3. \A g : IsIt(g) <=> IsFold(g, SUBSET A, f)
  BY <1>2 DEF IsFold
<1>4. IsFold(H, SUBSET A, f)
  BY FoldExists
<1>5. IsFold(G, SUBSET A, f)
  <2> HIDE DEF H, IsIt
  <2>. QED
    BY <1>3, <1>4
<1> HIDE DEF G, H, IsIt
<1>6. G[A] = H[A]
  BY <1>4, <1>5, OneSumOfASet, Z3
<1>. QED
  BY <1>1, <1>6, TotalIsFold DEF H

-----------------------------------------------------------------------------
(* A row is posted at most once, with the hours that were sent, on the day *)
(* it names or on whatever day it is; and the rows that were handed on     *)
(* passed the limit.                                                       *)
LimitInv ==
  /\ \A a \in Attempts : rows[a] # << >> => RowsOk(EntriesOf(body[a]))
  /\ \A p \in booked :
       /\ p.row \in DOMAIN rows[p.by]
       /\ result[p.by][p.row] # "none"
       /\ p.payload.measure = rows[p.by][p.row].hours
       /\ rows[p.by][p.row].date \in {None, p.payload.day}
  /\ \A p, q \in booked : p.by = q.by /\ p.row = q.row => p = q

LEMMA RowKeepsLimit ==
  ASSUME IInv, SInv, LimitInv, NEW a \in Attempts, NEW i \in DOMAIN rows[a], Row(a, i)
  PROVE  LimitInv'
<1> DEFINE r == rows[a][i]
<1>1. result[a][i] = "none" /\ rows[a] # << >>
  BY DEF Row, RowFromStore, RowNotMapped, RowPosted, RowUnclaimed, IsOpen
<1>2. EntryKey(r) \in Keys \cup {None}
  BY <1>1 DEF IInv, RowsInv, AreHandedOn
<1>3. PICK res, new : RowDoes(a, i, res, new)
  BY <1>2, RowCases
<1>4. /\ res # "none" /\ booked' = booked \cup new
      /\ \A p \in new : p.by = a /\ p.row = i /\ p.payload = Payload(r, today) /\ new = {p}
      /\ result' = [result EXCEPT ![a][i] = res] /\ UNCHANGED <<body, rows>>
  BY <1>3 DEF RowDoes, Settle
<1>5. /\ result'[a][i] = res
      /\ \A c \in Attempts : \A j \in DOMAIN rows[c] : result[c][j] # "none" => result'[c][j] # "none"
  BY <1>4 DEF IInv, BaseInv
<1>6. \A p \in booked : p.by # a \/ p.row # i
  BY <1>1 DEF LimitInv
<1>7. \A p \in new : p.payload.measure = r.hours /\ r.date \in {None, p.payload.day}
  <2>1. Payload(r, today).measure = r.hours /\ Payload(r, today).day = DayOf(r, today)
    BY DEF Payload
  <2> HIDE DEF r
  <2>. QED
    BY <1>4, <2>1 DEF DayOf
<1> HIDE DEF r
<1>8. ASSUME NEW p \in booked'
      PROVE  /\ p.row \in DOMAIN rows[p.by]
             /\ result'[p.by][p.row] # "none"
             /\ p.payload.measure = rows[p.by][p.row].hours
             /\ rows[p.by][p.row].date \in {None, p.payload.day}
  <2>1. CASE p \in booked
    BY <1>5, <2>1 DEF LimitInv, IInv, BookedInv
  <2>2. CASE p \in new
    BY <1>4, <1>5, <1>7, <2>2 DEF r
  <2>. QED
    BY <1>4, <2>1, <2>2
<1>9. ASSUME NEW p \in booked', NEW q \in booked', p.by = q.by, p.row = q.row
      PROVE  p = q
  BY <1>4, <1>6, <1>9 DEF LimitInv
<1>. QED
  BY <1>4, <1>8, <1>9 DEF LimitInv

LEMMA DispatchKeepsLimit ==
  ASSUME IInv, SInv, LimitInv, NEW a \in Attempts, Dispatch(a)
  PROVE  LimitInv'
<1>1. /\ pc[a] = "looked" /\ rows[a] = << >> /\ RowsOk(EntriesOf(body[a]))
      /\ UNCHANGED <<body, booked>>
  <2>1. pc[a] = "looked" /\ UNCHANGED <<body, booked>>
    BY DEF Dispatch
  <2>2. rows[a] = << >> /\ body[a] \in Bodies
    BY <2>1 DEF IInv, BaseInv
  <2>3. Refusal(body[a]) = 0
    BY <2>1 DEF SInv, AnswerInv
  <2>4. RowsOk(EntriesOf(body[a]))
    BY <2>3 DEF Refusal
  <2>. QED
    BY <2>1, <2>2, <2>4
<1>2. \A c \in Attempts : c # a => rows'[c] = rows[c] /\ result'[c] = result[c]
  BY DEF Dispatch, IInv, BaseInv
<1>3. \A p \in booked : p.by \in Attempts /\ p.by # a
  BY <1>1 DEF IInv, BookedInv
<1>. QED
  BY <1>1, <1>2, <1>3 DEF LimitInv

LEMMA LimitInvariant == Spec => []LimitInv
<1>1. Init => LimitInv
  BY DEF Init, LimitInv
<1>2. ASSUME IInv, SInv, LimitInv, [Next]_vars
      PROVE  LimitInv'
  <2>1. ASSUME NEW a \in Attempts, Send(a)
        PROVE  LimitInv'
    <3>1. PICK b \in Bodies : Receive(a, b)
      BY <2>1, RouteAssumption DEF Send
    <3>2. /\ pc[a] = "idle" /\ body' = [body EXCEPT ![a] = b] /\ UNCHANGED <<rows, result, booked>>
      BY <3>1 DEF Receive
    <3>3. rows[a] = << >>
      BY <1>2, <3>2 DEF IInv, BaseInv
    <3>. QED
      BY <1>2, <3>2, <3>3 DEF LimitInv, IInv, BaseInv
  <2>3. ASSUME NEW a \in Attempts, StoreMissing(a)
        PROVE  LimitInv'
    <3>1. /\ UNCHANGED <<body, rows, booked>>
          /\ \A c \in Attempts : \A i \in DOMAIN rows[c] :
               result[c][i] # "none" => result'[c][i] # "none"
      BY <1>2, <2>3, StoreMissingFacts
    <3>. QED
      BY <1>2, <3>1 DEF LimitInv, IInv, BookedInv
  <2>2. CASE UNCHANGED <<body, rows, result, booked>>
    BY <1>2, <2>2 DEF LimitInv
  <2>. QED
    BY <1>2, <2>1, <2>2, <2>3, RowKeepsLimit, DispatchKeepsLimit
       DEF Next, vars, Lookup, LookupFails, RefuseAssignment, Respond, Refresh, Midnight
<1>3. IInv /\ SInv /\ LimitInv /\ [Next]_vars => LimitInv'
  BY <1>2
<1>. QED
  BY <1>1, <1>3, Invariant, AnswersInvariant, PTL DEF Spec

(* The bookings of a day are covered by the rows of one date, if not by    *)
(* rows of that date and rows without one.                                 *)
LEMMA BookingsAreCovered ==
  ASSUME IInv, LimitInv, NEW a \in Attempts, NEW d,
         ~ ({None, d} \subseteq {rows[a][i].date : i \in DOMAIN rows[a]})
  PROVE  ~ (HoursBooked(a, d) > MaxDay)
<1> DEFINE A == {p \in booked : p.by = a /\ p.payload.day = d}
           es == EntriesOf(body[a])
<1>1. CASE A = {}
  <2> DEFINE f == [p \in A |-> 0]
  <2>1. HoursBooked(a, d) = Total(f, {})
    BY <1>1, HoursBookedIsTotal, FS_EmptySet
  <2>2. Total(f, {}) = 0
    <3> HIDE DEF f
    <3>. QED
      BY TotalEquation, FS_EmptySet
  <2>. QED
    BY <2>1, <2>2, RulesAssumption
<1>2. CASE A # {}
  <2>1. PICK q \in A : TRUE
    BY <1>2
  <2> DEFINE e == rows[a][q.row].date
             B == {i \in DOMAIN es : es[i].date = e}
             f == [p \in A |-> p.payload.measure]
             g == [i \in B |-> es[i].hours]
             h == [p \in A |-> p.row]
  <2>2. \A p \in A : /\ p.row \in DOMAIN rows[a]
                     /\ p.payload.measure = rows[a][p.row].hours
                     /\ rows[a][p.row].date \in {None, d}
    BY DEF LimitInv
  <2>3. rows[a] # << >>
    BY <2>1, <2>2
  <2>4. rows[a] = RowsFor(body[a], fullName[a], list[a]) /\ body[a] \in Bodies /\ RowsOk(es)
    BY <2>3 DEF IInv, RowsInv, AreHandedOn, LimitInv
  <2>5. /\ DOMAIN rows[a] = DOMAIN es
        /\ \A i \in DOMAIN es : rows[a][i].hours = es[i].hours /\ rows[a][i].date = es[i].date
        /\ IsFiniteSet(DOMAIN es)
    <3>1. \E n \in Nat : DOMAIN es = 1..n
      BY <2>4, RowsAreAsSent
    <3>2. IsFiniteSet(DOMAIN es)
      BY <3>1, FS_Interval
    <3>. QED
      BY <2>4, <3>2, RowsAreAsSent
  <2>6. \A p \in A : rows[a][p.row].date = e
    BY <2>1, <2>2
  <2>7. \A i \in DOMAIN es : es[i].hours \in Nat
    BY <2>4, RulesAssumption DEF RowsOk, WellFormed, HoursOk
  <2>8. HoursOn(es, e) <= MaxDay
    <3>1. q.row \in DOMAIN es /\ es[q.row].date = e
      BY <2>1, <2>2, <2>5
    <3> HIDE DEF e, es
    <3>. QED
      BY <2>4, <3>1 DEF RowsOk, WithinDays
  <2>9. IsFiniteSet(B)
    BY <2>5, FS_Subset
  <2>10. /\ \A p \in A : h[p] \in B /\ f[p] = g[h[p]]
         /\ \A p, r \in A : h[p] = h[r] => p = r
    <3>1. \A p \in A : p.row \in B /\ p.payload.measure = es[p.row].hours
      BY <2>2, <2>5, <2>6
    <3>2. \A p, r \in A : p.row = r.row => p = r
      BY DEF LimitInv
    <3> HIDE DEF A, B, es
    <3>. QED
      BY <3>1, <3>2
  <2>11. IsFiniteSet(A)
    <3>1. h \in Injection(A, B)
      <4> HIDE DEF A, B
      <4>. QED
        BY <2>10 DEF Injection, IsInjective
    <3> HIDE DEF A, B, h
    <3>. QED
      BY <2>9, <3>1, FS_Injection
  <2>12. HoursBooked(a, d) = Total(f, A) /\ HoursOn(es, e) = Total(g, B)
    <3>1. (\A p \in A : f[p] = p.payload.measure) /\ (\A i \in B : g[i] = es[i].hours)
      OBVIOUS
    <3> HIDE DEF f, g, es, e
    <3>. QED
      BY <2>9, <2>11, <3>1, HoursOnIsTotal, HoursBookedIsTotal
  <2>13. /\ \A p \in A : f[p] \in Nat
         /\ \A i \in B : g[i] \in Nat
    BY <2>2, <2>5, <2>7
  <2> HIDE DEF A, B, f, g, h, es, e
  <2>14. Total(f, A) <= Total(g, B)
    BY <2>9, <2>10, <2>11, <2>13, TotalIsCovered
  <2>15. Total(f, A) \in Nat /\ Total(g, B) \in Nat
    BY <2>9, <2>11, <2>13, TotalIsNat
  <2>. QED
    BY <2>8, <2>12, <2>14, <2>15, RulesAssumption
<1>. QED
  BY <1>1, <1>2

(* timecards.py: whatever becomes of its rows, one request books no more   *)
(* than the daily limit on a day, unless it mixes rows of that date with   *)
(* rows without one.                                                       *)
THEOREM DaysAreLimited == Spec => []DaysStayWithinLimit
<1>1. IInv /\ LimitInv => DaysStayWithinLimit
  BY BookingsAreCovered DEF DaysStayWithinLimit
<1>. QED
  BY <1>1, Invariant, LimitInvariant, PTL

-----------------------------------------------------------------------------
(* The results after which a key is still free to be posted.               *)
MayPostAgain == {"unavailable", "store_unavailable"}

KeyOfBooking(p)    == EntryKey(rows[p.by][p.row])
ResultOfBooking(p) == result[p.by][p.row]

(* A booking that was answered for good has left a record of its key.      *)
DoublesInv ==
  \A p \in booked :
    KeyOfBooking(p) # None /\ ResultOfBooking(p) \notin MayPostAgain =>
      KeyOfBooking(p) \in Keys /\ records[KeyOfBooking(p)] # NoRecord

DoublesAreOpen ==
  \A p, q \in booked :
    p # q /\ KeyOfBooking(p) = KeyOfBooking(q) /\ KeyOfBooking(p) # None =>
      {ResultOfBooking(p), ResultOfBooking(q)} \cap MayPostAgain # {}

LEMMA MemoiseKeeps ==
  ASSUME DOMAIN records = Keys, NEW r, NEW o, o # "none",
         EntryKey(r) \in Keys \cup {None}, records' = records \/ Memoise(r, o)
  PROVE  /\ \A k \in Keys : records[k] # NoRecord => records'[k] # NoRecord
         /\ Memoise(r, o) /\ EntryKey(r) # None /\ o # "unavailable"
              => records'[EntryKey(r)] # NoRecord
BY DEF Memoise, NoRecord

LEMMA RowKeepsDoubles ==
  ASSUME IInv, LimitInv, DoublesInv, DoublesAreOpen, NEW a \in Attempts, NEW i \in DOMAIN rows[a],
         Row(a, i)
  PROVE  DoublesInv' /\ DoublesAreOpen'
<1> DEFINE r == rows[a][i]
           k == EntryKey(r)
<1>1. result[a][i] = "none" /\ rows[a] # << >>
  BY DEF Row, RowFromStore, RowNotMapped, RowPosted, RowUnclaimed, IsOpen
<1>2. k \in Keys \cup {None} /\ DOMAIN records = Keys /\ None \notin Keys
  BY <1>1, RouteAssumption DEF IInv, RowsInv, BaseInv, AreHandedOn
<1>3. \A p \in booked : /\ p.by \in Attempts /\ p.row \in DOMAIN rows[p.by]
                        /\ p.by # a \/ p.row # i
  BY <1>1 DEF LimitInv, IInv, BookedInv
<1>4. PICK res : Settle(a, i, res)
  BY DEF Row, RowFromStore, RowNotMapped, RowPosted, RowUnclaimed
<1>5. UNCHANGED rows /\ result' = [result EXCEPT ![a][i] = res]
  BY <1>4 DEF Settle
<1>6. /\ result'[a][i] = res
      /\ \A p \in booked : KeyOfBooking(p)' = KeyOfBooking(p)
                           /\ ResultOfBooking(p)' = ResultOfBooking(p)
  BY <1>3, <1>5 DEF IInv, BaseInv, KeyOfBooking, ResultOfBooking
<1>7. CASE ~ \E o \in Outcomes, applied, stored \in BOOLEAN : RowPosted(a, i, o, applied, stored)
  <2>1. UNCHANGED booked /\ (records' = records \/ Memoise(r, "rejected"))
    BY <1>7 DEF Row, RowFromStore, RowNotMapped, RowUnclaimed
  <2>2. \A j \in Keys : records[j] # NoRecord => records'[j] # NoRecord
    BY <1>2, <2>1, MemoiseKeeps
  <2> HIDE DEF k, r
  <2>3. DoublesInv'
    BY <1>6, <2>1, <2>2 DEF DoublesInv
  <2>4. DoublesAreOpen'
    BY <1>6, <2>1 DEF DoublesAreOpen
  <2>. QED
    BY <2>3, <2>4
<1>8. ASSUME NEW o \in Outcomes, NEW applied \in BOOLEAN, NEW stored \in BOOLEAN,
             RowPosted(a, i, o, applied, stored)
      PROVE  DoublesInv' /\ DoublesAreOpen'
  <2> DEFINE n == [by |-> a, row |-> i, payload |-> Payload(r, today), applied |-> applied]
  <2>1. /\ IsGranted(r) /\ booked' = booked \cup {n}
        /\ IF stored THEN Memoise(r, o) ELSE records' = records
        /\ Settle(a, i, IF stored THEN o ELSE "store_unavailable")
    BY <1>8 DEF RowPosted
  <2>2. result'[a][i] = IF stored THEN o ELSE "store_unavailable"
    BY <2>1 DEF Settle, IInv, BaseInv
  <2>3. \A p : p = n => KeyOfBooking(p)' = k /\ ResultOfBooking(p)' = result'[a][i]
    BY <1>5 DEF KeyOfBooking, ResultOfBooking
  <2>4. \A j \in Keys : records[j] # NoRecord => records'[j] # NoRecord
    BY <1>2, <2>1, MemoiseKeeps DEF Outcomes
  <2>5. k # None => records[k] = NoRecord
    BY <2>1 DEF IsGranted
  <2>6. k # None /\ result'[a][i] \notin MayPostAgain => k \in Keys /\ records'[k] # NoRecord
    BY <1>2, <2>1, <2>2, MemoiseKeeps DEF Outcomes, MayPostAgain
  <2> HIDE DEF k, r, n
  <2>7. DoublesInv'
    <3> SUFFICES ASSUME NEW p \in booked', KeyOfBooking(p)' # None,
                        ResultOfBooking(p)' \notin MayPostAgain
                 PROVE  KeyOfBooking(p)' \in Keys /\ records'[KeyOfBooking(p)'] # NoRecord
      BY DEF DoublesInv
    <3>1. CASE p \in booked
      BY <1>6, <2>4, <3>1 DEF DoublesInv
    <3>2. CASE p = n
      BY <2>3, <2>6, <3>2
    <3>. QED
      BY <2>1, <3>1, <3>2
  <2>8. \A p \in booked : KeyOfBooking(p) = k /\ k # None => ResultOfBooking(p) \in MayPostAgain
    BY <2>5 DEF DoublesInv
  <2>9. DoublesAreOpen'
    <3> SUFFICES ASSUME NEW p \in booked', NEW q \in booked', p # q,
                        KeyOfBooking(p)' = KeyOfBooking(q)', KeyOfBooking(p)' # None
                 PROVE  ResultOfBooking(p)' \in MayPostAgain \/ ResultOfBooking(q)' \in MayPostAgain
      BY DEF DoublesAreOpen, MayPostAgain
    <3>1. CASE p \in booked /\ q \in booked
      BY <1>6, <3>1 DEF DoublesAreOpen
    <3>2. CASE p \in booked /\ q = n
      BY <1>6, <2>3, <2>8, <3>2
    <3>3. CASE q \in booked /\ p = n
      BY <1>6, <2>3, <2>8, <3>3
    <3>. QED
      BY <2>1, <3>1, <3>2, <3>3
  <2>. QED
    BY <2>7, <2>9
<1>. QED
  BY <1>7, <1>8

LEMMA DoublesInvariant == Spec => [](DoublesInv /\ DoublesAreOpen)
<1>1. Init => DoublesInv /\ DoublesAreOpen
  BY DEF Init, DoublesInv, DoublesAreOpen
<1>2. ASSUME IInv, SInv, LimitInv, DoublesInv, DoublesAreOpen, [Next]_vars
      PROVE  DoublesInv' /\ DoublesAreOpen'
  <2>1. CASE UNCHANGED <<rows, result, records, booked>>
    <3>1. \A p : KeyOfBooking(p)' = KeyOfBooking(p) /\ ResultOfBooking(p)' = ResultOfBooking(p)
      BY <2>1 DEF KeyOfBooking, ResultOfBooking
    <3>. QED
      BY <1>2, <2>1, <3>1 DEF DoublesInv, DoublesAreOpen
  <2>2. ASSUME NEW a \in Attempts, Dispatch(a)
        PROVE  DoublesInv' /\ DoublesAreOpen'
    <3>1. /\ UNCHANGED <<records, booked>>
          /\ \A c \in Attempts : c # a => rows'[c] = rows[c] /\ result'[c] = result[c]
      BY <1>2, <2>2 DEF Dispatch, IInv, BaseInv
    <3>2. rows[a] = << >>
      BY <1>2, <2>2 DEF Dispatch, IInv, BaseInv
    <3>3. \A p \in booked : KeyOfBooking(p)' = KeyOfBooking(p)
                            /\ ResultOfBooking(p)' = ResultOfBooking(p)
      BY <1>2, <3>1, <3>2 DEF KeyOfBooking, ResultOfBooking, IInv, BookedInv
    <3>. QED
      BY <1>2, <3>1, <3>3 DEF DoublesInv, DoublesAreOpen
  <2>3. ASSUME NEW a \in Attempts, StoreMissing(a)
        PROVE  DoublesInv' /\ DoublesAreOpen'
    <3>1. UNCHANGED <<rows, records, booked>>
      BY <1>2, <2>3, StoreMissingFacts
    <3>2. \A p \in booked : result'[p.by] = result[p.by]
      <4>1. \A p \in booked : p.by \in Attempts /\ p.by # a
        BY <1>2, <2>3, StoreMissingFacts DEF IInv, BookedInv, LimitInv
      <4>. QED
        BY <1>2, <2>3, <4>1, StoreMissingFacts
    <3>3. \A p \in booked : KeyOfBooking(p)' = KeyOfBooking(p)
                            /\ ResultOfBooking(p)' = ResultOfBooking(p)
      BY <3>1, <3>2 DEF KeyOfBooking, ResultOfBooking
    <3>. QED
      BY <1>2, <3>1, <3>3 DEF DoublesInv, DoublesAreOpen
  <2>. QED
    BY <1>2, <2>1, <2>2, <2>3, RowKeepsDoubles
       DEF Next, vars, Send, Receive, Lookup, LookupFails, RefuseAssignment, Respond, Refresh,
           Midnight
<1>3. IInv /\ SInv /\ LimitInv /\ DoublesInv /\ DoublesAreOpen /\ [Next]_vars
        => DoublesInv' /\ DoublesAreOpen'
  BY <1>2
<1>. QED
  BY <1>1, <1>3, Invariant, AnswersInvariant, LimitInvariant, PTL DEF Spec

(* timecards.py over idempotency.py: of the rows that were sent to Oracle  *)
(* under one key, in one request or several, at most one was answered for  *)
(* good. Every other one left its row to be sent again.                    *)
THEOREM DoublesStayOpen == Spec => []DoublesAreOpen
BY DoublesInvariant, PTL
=============================================================================
