---------------------------- MODULE TimecardRules ----------------------------
(***************************************************************************)
(* The rules a timecard row meets between the browser and Oracle:          *)
(* backend/services/timecard_entries.py, the assignments it is held        *)
(* against (fusion_catalogue.py) and the payload of map_entry_to_otl.      *)
(*                                                                         *)
(* A row is a record. Times and hours count quarter hours, Day of them in  *)
(* a day; a field holds None when it is absent and Bad when its value does *)
(* not parse (a word, half a quarter hour, 25:00, 2025-02-30, a padded     *)
(* key). Snake-case aliases of the plain fields are folded into them; only *)
(* those of the keys, request_id (alias) and idempotency_key (otherAlias), *)
(* are kept apart, because not every reader folds them.                    *)
(***************************************************************************)
EXTENDS Integers, FiniteSets, FiniteSetsExt

CONSTANTS
  None, Bad,
  Day,           \* quarter hours in a day
  DefaultStart,  \* DEFAULT_START_HOUR
  MaxEntry,      \* MAX_TIMECARD_HOURS_PER_ENTRY
  MaxDay,        \* MAX_TIMECARD_HOURS_PER_DAY
  Types,         \* the expenditure types of the allowlist
  DefaultType    \* DEFAULT_EXPENDITURE_TYPE, which may be empty (None) and
                 \* which no rule holds against them

ASSUME RulesAssumption ==
  /\ None # Bad
  /\ Day \in Nat /\ DefaultStart \in 0..Day-1
  /\ MaxEntry \in Nat /\ MaxDay \in Nat
  /\ {None, Bad} \cap (Types \cup Nat) = {}

-----------------------------------------------------------------------------
(* What a row says of itself.                                              *)

(* its keys: requestId, idempotencyKey, Idempotency-Key and two aliases;   *)
(* whose it is, called by which name; work, and where its task is resolved; *)
(* when; as what.                                                          *)
EntryFields == {"id", "other", "third", "alias", "otherAlias", "who", "called",
                "no", "name", "pid", "order", "task", "details",
                "hours", "date", "start", "stop", "type"}

(* The keys must agree, with the request's own too where it counts for the *)
(* row (fallback).                                                         *)
KeysIn(e, fallback) == {e.id, e.other, e.third, fallback} \ {None}
KeyError(keys) == Bad \in keys \/ Cardinality(keys) > 1
KeyOf(keys) == IF keys = {} THEN None ELSE CHOOSE k \in keys : TRUE

(* An alias counts where its field is absent.                              *)
Normalized(e) == [e EXCEPT !.id    = IF @ = None THEN e.alias ELSE @,
                           !.other = IF @ = None THEN e.otherAlias ELSE @]

HoursOk(e) == e.hours \in 1..MaxEntry
TypeOk(e)  == e.type \in Types \cup {None}

(* A stop needs a start before it on the same day, and the hours between.  *)
TimesOk(e) ==
  /\ Bad \notin {e.start, e.stop}
  /\ e.stop # None => e.start # None
  /\ e.start # None /\ e.stop # None => /\ e.stop > e.start
                                        /\ e.stop - e.start = e.hours

(* _validate_timecard_entry without assignments.                           *)
WellFormed(e) ==
  /\ HoursOk(e)
  /\ ~KeyError(KeysIn(Normalized(e), None))
  /\ e.date # Bad
  /\ TimesOk(e)
  /\ TypeOk(e)

NamesItsWork(e) == {e.no, e.name, e.pid} # {None} /\ e.details # None

(* The hours of one day, by the date as it is written: rows without a date *)
(* are a day of their own.                                                 *)
HoursOn(rows, d) ==
  MapThenSumSet(LAMBDA i : rows[i].hours, {i \in DOMAIN rows : rows[i].date = d})

(* Mutation: the limit holds each row, not the rows of a day.              *)
BugLimitPerRow(rows) == \A i \in DOMAIN rows : rows[i].hours <= MaxDay

WithinDays(rows) ==
  \A i \in DOMAIN rows : HoursOn(rows, rows[i].date) <= MaxDay

-----------------------------------------------------------------------------
(* What the catalogue assigns to an employee.                              *)

(* The employee's entry of the person index, unless one of its projects    *)
(* belongs to somebody else, or to nobody while the id is not a number.    *)
ProjectsOf(index, who, numeric) ==
  LET ps == index[who] IN
    IF \A i \in DOMAIN ps : ps[i].person = who \/ (ps[i].person = None /\ numeric)
    THEN ps ELSE << >>

(* A task without an id goes by its number, without either by 0; the work  *)
(* order is made from the project number.                                  *)
TaskId(t) == IF t.id # None THEN t.id ELSE IF t.number # None THEN t.number ELSE 0

AsAssignment(p) ==
  [ pid |-> p.pid, no |-> p.no, name |-> p.name, order |-> p.no,
    tasks |-> [j \in DOMAIN p.tasks |-> [id |-> TaskId(p.tasks[j]),
                                         details |-> p.tasks[j].details]] ]

(* No assignments, rather than an error, while nothing is loaded.          *)
AssignmentsOf(cat, who, numeric) ==
  IF ~cat.loaded THEN << >>
  ELSE LET ps == ProjectsOf(cat.index, who, numeric)
       IN [i \in DOMAIN ps |-> AsAssignment(ps[i])]

-----------------------------------------------------------------------------
(* A row held against the assignments.                                     *)

(* The number decides; the name counts where there is no number.           *)
Matches(e, list) ==
  {i \in DOMAIN list : IF e.no # None THEN list[i].no = e.no
                       ELSE e.name # None /\ list[i].name = e.name}

FirstOf(s) == CHOOSE i \in s : \A j \in s : i <= j

IsUnambiguous(s, list) ==
  \A i, j \in s : /\ list[i].pid = list[j].pid
                  /\ list[i].no = list[j].no
                  /\ list[i].name = list[j].name
                  /\ list[i].order = list[j].order

(* _assigned_project found one, and what else the row says agrees with it. *)
HasProject(e, list) ==
  LET s == Matches(e, list) IN
    /\ s # {}
    /\ IsUnambiguous(s, list)
    /\ e.name # None => list[FirstOf(s)].name = e.name
    /\ e.order # None => list[FirstOf(s)].order = e.order

ProjectFor(e, list) == list[FirstOf(Matches(e, list))]

TaskIdsOf(p) == {p.tasks[j].id : j \in DOMAIN p.tasks}

(* Mutation: the task may be any assigned project's.                       *)
BugTaskOfAnyProject(e, list) ==
  /\ HasProject(e, list)
  /\ e.task # None => \E i \in DOMAIN list : e.task \in TaskIdsOf(list[i])

IsAssigned(e, list) ==
  /\ HasProject(e, list)
  /\ e.task # None => e.task \in TaskIdsOf(ProjectFor(e, list))

(* _validate_timecard_entries, without and with the assignments.           *)
RowsOk(rows) ==
  /\ \A i \in DOMAIN rows : WellFormed(rows[i]) /\ NamesItsWork(rows[i])
  /\ WithinDays(rows)

RowsAssigned(rows, list) == \A i \in DOMAIN rows : IsAssigned(rows[i], list)

(* _resolve_entry: the employee is the session's, by the display name it   *)
(* was opened with, the project the catalogue's, and a task without an id  *)
(* is looked up by its words.                                              *)
TasksNamed(p, details) == {j \in DOMAIN p.tasks : p.tasks[j].details = details}

TaskFor(e, p) ==
  IF e.task \notin {None, 0} THEN e.task
  ELSE LET s == TasksNamed(p, e.details)
       IN IF s = {} THEN e.task ELSE p.tasks[FirstOf(s)].id

Resolved(e, who, called, list) ==
  LET p == ProjectFor(e, list) IN
    [Normalized(e) EXCEPT !.who = who, !.called = called, !.pid = p.pid, !.no = p.no,
       !.name = p.name, !.order = p.order, !.task = TaskFor(e, p)]

-----------------------------------------------------------------------------
(* map_entry_to_otl: the payload Oracle gets, for the day of the server's  *)
(* clock where the row has no date.                                        *)
StartOf(r)  == IF r.start = None THEN DefaultStart ELSE r.start
StopOf(r)   == IF r.stop = None THEN StartOf(r) + r.hours ELSE r.stop
BookedAs(r) == IF r.type = None THEN DefaultType ELSE r.type

(* Mutation: the day is not checked when the stop is computed.             *)
BugRunsIntoTheNextDay(r) == WellFormed(r) /\ r.who # None

(* A stop at midnight belongs to the next day. A row is booked under no    *)
(* type where it has none and the default is empty.                        *)
IsMappable(r) ==
  /\ WellFormed(r) /\ r.who # None
  /\ r.stop = None => StopOf(r) < Day
  /\ r.pid # None /\ BookedAs(r) # None => BookedAs(r) \in Types

DayOf(r, today) == IF r.date = None THEN today ELSE r.date

Payload(r, today) ==
  [ who |-> r.who, day |-> DayOf(r, today), start |-> StartOf(r), stop |-> StopOf(r),
    measure |-> r.hours, pid |-> r.pid, type |-> BookedAs(r),
    task |-> IF r.task = 0 THEN None ELSE r.task ]
=============================================================================
