--------------------------- MODULE MCTimecardRoute ---------------------------
(* Small instances of TimecardRoute for TLC: a day of eight units that     *)
(* starts at three, rows that vary the fields which are compared with each *)
(* other, and four states of the catalogue.                                *)
EXTENDS TimecardRoute, TLC

CONSTANTS me, other, k1, k2, p1, p2, n1, n2, n3, A, B, t1, t2, t3, d1, d2, reg, odd, m1, m2

Task(id, number, details) == [id |-> id, number |-> number, details |-> details]
Project(p, n, name, who, tasks) ==
  [pid |-> p, no |-> n, name |-> name, person |-> who, tasks |-> tasks]

Mine(ps) == [loaded |-> TRUE, index |-> [w \in {me} |-> ps]]

(* Two projects of one name; the first one renamed, with other tasks; an   *)
(* entry that holds somebody else's project.                               *)
First   == Mine(<<Project(p1, n1, A, me, <<Task(t1, None, d1), Task(None, t2, d2)>>),
                  Project(p2, n2, A, None, <<Task(None, None, d1)>>)>>)
Renamed == Mine(<<Project(p1, n1, B, me, <<Task(t3, None, d1)>>)>>)
Foreign == Mine(<<Project(p1, n1, A, other, <<Task(t1, None, d1)>>)>>)
Unloaded == [First EXCEPT !.loaded = FALSE]
MCCatalogues == {First, Renamed, Foreign, Unloaded}

Base == [id |-> None, other |-> None, third |-> None, alias |-> None,
         otherAlias |-> None, who |-> other, called |-> None, no |-> n1,
         name |-> None, pid |-> None, order |-> None, task |-> None, details |-> d1,
         hours |-> 2, date |-> 0, start |-> None, stop |-> None, type |-> None]

Alone(e) == [form |-> "entries", rows |-> <<e>>, id |-> None, header |-> None]
Rows(es) == [Alone(Base) EXCEPT !.rows = es]

(* The work a row names.                                                   *)
OfWork ==
  {Alone([Base EXCEPT !.no = n, !.name = m, !.order = o, !.task = t, !.details = d,
                      !.pid = p]) :
     n \in {None, n1, n2, n3}, m \in {None, A, B}, o \in {None, n2}, t \in {None, t1, t2},
     d \in {None, d2}, p \in {None, p2}}

(* When it was done, and as what.                                          *)
OfTime ==
  {Alone([Base EXCEPT !.hours = h, !.date = d, !.start = s, !.stop = e]) :
     h \in {0, 2, 5, 8, 9, Bad}, d \in {None, 1, Bad}, s \in {None, 0, 6, Bad}, e \in {None, 2, 7}}
  \cup {Alone([Base EXCEPT !.type = x]) : x \in {reg, odd, Bad}}

(* The keys it and its request carry.                                      *)
OfKeys ==
  {[Alone([Base EXCEPT !.id = i, !.other = j, !.alias = a]) EXCEPT !.id = r, !.header = h] :
     i \in {None, k1, Bad}, j \in {None, k1, k2}, a \in {None, k1}, r \in {None, k1, k2},
     h \in {None, k1}}
  \cup {[Alone([Base EXCEPT !.id = i, !.other = j, !.third = t, !.otherAlias = a])
           EXCEPT !.header = h] :
          i, j, h \in {None, k1}, t, a \in {None, k1, k2, Bad}}

(* Several rows: their keys, their days, too many of them, none.           *)
Keyed2(f, g) == Rows(<<[Base EXCEPT !.id = f, !.no = n1], [Base EXCEPT !.id = g, !.no = n2]>>)
Dated2(f, g) == Rows(<<[Base EXCEPT !.hours = 4, !.date = f],
                       [Base EXCEPT !.hours = 4, !.date = g, !.start = 0],
                       [Base EXCEPT !.hours = 1, !.date = f, !.start = 6]>>)
Hidden ==
  {Rows(<<[Base EXCEPT !.alias = k1], [Base EXCEPT !.id = k1, !.task = t1]>>),
   Rows(<<[Base EXCEPT !.otherAlias = k1], [Base EXCEPT !.otherAlias = k1, !.task = t1]>>),
   Rows(<<[Base EXCEPT !.otherAlias = k1], [Base EXCEPT !.alias = k2, !.task = t1]>>)}
OfMany ==
  {Keyed2(f, g) : f, g \in {None, k1, k2}}
  \cup {[Keyed2(k1, None) EXCEPT !.id = k1]}
  \cup Hidden
  \cup {[b EXCEPT !.form = "message"] : b \in Hidden \cup {Alone(Base)}}
  \cup {Dated2(f, g) : f, g \in {None, 0, 1}}
  \cup {Rows(<< >>), Rows(<<Base, Base, Base, Base>>), [Rows(<< >>) EXCEPT !.form = "malformed"]}

MCKeys == {k1, k2}
MCNames == {m1, m2}

(* One keyed row, dated or not, keyed by itself or by its request; two rows. *)
MCResent ==
  {Alone([Base EXCEPT !.id = k1, !.date = d]) : d \in {None, 0}}
  \cup {[Alone(Base) EXCEPT !.id = k1]}
  \cup {Keyed2(k1, k2)}
MCBodies == OfWork \cup OfTime \cup OfKeys \cup OfMany \cup MCResent

Symmetry == Permutations(Attempts) \cup Permutations(Names)
=============================================================================
