----------------------------- MODULE ReviewPanel -----------------------------
(***************************************************************************)
(* The review panel of frontend/src/features/timesheets/ReviewPanel.tsx:   *)
(* the rows an employee edits, submits, retries and resubmits, while       *)
(* answers of the server are lost and requests the browser has given up    *)
(* go on being served.                                                     *)
(*                                                                         *)
(* The server is what WriteOnce promises, which TimecardSubmission         *)
(* implements: a row of a request that arrives is one of its callers, and  *)
(* time, lapse and expiry are slots that are forgotten or granted again.   *)
(*                                                                         *)
(* Positions count from 1. Validation refuses entries without any effect   *)
(* on the state kept here; Contents stand for the entries' fields. The     *)
(* requestId of an entry is never rewritten, so it also names the entry.   *)
(***************************************************************************)
EXTENDS WriteOnce, Integers, FiniteSets, SequencesExt

CONSTANTS
  Contents,    \* what an entry says, apart from its requestId
  NoKey,       \* a caller that has not started
  NoCall,      \* the panel awaits nothing: busy is false
  MaxEntries   \* bound: rows on the panel

ASSUME PanelAssumption == NoKey \notin Keys /\ MaxEntries \in Nat \ {0}

VARIABLES
  entries,   \* draftEntries: requestId and contents of each row
  results,   \* result.results; the empty set is null
  pending,   \* newKeyPending: the positions that await a confirmation
  call,      \* the submitTimecard that is awaited
  used,      \* the keys createRequestId has drawn
  mounted,   \* mountedRef
  stage,     \* where each row stands on the server
  asked,     \* its key
  content,   \* its entry
  outcome,   \* what Oracle answered to its POST
  reply,     \* its row in the response
  created    \* history: the keys under which Oracle created a timecard

panelVars  == <<entries, results, pending, call, used, mounted>>
serverVars == <<slot, told, stage, asked, content, outcome, reply, created>>
vars       == <<panelVars, serverVars>>

Definitive == {"created", "rejected", "busy"}
Outcomes   == Definitive \cup {"unavailable"}
(* try_again: submission_in_progress, idempotency_claim_lost,              *)
(* idempotency_unavailable. conflict: request_id_conflict.                 *)
Replies    == Outcomes \cup {"try_again", "conflict"}

(* A result row, with its history: the entry and the contents it answers,  *)
(* and the key under which they were sent.                                 *)
Items == [ index : 1..MaxEntries, entry : Keys, content : Contents, key : Keys ]
Rows  == [ index : 1..MaxEntries, entry : Keys, content : Contents, key : Keys,
           reply : Replies ]

PanelTypeOK ==
  /\ slot \in [Keys -> Slot] /\ told \in [Callers -> Told]
  /\ entries \in Seq([key : Keys, content : Contents]) /\ Len(entries) <= MaxEntries
  /\ results \subseteq Rows
  /\ pending \subseteq DOMAIN entries
  /\ \/ call = NoCall
     \/ /\ call.kind \in {"submit", "retry", "resubmit"}
        /\ call.items \in Seq(Items)
        /\ call.rows = <<>> \/ call.rows \in [DOMAIN call.items -> Callers]
  /\ used \subseteq Keys
  /\ mounted \in BOOLEAN
  /\ stage   \in [Callers -> {"idle", "started", "posting", "settling", "done", "gone"}]
  /\ asked   \in [Callers -> Keys \cup {NoKey}]
  /\ content \in [Callers -> Contents \cup {NoKey}]
  /\ outcome \in [Callers -> Outcomes \cup {"none"}]
  /\ reply   \in [Callers -> Replies \cup {"none"}]
  /\ created \subseteq Keys

-----------------------------------------------------------------------------
Busy  == call # NoCall
Ready == mounted /\ ~Busy

RowAt(i)       == {r \in results : r.index = i}
IsConfirmed(i) == \E r \in RowAt(i) : r.reply = "created"

(* isRetryableRow: four codes, and the statuses 409, 429 and 5xx.          *)
IsRetryable(r) == r.reply \in {"try_again", "unavailable", "busy"}
Failed(r)      == r.reply # "created"
RetryableIndices == {r.index : r \in {x \in results : Failed(x) /\ IsRetryable(x)}}
StuckIndices     == {r.index : r \in {x \in results : Failed(x) /\ ~IsRetryable(x)}}

(* "Server Confirmed", "Submission Confirmed".                             *)
Confirmed == results # {} /\ \A r \in results : ~Failed(r)

(* The entries of the chat arrive without requestIds, or the form is       *)
(* blank; either way each row draws one.                                   *)
PanelInit ==
  /\ Init
  /\ \E n \in 1..MaxEntries : entries \in [1..n -> [key : Keys, content : Contents]]
  /\ \A i, j \in DOMAIN entries : entries[i].key = entries[j].key => i = j
  /\ used = {entries[i].key : i \in DOMAIN entries}
  /\ results = {} /\ pending = {} /\ call = NoCall
  /\ mounted = TRUE
  /\ stage   = [c \in Callers |-> "idle"]
  /\ asked   = [c \in Callers |-> NoKey]
  /\ content = [c \in Callers |-> NoKey]
  /\ outcome = [c \in Callers |-> "none"]
  /\ reply   = [c \in Callers |-> "none"]
  /\ created = {}

-----------------------------------------------------------------------------
(* entryLocked, and the buttons: nothing is edited while the panel is      *)
(* busy, and no row that the server confirmed.                             *)
Editable(i) == Ready /\ ~IsConfirmed(i)

updateEntry(i, text) ==
  /\ Editable(i)
  /\ entries' = [entries EXCEPT ![i].content = text]
  /\ UNCHANGED <<results, pending, call, used, mounted>>

(* newEntry() draws a key.                                                 *)
Draw(k) == k \notin used /\ used' = used \cup {k}

addEntry(k, text) ==
  /\ Ready /\ results = {}
  /\ Len(entries) < MaxEntries
  /\ Draw(k)
  /\ entries' = Append(entries, [key |-> k, content |-> text])
  /\ pending' = {}
  /\ UNCHANGED <<results, call, mounted>>

(* Mutation: the results keep their positions.                             *)
BugKeptPositions(i) == {r \in results : r.index # i}

(* The results of the rows behind the one that goes move up with them.     *)
Shifted(i) ==
  {[r EXCEPT !.index = IF @ > i THEN @ - 1 ELSE @] : r \in {x \in results : x.index # i}}

(* Mutation: a question about a new key stays open.                        *)
BugKeepsAsking == pending
NothingAsked == {}

removeEntry(i) ==
  /\ Editable(i)
  /\ Len(entries) > 1
  /\ entries' = RemoveAt(entries, i)
  /\ results' = Shifted(i)
  /\ pending' = NothingAsked
  /\ UNCHANGED <<call, used, mounted>>

(* The only row is not removed but cleared.                                *)
clearEntry(k, text) ==
  /\ Editable(1)
  /\ Len(entries) = 1
  /\ Draw(k)
  /\ entries' = <<[key |-> k, content |-> text]>>
  /\ results' = {}
  /\ pending' = NothingAsked
  /\ UNCHANGED <<call, mounted>>

-----------------------------------------------------------------------------
(* api.submitTimecard with the items. The request arrives, and each of its *)
(* rows starts; or it never does: the connection is lost, or a check that  *)
(* comes before the rows refuses it.                                       *)
Arrive(items, rows) ==
  LET Starts(c) == \E j \in DOMAIN rows : rows[j] = c
      Item(c)   == items[CHOOSE j \in DOMAIN rows : rows[j] = c]
  IN /\ \A j \in DOMAIN rows : stage[rows[j]] = "idle"
     /\ stage'   = [c \in Callers |-> IF Starts(c) THEN "started" ELSE stage[c]]
     /\ asked'   = [c \in Callers |-> IF Starts(c) THEN Item(c).key ELSE asked[c]]
     /\ content' = [c \in Callers |-> IF Starts(c) THEN Item(c).content ELSE content[c]]
     /\ UNCHANGED <<slot, told, outcome, reply, created>>

Distinct(rows) == \A i, j \in DOMAIN rows : rows[i] = rows[j] => i = j

Await(kind, items) ==
  \/ \E rows \in [DOMAIN items -> Callers] :
       /\ Distinct(rows)
       /\ Arrive(items, rows)
       /\ call' = [kind |-> kind, items |-> items, rows |-> rows]
  \/ /\ call' = [kind |-> kind, items |-> items, rows |-> <<>>]
     /\ UNCHANGED serverVars

ItemFor(i, k) ==
  [index |-> i, entry |-> entries[i].key, content |-> entries[i].content, key |-> k]

(* The positions that are still on the panel, in the order of the results: *)
(* the one enumeration of them that is sorted.                             *)
Targets(S) ==
  LET T == S \cap DOMAIN entries IN
  {t \in [1..Cardinality(T) -> T] : \A i, j \in DOMAIN t : i < j => t[i] < t[j]}

submit ==
  /\ Ready /\ results = {}
  /\ Await("submit", [i \in DOMAIN entries |-> ItemFor(i, entries[i].key)])
  /\ pending' = {}
  /\ UNCHANGED <<entries, results, used, mounted>>

(* One row, or all that are retryable, with the keys of their entries.     *)
retryWithSameKey(S) ==
  /\ Ready
  /\ S = RetryableIndices \/ \E i \in RetryableIndices : S = {i}
  /\ \E targets \in Targets(S) :
       /\ targets # <<>>
       /\ Await("retry", [j \in DOMAIN targets |->
                             ItemFor(targets[j], entries[targets[j]].key)])
  /\ pending' = {}
  /\ UNCHANGED <<entries, results, used, mounted>>

(* The panel asks before it issues a new key.                              *)
setNewKeyPending(S) ==
  /\ Ready /\ S # {}
  /\ S = StuckIndices \/ \E i \in StuckIndices : S = {i}
  /\ pending' = S
  /\ UNCHANGED <<entries, results, call, used, mounted>>

cancelNewKey ==
  /\ Ready /\ pending # {}
  /\ pending' = {}
  /\ UNCHANGED <<entries, results, call, used, mounted>>

(* The new keys go into the request and nowhere else.                      *)
resubmitWithNewKey ==
  /\ Ready
  /\ \E targets \in Targets(pending) :
       /\ targets # <<>>
       /\ \E ks \in [DOMAIN targets -> Keys \ used] :
            /\ Distinct(ks)
            /\ used' = used \cup {ks[j] : j \in DOMAIN targets}
            /\ Await("resubmit", [j \in DOMAIN targets |-> ItemFor(targets[j], ks[j])])
  /\ pending' = {}
  /\ UNCHANGED <<entries, results, mounted>>

-----------------------------------------------------------------------------
(* The answer for the j-th item, at the position it was sent from.         *)
Answered(j) ==
  [index |-> call.items[j].index, reply |-> reply[call.rows[j]],
   entry |-> call.items[j].entry, content |-> call.items[j].content, key |-> call.items[j].key]

Answers == {Answered(j) : j \in DOMAIN call.items}

(* Mutation: only the rows that were sent again have results.              *)
BugOnlyAnswers == Answers

(* Rows that were not sent again keep their results.                       *)
mergeResults ==
  {r \in results : \A a \in Answers : a.index # r.index}
    \cup {a \in Answers : RowAt(a.index) # {}}

(* acreate_many gathers all its rows before it answers.                    *)
Deliver ==
  /\ Busy /\ call.rows # <<>>
  /\ \A j \in DOMAIN call.rows : stage[call.rows[j]] = "done"
  /\ results' = IF call.kind = "submit" THEN Answers ELSE mergeResults
  /\ call' = NoCall
  /\ UNCHANGED <<serverVars, entries, pending, used, mounted>>

(* No answer, or none that can be read: the panel shows an error, and the  *)
(* server goes on with what it has.                                        *)
Lose ==
  /\ Busy
  /\ call' = NoCall
  /\ UNCHANGED <<serverVars, entries, results, pending, used, mounted>>

(* The session expired, or the chat goes on and drops the panel.           *)
Unmount ==
  /\ mounted
  /\ mounted' = FALSE
  /\ entries' = <<>> /\ results' = {} /\ pending' = {} /\ call' = NoCall
  /\ UNCHANGED <<serverVars, used>>

-----------------------------------------------------------------------------
(* The server, for each row: acreate_many over the idempotency store.      *)

Proceed(c, from, to) == stage[c] = from /\ stage' = [stage EXCEPT ![c] = to]
Reply(c, what)       == reply' = [reply EXCEPT ![c] = what]

Granted(c, S) ==
  /\ Proceed(c, "started", "posting")
  /\ Grant(c, asked[c], S)
  /\ UNCHANGED <<asked, content, outcome, reply, created>>

Replayed(c, S) ==
  /\ Proceed(c, "started", "done")
  /\ Echo(c, asked[c], S)
  /\ Reply(c, reply[slot[asked[c]].by])
  /\ UNCHANGED <<asked, content, outcome, created>>

(* A conflict takes another row with the same key and other contents.      *)
Refused(c) ==
  /\ Proceed(c, "started", "done")
  /\ Refuse(c, {})
  /\ \/ Reply(c, "try_again")
     \/ /\ \E d \in Callers : asked[d] = asked[c] /\ content[d] # content[c]
        /\ Reply(c, "conflict")
  /\ UNCHANGED <<asked, content, outcome, created>>

Posted(c, o) ==
  /\ Proceed(c, "posting", "settling")
  /\ outcome' = [outcome EXCEPT ![c] = o]
  /\ created' = IF o = "created" THEN created \cup {asked[c]} ELSE created
  /\ UNCHANGED <<slot, told, asked, content, reply>>

Settled(c) ==
  /\ Proceed(c, "settling", "done")
  /\ IF outcome[c] \in Definitive THEN Write(c, asked[c]) ELSE Release(c, asked[c])
  /\ Reply(c, outcome[c])
  /\ outcome' = [outcome EXCEPT ![c] = "none"]
  /\ UNCHANGED <<asked, content, created>>

(* The claim was lost, or the store cannot be reached.                     *)
Unsettled(c) ==
  /\ Proceed(c, "settling", "done")
  /\ Refuse(c, {})
  /\ Reply(c, "try_again")
  /\ outcome' = [outcome EXCEPT ![c] = "none"]
  /\ UNCHANGED <<asked, content, created>>

(* The process dies before the response is out.                            *)
Die(c) ==
  /\ stage[c] \in {"started", "posting", "settling"}
  /\ stage' = [stage EXCEPT ![c] = "gone"]
  /\ outcome' = [outcome EXCEPT ![c] = "none"]
  /\ UNCHANGED <<slot, told, asked, content, reply, created>>

(* An expired slot shows when its key is asked for. What the server does   *)
(* without the panel is the subject of TimecardSubmission.                 *)
Serve(c) ==
  \/ \E S \in SUBSET {asked[c]} : Granted(c, S)
  \/ Replayed(c, {}) \/ Refused(c)
  \/ \E o \in Outcomes : Posted(c, o)
  \/ Settled(c) \/ Unsettled(c) \/ Die(c)

Panel ==
  \/ /\ \/ \E i \in DOMAIN entries :
             \/ \E text \in Contents : updateEntry(i, text)
             \/ removeEntry(i)
        \/ \E k \in Keys, text \in Contents : addEntry(k, text) \/ clearEntry(k, text)
        \/ \E S \in SUBSET DOMAIN entries : setNewKeyPending(S)
        \/ cancelNewKey
     /\ UNCHANGED serverVars
  \/ submit
  \/ \E S \in SUBSET DOMAIN entries : retryWithSameKey(S)
  \/ resubmitWithNewKey
  \/ Deliver \/ Lose \/ Unmount

PanelNext ==
  \/ Panel
  \/ /\ mounted
     /\ \E c \in Callers : Serve(c)
     /\ UNCHANGED panelVars

PanelSpec == PanelInit /\ [][PanelNext]_vars

-----------------------------------------------------------------------------
(* Properties.                                                             *)

(* A result is shown beside the entry it answers, however many rows were   *)
(* removed, retried and merged since; and a row shown as created still has *)
(* the contents that were sent.                                            *)
ResultsFollowTheirRows ==
  \A r \in results :
    /\ r.index \in DOMAIN entries
    /\ entries[r.index].key = r.entry
    /\ ~Failed(r) => entries[r.index].content = r.content

(* "Submission Confirmed": every entry on the panel has its result, and    *)
(* Oracle created a timecard for each under the key that was sent.         *)
ConfirmedMeansCreated ==
  Confirmed => \A i \in DOMAIN entries :
    \E r \in RowAt(i) : r.entry = entries[i].key /\ r.key \in created

(* A new key, which may write a row for the second time, is only issued    *)
(* for an entry whose result was shown as one the old key cannot change.   *)
NewKeyOnlyForStuckRows ==
  [][call' # call /\ call' # NoCall /\ call'.kind = "resubmit" =>
       \A j \in DOMAIN call'.items :
         \E r \in results : /\ Failed(r) /\ ~IsRetryable(r)
                            /\ r.entry = call'.items[j].entry]_vars

-----------------------------------------------------------------------------
(* What the panel says and does not do.                                    *)

(* ReviewPanel.tsx: "Retry ... with the same request key" sends the key    *)
(* that the failed result was obtained under.                              *)
RetryKeepsTheKey ==
  Busy /\ call.kind = "retry" =>
    \A j \in DOMAIN call.items : \A r \in RowAt(call.items[j].index) :
      r.key = call.items[j].key
=============================================================================
