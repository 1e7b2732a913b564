# OTL-Voice: models and proofs

TLA+ models of OTL-Voice (the FastAPI backend under `src/backend`, the React
client under `src/frontend`), the TLC runs that check them and the theorems
TLAPS proves about them. Paths below are relative to the repository.

Modelled are: the submission of rows to Oracle with its deduplication, sessions
over Redis and worker memory, the loading of the project catalogue, the panel in
which rows are edited and submitted, the speech sessions, the timecard route with its
rules, and the way of a request through the rate limiter to the chat, the list of
timecards and the login with its cache of the identity provider's keys. Section 1 is
the inventory of the whole system, 2 the plan, 3 to 9 the models, 10 the proofs, 11
where the code disagrees with what it says of itself, 12 what stays out.

To repeat a run or a proof:

    tlc -config Submission.cfg MCTimecardSubmission.tla
    tlapm TimecardSubmission_proofs.tla

## 1. Inventory

An employee talks or types to a chat view in the browser. The backend streams
the answer of a language model, turns speech into text over a WebSocket and text
into speech, and the model's answer may contain timesheet rows. The employee
reviews them in a panel and submits them; the backend writes each row to Oracle
Time and Labor (OTL) and deduplicates retries. Projects and assignments come
from Oracle Fusion and are cached in SQLite.

| component | source | state | operations | talks to |
|---|---|---|---|---|
| Idempotency store | `backend/services/idempotency.py` | one record per scoped key: payload hash, pending or complete, owner token, lease, expiry, result | claim, complete, read, wait | its two backends: a dict behind a lock, SQLite behind `BEGIN IMMEDIATE`; called in threads |
| Submission | `backend/services/otl_client.py` (`acreate_many`) | one coroutine per row, its claim and outcome | claim, POST, complete or wait | store, Oracle |
| Oracle transport | `otl_client.py` | shared HTTP client | request with retry, close | Oracle |
| Timecard routes and reconciliation | `api/v1/timecards.py`, `services/timecard_entries.py` | none | validate, submit, list | submission, catalogue |
| Session store | `core/token_blocklist.py` | record and revocation marker per session in Redis; sessions and denials per worker | store, get, revoke | Redis |
| Session routes | `api/v1/auth.py`, `core/auth.py` | signed token in a cookie | login, session, logout, refresh | session store, OIDC, Oracle |
| OIDC verifier | `core/auth.py` | per worker: the copy of the key set, the address it was found at, a lock | verify, get keys, forced refresh | identity provider |
| Rate limiter, slots | `core/limiter.py`, `main.py` | two limiters per worker, each with a Redis client, its backoff and a table; one sliding window per address in Redis; WebSocket connections per user | is_allowed, acquire, release | Redis |
| Catalogue loader | `services/fusion_catalogue.py` | lock file, loading flag, tables in SQLite | load, refresh, ask | Fusion, file system |
| Fusion client | `services/fusion_catalogue_client.py` | none | fetch pages | Fusion |
| Speech session | `api/v1/chat.py`, `services/oci_speech.py` | queue of results, done event, tasks | receive, send, stop, release | browser, OCI |
| Chat stream | `services/chat.py`, `services/oci_genai.py` | none | stream, retry, fall back | OCI, browser |
| Browser client | `frontend/src/api/client.ts`, `lib/sse.ts` | CSRF token, the one refresh in progress | send, refresh and replay, retry | backend |
| Review panel | `features/timesheets/ReviewPanel.tsx`, `lib/entries.ts` | rows with their keys, results, errors by position | edit, submit, retry, resubmit | browser client |
| Chat view | `features/chat/ChatView.tsx` | turn token, transcript, queue of sentences, timers | send, interrupt, end | browser client, voice |
| Voice | `lib/voice.ts`, `lib/ociSpeech.ts` | recorder, socket, recogniser, player | start, stop, play | speech session |

What makes them correct, and what is hard about them:

- **Submission.** A row must not be written twice to Oracle by a retry, and must
  not be reported as written if it was not. Hard: the POST has no transaction
  with the store; a timeout leaves its outcome unknown; leases lapse and records
  expire while a POST is in flight; clock readings are taken before the lock;
  workers die; SQLite fails.
- **Sessions.** A session that was signed out or rotated must be refused from then on,
  on all workers. Hard: every store call is several awaits; Redis fails between
  two of them, or takes a command and loses the reply; a worker's memory is then
  the only witness.
- **Catalogue.** One load at a time, and a refresh never makes the catalogue
  worse. Hard: the lock is a file with a time in it, in several processes; Fusion
  answers partially; a crash leaves the lock and the flag behind.
- **Timecard route.** What is booked is the employee's own work, on a project they
  are assigned to, within a day; a retry is told the truth. Hard: rows are validated, resolved and
  mapped by three pieces of code that read the same fields, with awaits, a new catalogue
  and a midnight between them.
- **Admission.** No client gets more than its budget or is shut out without having spent
  it, no slot is leaked. Hard: several stores, a check after the write, a client that
  others drop or replace during an await, evictions.
- **Login keys.** A token is good only under a key the provider publishes, also while it
  rotates them. Hard: tests before a lock that are used after it, copies that age
  while they are fetched.
- **Chat stream.** One answer per turn and one end of it. Hard: a stream that breaks
  after it has given text, retries, a browser that leaves.
- **Speech session, voice.** Every session ends, releases what it holds, and
  delivers its last result. Hard: tasks, callbacks, timers and awaits around shared flags.
- **Browser client, review panel.** A request is replayed only if no handler saw
  it; a retry carries the key of the row it retries.

`PROJECT.json` lists the components with their status and, under `hazards`, each
place in the code where something can go wrong that a test would hardly reach,
with the properties that cover it or the reason why none does.

## 2. Plan

In this order, each with its MC module and configuration:

| | modules | composes | state |
|---|---|---|---|
| 1 | `IdempotencyStore`, `TimecardSubmission`, `WriteOnce` | the rows over the store; `WriteOnce` is the abstract specification | done, proved |
| 2 | `SessionStore`, `SessionRequests` | the routes over the store | done, proved |
| 3 | `CatalogueLoader` | | done, proved |
| 4 | `SttSession` | handlers, tasks, slots | done, proved |
| 5 | `ReviewPanel` | the panel over the slots of `WriteOnce` | done, proved |
| 6 | `TimecardRules`, `TimecardRoute` | the route over the rules, the catalogue and memoised results | done, proved |
| 7 | `RateLimiter`, `ChatTurn`, `JwksCache`, `Gateway` | `Gateway` puts the handlers behind the middleware | done, proved |

All modules named "proved" have a module of proofs of the same name with `_proofs`
(`Gateway_proofs` has those of the limiter and the chat).

Not begun: the browser's HTTP client (one shared refresh, replay after 401 or 403)
between the panel and the sessions; the chat view (turns, interruption,
playback, microphone); the life of the token blocklist's Redis client, which
follows the rules that `RateLimiter` has for its own.

## 3. Submission

### `IdempotencyStore`
One variable, `records`, is the table (or the dict); `backend` says which of the
two implementations runs, chosen once. `claim`, `complete` and `read` are one
transaction each, so each is an operator on `records`: `Grant` with the tests
`IsVacant`, `IsConflict`, `IsReplay`, `IsLapsed`, `IsPending` in the code's order,
`Complete`, `CanRead`. `Purged` is the deletion of expired rows that opens claim
and read. All of them take the clock reading `at`, as the code calls `time.time()`
before it queues for the lock: a thread may decide with a reading that others
have overtaken. The backends differ in one place (SQLite releases an ambiguous
result without testing the lease), which `CanComplete` keeps.

### `TimecardSubmission`
Each row of each request is a member of `Callers`: an invocation of
`_submit_single`, whose `pc` names the await it stands at. A retry of the browser
is another caller with the same key.

| action | code |
|---|---|
| `Submit`, `SubmitUnkeyed` | the row starts; with a `requestId` it enters `claim` in a thread |
| `ClaimGranted`, `ClaimConflict`, `ClaimReplay`, `ClaimPending`, `ClaimUnavailable` | the answers of `claim` and what the row does with each |
| `NoPost` | `acreate_timecard_entry` answers after the claim and before any POST: `map_entry_to_otl` refuses the row, or demo mode makes the answer up |
| `Send`, `PostReturns` | the POST goes out; it returns an outcome, or the client raises |
| `CompleteStored`, `CompleteLost`, `CompleteUnavailable` | `complete`: stored or released, claim lost, SQLite error |
| `PollHit`, `PollAgain`, `PollTimeout`, `PollUnavailable` | the rounds of `wait_for_result` |
| `Die`, `Restart` | the process is killed; with `:memory:` the records go with it |
| `Tick` | the clock, and the waits' monotonic clock |

Outcomes are the four classes the code tells apart: `created`, `rejected`, `busy`
(409, 429) and `unavailable` (5xx or an exception, whose effect in Oracle is
unknown). Results, payloads and keys are model values. `held`, `sent` and
`source` are history: they record what the properties speak of and guard no
step. Which rows the mapping refuses is `TimecardRules`' subject; here any row
may be refused, and the refusal is stored and replayed as a rejection by Oracle is.
`Demo` is `is_demo_mode()`, fixed for the process; the runs have it off, the theorems hold for both.

### `WriteOnce`
What the store promises, without clocks: a slot per key that is free, held by one
caller or written by one; only its holder writes it, only a written slot is
echoed, everyone is answered once, and time may take a slot away.
`ImplementsWriteOnce` states that `TimecardSubmission` refines it under the mapping `SlotOf`, `ToldTo`.

### Runs
- `submission`: two rows, one key, two payloads, lifetime 3, lease 2, a wait of 1,
  a horizon of 3, under `FairSpec`. Two rows on one key are what every
  property relates: an owner and a rival, a waiter, a replay or a second payload. Lease
  and lifetime differ, so that each can end first, and the horizon lets a whole
  lifetime pass. No symmetry, since liveness and the refinement are checked in
  the same run. That a purge for one key deletes the records of others, and that more
  rows contend, is left to the theorems, which hold for any number of both.
- `busy_is_memoised`, `waiter_gets_other_payload`: findings of section 11.

Properties: `ExclusiveClaim` (two live claims of one key are one),
`SecondPostIsJustified` (a second POST only after a release, a lapse or an
expiry), `ReplayIsTruthful` (a replay reports what became of a row that was granted the
claim: what Oracle answered its POST, or what was answered without one), `LostOnlyAfterDeadline`, `MemoisedResultIsFinal`, `EveryRowIsAnswered`,
`ImplementsWriteOnce`.

Fairness: the event loop and its thread pool run every row that can go on (WF on
each of its steps; `Send` and `NoPost` share theirs), the HTTP client's timeouts end every POST (WF on
`PostReturns`), time passes. A wait that only reads again makes no progress, so
WF is on finding a result or timing out: with `left` counting down it is the
wait loop's own bound that ends it. Nothing forces submissions, crashes or
outages.

## 4. Sessions

### `SessionStore`
Redis is two maps from sessions to the time their key expires; each worker has a
set of sessions and a map of denials. `mode` is the deployment: Redis alone (as
in production), memory alone (the demo), or Redis with the memory fallback. Lifetimes
are cut to whole seconds by the code, so the clock runs in ticks of a fraction
of a second and `WholeSeconds` is `max(1, int(t))`.

### `SessionRequests`
A request is one handler, `pc` its await. A step that contacts Redis may fail at
any time; a command may also be carried out and its reply be lost (`SendRevoke`
then `RevokeFails`, `SendSet` then `SetFails`). `Resolve` and the `exists`, `get`,
`got` stages are `resolve` and `get_session`; `EmployeeLoaded` is where a refresh
goes on after Oracle confirmed the employee; `Crash` restarts a worker with empty memory.
Browsers present only tokens some response delivered (`Delivered`).

### Run
`session_safety`: three requests, two workers, two sessions, seconds of two
ticks, tokens of two seconds, the clock up to the expiry of a token minted at 0.
A login, a request that ends the session and one that races it or comes late are three;
two workers, since memory is per worker. Requests are used up, so the instance
ends: no deadlock check. All three modes are in it.

Properties: `EndedSessionIsRefused` (Redis alone: what some response reported ended is
never accepted later), `RotationEndsOldSession`, `DenialOutlivesOutage`,
`AcceptedIsUnexpired`. With the fallback (`both`) the first does not hold
and is not claimed: a session that was ended while Redis was away is denied by the
memory of one worker only, and the others may find its record in Redis. No liveness: every
request is a straight line of awaits that each fail or return.

## 5. Catalogue

`CatalogueLoader`: each system call on the lock file, each transaction and each
fetch of a load is a step of a loader, started by the refresh task or an
administrator. A catalogue maps each project to the lists of details that are
not empty, which is all the code's tests look at. Time matters only where a lock
is judged older than an hour: `LockAges` makes it so at any moment, also under a
load that is merely slow. `MaxFaults` bounds crashes and failed system calls.

- `catalogue`: two loaders (a race needs two, and a robbed lock is passed from one to
  the other), one project, two faults (one leaves the flag behind, the
  other disturbs the recovery). `OneLoadAtATime` and `RefreshKeepsWhatItHas`
  hold until `robbed`: a reclaim took the lock of a load that was still running,
  because it was slow or because the reclaimer acted on a lock it had read
  before. That window is the code's, and the properties say exactly that it is
  the only one. `LoadingFlagIsCleared` is a liveness property under `FairSpec`;
  its premise excludes an empty lock file that a crash leaves between creation
  and write, from which the code has no way out (a hazard in the list).
- `unloaded_catalogue`: the finding of section 11.

Fairness: the operating system runs every thread; the refresh task of
`main.py:263-274` starts loads for ever; hours pass. Nothing forces a load to
succeed, or Fusion to answer.

## 6. Review panel

`ReviewPanel` is the React component as an employee drives it: drafts with the
key each was given, results by position, the question about a new key, and the one
call it awaits. It runs against the slots of `WriteOnce` and not against
`TimecardSubmission`, which implements them: each row of a request that arrives becomes a
caller, and leases and expiry are slots that are granted again when their key is
asked for. That lets the browser give up a request (`Lose`) while the server is
still at it, at the cost of clocks, which no property of the panel needs.

| action | code |
|---|---|
| `updateEntry`, `addEntry`, `removeEntry`, `clearEntry` | edits, while nothing is awaited and the row is not confirmed; a removal moves the later results up |
| `submit`, `retryWithSameKey`, `resubmitWithNewKey` | the three ways to send: all rows, those that may be retried under their own keys, those that are stuck under new ones |
| `setNewKeyPending`, `cancelNewKey` | the confirmation before a new key |
| `Deliver`, `Lose`, `Unmount` | the answer is merged; it never comes; the panel goes away |
| `Granted`, `Replayed`, `Refused`, `Posted`, `Settled`, `Unsettled`, `Die` | the server, per row |

- `panel_safety`: up to two entries (so that one can be removed from before another),
  three keys (both entries' and one new), three rows served (a submission of two and
  a retry, or three attempts at one), two contents. Symmetry in rows, keys and
  contents. `ResultsFollowTheirRows` relates each result to the entry and the
  contents it was sent for, `ConfirmedMeansCreated` the confirmation banner to
  what Oracle did, `NewKeyOnlyForStuckRows` is an action property. The instance uses
  up its rows and keys and a panel that is gone does nothing, hence no deadlock
  check; and the employee is not obliged to press anything, hence no liveness.
- `retry_keeps_the_key`: the finding of section 11.

## 7. Speech sessions

`SttSession` has one handler per WebSocket connection (`pc`), the tasks `rx` and `tx`
it starts, and the provider's `loop`. They share `queue` and the event `done`; the
handlers share the slots of `WSConnectionTracker`.

| action | code |
|---|---|
| `Acquire`, `Refuse`, `Release` | the tracker, under its lock |
| `Accept`, `ClientRaises`, `AcceptRaises` | the socket is accepted and the provider's client built, or one of them raises |
| `Connected`, `ConnectFails`, `Abandon` | `stream_session`: its wait of ten seconds and its clean-up |
| `Receive`, `Forward`, `ForwardRaises`, `ReceiveRaises`, `ReceiveDisconnect` | `receive_from_frontend` |
| `Fetch`, `SendResult`, `SendRaises`, `TxDrained` | `send_to_frontend` |
| `Stop`, `Gathered`, `Unhook`, `Close` | the end: tasks and loop cancelled and gathered, the slot given back, client and socket closed |
| `Provider...`, `CredentialsSent`, `LoopRaises` | the provider's connection, through the callbacks of the listener |
| `BrowserLeaves`, `Reconnect` | the browser |

A task that is cancelled takes no step between the cancellation and its end. Results
are numbered as the provider speaks them; `sent`, `spoken`, `dropped` and `leaked` are history.

- `speech_sessions`: two connections of one user with one slot, so that they meet
  only at the slot, as in the code; a queue of one and two results, so that
  a result is dropped while another is being sent. `SlotsAreCounted` and
  `ProviderConnectionsAreBounded` relate the tracker to the sessions and to the
  provider's connections: the slot goes back before the client is closed, and it is
  the cancelled loop that keeps the second within the first. `NothingIsLostWhileOpen`
  says where every result is. The liveness properties are `BrowserEndsSession`,
  `ProviderEndsSession` and `TranscriptsArrive`.

Fairness: the event loop runs every handler that can go on, the receiving task is told
when the browser goes, and a send to the browser completes or fails (the server pings its
sockets and closes dead ones). Nothing is asked of the provider: its
socket has no keepalive (`ping_interval=None`) and `send_data` no timeout, so `Forward` and
`ForwardRaises` have no fairness, and a provider that stays connected but stops
reading keeps the receiving task, and the slot, for ever. The run does not check for
deadlock, because there is another: after the
empty frame nobody receives from the browser, and if the provider's loop raises after
`on_connect` and before the credentials are out, nothing sets `done`.
`AwaitsProvider` is the premise that leaves both out of `BrowserEndsSession`, which promises
the end of a session only if the browser goes while the receiving task waits for a frame
(or the session is not that far, or `done` is set); the hazard is listed at `chat.py:184`. The browser of
this repository never sends the empty frame. The provider's client is closed after the slot
went back; that the closing ends rests on the library's own close timeout.

## 8. Timecard route

`TimecardRules` has the pure part: a row is a record of its fields, a time is a whole
number of quarters of an hour, and a field that is not sent is `None`, one that cannot
be read is `Bad`. The several names the code accepts for a field are one field here, but
for the key's: the three that every reader knows are `id`, `other` and `third`, and the
aliases `request_id` (`alias`) and `idempotency_key` (`otherAlias`) are apart, since
`_normalize_entry` folds them and the route, which compares the keys of the raw rows, does not. The operators follow the code: `RowsOk` (the validation of each row and of a
day's total), `RowsAssigned` (the match with the assignments), `Resolved` (what a row
takes over from its assignment), `WellFormed`, `IsMappable` and `Payload`
(`map_entry_to_otl`).

`TimecardRoute` is `submit_timecard` for several attempts at one body, each at its await:

| action | code |
|---|---|
| `Send`, `Receive` | the browser's request, or the same again; the 422 and 400 answered before anything is looked up |
| `Lookup`, `LookupFails` | the thread that reads the assignments; it raises, 503 |
| `RefuseAssignment`, `Dispatch` | the rows validated against the assignments; resolved and handed to `acreate_many`, or refused by it, 502 |
| `RowFromStore`, `RowNotMapped`, `RowPosted`, `RowUnclaimed` | a row of the gather: replay or conflict, refused by the mapping, posted, or without a claim since the store failed |
| `StoreMissing` | the store cannot be opened: as one row has a key, no row of the request is submitted |
| `Respond` | 200, 422 or 502 from the rows' results |
| `Refresh`, `Midnight` | the catalogue is replaced; the date changes, which a row without a date takes when it is mapped |

The claim, the POST and the completion of one row are a single step, for their
interleavings are `TimecardSubmission`'s. `fullName` is the display name of the session an
attempt comes with, which login or refresh took from Oracle (`auth.py:104`); a row is resolved with
it and hashed with it. Demo mode is left out here.

- `timecard_route`: two attempts at one body, under one of two names each, four states of the catalogue (two projects
  of one name; the first renamed and with other tasks; an entry with another person's project; not
  loaded) that alternate at will, and one midnight. A day has eight units and work
  starts at three, so that a row can end at, before and after the end of the day and hours can be
  under, at and over each limit. `MCBodies` varies together the fields that the code compares
  with each other (number, name, identifier, order, task, details; hours, date, start,
  stop; the places of a key, aliases included) and several rows with equal, different and missing keys
  and dates; `MCResent` are those that are sent a second time, where the store matters.
  The attempts are symmetric, and so are the names. They are used up, but the catalogue goes on changing, so
  the run has no deadlock to find and no liveness: a request is a straight line of awaits.

Properties: `BookedWorkIsAssigned` (what is booked is the caller's own and of an assignment that
very request was checked against), `BookedTimesAreWhole` and `DaysStayWithinLimit` (what is
booked is the stretch of the day that was claimed, and no day is overfull), `StatusIsTrue`
(the status against what Oracle took), `PreflightAgreesWithTheRoute` (the two places that
judge keys agree, but for the two aliases in a structured body), `ConflictIsExplained` (a request sent
again as it was finds its key reused only if a row of that key hashes differently, because the assignments or
the session's name changed).

## 9. Limiter, chat, keys

`Gateway` composes three modules. A request passes the middleware (`RateLimiter`), then
`Handle` starts its handler: the chat or the list of timecards (`ChatTurn`), or a login up
to where its token is known to be good (`JwksCache`; `SessionRequests` goes on from there).

| module | actions | code |
|---|---|---|
| `RateLimiter` | `Arrive`, `Ask`, `Dial`, `DoWithout`, `Pinged`, `PingFails` | the middleware; the client is there, is made, or is not tried during its backoff |
| | `Counted`, `CountFails`, `Removed`, `RemoveFails`, `Closed` | the pipeline that adds and counts; the removal of a request over the limit; the client that failed is closed |
| | `Tick`, `Restart`, `Evict` | time; Redis loses its data; a full table drops the client's entry |
| `ChatTurn` | `Begin`, `LookedUp`, `Read` | the awaits before the answer, with the retry loop of reads |
| | `Opened`, `Delta`, `StreamEnds`, `StreamFails`, `Complete`, `Finish`, `Leave` | the stream and its fallback without streaming, its one end, the browser that leaves |
| `JwksCache` | `Presents`, `LookUp`, `GetsLock`, `Discovered`, `Served`, `Fetched`, `CallFails` | `verify`: the copy of the keys, the lock, the discovery document, the key set, their failures |

A pipeline is stamped before it is sent and executed up to `Lag` later. A call to the
provider takes up to `Timeout`, and its answer is what the provider published at some
moment in between. Both bounds are assumptions (section 10).

- `gateway`: three requests, one worker, room for two under `/api/auth/` and for one
  elsewhere. `MCMixes` has the combinations in which requests meet: one budget's and two
  of the other (shared in Redis, apart in memory), a chat alone, a list beside a health probe, two
  logins. Three requests are one more than either budget; two logins are one that fetches and
  one that waits or is served. A key goes as the next comes, at 1; the window (3), the
  lifetime of the copy (3), the pause between forced fetches (1) and the URL's (2) differ, and
  the horizon of 4 lets each run out. One fault in all, of Redis or the provider: the
  theorems hold for any number of faults, workers and requests. The requests are
  used up, hence no deadlock check, and no liveness is claimed: every await has
  its timeout and leads on.
- `shared_bucket`: a finding of section 11.

Properties: `AdmittedIsBounded` (a store that kept its counts lets no limiter exceed its
maximum in a window), `RefusalIsEarned` (a 429 only if that many others were counted),
`OneAnswerPerTurn` (the events of a turn are the text of one call, then one end that is true of it),
`VerdictsFollowTheKeys` (accepted only under a key published less than a cache lifetime ago, refused for its
key only if it is not published or too new for the last fetch to be repeated).

Abstractions: waiting logins get the lock in any order; EXPIRE is omitted, as the purge
removes what it would; a worker is not restarted; the client's address is given. Demo mode
and the extraction of text from the model's chunks are left out.

## 10. Proofs

| module of proofs | theorems | argument |
|---|---|---|
| `TimecardSubmission_proofs` | `TypeCorrect`, `OneLiveClaimPerKey`, `SecondPostOnlyWhenJustified`, `ReplaysAreTruthful`, `LiveClaimsAreNotLost`, `MemoisedResultsAreFinal`, `OnlyWaitersGetOtherData`, `StoreImplementsWriteOnce` | `IInv`, `HashInv` |
| `SessionRequests_proofs` | `TypeCorrect`, `EndedStaysEnded`, `AcceptedInTime`, `RotationsEnd`, `DenialsLast` | `EndedInv`, `MintInv`, `StageInv`, `RotInv`, `DenyInv` |
| `CatalogueLoader_proofs` | `LoadsAreExclusive`, `TypeCorrect`, `RefreshesKeep` | `LockInv`, `TablesType`, `LoadInv` |
| `SttSession_proofs` | `SttTypeCorrect`, `SlotsHold`, `LoopsAreBounded`, `ResultsAreInLine` | `TasksInv`, `SlotInv`, `LineInv` |
| `ReviewPanel_proofs` | `PanelTypeCorrect`, `ResultsStayWithTheirRows`, `ConfirmedIsCreated`, `NewKeysAreForStuckRows`, `PanelKeepsToWriteOnce`, `EchoesAreOfAnswers`, `RetriesGoBackOnlyFromNewKeys` | `ServerInv`, `PanelInv`, `PendingInv`; `OnceInv` of `WriteOnce`; `RetryInv` |
| `TimecardRoute_proofs` | `TypeCorrect`, `BookingsAreAssigned`, `BookingsAreWhole`, `DaysAreLimited`, `DoublesStayOpen`, `StatusesAreTrue`, `PreflightsAgree`, `ConflictsAreExplained` | `IInv` of `BaseInv`, `RowsInv`, `RecordsInv`, `BookedInv`; `AnswerInv`, `TakenInv`, `ValuesInv`, `LimitInv`, `DoublesInv` |
| `Gateway_proofs` | `TypeCorrect`, `BudgetHolds`, `RefusalsAreEarned`, `OneAnswer` | `LimiterInv`, `MarksInv`, `TurnInv` |
| `JwksCache_proofs` | `VerdictsAreRight` | `KeysInv` |

Each theorem is about `Spec` for every value of the constants the module's assumptions
admit. These say little: numbers are natural, the markers `None`, `Bad`, `NoLoader` and
`Nobody` are no members of the sets they stand beside, and lists have numbers as
positions. Some go further. `Lag < Window`: a pipeline reaches Redis within a minute of
its stamp; the code sets no timeout that would see to it, so this is asked of the
network. `Timeout <= CacheSeconds`: the settings clamp the first to 30
seconds (`auth.py:349`) and keep the second above them (`auth.py:920`); an answer that
trickles in for longer is outside the model. A time that can be read is one of the day, and no
project is loaded without an id (`fusion_catalogue.py:262-264`). Limiter
requests and speech connections are finite sets, since both are counted. TLC
evaluates all assumptions in the runs.

The arguments, in short:

- **Submission.** A row's own clock reading may be older than the record it finds, so no
  invariant can speak of "now". `ClaimInv` ties each live record to the one row that holds its
  token, `ClockInv` bounds what a reading can be, `RecordInv` and `StoredInv` tie a
  completed record to a row that was sent, `StageInv` and `SourceInv` the answers to the
  records they were read from, `OrderInv` the POSTs of one key to what ended the claims between
  them. `QuietStep` disposes of the steps that touch no record. `StepRefines` maps every step to one of
  `WriteOnce` or to a stutter. `HashInv` ties each record to the data of its owner or
  writer; by it the one way to the result of another payload is the read of a row that waits.
- **Sessions.** `EndedInv`: a session reported ended has no record in Redis, or has its marker
  there for as long as its token is good. `RotInv` follows the old session of a refresh from
  the check to the mint; the old one is expired, marked or out of its worker's memory when the new one
  appears. `DenyInv`: a worker's denial lasts to the token's expiry less the second that `int()`
  cuts off.
- **Catalogue.** `LockInv`: the lock file is that of the load that runs, unless one was robbed.
  `LoadInv` carries what a load has read and fetched to the point where it writes.
- **Speech.** `SlotInv` counts sessions between acquire and release by the cardinality of a
  set; `LineInv` gives each result its place among sent, being sent and queued.
- **Panel.** `ServerInv` is about the slots, `PanelInv` ties results, drafts and the request under
  way by position, also through a removal; `PendingInv` fixes what the question about a new key was asked for.
- **WriteOnce** is used from both sides: the store implements it (`StoreImplementsWriteOnce`), the panel's server
  keeps to it (`PanelKeepsToWriteOnce`), and what it promises is proved once, of itself
  (`EchoesAreOfAnswers`, with the writers of the slots in `OnceInv`).
- **Route.** `RowsInv`: what is handed on is a function of the body, the session's name and the assignments the attempt read, so equal
  names and lists give equal rows; `RecordsInv` ties a memoised result to such a row, which explains conflicts. `TakenInv` ties "created", of a
  row or a record, to a booking Oracle took, and each such booking to a result that says so or may be sent again; `AnswerInv` the status to the
  results. `PreflightFollows` shows that the preflight finds nothing new in rows that the route let through, unless one of them hides a key.
  `DoublesInv`: a booking that was answered for good left a record, under which no row is posted.
- **Days of the route.** `LimitInv`: a row has one booking at most, with its hours and on its day. So the bookings of a
  day map one to one into the rows of one date, which passed the limit. That the one sum
  is then no larger than the other is an induction over finite sets; as the induction theorems of the library
  cannot be instantiated, it takes a counterexample of least cardinality (`SmallestSet`, from `WFMin`)
  and removes one element. `FoldExists` and `FoldIsUnique` first show that the fold behind
  `MapThenSumSet` is a function at all.
- **Gateway.** `LimiterInv`: whoever was let through within the window still has its mark in the store that
  let it through, if that store kept its counts; a set of such marks is no larger than the maximum. `MarksInv` is the
  converse for refusals. `TurnInv` describes the events of a turn by its stage. `KeysInv`: a copy
  of the key set is what was published between the start and the end of its fetch.

Two theorems say how far a finding of section 11 goes: `OnlyWaitersGetOtherData` and
`RetriesGoBackOnlyFromNewKeys`. With `EchoesAreOfAnswers` and `DoublesStayOpen` they are about formulas no
run lists; TLC found them and their invariants true of the instances of sections 3, 6 and 8.

Only model-checked: the liveness properties `EveryRowIsAnswered`, `LoadingFlagIsCleared`,
`BrowserEndsSession`, `ProviderEndsSession` and `TranscriptsArrive` (liveness under fairness
and ENABLED are beyond the prover). Every invariant and every action property of the passing runs is
proved. No module uses a RECURSIVE operator.

## 11. Where the code differs from what it says

Five runs end in a counterexample to what the repository says of itself:

- `busy_is_memoised`: a 409 or 429 of Oracle is memoised and replayed although the code
  calls it retryable under the same key (`idempotency.py:336`).
- `waiter_gets_other_payload`: a row that waits on its key is handed the result of another payload
  (`idempotency.py:557`).
- `unloaded_catalogue`: while the catalogue is not loaded the answer is an empty list and
  not None, so the 503 of the routes cannot happen (`fusion_catalogue.py:619`;
  `api/v1/chat.py:50`, `timecards.py:285`).
- `retry_keeps_the_key`: after a resubmission under a new key, the retry "with the same key" sends the
  old one (`ReviewPanel.tsx:498`, `466`).
- `shared_bucket`: the two limiters count in one Redis key, so other requests use up
  the budget of `/api/auth/` (`limiter.py:139`, `275`).

Met while modelling, without a run:

- A lease may outlast the record it belongs to (`idempotency.py:319`; the docstring at 501-504 says
  otherwise). `ExclusiveClaim` therefore counts a claim live until the first of the two ends.
- A body sent again after the catalogue changed may be a conflict, as the fingerprint takes in fields of the
  catalogue. So may one sent again after a login that spells the employee's name otherwise: `request_fingerprint`
  means to leave `employeeName` out, but compares that mixed-case word with a casefolded key (`idempotency.py:141`), so it never
  matches and the name is hashed. `ConflictIsExplained` admits exactly these two causes.
- A provider of speech that stays connected but stops reading holds a session and its slot for ever
  (`chat.py:195`; section 7).
- A row that `map_entry_to_otl` refuses is memoised as rejected (`otl_client.py:1223`, `1182`) and replayed
  for the record's whole life, although Oracle never saw it.
- A row of 24 hours, or one that ends with the day, passes the validation (`tests/test_timecards.py:244-246`)
  and is then refused by `map_entry_to_otl` (`otl_client.py:275-278`) as if Oracle had.
- Rows of one day with and without its date may add up to more than the daily limit:
  the premise of `DaysStayWithinLimit`.
- The route does not fold `request_id` and `idempotency_key`, so a bad key behind one of them, or two rows
  that share one, are answered 502: the premise of `PreflightAgreesWithTheRoute`.
- A request over the limit whose removal from Redis fails is counted again in memory and may pass.

## 12. Not modelled

- The pages of the Fusion client: reading by offset while the collection changes.
  It is synchronous and keeps nothing; `CatalogueLoader` takes its answer as complete, partial,
  empty or absent.
- The life of the token blocklist's Redis client, and cancellation of a request that awaits it.
- The browser's HTTP client (`client.ts`, but for what the panel and the sessions need of it) and its
  reader of event streams; two tabs that refresh one session (`auth.py:179`) are reached by
  `SessionRequests`, but nothing in the code rules out that both succeed.
- The chat view and voice in the browser: late events of interrupted turns, playback, microphone.
- The panel's validation errors by position (`ReviewPanel.tsx:373`).
- Of the speech session: the checks before the slot, delays, text to speech.
- Verification of passwords, signatures and claims; cookies and the CSRF token.
- `create_many`, `cleanup_expired`, `add`, `is_revoked`, `clear_local`: no caller outside the tests.
- The shape of Fusion's rows, prompts, cleaning of text, parsing of dates and numbers: functions on
  text, which tests cover better than a model would.
- The vendored SDK beyond its loop, the native shells, audio worklets, the scrubbing of error reports,
  layout, deployment scripts and the development runner.
