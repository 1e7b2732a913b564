----------------------------- MODULE SttSession -----------------------------
(***************************************************************************)
(* The speech sessions of backend/api/v1/chat.py (stt_stream), with the    *)
(* connection slots of core/limiter.py and the recogniser's client of      *)
(* services/oci_speech.py.                                                 *)
(*                                                                         *)
(* A session is a handler and the three tasks it owns: one that receives   *)
(* audio from the browser, one that sends results to it, and the loop that *)
(* reads from the provider. They meet in a queue and in one event, done.   *)
(* What the browser and the provider do is left open: each may speak,      *)
(* fall silent or go away at any time.                                     *)
(*                                                                         *)
(* Connections that fail a check before the slot have no effect and are    *)
(* left out.                                                               *)
(***************************************************************************)
EXTENDS Integers, Sequences, FiniteSets

CONSTANTS
  Sessions,        \* WebSocket connections that may be open at once
  Users,           \* authenticated identities
  MaxConnections,  \* max_connections_per_user
  QueueSize,       \* maxsize of result_queue
  MaxResults       \* bound: results the provider sends in one session

ASSUME SessionAssumption ==
  /\ IsFiniteSet(Sessions)
  /\ MaxConnections \in Nat \ {0} /\ QueueSize \in Nat \ {0} /\ MaxResults \in Nat

VARIABLES
  connections,  \* ws_tracker._connections, 0 where it has no entry
  leaked,       \* history: slots whose session ended without its finally
  pc,           \* where the handler of the connection stands
  user,         \* the identity it was resolved to
  gone,         \* the browser's disconnect is the next thing to receive
  rx,           \* receive_from_frontend
  tx,           \* send_to_frontend
  loop,         \* loop_task: the provider's connection
  connected,    \* listener.connected
  done,         \* listener.done, the session's done_event
  queue,        \* result_queue
  holding,      \* the result that is being sent; 0 is none
  spoken,       \* history: results the provider sent
  sent,         \* history: results that went to the browser
  dropped       \* history: results that found the queue full

slotVars     == <<connections, leaked>>
handlerVars  == <<pc, user>>
taskVars     == <<rx, tx, holding, sent>>
providerVars == <<loop, connected, queue, spoken, dropped>>
vars == <<slotVars, handlerVars, gone, taskVars, providerVars, done>>

(* Between acquire and release.                                            *)
InsideStages == {"accepting", "connecting", "abandoning", "running", "stopping",
                 "unhooking", "releasing"}
Stages == InsideStages \cup {"new", "refused", "closing", "over"}
Inside(s) == pc[s] \in InsideStages

(* The loop has a connection to the provider, or may still get one.        *)
LiveLoops == {"opening", "greeting", "open"}

Results == 1..MaxResults

SttTypeOK ==
  /\ connections \in [Users -> 0..MaxConnections] /\ leaked \in [Users -> 0..MaxConnections]
  /\ pc \in [Sessions -> Stages] /\ user \in [Sessions -> Users]
  /\ gone \in [Sessions -> BOOLEAN]
  /\ rx \in [Sessions -> {"none", "receiving", "forwarding", "finishing", "over"}]
  /\ tx \in [Sessions -> {"none", "waiting", "sending", "over"}]
  /\ loop \in [Sessions -> {"none", "failed", "ended"} \cup LiveLoops]
  /\ connected \in [Sessions -> BOOLEAN] /\ done \in [Sessions -> BOOLEAN]
  /\ queue \in [Sessions -> Seq(Results)] /\ \A s \in Sessions : Len(queue[s]) <= QueueSize
  /\ holding \in [Sessions -> {0} \cup Results]
  /\ spoken \in [Sessions -> 0..MaxResults]
  /\ sent \in [Sessions -> Seq(Results)]
  /\ dropped \in [Sessions -> SUBSET Results]

SttInit ==
  /\ connections = [u \in Users |-> 0] /\ leaked = [u \in Users |-> 0]
  /\ pc = [s \in Sessions |-> "new"] /\ user \in [Sessions -> Users]
  /\ gone = [s \in Sessions |-> FALSE]
  /\ rx = [s \in Sessions |-> "none"] /\ tx = [s \in Sessions |-> "none"]
  /\ loop = [s \in Sessions |-> "none"]
  /\ connected = [s \in Sessions |-> FALSE] /\ done = [s \in Sessions |-> FALSE]
  /\ queue = [s \in Sessions |-> <<>>] /\ holding = [s \in Sessions |-> 0]
  /\ spoken = [s \in Sessions |-> 0] /\ sent = [s \in Sessions |-> <<>>]
  /\ dropped = [s \in Sessions |-> {}]

Proceed(s, from, to) == pc[s] = from /\ pc' = [pc EXCEPT ![s] = to]
SetDone(s) == done' = [done EXCEPT ![s] = TRUE]

-----------------------------------------------------------------------------
(* The slot, and the provider's connection.                                *)

(* Mutation: one connection too many.                                      *)
BugOneMore(u) == connections[u] <= MaxConnections
HasRoom(u) == connections[u] < MaxConnections

Acquire(s) ==
  /\ HasRoom(user[s])
  /\ Proceed(s, "new", "accepting")
  /\ connections' = [connections EXCEPT ![user[s]] = @ + 1]
  /\ UNCHANGED <<leaked, user, gone, taskVars, providerVars, done>>

(* Too many connections.                                                   *)
Refuse(s) ==
  /\ ~HasRoom(user[s])
  /\ Proceed(s, "new", "refused")
  /\ UNCHANGED <<slotVars, user, gone, taskVars, providerVars, done>>

(* STTClient() and stream_session: connect runs in a task of its own.      *)
Accept(s) ==
  /\ Proceed(s, "accepting", "connecting")
  /\ loop' = [loop EXCEPT ![s] = "opening"]
  /\ UNCHANGED <<slotVars, user, gone, taskVars, connected, queue, spoken, dropped, done>>

(* Speech is not configured.                                               *)
ClientRaises(s) ==
  /\ Proceed(s, "accepting", "releasing")
  /\ UNCHANGED <<slotVars, user, gone, taskVars, providerVars, done>>

(* accept stands before the try: what it raises passes the finally by.     *)
AcceptRaises(s) ==
  /\ Proceed(s, "accepting", "over")
  /\ leaked' = [leaked EXCEPT ![user[s]] = @ + 1]
  /\ gone' = [gone EXCEPT ![s] = FALSE]
  /\ UNCHANGED <<connections, user, taskVars, providerVars, done>>

(* Both tasks of the session start.                                        *)
Connected(s) ==
  /\ connected[s] /\ loop[s] # "failed"
  /\ Proceed(s, "connecting", "running")
  /\ rx' = [rx EXCEPT ![s] = "receiving"]
  /\ tx' = [tx EXCEPT ![s] = "waiting"]
  /\ UNCHANGED <<slotVars, user, gone, holding, sent, providerVars, done>>

(* The loop raised, or the ten seconds are over.                           *)
ConnectFails(s) ==
  /\ loop[s] = "failed" \/ ~connected[s]
  /\ Proceed(s, "connecting", "abandoning")
  /\ UNCHANGED <<slotVars, user, gone, taskVars, providerVars, done>>

(* The loop is cancelled, unless it has come to its end.                   *)
Cancelled(s) == [loop EXCEPT ![s] = IF @ \in LiveLoops THEN "ended" ELSE @]

(* close() calls on_close.                                                 *)
Abandon(s) ==
  /\ Proceed(s, "abandoning", "releasing")
  /\ loop' = Cancelled(s)
  /\ SetDone(s)
  /\ UNCHANGED <<slotVars, user, gone, taskVars, connected, queue, spoken, dropped>>

-----------------------------------------------------------------------------
(* The end of a session.                                                   *)

(* Mutation: the handler waits for both tasks.                             *)
BugWaitsForBoth(s) == rx[s] = "over" /\ tx[s] = "over"

(* Of the three tasks the handler waits for, the one that awaits done      *)
(* completes with it, and the wait's other exits come after it.            *)
MayStop(s) == done[s]

(* rx and tx are cancelled where they stand.                               *)
Stop(s) ==
  /\ MayStop(s)
  /\ Proceed(s, "running", "stopping")
  /\ UNCHANGED <<slotVars, user, gone, taskVars, providerVars, done>>

Gathered(s) ==
  /\ Proceed(s, "stopping", "unhooking")
  /\ rx' = [rx EXCEPT ![s] = "over"] /\ tx' = [tx EXCEPT ![s] = "over"]
  /\ UNCHANGED <<slotVars, user, gone, holding, sent, providerVars, done>>

(* Mutation: the loop is left to close().                                  *)
BugKeepsTheLoop(s) == loop

Unhooked(s) == Cancelled(s)

Unhook(s) ==
  /\ Proceed(s, "unhooking", "releasing")
  /\ loop' = Unhooked(s)
  /\ UNCHANGED <<slotVars, user, gone, taskVars, connected, queue, spoken, dropped, done>>

Release(s) ==
  /\ Proceed(s, "releasing", "closing")
  /\ connections' = [connections EXCEPT ![user[s]] = IF @ > 0 THEN @ - 1 ELSE 0]
  /\ UNCHANGED <<leaked, user, gone, taskVars, providerVars, done>>

(* What goes when the session is over.                                     *)
Dropped(s) ==
  /\ gone' = [gone EXCEPT ![s] = FALSE] /\ connected' = [connected EXCEPT ![s] = FALSE]
  /\ queue' = [queue EXCEPT ![s] = <<>>] /\ holding' = [holding EXCEPT ![s] = 0]
  /\ spoken' = [spoken EXCEPT ![s] = 0] /\ sent' = [sent EXCEPT ![s] = <<>>]
  /\ dropped' = [dropped EXCEPT ![s] = {}]

(* The provider's client, where stream_session returned one, and the       *)
(* browser's socket are closed.                                            *)
Close(s) ==
  /\ Proceed(s, "closing", "over")
  /\ loop' = Cancelled(s)
  /\ done' = [done EXCEPT ![s] = @ \/ tx[s] = "over"]
  /\ Dropped(s)
  /\ UNCHANGED <<slotVars, user, rx, tx>>

(* The browser opens another connection, of the same user or of another.   *)
Reconnect(s) ==
  /\ \E from \in {"refused", "over"} : Proceed(s, from, "new")
  /\ \E u \in Users : user' = [user EXCEPT ![s] = u]
  /\ rx' = [rx EXCEPT ![s] = "none"] /\ tx' = [tx EXCEPT ![s] = "none"]
  /\ loop' = [loop EXCEPT ![s] = "none"] /\ done' = [done EXCEPT ![s] = FALSE]
  /\ UNCHANGED <<slotVars, gone, holding, sent, connected, queue, spoken, dropped>>

-----------------------------------------------------------------------------
(* receive_from_frontend. Frames that are too long are skipped, and a long *)
(* queue only delays the next frame.                                       *)

RxMoves(s, from, to) == pc[s] = "running" /\ rx[s] = from /\ rx' = [rx EXCEPT ![s] = to]

(* Audio, or the empty frame that asks for the final result.               *)
Receive(s) ==
  /\ ~gone[s]
  /\ RxMoves(s, "receiving", "forwarding") \/ RxMoves(s, "receiving", "finishing")
  /\ UNCHANGED <<slotVars, handlerVars, gone, tx, holding, sent, providerVars, done>>

(* send_data and request_final_result, which do nothing once the client    *)
(* has let go of its connection.                                           *)
Forward(s) ==
  /\ loop[s] # "failed"
  /\ RxMoves(s, "forwarding", "receiving") \/ RxMoves(s, "finishing", "over")
  /\ UNCHANGED <<slotVars, handlerVars, gone, tx, holding, sent, providerVars, done>>

(* They raise on a connection that is broken, or breaks meanwhile.         *)
ForwardRaises(s) ==
  /\ RxMoves(s, "forwarding", "over") \/ RxMoves(s, "finishing", "over")
  /\ SetDone(s)
  /\ UNCHANGED <<slotVars, handlerVars, gone, tx, holding, sent, providerVars>>

(* A frame that is not binary.                                             *)
ReceiveRaises(s) ==
  /\ ~gone[s]
  /\ RxMoves(s, "receiving", "over")
  /\ SetDone(s)
  /\ UNCHANGED <<slotVars, handlerVars, gone, tx, holding, sent, providerVars>>

(* Mutation: the disconnect ends the task only.                            *)
BugEndsTaskOnly(s) == done
DoneBy(s) == [done EXCEPT ![s] = TRUE]

ReceiveDisconnect(s) ==
  /\ gone[s]
  /\ RxMoves(s, "receiving", "over")
  /\ done' = DoneBy(s)
  /\ UNCHANGED <<slotVars, handlerVars, gone, tx, holding, sent, providerVars>>

-----------------------------------------------------------------------------
(* send_to_frontend. Each round awaits a get() and done; a get() that is   *)
(* cancelled leaves its result in the queue.                               *)

TxMoves(s, from, to) == pc[s] = "running" /\ tx[s] = from /\ tx' = [tx EXCEPT ![s] = to]

Fetch(s) ==
  /\ queue[s] # <<>>
  /\ TxMoves(s, "waiting", "sending")
  /\ holding' = [holding EXCEPT ![s] = Head(queue[s])]
  /\ queue' = [queue EXCEPT ![s] = Tail(@)]
  /\ UNCHANGED <<slotVars, handlerVars, gone, rx, sent, loop, connected, spoken, dropped, done>>

(* Mutation: the task ends with the first result.                          *)
BugSendsOne == "over"
NextRound == "waiting"

SendResult(s) ==
  /\ TxMoves(s, "sending", NextRound)
  /\ sent' = [sent EXCEPT ![s] = Append(@, holding[s])]
  /\ holding' = [holding EXCEPT ![s] = 0]
  /\ UNCHANGED <<slotVars, handlerVars, gone, rx, providerVars, done>>

(* The browser is gone.                                                    *)
SendRaises(s) ==
  /\ gone[s]
  /\ TxMoves(s, "sending", "over")
  /\ SetDone(s)
  /\ UNCHANGED <<slotVars, handlerVars, gone, rx, holding, sent, providerVars>>

TxDrained(s) ==
  /\ done[s] /\ queue[s] = <<>>
  /\ TxMoves(s, "waiting", "over")
  /\ UNCHANGED <<slotVars, handlerVars, gone, rx, holding, sent, providerVars, done>>

-----------------------------------------------------------------------------
(* The browser, and the provider as the loop and its listener meet it.     *)

BrowserLeaves(s) ==
  /\ ~gone[s] /\ Inside(s)
  /\ gone' = [gone EXCEPT ![s] = TRUE]
  /\ UNCHANGED <<slotVars, handlerVars, taskVars, providerVars, done>>

LoopMoves(s, from, to) == loop[s] = from /\ loop' = [loop EXCEPT ![s] = to]

(* on_connect comes before the credentials.                                *)
ProviderConnects(s) ==
  /\ LoopMoves(s, "opening", "greeting")
  /\ connected' = [connected EXCEPT ![s] = TRUE]
  /\ UNCHANGED <<slotVars, handlerVars, gone, taskVars, queue, spoken, dropped, done>>

CredentialsSent(s) ==
  /\ LoopMoves(s, "greeting", "open")
  /\ UNCHANGED <<slotVars, handlerVars, gone, taskVars, connected, queue, spoken, dropped, done>>

(* connect raises: nothing sets done.                                      *)
LoopRaises(s) ==
  /\ LoopMoves(s, "opening", "failed") \/ LoopMoves(s, "greeting", "failed")
  /\ UNCHANGED <<slotVars, handlerVars, gone, taskVars, connected, queue, spoken, dropped, done>>

(* Mutations: the queue has no bound; a full queue loses its oldest.       *)
BugUnbounded(q, r)   == Append(q, r)
BugDropsOldest(q, r) == IF Len(q) < QueueSize THEN Append(q, r) ELSE Append(Tail(q), r)

(* put_nowait.                                                             *)
Offered(q, r) == IF Len(q) < QueueSize THEN Append(q, r) ELSE q

(* on_result.                                                              *)
ProviderSpeaks(s) ==
  LET r == spoken[s] + 1 IN
  /\ loop[s] = "open"
  /\ r \in Results
  /\ spoken' = [spoken EXCEPT ![s] = r]
  /\ queue' = [queue EXCEPT ![s] = Offered(@, r)]
  /\ dropped' = [dropped EXCEPT ![s] = IF Len(queue[s]) < QueueSize THEN @ ELSE @ \cup {r}]
  /\ UNCHANGED <<slotVars, handlerVars, gone, taskVars, loop, connected, done>>

(* on_error: the loop goes on.                                             *)
ProviderErrs(s) ==
  /\ loop[s] = "open" /\ ~done[s]
  /\ SetDone(s)
  /\ UNCHANGED <<slotVars, handlerVars, gone, taskVars, providerVars>>

(* on_close: the loop ends.                                                *)
ProviderCloses(s) ==
  /\ LoopMoves(s, "open", "ended")
  /\ SetDone(s)
  /\ UNCHANGED <<slotVars, handlerVars, gone, taskVars, connected, queue, spoken, dropped>>

-----------------------------------------------------------------------------
Handler(s) ==
  \/ Acquire(s) \/ Refuse(s)
  \/ Accept(s) \/ ClientRaises(s) \/ AcceptRaises(s)
  \/ Connected(s) \/ ConnectFails(s) \/ Abandon(s)
  \/ Stop(s) \/ Gathered(s) \/ Unhook(s) \/ Release(s) \/ Close(s)

Rx(s) == Forward(s) \/ ForwardRaises(s) \/ ReceiveDisconnect(s)
Tx(s) == Fetch(s) \/ SendResult(s) \/ SendRaises(s) \/ TxDrained(s)

Browser(s)  == BrowserLeaves(s) \/ Receive(s) \/ ReceiveRaises(s) \/ Reconnect(s)
Provider(s) ==
  \/ ProviderConnects(s) \/ CredentialsSent(s) \/ LoopRaises(s)
  \/ ProviderSpeaks(s) \/ ProviderErrs(s) \/ ProviderCloses(s)

SttNext == \E s \in Sessions : Handler(s) \/ Rx(s) \/ Tx(s) \/ Browser(s) \/ Provider(s)

SttSpec == SttInit /\ [][SttNext]_vars

(* The event loop runs every task that can go on. What is sent to the      *)
(* browser is taken or fails, as the server's keepalive ends a connection  *)
(* whose browser does not answer, and closing the provider's is bounded by *)
(* its library's timeout. Forward and ForwardRaises are not fair: a send   *)
(* to the provider has no timeout and ping_interval is None, so one that   *)
(* stays connected but stops reading keeps the receiving task for ever.    *)
(* Nothing is asked of the browser's or the provider's will.               *)
FairSttSpec ==
  /\ SttSpec
  /\ \A s \in Sessions :
       WF_vars(Handler(s)) /\ WF_vars(ReceiveDisconnect(s)) /\ WF_vars(Tx(s))

-----------------------------------------------------------------------------
(* Properties.                                                             *)

(* The tracker counts what it must: each session between acquire and       *)
(* release holds one slot of its user, nobody exceeds the limit, and the   *)
(* only slots that are lost are those of an accept that raised.            *)
SlotsAreCounted ==
  \A u \in Users :
    /\ connections[u] = leaked[u] + Cardinality({s \in Sessions : Inside(s) /\ user[s] = u})
    /\ connections[u] <= MaxConnections

(* No user has more connections to the provider than slots, although the   *)
(* slot is given back before the client is closed.                         *)
ProviderConnectionsAreBounded ==
  \A u \in Users :
    Cardinality({s \in Sessions : loop[s] \in LiveLoops /\ user[s] = u}) <= MaxConnections

Held(s) == IF holding[s] = 0 THEN <<>> ELSE <<holding[s]>>

(* While a session runs and its sending task does, every result is sent,   *)
(* being sent or queued, in the order the provider spoke, but for those    *)
(* that found the queue full.                                              *)
NothingIsLostWhileOpen ==
  \A s \in Sessions : pc[s] = "running" /\ tx[s] \in {"waiting", "sending"} =>
    LET all == sent[s] \o Held(s) \o queue[s] IN
    /\ \A i, j \in DOMAIN all : i < j => all[i] < all[j]
    /\ {all[i] : i \in DOMAIN all} = (1..spoken[s]) \ dropped[s]

(* The session has given back what it held.                                *)
Finished(s) ==
  /\ pc[s] \in {"new", "refused", "over"}
  /\ loop[s] \notin LiveLoops
  /\ rx[s] \in {"none", "over"} /\ tx[s] \in {"none", "over"}

(* Nobody notices that the browser leaves: the receiving task has handed a *)
(* frame to a provider that does not take it, or is over after the empty   *)
(* frame. Only the provider can end the session, and if its loop has       *)
(* raised, nothing does.                                                   *)
AwaitsProvider(s) == ~done[s] /\ rx[s] \in {"forwarding", "finishing", "over"}

(* A browser that goes away ends its session, and all it holds, unless the *)
(* receiving task awaits the provider at that moment and for ever after:   *)
(* while it is connecting, waiting for a frame, or back from the provider, *)
(* the provider has no say in it.                                          *)
BrowserEndsSession ==
  \A s \in Sessions : (gone[s] /\ ~AwaitsProvider(s)) ~> Finished(s)

(* So does a provider that fails or closes.                                *)
ProviderEndsSession == \A s \in Sessions : done[s] ~> Finished(s)

(* A result in the queue of a session reaches the browser, unless the      *)
(* session ends first.                                                     *)
TranscriptsArrive ==
  \A s \in Sessions, r \in Results :
    (pc[s] = "running" /\ \E i \in DOMAIN queue[s] : queue[s][i] = r)
      ~> (done[s] \/ Finished(s) \/ \E i \in DOMAIN sent[s] : sent[s][i] = r)
=============================================================================
