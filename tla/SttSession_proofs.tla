------------------------- MODULE SttSession_proofs -------------------------
(***************************************************************************)
(* Proofs about SttSession: the slots are counted, and the connections to  *)
(* the provider bounded, for any number of sessions, users and slots.      *)
(***************************************************************************)
EXTENDS SttSession, FiniteSetTheorems, SequenceTheorems, TLAPS

(* The sessions that hold a slot of u, and those with a live loop.         *)
Slots(u) == {s \in Sessions : Inside(s) /\ user[s] = u}
Loops(u) == {s \in Sessions : loop[s] \in LiveLoops /\ user[s] = u}

PlaceType ==
  /\ pc \in [Sessions -> Stages] /\ user \in [Sessions -> Users]
  /\ loop \in [Sessions -> {"none", "failed", "ended"} \cup LiveLoops]

CountType == connections \in [Users -> Nat] /\ leaked \in [Users -> Nat]

Counted ==
  \A u \in Users :
    connections[u] = leaked[u] + Cardinality(Slots(u)) /\ connections[u] <= MaxConnections

(* The loop lives only while the handler can still cancel it before it     *)
(* gives the slot back.                                                    *)
LoopStages == {"connecting", "abandoning", "running", "stopping", "unhooking"}
LoopInside == \A s \in Sessions : loop[s] \in LiveLoops => pc[s] \in LoopStages

SlotInv == PlaceType /\ CountType /\ Counted /\ LoopInside

-----------------------------------------------------------------------------
LEMMA SlotsAreFinite ==
  ASSUME NEW u \in Users
  PROVE  IsFiniteSet(Slots(u)) /\ Cardinality(Slots(u)) \in Nat
<1>1. IsFiniteSet(Slots(u))
  BY SessionAssumption, FS_Subset DEF Slots
<1>. QED
  BY <1>1, FS_CardinalityType

(* A step in which s comes or goes changes the slots of its own user only. *)
LEMMA Entered ==
  ASSUME PlaceType, NEW s \in Sessions, ~Inside(s), UNCHANGED user,
         pc' = [pc EXCEPT ![s] = "accepting"], NEW u \in Users
  PROVE  Cardinality(Slots(u))' = IF u = user[s] THEN Cardinality(Slots(u)) + 1
                                                 ELSE Cardinality(Slots(u))
<1>1. Slots(u)' = IF u = user[s] THEN Slots(u) \cup {s} ELSE Slots(u)
  BY DEF Slots, Inside, InsideStages, PlaceType
<1>2. s \notin Slots(u)
  BY DEF Slots
<1>. QED
  BY <1>1, <1>2, SlotsAreFinite, FS_AddElement

LEMMA Left ==
  ASSUME PlaceType, NEW s \in Sessions, Inside(s), UNCHANGED user,
         NEW stage, stage \notin InsideStages, pc' = [pc EXCEPT ![s] = stage], NEW u \in Users
  PROVE  /\ Cardinality(Slots(u))' = IF u = user[s] THEN Cardinality(Slots(u)) - 1
                                                    ELSE Cardinality(Slots(u))
         /\ u = user[s] => Cardinality(Slots(u)) > 0
<1>1. Slots(u)' = IF u = user[s] THEN Slots(u) \ {s} ELSE Slots(u)
  BY DEF Slots, Inside, PlaceType
<1>2. CASE u = user[s]
  <2>1. s \in Slots(u)
    BY <1>2 DEF Slots
  <2>2. Cardinality(Slots(u) \ {s}) = Cardinality(Slots(u)) - 1
    BY <2>1, SlotsAreFinite, FS_RemoveElement
  <2>3. IsFiniteSet(Slots(u) \ {s})
    BY SlotsAreFinite, FS_RemoveElement
  <2>4. Cardinality(Slots(u) \ {s}) \in Nat
    BY <2>3, FS_CardinalityType
  <2>. QED
    BY <1>1, <1>2, <2>2, <2>4, SlotsAreFinite
<1>. QED
  BY <1>1, <1>2

(* A step that neither gives nor takes a slot.                             *)
LEMMA Stayed ==
  ASSUME SlotInv, UNCHANGED slotVars, PlaceType', LoopInside',
         \A s \in Sessions : Inside(s)' = Inside(s) /\ (Inside(s) => user'[s] = user[s])
  PROVE  SlotInv'
<1>1. \A u \in Users : Slots(u)' = Slots(u)
  BY DEF Slots
<1>. QED
  BY <1>1 DEF SlotInv, CountType, Counted, slotVars

-----------------------------------------------------------------------------
LEMMA InitSlots ==
  ASSUME SttInit
  PROVE  SlotInv
<1>1. PlaceType /\ CountType /\ LoopInside
  BY DEF SttInit, PlaceType, CountType, LoopInside, LiveLoops, Stages
<1>2. \A u \in Users : Slots(u) = {}
  BY DEF SttInit, Slots, Inside, InsideStages
<1>3. Counted
  <2>1. Cardinality({}) = 0
    BY FS_EmptySet
  <2>2. connections = [u \in Users |-> 0] /\ leaked = [u \in Users |-> 0]
    BY DEF SttInit
  <2>. QED
    BY <1>2, <2>1, <2>2, SessionAssumption DEF Counted
<1>. QED
  BY <1>1, <1>3 DEF SlotInv

LEMMA AcquireSlots ==
  ASSUME SlotInv, NEW s \in Sessions, Acquire(s)
  PROVE  SlotInv'
<1>1. /\ pc[s] = "new" /\ pc' = [pc EXCEPT ![s] = "accepting"]
      /\ connections' = [connections EXCEPT ![user[s]] = @ + 1]
      /\ connections[user[s]] < MaxConnections
      /\ UNCHANGED <<leaked, user, loop>>
  BY DEF Acquire, Proceed, HasRoom, providerVars
<1>2. PlaceType /\ PlaceType' /\ LoopInside'
  BY <1>1 DEF SlotInv, PlaceType, LoopInside, LoopStages, Stages, InsideStages
<1>3. ~Inside(s) /\ user[s] \in Users
  BY <1>1, <1>2 DEF Inside, InsideStages, PlaceType
<1>4. CountType'
  BY <1>1, <1>3 DEF SlotInv, CountType
<1>5. ASSUME NEW u \in Users
      PROVE  /\ connections'[u] = leaked'[u] + Cardinality(Slots(u))'
             /\ connections'[u] <= MaxConnections
  <2>1. Cardinality(Slots(u))' = IF u = user[s] THEN Cardinality(Slots(u)) + 1
                                                ELSE Cardinality(Slots(u))
    BY <1>1, <1>2, <1>3, Entered
  <2>2. Cardinality(Slots(u)) \in Nat
    BY SlotsAreFinite
  <2>. QED
    BY <1>1, <1>3, <2>1, <2>2, SessionAssumption DEF SlotInv, Counted, CountType
<1>. QED
  BY <1>2, <1>4, <1>5 DEF SlotInv, Counted

LEMMA AcceptRaisesSlots ==
  ASSUME SlotInv, NEW s \in Sessions, AcceptRaises(s)
  PROVE  SlotInv'
<1>1. /\ pc[s] = "accepting" /\ pc' = [pc EXCEPT ![s] = "over"]
      /\ leaked' = [leaked EXCEPT ![user[s]] = @ + 1]
      /\ UNCHANGED <<connections, user, loop>>
  BY DEF AcceptRaises, Proceed, providerVars
<1>2. PlaceType /\ PlaceType' /\ LoopInside'
  BY <1>1 DEF SlotInv, PlaceType, LoopInside, LoopStages, Stages, InsideStages
<1>3. Inside(s) /\ user[s] \in Users /\ "over" \notin InsideStages
  BY <1>1, <1>2 DEF Inside, InsideStages, PlaceType
<1>4. CountType'
  BY <1>1, <1>3 DEF SlotInv, CountType
<1>5. ASSUME NEW u \in Users
      PROVE  /\ connections'[u] = leaked'[u] + Cardinality(Slots(u))'
             /\ connections'[u] <= MaxConnections
  <2>1. Cardinality(Slots(u))' = IF u = user[s] THEN Cardinality(Slots(u)) - 1
                                                ELSE Cardinality(Slots(u))
    BY <1>1, <1>2, <1>3, Left
  <2>2. Cardinality(Slots(u)) \in Nat
    BY SlotsAreFinite
  <2>. QED
    BY <1>1, <1>3, <2>1, <2>2 DEF SlotInv, Counted, CountType
<1>. QED
  BY <1>2, <1>4, <1>5 DEF SlotInv, Counted

LEMMA ReleaseSlots ==
  ASSUME SlotInv, NEW s \in Sessions, Release(s)
  PROVE  SlotInv'
<1>1. /\ pc[s] = "releasing" /\ pc' = [pc EXCEPT ![s] = "closing"]
      /\ connections' = [connections EXCEPT ![user[s]] = IF @ > 0 THEN @ - 1 ELSE 0]
      /\ UNCHANGED <<leaked, user, loop>>
  BY DEF Release, Proceed, providerVars
<1>2. PlaceType /\ PlaceType' /\ LoopInside'
  BY <1>1 DEF SlotInv, PlaceType, LoopInside, LoopStages, Stages, InsideStages
<1>3. Inside(s) /\ user[s] \in Users /\ "closing" \notin InsideStages
  BY <1>1, <1>2 DEF Inside, InsideStages, PlaceType
<1>4. CountType'
  BY <1>1, <1>3 DEF SlotInv, CountType
<1>5. ASSUME NEW u \in Users
      PROVE  /\ connections'[u] = leaked'[u] + Cardinality(Slots(u))'
             /\ connections'[u] <= MaxConnections
  <2>1. /\ Cardinality(Slots(u))' = IF u = user[s] THEN Cardinality(Slots(u)) - 1
                                                   ELSE Cardinality(Slots(u))
        /\ u = user[s] => Cardinality(Slots(u)) > 0
    BY <1>1, <1>2, <1>3, Left
  <2>2. Cardinality(Slots(u)) \in Nat
    BY SlotsAreFinite
  <2>. QED
    BY <1>1, <1>3, <2>1, <2>2, SessionAssumption DEF SlotInv, Counted, CountType
<1>. QED
  BY <1>2, <1>4, <1>5 DEF SlotInv, Counted

(* The handler's other steps keep their place inside, or outside.          *)
LEMMA HandlerSlots ==
  ASSUME SlotInv, NEW s \in Sessions, Handler(s)
  PROVE  SlotInv'
<1>1. CASE Refuse(s) \/ Accept(s) \/ ClientRaises(s)
  <2>1. UNCHANGED slotVars /\ UNCHANGED user
    BY <1>1 DEF Refuse, Accept, ClientRaises
  <2>2. PlaceType' /\ LoopInside'
    BY <1>1 DEF Refuse, Accept, ClientRaises, Proceed, providerVars, SlotInv, PlaceType, LoopInside,
                LoopStages, LiveLoops, Stages, InsideStages
  <2>3. \A t \in Sessions : Inside(t)' = Inside(t)
    BY <1>1 DEF Refuse, Accept, ClientRaises, Proceed, SlotInv, PlaceType, Inside, InsideStages
  <2>. QED
    BY <2>1, <2>2, <2>3, Stayed
<1>2. CASE Connected(s) \/ ConnectFails(s) \/ Abandon(s)
  <2>1. UNCHANGED slotVars /\ UNCHANGED user
    BY <1>2 DEF Connected, ConnectFails, Abandon
  <2>2. PlaceType' /\ LoopInside'
    BY <1>2 DEF Connected, ConnectFails, Abandon, Cancelled, Proceed, providerVars, SlotInv,
                PlaceType, LoopInside, LoopStages, LiveLoops, Stages, InsideStages
  <2>3. \A t \in Sessions : Inside(t)' = Inside(t)
    BY <1>2 DEF Connected, ConnectFails, Abandon, Proceed, SlotInv, PlaceType, Inside, InsideStages
  <2>. QED
    BY <2>1, <2>2, <2>3, Stayed
<1>3. CASE Stop(s) \/ Gathered(s) \/ Unhook(s) \/ Close(s)
  <2>1. UNCHANGED slotVars /\ UNCHANGED user
    BY <1>3 DEF Stop, Gathered, Unhook, Close
  <2>2. PlaceType' /\ LoopInside'
    BY <1>3 DEF Stop, Gathered, Unhook, Unhooked, Close, Cancelled, Proceed, providerVars, SlotInv,
                PlaceType, LoopInside, LoopStages, LiveLoops, Stages, InsideStages
  <2>3. \A t \in Sessions : Inside(t)' = Inside(t)
    BY <1>3 DEF Stop, Gathered, Unhook, Close, Proceed, SlotInv, PlaceType, Inside, InsideStages
  <2>. QED
    BY <2>1, <2>2, <2>3, Stayed
<1>. QED
  BY <1>1, <1>2, <1>3, AcquireSlots, AcceptRaisesSlots, ReleaseSlots DEF Handler

LEMMA OtherSlots ==
  ASSUME SlotInv, NEW s \in Sessions, Rx(s) \/ Tx(s) \/ Browser(s) \/ Provider(s)
  PROVE  SlotInv'
<1>1. CASE Reconnect(s)
  <2>1. UNCHANGED slotVars /\ ~Inside(s) /\ ~Inside(s)'
        /\ \A t \in Sessions \ {s} : pc'[t] = pc[t] /\ user'[t] = user[t]
    BY <1>1 DEF Reconnect, Proceed, Inside, InsideStages, SlotInv, PlaceType
  <2>2. PlaceType' /\ LoopInside'
    BY <1>1 DEF Reconnect, Proceed, SlotInv, PlaceType, LoopInside, LoopStages, LiveLoops, Stages,
                InsideStages
  <2>. QED
    BY <2>1, <2>2, Stayed DEF Inside
<1>2. CASE UNCHANGED <<slotVars, handlerVars>> /\ \/ UNCHANGED loop
                                                  \/ /\ loop[s] \in LiveLoops
                                                     /\ \E to \in {"failed", "ended"} \cup LiveLoops :
                                                          loop' = [loop EXCEPT ![s] = to]
  <2>1. UNCHANGED <<slotVars, pc, user>>
    BY <1>2 DEF handlerVars
  <2>2. PlaceType' /\ LoopInside'
    BY <1>2, <2>1 DEF SlotInv, PlaceType, LoopInside, LiveLoops
  <2>. QED
    BY <2>1, <2>2, Stayed DEF Inside
<1>3. CASE Rx(s) \/ Tx(s) \/ BrowserLeaves(s) \/ Receive(s) \/ ReceiveRaises(s)
  <2>1. UNCHANGED <<slotVars, handlerVars, loop>>
    BY <1>3 DEF Rx, Tx, BrowserLeaves, Receive, ReceiveRaises, Forward, ForwardRaises,
                ReceiveDisconnect, Fetch, SendResult, SendRaises, TxDrained, providerVars
  <2>. QED
    BY <2>1, <1>2
<1>4. CASE Provider(s)
  <2>1. UNCHANGED <<slotVars, handlerVars>>
    BY <1>4 DEF Provider, ProviderConnects, CredentialsSent, LoopRaises, ProviderSpeaks,
                ProviderErrs, ProviderCloses
  <2>2. \/ UNCHANGED loop
        \/ /\ loop[s] \in LiveLoops
           /\ \E to \in {"failed", "ended"} \cup LiveLoops : loop' = [loop EXCEPT ![s] = to]
    BY <1>4 DEF Provider, ProviderConnects, CredentialsSent, LoopRaises, ProviderSpeaks,
                ProviderErrs, ProviderCloses, LoopMoves, LiveLoops, providerVars
  <2>. QED
    BY <2>1, <2>2, <1>2
<1>. QED
  BY <1>1, <1>3, <1>4 DEF Browser

LEMMA SlotsInvariant == SttSpec => []SlotInv
<1>1. SlotInv /\ [SttNext]_vars => SlotInv'
  <2> SUFFICES ASSUME SlotInv, [SttNext]_vars
               PROVE  SlotInv'
    OBVIOUS
  <2>1. CASE UNCHANGED vars
    <3>1. UNCHANGED <<slotVars, pc, user, loop>>
      BY <2>1 DEF vars, handlerVars, providerVars
    <3>. QED
      BY <3>1, Stayed DEF SlotInv, PlaceType, LoopInside, Inside
  <2>. QED
    BY <2>1, HandlerSlots, OtherSlots DEF SttNext
<1>. QED
  BY <1>1, InitSlots, PTL DEF SttSpec

-----------------------------------------------------------------------------
(* limiter.py: each session between acquire and release holds one slot of  *)
(* its user, nobody exceeds the limit, and the only slots that are lost    *)
(* are those of an accept that raised.                                     *)
THEOREM SlotsHold == SttSpec => []SlotsAreCounted
<1>1. SlotInv => SlotsAreCounted
  BY DEF SlotInv, Counted, Slots, SlotsAreCounted
<1>. QED
  BY <1>1, SlotsInvariant, PTL

(* chat.py: no user has more connections to the provider than slots.       *)
THEOREM LoopsAreBounded == SttSpec => []ProviderConnectionsAreBounded
<1>1. ASSUME SlotInv, NEW u \in Users
      PROVE  Cardinality(Loops(u)) <= MaxConnections
  <2>1. Loops(u) \subseteq Slots(u)
    BY <1>1 DEF Loops, Slots, SlotInv, LoopInside, LoopStages, Inside, InsideStages
  <2>2. Cardinality(Loops(u)) <= Cardinality(Slots(u)) /\ IsFiniteSet(Loops(u))
    BY <2>1, SlotsAreFinite, FS_Subset
  <2>3. Cardinality(Loops(u)) \in Nat /\ Cardinality(Slots(u)) \in Nat
    BY <2>2, SlotsAreFinite, FS_CardinalityType
  <2>. QED
    BY <1>1, <2>2, <2>3, SessionAssumption DEF SlotInv, Counted, CountType
<1>2. SlotInv => ProviderConnectionsAreBounded
  BY <1>1 DEF ProviderConnectionsAreBounded, Loops
<1>. QED
  BY <1>2, SlotsInvariant, PTL

-----------------------------------------------------------------------------
(* The tasks' variables, and where a result can be held.                   *)
FlagsType ==
  /\ gone \in [Sessions -> BOOLEAN]
  /\ rx \in [Sessions -> {"none", "receiving", "forwarding", "finishing", "over"}]
  /\ tx \in [Sessions -> {"none", "waiting", "sending", "over"}]
  /\ connected \in [Sessions -> BOOLEAN] /\ done \in [Sessions -> BOOLEAN]

ResultsType ==
  /\ queue \in [Sessions -> Seq(Results)] /\ \A s \in Sessions : Len(queue[s]) <= QueueSize
  /\ holding \in [Sessions -> {0} \cup Results]
  /\ spoken \in [Sessions -> 0..MaxResults]
  /\ sent \in [Sessions -> Seq(Results)]
  /\ dropped \in [Sessions -> SUBSET Results]

(* A result is only held where the sending task can be cancelled with it.  *)
HoldingFits ==
  \A s \in Sessions :
    /\ tx[s] \in {"waiting", "sending"} => pc[s] \in {"running", "stopping"}
    /\ pc[s] \in {"new", "refused", "over", "accepting", "connecting"} => holding[s] = 0
    /\ tx[s] = "waiting" => holding[s] = 0
    /\ tx[s] = "sending" => holding[s] # 0

TasksInv == PlaceType /\ FlagsType /\ ResultsType /\ HoldingFits

resultVars == <<queue, holding, spoken, sent, dropped>>

LEMMA InitTasks ==
  ASSUME SttInit
  PROVE  FlagsType /\ ResultsType /\ HoldingFits
<1>1. FlagsType /\ HoldingFits
  BY DEF SttInit, FlagsType, HoldingFits
<1>2. queue \in [Sessions -> Seq(Results)] /\ \A s \in Sessions : Len(queue[s]) <= QueueSize
  <2>1. <<>> \in Seq(Results) /\ Len(<<>>) = 0
    BY EmptySeq
  <2>2. queue = [s \in Sessions |-> <<>>]
    BY DEF SttInit
  <2>. QED
    BY <2>1, <2>2, SessionAssumption
<1>3. sent \in [Sessions -> Seq(Results)]
  <2>1. <<>> \in Seq(Results)
    BY EmptySeq
  <2>2. sent = [s \in Sessions |-> <<>>]
    BY DEF SttInit
  <2>. QED
    BY <2>1, <2>2
<1>4. /\ holding \in [Sessions -> {0} \cup Results] /\ spoken \in [Sessions -> 0..MaxResults]
      /\ dropped \in [Sessions -> SUBSET Results]
  BY SessionAssumption DEF SttInit
<1>. QED
  BY <1>1, <1>2, <1>3, <1>4 DEF ResultsType

(* The handler's steps but Close touch no result.                          *)
LEMMA HandlerTasks ==
  ASSUME TasksInv, NEW s \in Sessions, Handler(s), ~Close(s)
  PROVE  FlagsType' /\ HoldingFits' /\ UNCHANGED resultVars
<1>1. CASE Acquire(s) \/ Refuse(s) \/ Accept(s) \/ ClientRaises(s) \/ AcceptRaises(s)
  BY <1>1 DEF Acquire, Refuse, Accept, ClientRaises, AcceptRaises, Proceed, taskVars, providerVars,
              TasksInv, PlaceType, FlagsType, HoldingFits, Stages, InsideStages, resultVars
<1>2. CASE Connected(s) \/ ConnectFails(s) \/ Abandon(s)
  BY <1>2 DEF Connected, ConnectFails, Abandon, SetDone, Proceed, taskVars, providerVars,
              TasksInv, PlaceType, FlagsType, HoldingFits, Stages, InsideStages, resultVars
<1>3. CASE Stop(s) \/ Gathered(s) \/ Unhook(s) \/ Release(s)
  BY <1>3 DEF Stop, Gathered, Unhook, Release, Proceed, taskVars, providerVars,
              TasksInv, PlaceType, FlagsType, HoldingFits, Stages, InsideStages, resultVars
<1>. QED
  BY <1>1, <1>2, <1>3 DEF Handler

LEMMA CloseTasks ==
  ASSUME TasksInv, NEW s \in Sessions, Close(s)
  PROVE  FlagsType' /\ ResultsType' /\ HoldingFits'
<1>1. /\ pc[s] = "closing" /\ pc' = [pc EXCEPT ![s] = "over"] /\ Dropped(s)
      /\ done' = [done EXCEPT ![s] = @ \/ tx[s] = "over"] /\ UNCHANGED <<rx, tx>>
  BY DEF Close, Proceed
<1>2. gone' \in [Sessions -> BOOLEAN] /\ connected' \in [Sessions -> BOOLEAN]
  BY <1>1 DEF Dropped, TasksInv, FlagsType
<1>3. done' \in [Sessions -> BOOLEAN]
  <2>1. (done[s] \/ tx[s] = "over") \in BOOLEAN
    OBVIOUS
  <2>. QED
    BY <1>1, <2>1 DEF TasksInv, FlagsType
<1>4. FlagsType'
  BY <1>1, <1>2, <1>3 DEF TasksInv, FlagsType
<1>5. HoldingFits'
  BY <1>1 DEF Dropped, TasksInv, PlaceType, FlagsType, ResultsType, HoldingFits
<1>6. <<>> \in Seq(Results) /\ Len(<<>>) = 0
  BY EmptySeq
<1>7. ResultsType'
  BY <1>1, <1>6, SessionAssumption DEF Dropped, TasksInv, ResultsType
<1>. QED
  BY <1>4, <1>5, <1>7

(* Neither do the receiving task, and what the browser does.               *)
LEMMA RxTasks ==
  ASSUME TasksInv, NEW s \in Sessions, Rx(s) \/ Browser(s)
  PROVE  FlagsType' /\ HoldingFits' /\ UNCHANGED resultVars
<1>1. CASE Rx(s)
  BY <1>1 DEF Rx, Forward, ForwardRaises, ReceiveDisconnect, DoneBy, SetDone, RxMoves, providerVars,
              handlerVars, TasksInv, PlaceType, FlagsType, HoldingFits, resultVars
<1>2. CASE BrowserLeaves(s) \/ Receive(s) \/ ReceiveRaises(s)
  BY <1>2 DEF BrowserLeaves, Receive, ReceiveRaises, SetDone, RxMoves, providerVars, taskVars,
              handlerVars, TasksInv, PlaceType, FlagsType, HoldingFits, resultVars
<1>3. CASE Reconnect(s)
  BY <1>3 DEF Reconnect, Proceed, TasksInv, PlaceType, FlagsType, HoldingFits, resultVars
<1>. QED
  BY <1>1, <1>2, <1>3 DEF Browser

LEMMA TxTasks ==
  ASSUME TasksInv, NEW s \in Sessions, Tx(s)
  PROVE  FlagsType' /\ ResultsType' /\ HoldingFits'
<1>1. CASE Fetch(s)
  <2>1. /\ queue[s] # <<>> /\ pc[s] = "running" /\ tx[s] = "waiting"
        /\ tx' = [tx EXCEPT ![s] = "sending"]
        /\ holding' = [holding EXCEPT ![s] = Head(queue[s])]
        /\ queue' = [queue EXCEPT ![s] = Tail(@)]
        /\ UNCHANGED <<pc, gone, rx, sent, connected, spoken, dropped, done>>
    BY <1>1 DEF Fetch, TxMoves, handlerVars
  <2>2. queue[s] \in Seq(Results) /\ Len(queue[s]) <= QueueSize /\ Len(queue[s]) \in Nat
    BY LenProperties DEF TasksInv, ResultsType
  <2>3. /\ Head(queue[s]) \in Results /\ Tail(queue[s]) \in Seq(Results)
        /\ Len(Tail(queue[s])) = Len(queue[s]) - 1
    BY <2>1, <2>2, HeadTailProperties
  <2>4. Head(queue[s]) # 0
    BY <2>3, SessionAssumption DEF Results
  <2>5. FlagsType' /\ HoldingFits'
    BY <2>1, <2>4 DEF TasksInv, PlaceType, FlagsType, ResultsType, HoldingFits
  <2>6. Len(Tail(queue[s])) <= QueueSize
    BY <2>2, <2>3, SessionAssumption
  <2>7. ResultsType'
    BY <2>1, <2>3, <2>6 DEF TasksInv, ResultsType
  <2>. QED
    BY <2>5, <2>7
<1>2. CASE SendResult(s)
  <2>1. /\ pc[s] = "running" /\ tx[s] = "sending" /\ tx' = [tx EXCEPT ![s] = "waiting"]
        /\ sent' = [sent EXCEPT ![s] = Append(@, holding[s])]
        /\ holding' = [holding EXCEPT ![s] = 0]
        /\ UNCHANGED <<pc, gone, rx, queue, connected, spoken, dropped, done>>
    BY <1>2 DEF SendResult, NextRound, TxMoves, handlerVars, providerVars
  <2>2. holding[s] \in Results /\ sent[s] \in Seq(Results)
    BY <2>1 DEF TasksInv, HoldingFits, ResultsType
  <2>3. Append(sent[s], holding[s]) \in Seq(Results)
    BY <2>2, AppendProperties
  <2>4. FlagsType' /\ HoldingFits'
    BY <2>1 DEF TasksInv, PlaceType, FlagsType, ResultsType, HoldingFits
  <2>5. ResultsType'
    BY <2>1, <2>3 DEF TasksInv, ResultsType
  <2>. QED
    BY <2>4, <2>5
<1>3. CASE SendRaises(s) \/ TxDrained(s)
  BY <1>3 DEF SendRaises, TxDrained, SetDone, TxMoves, handlerVars, providerVars,
              TasksInv, PlaceType, FlagsType, ResultsType, HoldingFits
<1>. QED
  BY <1>1, <1>2, <1>3 DEF Tx

LEMMA ProviderTasks ==
  ASSUME TasksInv, NEW s \in Sessions, Provider(s)
  PROVE  FlagsType' /\ ResultsType' /\ HoldingFits'
<1>1. CASE ProviderSpeaks(s)
  <2> DEFINE r == spoken[s] + 1
  <2>1. /\ r \in Results /\ spoken' = [spoken EXCEPT ![s] = r]
        /\ queue' = [queue EXCEPT ![s] = Offered(@, r)]
        /\ dropped' = [dropped EXCEPT ![s] = IF Len(queue[s]) < QueueSize THEN @ ELSE @ \cup {r}]
        /\ UNCHANGED <<pc, gone, rx, tx, holding, sent, connected, done>>
    BY <1>1 DEF ProviderSpeaks, handlerVars, taskVars
  <2>2. queue[s] \in Seq(Results) /\ Len(queue[s]) <= QueueSize /\ Len(queue[s]) \in Nat
    BY LenProperties DEF TasksInv, ResultsType
  <2>3. Append(queue[s], r) \in Seq(Results) /\ Len(Append(queue[s], r)) = Len(queue[s]) + 1
    BY <2>1, <2>2, AppendProperties
  <2>4. Offered(queue[s], r) \in Seq(Results) /\ Len(Offered(queue[s], r)) <= QueueSize
    BY <2>2, <2>3, SessionAssumption DEF Offered
  <2>5. r \in 0..MaxResults
    BY <2>1 DEF Results
  <2> HIDE DEF r
  <2>6. ResultsType'
    BY <2>1, <2>4, <2>5 DEF TasksInv, ResultsType
  <2>. QED
    BY <2>1, <2>6 DEF TasksInv, FlagsType, HoldingFits
<1>2. CASE ~ProviderSpeaks(s)
  <2>1. UNCHANGED <<resultVars, pc, gone, rx, tx>>
    BY <1>2 DEF Provider, ProviderConnects, CredentialsSent, LoopRaises, ProviderErrs,
                ProviderCloses, handlerVars, taskVars, providerVars, resultVars
  <2>2. connected' \in [Sessions -> BOOLEAN] /\ done' \in [Sessions -> BOOLEAN]
    BY <1>2 DEF Provider, ProviderConnects, CredentialsSent, LoopRaises, ProviderErrs,
                ProviderCloses, SetDone, providerVars, TasksInv, FlagsType
  <2>. QED
    BY <2>1, <2>2 DEF TasksInv, FlagsType, ResultsType, HoldingFits, resultVars
<1>. QED
  BY <1>1, <1>2

LEMMA NextTasks ==
  ASSUME TasksInv, PlaceType', [SttNext]_vars
  PROVE  TasksInv'
<1>1. ASSUME FlagsType', HoldingFits', UNCHANGED resultVars
      PROVE  TasksInv'
  BY <1>1 DEF TasksInv, ResultsType, resultVars
<1>2. CASE UNCHANGED vars
  <2>1. UNCHANGED <<resultVars, pc, gone, rx, tx, connected, done>>
    BY <1>2 DEF vars, handlerVars, taskVars, providerVars, resultVars
  <2>. QED
    BY <1>1, <2>1 DEF TasksInv, FlagsType, HoldingFits, resultVars
<1>3. ASSUME NEW s \in Sessions, Handler(s) \/ Rx(s) \/ Browser(s)
      PROVE  TasksInv'
  BY <1>1, <1>3, HandlerTasks, CloseTasks, RxTasks DEF TasksInv
<1>4. ASSUME NEW s \in Sessions, Tx(s) \/ Provider(s)
      PROVE  TasksInv'
  BY <1>4, TxTasks, ProviderTasks DEF TasksInv
<1>. QED
  BY <1>2, <1>3, <1>4 DEF SttNext

LEMMA TasksInvariant == SttSpec => [](SlotInv /\ TasksInv)
<1>1. SttInit => SlotInv /\ TasksInv
  BY InitSlots, InitTasks DEF SlotInv, TasksInv
<1>2. TasksInv /\ SlotInv' /\ [SttNext]_vars => TasksInv'
  BY NextTasks DEF SlotInv
<1>. QED
  BY <1>1, <1>2, SlotsInvariant, PTL DEF SttSpec

(* Every variable keeps its type, and the queue its bound.                 *)
THEOREM SttTypeCorrect == SttSpec => []SttTypeOK
<1>1. ASSUME SlotInv, TasksInv
      PROVE  SttTypeOK
  <2>1. ASSUME NEW u \in Users
        PROVE  connections[u] \in 0..MaxConnections /\ leaked[u] \in 0..MaxConnections
    <3>1. /\ connections[u] \in Nat /\ leaked[u] \in Nat
          /\ connections[u] = leaked[u] + Cardinality(Slots(u)) /\ connections[u] <= MaxConnections
      BY <1>1 DEF SlotInv, CountType, Counted
    <3>2. Cardinality(Slots(u)) \in Nat
      BY SlotsAreFinite
    <3>. QED
      BY <3>1, <3>2, SessionAssumption
  <2>2. connections \in [Users -> 0..MaxConnections] /\ leaked \in [Users -> 0..MaxConnections]
    BY <1>1, <2>1 DEF SlotInv, CountType
  <2>. QED
    BY <1>1, <2>2 DEF TasksInv, PlaceType, FlagsType, ResultsType, SttTypeOK
<1>. QED
  BY <1>1, TasksInvariant, PTL

-----------------------------------------------------------------------------
(* All that the provider said and that is not dropped, in order: what was  *)
(* sent, what is being sent, and what is queued.                           *)
Line(s) == sent[s] \o Held(s) \o queue[s]

InLine(all, n, lost) ==
  /\ \A i, j \in DOMAIN all : i < j => all[i] < all[j]
  /\ {all[i] : i \in DOMAIN all} = (1..n) \ lost

LineInv ==
  \A s \in Sessions : InLine(Line(s), spoken[s], dropped[s]) /\ dropped[s] \subseteq 1..spoken[s]

LEMMA NothingInLine == <<>> \o <<>> \o <<>> = <<>> /\ InLine(<<>>, 0, {})
<1>1. <<>> \o <<>> = <<>>
  <2>1. <<>> \in Seq(Nat)
    BY EmptySeq
  <2>. QED
    BY <2>1, ConcatEmptySeq
<1>2. DOMAIN <<>> = {} /\ 1..0 = {}
  OBVIOUS
<1>3. InLine(<<>>, 0, {})
  BY <1>2 DEF InLine
<1>. QED
  BY <1>1, <1>3

(* A later result goes behind all others.                                  *)
LEMMA NextInLine ==
  ASSUME NEW n \in Nat, NEW lost \in SUBSET (1..n), NEW all \in Seq(Nat), InLine(all, n, lost)
  PROVE  InLine(Append(all, n + 1), n + 1, lost)
<1> DEFINE more == Append(all, n + 1)
<1>1. /\ Len(all) \in Nat /\ DOMAIN all = 1..Len(all)
      /\ more \in Seq(Nat) /\ Len(more) = Len(all) + 1
      /\ DOMAIN more = 1..Len(all) + 1
      /\ \A i \in 1..Len(all) : more[i] = all[i]
      /\ more[Len(all) + 1] = n + 1
  <2>1. n + 1 \in Nat
    OBVIOUS
  <2>. QED
    BY <2>1, LenProperties, AppendProperties
<1>2. \A i \in 1..Len(all) : all[i] \in 1..n
  BY <1>1 DEF InLine
<1> HIDE DEF more
<1>3. ASSUME NEW i \in DOMAIN more, NEW j \in DOMAIN more, i < j
      PROVE  more[i] < more[j]
  <2>1. i \in 1..Len(all) /\ more[i] = all[i]
    BY <1>1, <1>3
  <2>2. CASE j \in 1..Len(all)
    BY <1>1, <1>3, <2>1, <2>2 DEF InLine
  <2>3. CASE j = Len(all) + 1
    BY <1>1, <1>2, <2>1, <2>3
  <2>. QED
    BY <1>1, <2>2, <2>3
<1>4. {more[i] : i \in DOMAIN more} = {all[i] : i \in DOMAIN all} \cup {n + 1}
  BY <1>1
<1>5. (1..n + 1) \ lost = ((1..n) \ lost) \cup {n + 1}
  OBVIOUS
<1>6. {all[i] : i \in DOMAIN all} = (1..n) \ lost
  BY DEF InLine
<1>. QED
  BY <1>3, <1>4, <1>5, <1>6 DEF InLine, more

(* A result that is dropped is missing, and nothing else changes.          *)
LEMMA LostInLine ==
  ASSUME NEW n \in Nat, NEW lost \in SUBSET (1..n), NEW all, InLine(all, n, lost)
  PROVE  InLine(all, n + 1, lost \cup {n + 1})
<1>1. (1..n + 1) \ (lost \cup {n + 1}) = (1..n) \ lost
  OBVIOUS
<1>. QED
  BY <1>1 DEF InLine

LEMMA HeldType ==
  ASSUME TasksInv, NEW s \in Sessions
  PROVE  /\ Held(s) \in Seq(Results) /\ sent[s] \in Seq(Results) /\ queue[s] \in Seq(Results)
         /\ Line(s) \in Seq(Results) /\ Line(s) \in Seq(Nat)
<1>1. holding[s] = 0 \/ holding[s] \in Results
  BY DEF TasksInv, ResultsType
<1>2. Held(s) \in Seq(Results)
  BY <1>1, EmptySeq DEF Held
<1>3. sent[s] \in Seq(Results) /\ queue[s] \in Seq(Results)
  BY DEF TasksInv, ResultsType
<1>4. Line(s) \in Seq(Results)
  BY <1>2, <1>3, ConcatProperties DEF Line
<1>5. Results \subseteq Nat
  BY SessionAssumption DEF Results
<1>. QED
  BY <1>2, <1>3, <1>4, <1>5, SeqMonotonic

(* Of the other sessions a step changes nothing in the line.               *)
LEMMA OneLine ==
  ASSUME LineInv, NEW s \in Sessions,
         \A t \in Sessions \ {s} : /\ sent'[t] = sent[t] /\ holding'[t] = holding[t]
                                   /\ queue'[t] = queue[t] /\ spoken'[t] = spoken[t]
                                   /\ dropped'[t] = dropped[t],
         InLine(Line(s), spoken[s], dropped[s])', dropped'[s] \subseteq 1..spoken'[s]
  PROVE  LineInv'
<1>1. ASSUME NEW t \in Sessions, t # s
      PROVE  InLine(Line(t), spoken[t], dropped[t])' /\ dropped'[t] \subseteq 1..spoken'[t]
  <2>1. Line(t)' = Line(t)
    BY <1>1 DEF Line, Held
  <2>. QED
    BY <1>1, <2>1 DEF LineInv
<1>. QED
  BY <1>1 DEF LineInv

LEMMA CloseLine ==
  ASSUME TasksInv, LineInv, NEW s \in Sessions, Close(s)
  PROVE  LineInv'
<1>1. Dropped(s)
  BY DEF Close
<1>2. /\ queue'[s] = <<>> /\ holding'[s] = 0 /\ spoken'[s] = 0 /\ sent'[s] = <<>>
      /\ dropped'[s] = {}
  BY <1>1 DEF Dropped, TasksInv, ResultsType
<1>3. \A t \in Sessions \ {s} : /\ sent'[t] = sent[t] /\ holding'[t] = holding[t]
                                /\ queue'[t] = queue[t] /\ spoken'[t] = spoken[t]
                                /\ dropped'[t] = dropped[t]
  BY <1>1 DEF Dropped, TasksInv, ResultsType
<1>4. Line(s)' = <<>>
  BY <1>2, NothingInLine DEF Line, Held
<1>. QED
  BY <1>2, <1>3, <1>4, NothingInLine, OneLine

LEMMA FetchLine ==
  ASSUME TasksInv, LineInv, NEW s \in Sessions, Fetch(s)
  PROVE  LineInv'
<1>1. /\ queue[s] # <<>> /\ holding[s] = 0
      /\ holding' = [holding EXCEPT ![s] = Head(queue[s])]
      /\ queue' = [queue EXCEPT ![s] = Tail(@)]
      /\ UNCHANGED <<sent, spoken, dropped>>
  BY DEF Fetch, TxMoves, TasksInv, HoldingFits
<1>2. queue'[s] = Tail(queue[s]) /\ holding'[s] = Head(queue[s])
  BY <1>1 DEF TasksInv, ResultsType
<1>3. sent[s] \in Seq(Results) /\ queue[s] \in Seq(Results)
  BY HeldType
<1>4. Head(queue[s]) \in Results /\ Tail(queue[s]) \in Seq(Results) /\ Head(queue[s]) # 0
  <2>1. Head(queue[s]) \in Results /\ Tail(queue[s]) \in Seq(Results)
    BY <1>1, <1>3, HeadTailProperties
  <2>2. 0 \notin Results
    BY SessionAssumption DEF Results
  <2>. QED
    BY <2>1, <2>2
<1>5. queue[s] = <<Head(queue[s])>> \o Tail(queue[s])
  BY <1>1, <1>3, <1>4
<1>6. Line(s) = sent[s] \o queue[s]
  BY <1>1, <1>3, ConcatEmptySeq DEF Line, Held
<1>7. Line(s)' = sent[s] \o <<Head(queue[s])>> \o Tail(queue[s])
  BY <1>1, <1>2, <1>4 DEF Line, Held
<1>8. <<Head(queue[s])>> \in Seq(Results)
  BY <1>4
<1>9. Line(s)' = Line(s)
  <2>1. ASSUME NEW a \in Seq(Results), NEW b \in Seq(Results), NEW c \in Seq(Results)
        PROVE  (a \o b) \o c = a \o (b \o c)
    BY ConcatAssociative
  <2>2. (sent[s] \o <<Head(queue[s])>>) \o Tail(queue[s])
          = sent[s] \o (<<Head(queue[s])>> \o Tail(queue[s]))
    BY <1>3, <1>4, <1>8, <2>1, Zenon
  <2>3. sent[s] \o (<<Head(queue[s])>> \o Tail(queue[s])) = sent[s] \o queue[s]
    BY <1>5, Zenon
  <2>. QED
    BY <1>6, <1>7, <2>2, <2>3, Zenon
<1>10. \A t \in Sessions \ {s} : holding'[t] = holding[t] /\ queue'[t] = queue[t]
  BY <1>1 DEF TasksInv, ResultsType
<1>. QED
  BY <1>1, <1>9, <1>10, OneLine DEF LineInv

LEMMA SendLine ==
  ASSUME TasksInv, LineInv, NEW s \in Sessions, SendResult(s)
  PROVE  LineInv'
<1>1. /\ holding[s] # 0 /\ sent' = [sent EXCEPT ![s] = Append(@, holding[s])]
      /\ holding' = [holding EXCEPT ![s] = 0]
      /\ UNCHANGED <<queue, spoken, dropped>>
  BY DEF SendResult, TxMoves, TasksInv, HoldingFits, providerVars
<1>2. sent'[s] = Append(sent[s], holding[s]) /\ holding'[s] = 0
  BY <1>1 DEF TasksInv, ResultsType
<1>3. sent[s] \in Seq(Results) /\ holding[s] \in Results
  BY <1>1 DEF TasksInv, ResultsType
<1>4. Append(sent[s], holding[s]) \in Seq(Results)
      /\ Append(sent[s], holding[s]) = sent[s] \o <<holding[s]>>
  BY <1>3, AppendProperties, AppendIsConcat
<1>5. Line(s)' = sent[s] \o <<holding[s]>> \o queue[s]
  BY <1>1, <1>2, <1>4, ConcatEmptySeq DEF Line, Held
<1>6. Line(s)' = Line(s)
  BY <1>1, <1>5 DEF Line, Held
<1>7. \A t \in Sessions \ {s} : holding'[t] = holding[t] /\ sent'[t] = sent[t]
  BY <1>1 DEF TasksInv, ResultsType
<1>. QED
  BY <1>1, <1>6, <1>7, OneLine DEF LineInv

LEMMA SpeakLine ==
  ASSUME TasksInv, LineInv, NEW s \in Sessions, ProviderSpeaks(s)
  PROVE  LineInv'
<1> DEFINE r == spoken[s] + 1
<1>1. /\ r \in Results /\ spoken' = [spoken EXCEPT ![s] = r]
      /\ queue' = [queue EXCEPT ![s] = Offered(@, r)]
      /\ dropped' = [dropped EXCEPT ![s] = IF Len(queue[s]) < QueueSize THEN @ ELSE @ \cup {r}]
      /\ UNCHANGED <<holding, sent>>
  BY DEF ProviderSpeaks, taskVars
<1>2. /\ spoken[s] \in Nat /\ dropped[s] \subseteq 1..spoken[s]
      /\ InLine(Line(s), spoken[s], dropped[s])
  BY SessionAssumption DEF LineInv, TasksInv, ResultsType
<1>3. /\ Held(s) \in Seq(Results) /\ sent[s] \in Seq(Results) /\ queue[s] \in Seq(Results)
      /\ Line(s) \in Seq(Results) /\ Line(s) \in Seq(Nat)
  BY HeldType
<1>4. /\ spoken'[s] = r /\ queue'[s] = Offered(queue[s], r)
      /\ dropped'[s] = IF Len(queue[s]) < QueueSize THEN dropped[s] ELSE dropped[s] \cup {r}
      /\ \A t \in Sessions \ {s} : /\ queue'[t] = queue[t] /\ spoken'[t] = spoken[t]
                                   /\ dropped'[t] = dropped[t]
  BY <1>1 DEF TasksInv, ResultsType
<1>5. CASE Len(queue[s]) < QueueSize
  <2>1. <<r>> \in Seq(Results) /\ sent[s] \o Held(s) \in Seq(Results)
    BY <1>1, <1>3, ConcatProperties
  <2>2. Append(queue[s], r) = queue[s] \o <<r>> /\ Append(Line(s), r) = Line(s) \o <<r>>
    BY <1>1, <1>3, AppendIsConcat
  <2>3. Line(s)' = (sent[s] \o Held(s)) \o (queue[s] \o <<r>>)
    BY <1>1, <1>4, <1>5, <2>2 DEF Line, Held, Offered
  <2>4. Line(s)' = Append(Line(s), r)
    <3>1. ASSUME NEW a \in Seq(Results), NEW b \in Seq(Results), NEW c \in Seq(Results)
          PROVE  (a \o b) \o c = a \o (b \o c)
      BY ConcatAssociative
    <3>2. ((sent[s] \o Held(s)) \o queue[s]) \o <<r>>
            = (sent[s] \o Held(s)) \o (queue[s] \o <<r>>)
      BY <1>3, <2>1, <3>1, Zenon
    <3>. QED
      BY <2>2, <2>3, <3>2, Zenon DEF Line
  <2>5. InLine(Append(Line(s), r), r, dropped[s])
    BY <1>2, <1>3, NextInLine
  <2>6. dropped'[s] \subseteq 1..spoken'[s]
    BY <1>2, <1>4, <1>5
  <2>. QED
    BY <1>1, <1>4, <1>5, <2>4, <2>5, <2>6, OneLine
<1>6. CASE ~(Len(queue[s]) < QueueSize)
  <2>1. Line(s)' = Line(s)
    BY <1>1, <1>4, <1>6 DEF Line, Held, Offered
  <2>2. InLine(Line(s), r, dropped[s] \cup {r})
    BY <1>2, LostInLine
  <2>3. dropped'[s] \subseteq 1..spoken'[s]
    BY <1>2, <1>4, <1>6
  <2>. QED
    BY <1>1, <1>4, <1>6, <2>1, <2>2, <2>3, OneLine
<1>. QED
  BY <1>5, <1>6

LEMMA NextLine ==
  ASSUME TasksInv, LineInv, [SttNext]_vars
  PROVE  LineInv'
<1>1. CASE UNCHANGED resultVars
  <2>1. \A s \in Sessions : Line(s)' = Line(s)
    BY <1>1 DEF resultVars, Line, Held
  <2>. QED
    BY <1>1, <2>1 DEF LineInv, resultVars
<1>2. CASE UNCHANGED vars
  BY <1>1, <1>2 DEF vars, taskVars, providerVars, resultVars
<1>3. ASSUME NEW s \in Sessions, Handler(s) \/ Rx(s) \/ Browser(s)
      PROVE  LineInv'
  BY <1>1, <1>3, HandlerTasks, RxTasks, CloseLine
<1>4. ASSUME NEW s \in Sessions, Tx(s)
      PROVE  LineInv'
  <2>1. CASE SendRaises(s) \/ TxDrained(s)
    BY <1>1, <2>1 DEF SendRaises, TxDrained, providerVars, resultVars
  <2>. QED
    BY <1>4, <2>1, FetchLine, SendLine DEF Tx
<1>5. ASSUME NEW s \in Sessions, Provider(s)
      PROVE  LineInv'
  <2>1. CASE ~ProviderSpeaks(s)
    BY <1>1, <1>5, <2>1 DEF Provider, ProviderConnects, CredentialsSent, LoopRaises, ProviderErrs,
                            ProviderCloses, taskVars, providerVars, resultVars
  <2>. QED
    BY <2>1, SpeakLine
<1>. QED
  BY <1>2, <1>3, <1>4, <1>5 DEF SttNext

(* chat.py: while a session runs and its sending task does, every result   *)
(* is sent, being sent or queued, in the order the provider spoke, but for *)
(* those that found the queue full.                                        *)
THEOREM ResultsAreInLine == SttSpec => []NothingIsLostWhileOpen
<1>1. SttInit => LineInv
  <2> SUFFICES ASSUME SttInit, NEW s \in Sessions
               PROVE  InLine(Line(s), spoken[s], dropped[s]) /\ dropped[s] \subseteq 1..spoken[s]
    BY DEF LineInv
  <2>1. Line(s) = <<>> /\ spoken[s] = 0 /\ dropped[s] = {}
    BY NothingInLine DEF SttInit, Line, Held
  <2>. QED
    BY <2>1, NothingInLine
<1>2. TasksInv /\ LineInv /\ [SttNext]_vars => LineInv'
  BY NextLine
<1>3. LineInv => NothingIsLostWhileOpen
  BY DEF LineInv, InLine, Line, NothingIsLostWhileOpen
<1>. QED
  BY <1>1, <1>2, <1>3, TasksInvariant, PTL DEF SttSpec
=============================================================================
