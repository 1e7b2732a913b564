--------------------------- MODULE Gateway_proofs ---------------------------
(***************************************************************************)
(* Theorems about Gateway for any number of requests and workers, any      *)
(* limits, windows and backoffs, any number of faults and of retries.      *)
(***************************************************************************)
EXTENDS JwksCache_proofs, FiniteSetTheorems, TLAPS

-----------------------------------------------------------------------------
(* The chat: what has been sent, by the stage that sent it.                *)
Events == [kind : {"delta", "error", "done"}, call : {0, 1}]

IsClosedStream(r) ==
  LET n == Len(sent[r]) IN
    /\ \A i \in 1..n : IsTerminal(sent[r][i]) => i = n
    /\ \A i, j \in 1..n : sent[r][i].call = sent[r][j].call
    /\ cut[r] => \A i \in 1..n : sent[r][i].kind # "done"

SentMatchesStage(r) ==
  /\ stage[r] \in {"none", "looking", "reading", "opening", "completing"} =>
       sent[r] = << >>
  /\ stage[r] = "streaming" =>
       \A i \in 1..Len(sent[r]) : sent[r][i] = [kind |-> "delta", call |-> 0]
  /\ stage[r] = "finishing" =>
       Len(sent[r]) = 1 /\ sent[r][1] = [kind |-> "delta", call |-> 1]
  /\ stage[r] \in {"ended", "closed"} => IsClosedStream(r)
  /\ cut[r] => stage[r] \in {"ended", "closed"}
  /\ stage[r] = "ended" /\ chats[r] /\ status[r] = 200 =>
       sent[r] # << >> /\ IsTerminal(sent[r][Len(sent[r])])

TurnInv ==
  /\ TurnTypeOK
  /\ sent \in [Turns -> Seq(Events)]
  /\ \A r \in Turns : SentMatchesStage(r)

LEMMA TurnInvImplies ==
  ASSUME TurnInv
  PROVE  OneAnswerPerTurn
<1>. SUFFICES ASSUME NEW r \in Turns
              PROVE  /\ IsClosedStream(r)
                     /\ stage[r] = "ended" /\ chats[r] /\ status[r] = 200 =>
                          Len(sent[r]) > 0 /\ IsTerminal(sent[r][Len(sent[r])])
  BY DEF OneAnswerPerTurn, IsClosedStream
<1>0. stage[r] \in Stages /\ sent[r] \in Seq(Events)
  BY DEF TurnInv, TurnTypeOK
<1>1. IsClosedStream(r)
  <2>1. CASE sent[r] = << >>
    <3>1. Len(sent[r]) = 0
      BY <2>1
    <3>. QED
      BY <3>1, SMT DEF IsClosedStream
  <2>2. CASE stage[r] = "streaming"
    BY <2>2 DEF TurnInv, SentMatchesStage, IsClosedStream, IsTerminal
  <2>3. CASE stage[r] = "finishing"
    BY <2>3 DEF TurnInv, SentMatchesStage, IsClosedStream, IsTerminal
  <2>4. CASE stage[r] \in {"ended", "closed"}
    BY <2>4 DEF TurnInv, SentMatchesStage
  <2>. QED
    BY <1>0, <2>1, <2>2, <2>3, <2>4 DEF Stages, TurnInv, SentMatchesStage
<1>2. sent[r] # << >> => Len(sent[r]) > 0
  BY <1>0
<1>. QED
  BY <1>1, <1>2 DEF TurnInv, SentMatchesStage

(* A request whose stream does not change.                                 *)
LEMMA SameStream ==
  ASSUME NEW q, SentMatchesStage(q), stage'[q] = stage[q], sent'[q] = sent[q],
         cut'[q] = cut[q], chats'[q] = chats[q], status'[q] = status[q]
  PROVE  SentMatchesStage(q)'
BY DEF SentMatchesStage, IsClosedStream

LEMMA InitTurnInv ==
  ASSUME TurnInit
  PROVE  TurnInv
BY TurnAssumption DEF TurnInit, TurnInv, SentMatchesStage, TurnTypeOK, Stages

(* What an event adds to a stream that has none, or only pieces of call 0. *)
LEMMA EmitsKeeps ==
  ASSUME TurnInv, NEW r \in Turns, NEW kind \in {"delta", "error", "done"},
         NEW nth \in {0, 1}, NEW next \in Stages,
         Emits(r, kind, nth, next),
         \/ sent[r] = << >>
         \/ nth = 0 /\ stage[r] = "streaming"
         \/ nth = 1 /\ stage[r] = "finishing",
         \/ next = "ended" /\ kind \in {"error", "done"}
         \/ next = "streaming" /\ kind = "delta" /\ nth = 0
         \/ next = "finishing" /\ kind = "delta" /\ nth = 1 /\ sent[r] = << >>,
         cut' \in [Turns -> BOOLEAN], cut'[r] => kind # "done" /\ next = "ended",
         \A q \in Turns \ {r} : cut'[q] = cut[q],
         tries' \in [Turns -> 0..Retries],
         UNCHANGED <<chats, gone, status>>
  PROVE  TurnInv'
<1>0. \A i \in 1..Len(sent[r]) : sent[r][i] = [kind |-> "delta", call |-> nth]
  BY DEF TurnInv, SentMatchesStage
<1>1. CASE gone[r]
  <2>1. stage' = [stage EXCEPT ![r] = "closed"] /\ sent' = sent
    BY <1>1 DEF Emits, Moves
  <2>2. IsClosedStream(r)'
    BY <1>0, <2>1 DEF IsClosedStream, IsTerminal
  <2>3. TurnTypeOK' /\ sent' \in [Turns -> Seq(Events)]
    BY <2>1 DEF TurnInv, TurnTypeOK, Stages
  <2>4. ASSUME NEW q \in Turns \ {r}
        PROVE  SentMatchesStage(q)'
    <3>1. stage'[q] = stage[q] /\ SentMatchesStage(q)
      BY <2>1 DEF TurnInv, TurnTypeOK
    <3>. QED
      BY <2>1, <3>1, SameStream
  <2>5. stage'[r] = "closed"
    BY <2>1 DEF TurnInv, TurnTypeOK
  <2>. QED
    BY <2>1, <2>2, <2>3, <2>4, <2>5 DEF TurnInv, SentMatchesStage
<1>2. CASE ~gone[r]
  <2> DEFINE e == [kind |-> kind, call |-> nth]
             n == Len(sent[r])
  <2>1. stage' = [stage EXCEPT ![r] = next] /\ sent' = [sent EXCEPT ![r] = Append(@, e)]
    BY <1>2 DEF Emits, Moves
  <2>2. e \in Events /\ e.kind = kind /\ e.call = nth
    BY DEF Events
  <2>3. /\ sent'[r] = Append(sent[r], e) /\ stage'[r] = next
        /\ sent' \in [Turns -> Seq(Events)]
    BY <2>1, <2>2 DEF TurnInv, TurnTypeOK
  <2>4. n \in Nat /\ Len(sent'[r]) = n + 1 /\ sent'[r][n + 1] = e
        /\ \A i \in 1..n : sent'[r][i] = sent[r][i]
    BY <2>2, <2>3 DEF TurnInv
  <2>5. TurnTypeOK'
    BY <2>1 DEF TurnInv, TurnTypeOK
  <2>6. ASSUME NEW q \in Turns \ {r}
        PROVE  SentMatchesStage(q)'
    <3>1. stage'[q] = stage[q] /\ sent'[q] = sent[q] /\ SentMatchesStage(q)
      BY <2>1 DEF TurnInv, TurnTypeOK
    <3>. QED
      BY <3>1, SameStream
  <2>7. \A i \in 1..n : sent'[r][i] = [kind |-> "delta", call |-> nth]
    BY <1>0, <2>4
  <2>8. Len(sent'[r]) = n + 1 /\ n \in Nat /\ sent'[r][n + 1] = e
    BY <2>4
  <2> HIDE DEF n, e
  <2>9. \A i \in 1..(n + 1) : i \in 1..n \/ i = n + 1
    BY <2>8
  <2>10. IsClosedStream(r)'
    <3>1. \A i \in 1..(n + 1) : IsTerminal(sent'[r][i]) => i = n + 1
      BY <2>7, <2>8, <2>9 DEF IsTerminal
    <3>2. \A i \in 1..(n + 1) : sent'[r][i].call = nth
      BY <2>2, <2>7, <2>8, <2>9
    <3>3. cut'[r] => \A i \in 1..(n + 1) : sent'[r][i].kind # "done"
      BY <2>2, <2>7, <2>8, <2>9
    <3>. QED
      BY <2>8, <3>1, <3>2, <3>3 DEF IsClosedStream, IsTerminal
  <2>11. next = "streaming" =>
           \A i \in 1..Len(sent'[r]) : sent'[r][i] = [kind |-> "delta", call |-> 0]
    BY <2>7, <2>8, <2>9 DEF e
  <2>12. next = "finishing" =>
           Len(sent'[r]) = 1 /\ sent'[r][1] = [kind |-> "delta", call |-> 1]
    <3>1. next = "finishing" => sent[r] = << >> /\ kind = "delta" /\ nth = 1
      OBVIOUS
    <3>2. sent[r] = << >> => n = 0
      BY DEF n
    <3>. QED
      BY <2>8, <3>1, <3>2 DEF e
  <2>13. next = "ended" => sent'[r] # << >> /\ IsTerminal(sent'[r][Len(sent'[r])])
    <3>1. sent'[r] # << >>
      BY <2>8
    <3>2. next = "ended" => kind \in {"error", "done"}
      OBVIOUS
    <3>. QED
      BY <2>2, <2>8, <3>1, <3>2 DEF IsTerminal
  <2>14. SentMatchesStage(r)'
    <3>1. next \in {"ended", "streaming", "finishing"} /\ (cut'[r] => next = "ended")
      OBVIOUS
    <3>. QED
      BY <2>3, <2>10, <2>11, <2>12, <2>13, <3>1 DEF SentMatchesStage
  <2>. QED
    BY <2>3, <2>5, <2>6, <2>14 DEF TurnInv
<1>. QED
  BY <1>1, <1>2

(* A step that sends nothing and takes r from a stage before the first     *)
(* event to another one, or to its end if it is no chat or has failed.     *)
LEMMA MovesKeeps ==
  ASSUME TurnInv, NEW r \in Turns, NEW next \in Stages,
         stage' = [stage EXCEPT ![r] = next],
         sent[r] = << >>, sent' = sent, ~cut'[r],
         \A q \in Turns \ {r} : /\ chats'[q] = chats[q] /\ status'[q] = status[q]
                                /\ cut'[q] = cut[q],
         next # "finishing",
         next = "ended" => ~chats'[r] \/ status'[r] # 200,
         TurnTypeOK'
  PROVE  TurnInv'
<1>1. stage'[r] = next /\ Len(sent[r]) = 0
  BY DEF TurnInv, TurnTypeOK
<1>2. SentMatchesStage(r)'
  BY <1>1 DEF SentMatchesStage, IsClosedStream
<1>3. ASSUME NEW q \in Turns \ {r}
      PROVE  SentMatchesStage(q)'
  <2>1. stage'[q] = stage[q] /\ SentMatchesStage(q)
    BY DEF TurnInv, TurnTypeOK
  <2>. QED
    BY <2>1, SameStream
<1>. QED
  BY <1>2, <1>3 DEF TurnInv

LEMMA BeginKeeps ==
  ASSUME TurnInv, NEW r \in Turns, NEW chat \in BOOLEAN, NEW list \in BOOLEAN,
         Begin(r, chat, list)
  PROVE  TurnInv'
<1>1. /\ sent[r] = << >> /\ ~cut[r] /\ sent' = sent /\ cut' = cut
      /\ chats' = [chats EXCEPT ![r] = chat]
      /\ UNCHANGED <<tries, cut, gone, sent>>
  BY DEF Begin, TurnInv, SentMatchesStage
<1>2. PICK next \in {"looking", "reading", "ended"} :
        /\ stage' = [stage EXCEPT ![r] = next]
        /\ next = "ended" => ~chat
        /\ next # "ended" => status' = status
        /\ next = "ended" => status' = [status EXCEPT ![r] = 200]
  BY DEF Begin, Moves, Answers
<1>3. TurnTypeOK'
  <2>1. stage' \in [Turns -> Stages]
    BY <1>2 DEF TurnInv, TurnTypeOK, Stages
  <2>2. chats' \in [Turns -> BOOLEAN]
    BY <1>1 DEF TurnInv, TurnTypeOK
  <2>3. status' \in [Turns -> {0, 200, 500, 502}]
    <3>1. CASE status' = status
      BY <3>1 DEF TurnInv, TurnTypeOK
    <3>2. CASE status' = [status EXCEPT ![r] = 200]
      BY <3>2 DEF TurnInv, TurnTypeOK
    <3>. QED
      BY <1>2, <3>1, <3>2
  <2>. QED
    BY <1>1, <2>1, <2>2, <2>3 DEF TurnInv, TurnTypeOK
<1>4. next = "ended" => ~chats'[r]
  BY <1>1, <1>2 DEF TurnInv, TurnTypeOK
<1>5. next \in Stages /\ next # "finishing"
  BY DEF Stages
<1>6. \A q \in Turns \ {r} : chats'[q] = chats[q] /\ status'[q] = status[q] /\ cut'[q] = cut[q]
  BY <1>1, <1>2 DEF TurnInv, TurnTypeOK
<1>. QED
  BY <1>1, <1>2, <1>3, <1>4, <1>5, <1>6, MovesKeeps

LEMMA TurnStepKeeps ==
  ASSUME TurnInv, NEW r \in Turns, TurnStep(r)
  PROVE  TurnInv'
<1>0. /\ stage \in [Turns -> Stages] /\ chats \in [Turns -> BOOLEAN]
      /\ tries \in [Turns -> 0..Retries] /\ cut \in [Turns -> BOOLEAN]
      /\ gone \in [Turns -> BOOLEAN] /\ status \in [Turns -> {0, 200, 500, 502}]
      /\ sent \in [Turns -> Seq(Events)] /\ SentMatchesStage(r) /\ Retries \in Nat
  BY TurnAssumption DEF TurnInv, TurnTypeOK
<1>1. \A code \in {0, 200, 500, 502} :
        [status EXCEPT ![r] = code] \in [Turns -> {0, 200, 500, 502}]
  BY <1>0
<1>2. \A s \in Stages : [stage EXCEPT ![r] = s] \in [Turns -> Stages]
  BY <1>0
<1>3. /\ tries[r] < Retries => [tries EXCEPT ![r] = @ + 1] \in [Turns -> 0..Retries]
      /\ [tries EXCEPT ![r] = 0] \in [Turns -> 0..Retries]
  BY <1>0
<1>4. \A s \in {"none", "looking", "reading", "opening", "streaming", "completing",
                 "finishing", "ended", "closed"} : s \in Stages
  BY DEF Stages
<1>5. ASSUME NEW ok \in BOOLEAN, LookedUp(r, ok)
      PROVE  TurnInv'
  <2>1. /\ sent[r] = << >> /\ ~cut[r]
        /\ UNCHANGED <<chats, tries, cut, gone, sent>>
    BY <1>0, <1>5 DEF LookedUp, SentMatchesStage
  <2>2. CASE ok
    <3>1. stage' = [stage EXCEPT ![r] = "reading"] /\ status' = status
      BY <1>5, <2>2 DEF LookedUp, Moves
    <3>2. TurnTypeOK'
      BY <1>0, <1>2, <1>4, <2>1, <3>1 DEF TurnTypeOK
    <3>. QED
      BY <1>4, <2>1, <3>1, <3>2, MovesKeeps
  <2>3. CASE ~ok
    <3>1. stage' = [stage EXCEPT ![r] = "ended"] /\ status' = [status EXCEPT ![r] = 500]
      BY <1>5, <2>3 DEF LookedUp, Moves, Answers
    <3>2. TurnTypeOK'
      BY <1>0, <1>1, <1>2, <1>4, <2>1, <3>1 DEF TurnTypeOK
    <3>3. status'[r] # 200 /\ ~cut'[r]
      BY <1>0, <2>1, <3>1
    <3>4. \A q \in Turns \ {r} : /\ chats'[q] = chats[q] /\ status'[q] = status[q]
                                 /\ cut'[q] = cut[q]
      BY <1>0, <2>1, <3>1
    <3>. QED
      BY <1>4, <2>1, <3>1, <3>2, <3>3, <3>4, MovesKeeps, Zenon
  <2>. QED
    BY <2>2, <2>3
<1>6. ASSUME NEW o \in Outcomes, Read(r, o)
      PROVE  TurnInv'
  <2>1. /\ sent[r] = << >> /\ ~cut[r]
        /\ UNCHANGED <<chats, cut, gone, sent>>
    BY <1>0, <1>6 DEF Read, SentMatchesStage
  <2>2. CASE MayRetry(r, o)
    <3>1. UNCHANGED <<stage, status>> /\ tries' = [tries EXCEPT ![r] = @ + 1]
      BY <1>6, <2>2 DEF Read, Again
    <3>2. TurnTypeOK'
      BY <1>0, <1>3, <2>1, <2>2, <3>1 DEF TurnTypeOK, MayRetry
    <3>3. \A q \in Turns : SentMatchesStage(q)'
      BY <2>1, <3>1, SameStream DEF TurnInv
    <3>. QED
      BY <1>0, <2>1, <3>2, <3>3 DEF TurnInv
  <2>3. CASE ~MayRetry(r, o)
    <3>1. tries' = [tries EXCEPT ![r] = 0] /\ AfterRead(r, o = "done")
      BY <1>6, <2>3 DEF Read, Afresh
    <3>2. CASE chats[r]
      <4>1. stage' = [stage EXCEPT ![r] = "opening"] /\ status' = [status EXCEPT ![r] = 200]
        BY <3>1, <3>2 DEF AfterRead, Moves
      <4>2. TurnTypeOK'
        BY <1>0, <1>1, <1>2, <1>3, <1>4, <2>1, <3>1, <4>1 DEF TurnTypeOK
      <4>3. \A q \in Turns \ {r} : status'[q] = status[q]
        BY <1>0, <4>1
      <4>. QED
        BY <1>4, <2>1, <4>1, <4>2, <4>3, MovesKeeps
    <3>3. CASE ~chats[r]
      <4>1. PICK code \in {200, 502} : /\ stage' = [stage EXCEPT ![r] = "ended"]
                                       /\ status' = [status EXCEPT ![r] = code]
        BY <3>1, <3>3 DEF AfterRead, Moves, Answers
      <4>2. TurnTypeOK'
        BY <1>0, <1>1, <1>2, <1>3, <1>4, <2>1, <3>1, <4>1 DEF TurnTypeOK
      <4>3. ~chats'[r] /\ ~cut'[r]
        BY <2>1, <3>3
      <4>4. \A q \in Turns \ {r} : /\ chats'[q] = chats[q] /\ status'[q] = status[q]
                                   /\ cut'[q] = cut[q]
        BY <1>0, <2>1, <4>1
      <4>. QED
        BY <1>4, <2>1, <4>1, <4>2, <4>3, <4>4, MovesKeeps, Zenon
    <3>. QED
      BY <3>2, <3>3
  <2>. QED
    BY <2>2, <2>3
<1>7. ASSUME NEW ok \in BOOLEAN, Opened(r, ok)
      PROVE  TurnInv'
  <2>1. /\ sent[r] = << >> /\ ~cut[r]
        /\ UNCHANGED <<chats, tries, cut, gone, status>>
    BY <1>0, <1>7 DEF Opened, SentMatchesStage
  <2>2. CASE ok
    <3>1. stage' = [stage EXCEPT ![r] = "streaming"] /\ sent' = sent
      BY <1>7, <2>2 DEF Opened, Moves
    <3>2. TurnTypeOK'
      BY <1>0, <1>2, <1>4, <2>1, <3>1 DEF TurnTypeOK
    <3>. QED
      BY <1>4, <2>1, <3>1, <3>2, MovesKeeps
  <2>3. CASE ~ok
    <3>1. Emits(r, "error", 0, "ended")
      BY <1>7, <2>3 DEF Opened
    <3>. QED
      BY <1>0, <1>4, <2>1, <3>1, EmitsKeeps
  <2>. QED
    BY <2>2, <2>3
<1>8. ASSUME Delta(r)
      PROVE  TurnInv'
  <2>1. /\ stage[r] = "streaming" /\ ~cut[r] /\ Emits(r, "delta", 0, "streaming")
        /\ UNCHANGED <<chats, tries, cut, gone, status>>
    BY <1>0, <1>8 DEF Delta, SentMatchesStage
  <2>. QED
    BY <1>0, <1>4, <2>1, EmitsKeeps
<1>9. ASSUME StreamEnds(r)
      PROVE  TurnInv'
  <2>1. /\ stage[r] = "streaming" /\ ~cut[r]
        /\ UNCHANGED <<chats, tries, cut, gone, status>>
    BY <1>0, <1>9 DEF StreamEnds, SentMatchesStage
  <2>2. CASE HasProduced(r)
    <3>1. Emits(r, "done", 0, "ended")
      BY <1>9, <2>2 DEF StreamEnds
    <3>. QED
      BY <1>0, <1>4, <2>1, <3>1, EmitsKeeps
  <2>3. CASE ~HasProduced(r)
    <3>1. stage' = [stage EXCEPT ![r] = "completing"] /\ sent' = sent /\ sent[r] = << >>
      BY <1>9, <2>3 DEF StreamEnds, Moves, HasProduced
    <3>2. TurnTypeOK'
      BY <1>0, <1>2, <1>4, <2>1, <3>1 DEF TurnTypeOK
    <3>. QED
      BY <1>4, <2>1, <3>1, <3>2, MovesKeeps
  <2>. QED
    BY <2>2, <2>3
<1>10. ASSUME StreamFails(r)
       PROVE  TurnInv'
  <2>1. /\ stage[r] = "streaming" /\ cut' = [cut EXCEPT ![r] = HasProduced(r)]
        /\ UNCHANGED <<chats, tries, gone, status>>
    BY <1>10 DEF StreamFails
  <2>2. /\ cut' \in [Turns -> BOOLEAN] /\ cut'[r] = HasProduced(r)
        /\ \A q \in Turns \ {r} : cut'[q] = cut[q]
    BY <1>0, <2>1 DEF HasProduced
  <2>3. CASE FallsBack(r)
    <3>1. stage' = [stage EXCEPT ![r] = "completing"] /\ sent' = sent /\ sent[r] = << >>
      BY <1>10, <2>3 DEF StreamFails, Moves, FallsBack, HasProduced
    <3>2. TurnTypeOK'
      BY <1>0, <1>2, <1>4, <2>1, <2>2, <3>1 DEF TurnTypeOK
    <3>3. ~cut'[r]
      BY <2>2, <3>1 DEF HasProduced
    <3>. QED
      BY <1>4, <2>1, <2>2, <3>1, <3>2, <3>3, MovesKeeps
  <2>4. CASE ~FallsBack(r)
    <3>1. Emits(r, "error", 0, "ended")
      BY <1>10, <2>4 DEF StreamFails
    <3>. QED
      BY <1>0, <1>4, <2>1, <2>2, <3>1, EmitsKeeps
  <2>. QED
    BY <2>3, <2>4
<1>11. ASSUME NEW o \in Outcomes, NEW text \in BOOLEAN, Complete(r, o, text)
       PROVE  TurnInv'
  <2>1. /\ sent[r] = << >> /\ ~cut[r] /\ UNCHANGED <<chats, cut, gone, status>>
    BY <1>0, <1>11 DEF Complete, SentMatchesStage
  <2>2. CASE MayRetry(r, o)
    <3>1. UNCHANGED <<stage, sent>> /\ tries' = [tries EXCEPT ![r] = @ + 1]
      BY <1>11, <2>2 DEF Complete, Again
    <3>2. TurnTypeOK'
      BY <1>0, <1>3, <2>1, <2>2, <3>1 DEF TurnTypeOK, MayRetry
    <3>3. \A q \in Turns : SentMatchesStage(q)'
      BY <2>1, <3>1, SameStream DEF TurnInv
    <3>. QED
      BY <1>0, <3>1, <3>2, <3>3 DEF TurnInv
  <2>3. CASE ~MayRetry(r, o)
    <3>1. /\ tries' = tries
          /\ \/ Emits(r, "error", 1, "ended")
             \/ Emits(r, "delta", 1, "finishing")
             \/ Emits(r, "done", 1, "ended")
      BY <1>11, <2>3 DEF Complete
    <3>2. CASE Emits(r, "error", 1, "ended")
      BY <1>0, <1>4, <2>1, <3>1, <3>2, EmitsKeeps
    <3>3. CASE Emits(r, "delta", 1, "finishing")
      BY <1>0, <1>4, <2>1, <3>1, <3>3, EmitsKeeps
    <3>4. CASE Emits(r, "done", 1, "ended")
      BY <1>0, <1>4, <2>1, <3>1, <3>4, EmitsKeeps
    <3>. QED
      BY <3>1, <3>2, <3>3, <3>4
  <2>. QED
    BY <2>2, <2>3
<1>12. ASSUME Finish(r)
       PROVE  TurnInv'
  <2>1. /\ stage[r] = "finishing" /\ ~cut[r] /\ Emits(r, "done", 1, "ended")
        /\ UNCHANGED <<chats, tries, cut, gone, status>>
    BY <1>0, <1>12 DEF Finish, SentMatchesStage
  <2>. QED
    BY <1>0, <1>4, <2>1, EmitsKeeps
<1>13. ASSUME Leave(r)
       PROVE  TurnInv'
  <2>1. /\ gone' = [gone EXCEPT ![r] = TRUE]
        /\ UNCHANGED <<stage, chats, tries, cut, sent, status>>
    BY <1>13 DEF Leave
  <2>2. TurnTypeOK'
    BY <1>0, <2>1 DEF TurnTypeOK
  <2>3. \A q \in Turns : SentMatchesStage(q)'
    BY <2>1, SameStream DEF TurnInv
  <2>. QED
    BY <1>0, <2>1, <2>2, <2>3 DEF TurnInv
<1>. QED
  BY <1>5, <1>6, <1>7, <1>8, <1>9, <1>10, <1>11, <1>12, <1>13 DEF TurnStep

-----------------------------------------------------------------------------
(* The limiter. Who has been let through is known to the store that did it *)
(* until the window is over, as long as the store loses nothing: in Redis  *)
(* under the clock reading of the request, which is at most Lag older than *)
(* the admission, in a table under the time of the admission itself.       *)
Through == {"allowed", "handled"}
Marks == [by : Requests, at : 0..Horizon]
Admissions == [by : Requests, via : Stores, at : 0..Horizon]

LimiterTypes ==
  /\ now \in 0..Horizon
  /\ path \in [Requests -> Paths]
  /\ on \in [Requests -> Workers]
  /\ pc \in [Requests -> PCs]
  /\ stamp \in [Requests -> Int]
  /\ lost \subseteq Stores
  /\ backoff \in [Workers -> [Limiters -> 1..MaxBackoff]]

StampInv ==
  \A r \in Requests : pc[r] = "counting" => stamp[r] \in 0..now /\ now - stamp[r] <= Lag

WindowInv == IsFiniteSet(window) /\ window \subseteq Marks

TableInv ==
  /\ table \in [Workers -> [Limiters -> SUBSET Marks]]
  /\ \A w \in Workers, l \in Limiters :
       IsFiniteSet(table[w][l]) /\ Cardinality(table[w][l]) <= MaxRequests[l]

AdmittedInv ==
  /\ admitted \subseteq Admissions /\ IsFiniteSet(admitted)
  /\ \A a \in admitted :
       /\ a.at <= now /\ pc[a.by] \in Through
       /\ a.via = "redis" => stamp[a.by] \in 0..Horizon /\ a.at - Lag <= stamp[a.by]
  /\ \A a, b \in admitted : a.by = b.by => a = b

IsRecent(a) == now - a.at < Window - Lag

KeptInv ==
  \A a \in admitted :
    IsRecent(a) /\ a.via \notin lost =>
      /\ a.via = "redis" => [by |-> a.by, at |-> stamp[a.by]] \in window
      /\ a.via # "redis" => [by |-> a.by, at |-> a.at] \in table[a.via][LimiterOf(a.by)]

RecentOf(s, l) == {a \in admitted : a.via = s /\ LimiterOf(a.by) = l /\ IsRecent(a)}

RedisBounded ==
  "redis" \notin lost =>
    \A l \in Limiters : Cardinality(RecentOf("redis", l)) <= MaxRequests[l]

LimiterInv ==
  /\ LimiterTypes /\ StampInv /\ WindowInv /\ TableInv /\ AdmittedInv
  /\ KeptInv /\ RedisBounded

IInv == LimiterInv /\ TurnInv

(* A set whose members are told apart in a finite set is no larger.        *)
LEMMA Embedding ==
  ASSUME NEW A, NEW W, IsFiniteSet(W), NEW f \in [A -> W],
         \A a, b \in A : f[a] = f[b] => a = b
  PROVE  Cardinality(A) <= Cardinality(W)
<1>1. f \in Injection(A, W)
  BY DEF Injection, IsInjective
<1>. QED
  BY <1>1, FS_Injection

LEMMA Limits ==
  /\ Lag \in Nat /\ Window \in Nat /\ Lag < Window
  /\ Horizon \in Nat /\ MaxBackoff \in Nat \ {0}
  /\ \A l \in Limiters : MaxRequests[l] \in Nat \ {0}
  /\ "redis" \notin Workers /\ "redis" \in Stores /\ Workers \subseteq Stores
  /\ \A r : LimiterOf(r) \in Limiters
BY LimiterAssumption DEF Limiters, Stores, LimiterOf

(* What a step may do to the window and to the tables: it keeps the marks  *)
(* of those who went through, until they are old.                          *)
WindowKeeps ==
  /\ WindowInv'
  /\ \A m \in window : pc[m.by] \in Through /\ m.at > now - Window => m \in window'

TableKeeps ==
  /\ TableInv'
  /\ \A w \in Workers, l \in Limiters : \A m \in table[w][l] :
       now - m.at < Window => m \in table'[w][l]

(* The marks of those admitted before outlive the step.                    *)
LEMMA KeptMarks ==
  ASSUME LimiterInv, WindowKeeps, TableKeeps, NEW a \in admitted, IsRecent(a), a.via \notin lost
  PROVE  /\ a.via = "redis" => [by |-> a.by, at |-> stamp[a.by]] \in window'
         /\ a.via # "redis" => [by |-> a.by, at |-> a.at] \in table'[a.via][LimiterOf(a.by)]
<1>0. a.by \in Requests /\ pc[a.by] \in Through
  BY DEF LimiterInv, AdmittedInv, Admissions
<1>1. /\ a.via = "redis" => [by |-> a.by, at |-> stamp[a.by]] \in window
      /\ a.via # "redis" => [by |-> a.by, at |-> a.at] \in table[a.via][LimiterOf(a.by)]
  BY DEF LimiterInv, KeptInv
<1>2. /\ now \in Nat /\ a.at \in Nat /\ now - a.at < Window - Lag
      /\ a.via = "redis" => stamp[a.by] \in Nat /\ a.at - Lag <= stamp[a.by]
  BY Limits DEF LimiterInv, LimiterTypes, AdmittedInv, Admissions, IsRecent
<1>3. ASSUME a.via = "redis"
      PROVE  [by |-> a.by, at |-> stamp[a.by]] \in window'
  <2>1. stamp[a.by] > now - Window
    BY <1>2, <1>3, Limits
  <2>. QED
    BY <1>0, <1>1, <1>3, <2>1 DEF WindowKeeps
<1>4. ASSUME a.via # "redis"
      PROVE  [by |-> a.by, at |-> a.at] \in table'[a.via][LimiterOf(a.by)]
  <2>1. a.via \in Workers /\ now - a.at < Window
    BY <1>2, <1>4, Limits DEF LimiterInv, AdmittedInv, Admissions, Stores
  <2>. QED
    BY <1>1, <1>4, <2>1, Limits DEF TableKeeps
<1>. QED
  BY <1>3, <1>4

(* A step of a request that admits nobody.                                 *)
LEMMA QuietStep ==
  ASSUME LimiterInv, NEW r \in Requests, NEW next \in PCs,
         pc' = [pc EXCEPT ![r] = next],
         pc[r] \in Through => next = "handled",
         stamp' \in [Requests -> Int],
         \A q \in Requests : q # r \/ pc[r] \in Through => stamp'[q] = stamp[q],
         next = "counting" => stamp'[r] = now,
         on' \in [Requests -> Workers],
         backoff' \in [Workers -> [Limiters -> 1..MaxBackoff]],
         WindowKeeps, TableKeeps,
         UNCHANGED <<now, path, admitted, lost>>
  PROVE  LimiterInv'
<1>0. /\ pc'[r] = next /\ \A q \in Requests \ {r} : pc'[q] = pc[q]
      /\ pc' \in [Requests -> PCs]
  BY DEF LimiterInv, LimiterTypes
<1>1. LimiterTypes'
  BY <1>0 DEF LimiterInv, LimiterTypes
<1>2. StampInv'
  BY <1>0, Limits DEF LimiterInv, LimiterTypes, StampInv, Through
<1>3. WindowInv' /\ TableInv'
  BY DEF WindowKeeps, TableKeeps
<1>4. \A a \in admitted : /\ a.by \in Requests /\ pc[a.by] \in Through
                          /\ pc'[a.by] \in Through /\ stamp'[a.by] = stamp[a.by]
  BY <1>0 DEF LimiterInv, AdmittedInv, Admissions, Through
<1>5. AdmittedInv'
  BY <1>4 DEF LimiterInv, AdmittedInv
<1>6. KeptInv'
  BY <1>4, KeptMarks DEF KeptInv, IsRecent, LimiterOf
<1>7. RedisBounded'
  BY DEF LimiterInv, RedisBounded, RecentOf, IsRecent, LimiterOf
<1>. QED
  BY <1>1, <1>2, <1>3, <1>5, <1>6, <1>7 DEF LimiterInv

(* What both kinds of admission do to who has been admitted.               *)
LEMMA AdmitFacts ==
  ASSUME LimiterInv, NEW r \in Requests, NEW s \in Stores,
         pc[r] \notin Through, Admit(r, s),
         s = "redis" => stamp[r] \in 0..now /\ now - stamp[r] <= Lag,
         UNCHANGED <<now, path, on, stamp, lost>>,
         backoff' \in [Workers -> [Limiters -> 1..MaxBackoff]]
  PROVE  /\ LimiterTypes' /\ StampInv' /\ AdmittedInv'
         /\ \A a \in admitted : a.by # r
<1> DEFINE new == [by |-> r, via |-> s, at |-> now]
<1>0. /\ pc' = [pc EXCEPT ![r] = "allowed"] /\ admitted' = admitted \cup {new}
  BY DEF Admit, Goes
<1>1. /\ pc'[r] = "allowed" /\ \A q \in Requests \ {r} : pc'[q] = pc[q]
      /\ pc' \in [Requests -> PCs]
  BY <1>0 DEF LimiterInv, LimiterTypes, PCs
<1>2. LimiterTypes'
  BY <1>1 DEF LimiterInv, LimiterTypes
<1>3. StampInv'
  BY <1>1 DEF LimiterInv, LimiterTypes, StampInv
<1>4. \A a \in admitted : a.by # r /\ a.by \in Requests
  BY DEF LimiterInv, AdmittedInv, Admissions
<1>5. AdmittedInv'
  <2>1. new \in Admissions /\ new.by = r /\ new.via = s /\ new.at = now
    BY DEF LimiterInv, LimiterTypes, Admissions
  <2>2. admitted' \subseteq Admissions /\ IsFiniteSet(admitted')
    BY <1>0, <2>1, FS_AddElement DEF LimiterInv, AdmittedInv
  <2>3. \A a, b \in admitted' : a.by = b.by => a = b
    BY <1>0, <1>4, <2>1 DEF LimiterInv, AdmittedInv
  <2> HIDE DEF new
  <2>4. \A a \in admitted' :
          /\ a.at <= now /\ pc'[a.by] \in Through
          /\ a.via = "redis" => stamp[a.by] \in 0..Horizon /\ a.at - Lag <= stamp[a.by]
    <3>. SUFFICES ASSUME NEW a \in admitted'
                  PROVE  /\ a.at <= now /\ pc'[a.by] \in Through
                         /\ a.via = "redis" =>
                              stamp[a.by] \in 0..Horizon /\ a.at - Lag <= stamp[a.by]
      OBVIOUS
    <3>1. CASE a \in admitted
      BY <1>1, <1>4, <3>1 DEF LimiterInv, AdmittedInv
    <3>2. CASE a = new
      BY <1>1, <2>1, <3>2, Limits DEF LimiterInv, LimiterTypes, Through
    <3>. QED
      BY <1>0, <3>1, <3>2
  <2>. QED
    BY <2>2, <2>3, <2>4 DEF AdmittedInv
<1>. QED
  BY <1>2, <1>3, <1>4, <1>5

(* A step that admits r from the table of its worker.                      *)
LEMMA LocalAdmission ==
  ASSUME LimiterInv, NEW r \in Requests, pc[r] \notin Through, Admit(r, on[r]),
         WindowKeeps, TableKeeps,
         [by |-> r, at |-> now] \in table'[on[r]][LimiterOf(r)],
         UNCHANGED <<now, path, on, stamp, lost>>,
         backoff' \in [Workers -> [Limiters -> 1..MaxBackoff]]
  PROVE  LimiterInv'
<1> DEFINE new == [by |-> r, via |-> on[r], at |-> now]
<1>0. /\ on[r] \in Workers /\ on[r] \in Stores /\ on[r] # "redis"
      /\ admitted' = admitted \cup {new} /\ new.via = on[r] /\ new.by = r /\ new.at = now
  BY Limits DEF LimiterInv, LimiterTypes, Admit
<1>1. LimiterTypes' /\ StampInv' /\ AdmittedInv'
  BY <1>0, AdmitFacts
<1>2. WindowInv' /\ TableInv'
  BY DEF WindowKeeps, TableKeeps
<1> HIDE DEF new
<1>3. KeptInv'
  <2>. SUFFICES ASSUME NEW a \in admitted', IsRecent(a), a.via \notin lost
                PROVE  /\ a.via = "redis" => [by |-> a.by, at |-> stamp[a.by]] \in window'
                       /\ a.via # "redis" =>
                            [by |-> a.by, at |-> a.at] \in table'[a.via][LimiterOf(a.by)]
    BY DEF KeptInv, IsRecent, LimiterOf
  <2>1. CASE a \in admitted
    BY <2>1, KeptMarks
  <2>2. CASE a = new
    BY <1>0, <2>2
  <2>. QED
    BY <1>0, <2>1, <2>2
<1>4. RedisBounded'
  <2>1. \A l \in Limiters : RecentOf("redis", l)' = RecentOf("redis", l)
    BY <1>0 DEF RecentOf, IsRecent, LimiterOf
  <2>. QED
    BY <2>1 DEF LimiterInv, RedisBounded
<1>. QED
  BY <1>1, <1>2, <1>3, <1>4 DEF LimiterInv

(* A step that admits r from the window in Redis: everybody it admitted    *)
(* recently still has a mark there, and r's own is counted with them.      *)
LEMMA RedisAdmission ==
  ASSUME LimiterInv, NEW r \in Requests, pc[r] = "counting", Admit(r, "redis"),
         WindowKeeps, [by |-> r, at |-> stamp[r]] \in window',
         Cardinality(window') <= MaxRequests[LimiterOf(r)],
         UNCHANGED <<now, path, on, stamp, lost, table, backoff>>
  PROVE  LimiterInv'
<1> DEFINE new == [by |-> r, via |-> "redis", at |-> now]
<1>0. /\ admitted' = admitted \cup {new} /\ new.via = "redis" /\ new.by = r /\ new.at = now
      /\ pc[r] \notin Through
  BY DEF Admit, Through
<1>1. LimiterTypes' /\ StampInv' /\ AdmittedInv'
  <2>1. stamp[r] \in 0..now /\ now - stamp[r] <= Lag
    BY DEF LimiterInv, StampInv
  <2>2. backoff' \in [Workers -> [Limiters -> 1..MaxBackoff]] /\ "redis" \in Stores
    BY Limits DEF LimiterInv, LimiterTypes
  <2>. QED
    BY <1>0, <2>1, <2>2, AdmitFacts
<1>2. WindowInv' /\ TableInv' /\ TableKeeps
  BY DEF WindowKeeps, TableKeeps, LimiterInv, TableInv
<1> HIDE DEF new
<1>3. KeptInv'
  <2>. SUFFICES ASSUME NEW a \in admitted', IsRecent(a), a.via \notin lost
                PROVE  /\ a.via = "redis" => [by |-> a.by, at |-> stamp[a.by]] \in window'
                       /\ a.via # "redis" =>
                            [by |-> a.by, at |-> a.at] \in table'[a.via][LimiterOf(a.by)]
    BY DEF KeptInv, IsRecent, LimiterOf
  <2>1. CASE a \in admitted
    BY <1>2, <2>1, KeptMarks
  <2>2. CASE a = new
    BY <1>0, <2>2
  <2>. QED
    BY <1>0, <2>1, <2>2
<1>4. RedisBounded'
  <2>. SUFFICES ASSUME "redis" \notin lost', NEW l \in Limiters
                PROVE  Cardinality(RecentOf("redis", l)') <= MaxRequests[l]
    BY DEF RedisBounded
  <2>1. CASE l = LimiterOf(r)
    <3> DEFINE f == [a \in RecentOf("redis", l)' |-> [by |-> a.by, at |-> stamp[a.by]]]
    <3>1. f \in [RecentOf("redis", l)' -> window']
      BY <1>3 DEF KeptInv, RecentOf
    <3>2. \A a, b \in RecentOf("redis", l)' : f[a] = f[b] => a = b
      BY <1>1 DEF AdmittedInv, RecentOf
    <3> HIDE DEF f
    <3>3. IsFiniteSet(window') /\ IsFiniteSet(RecentOf("redis", l)')
      <4>1. RecentOf("redis", l)' \in SUBSET admitted'
        BY DEF RecentOf
      <4>. QED
        BY <1>1, <1>2, <4>1, FS_Subset DEF WindowInv, AdmittedInv
    <3>4. Cardinality(RecentOf("redis", l)') <= Cardinality(window')
      BY <3>1, <3>2, <3>3, Embedding
    <3>5. /\ Cardinality(RecentOf("redis", l)') \in Nat /\ Cardinality(window') \in Nat
          /\ MaxRequests[l] \in Nat
      BY <3>3, FS_CardinalityType, Limits
    <3>. QED
      BY <2>1, <3>4, <3>5
  <2>2. CASE l # LimiterOf(r)
    <3>1. RecentOf("redis", l)' = RecentOf("redis", l)
      BY <1>0, <2>2 DEF RecentOf, IsRecent, LimiterOf
    <3>. QED
      BY <3>1 DEF LimiterInv, RedisBounded
  <2>. QED
    BY <2>1, <2>2
<1>. QED
  BY <1>1, <1>2, <1>3, <1>4 DEF LimiterInv

-----------------------------------------------------------------------------
(* The steps of the limiter, by what they do to the stores.                *)

(* Only the marks of the local table's window count, and it keeps them.    *)
LEMMA DecideKeeps ==
  ASSUME LimiterInv, NEW r \in Requests, pc[r] \notin Through,
         DecideLocally(r, on[r], LimiterOf(r)),
         WindowKeeps, UNCHANGED <<now, path, on, stamp, lost>>,
         backoff' \in [Workers -> [Limiters -> 1..MaxBackoff]]
  PROVE  LimiterInv'
<1> DEFINE w == on[r]
           l == LimiterOf(r)
           active == {m \in table[w][l] : now - m.at < Window}
           own == [by |-> r, at |-> now]
<1>1. w \in Workers /\ l \in Limiters
  BY Limits DEF LimiterInv, LimiterTypes
<1>2. /\ table \in [Workers -> [Limiters -> SUBSET Marks]]
      /\ IsFiniteSet(table[w][l]) /\ Cardinality(table[w][l]) <= MaxRequests[l]
      /\ own \in Marks /\ now - own.at < Window
  BY <1>1, Limits DEF LimiterInv, LimiterTypes, TableInv, Marks
<1>3. /\ active \subseteq Marks /\ IsFiniteSet(active)
      /\ Cardinality(active) \in Nat /\ Cardinality(active) <= MaxRequests[l]
  <2>1. active \in SUBSET table[w][l] /\ active \subseteq Marks
    BY <1>1, <1>2
  <2>2. /\ IsFiniteSet(active) /\ Cardinality(active) <= Cardinality(table[w][l])
        /\ Cardinality(active) \in Nat /\ Cardinality(table[w][l]) \in Nat
    BY <1>2, <2>1, FS_Subset, FS_CardinalityType
  <2>. QED
    BY <1>1, <1>2, <2>1, <2>2, Limits
<1>4. /\ active \cup {own} \subseteq Marks /\ IsFiniteSet(active \cup {own})
      /\ Cardinality(active \cup {own}) <= Cardinality(active) + 1
      /\ Cardinality(active \cup {own}) \in Nat
  <2>1. IsFiniteSet(active \cup {own}) /\ Cardinality(active \cup {own}) =
          IF own \in active THEN Cardinality(active) ELSE Cardinality(active) + 1
    BY <1>3, FS_AddElement
  <2>. QED
    BY <1>2, <1>3, <2>1
<1>5. ASSUME NEW s \in SUBSET Marks, IsFiniteSet(s), Cardinality(s) <= MaxRequests[l],
             active \subseteq s, table' = [table EXCEPT ![w][l] = s]
      PROVE  TableKeeps /\ table'[w][l] = s
  <2>1. /\ table'[w][l] = s
        /\ table' \in [Workers -> [Limiters -> SUBSET Marks]]
        /\ \A v \in Workers, k \in Limiters :
             v # w \/ k # l => table'[v][k] = table[v][k]
    BY <1>1, <1>2, <1>5
  <2>2. TableInv'
    BY <1>5, <2>1 DEF LimiterInv, TableInv
  <2>3. ASSUME NEW v \in Workers, NEW k \in Limiters, NEW m \in table[v][k],
               now - m.at < Window
        PROVE  m \in table'[v][k]
    BY <1>5, <2>1, <2>3
  <2>. QED
    BY <2>1, <2>2, <2>3 DEF TableKeeps
<1>6. TableKeeps \/ table' # table
  BY DEF LimiterInv, TableKeeps, TableInv
<1>7. ASSUME NEW next \in {"unavailable", "refused"}, Goes(r, next), TableKeeps,
             admitted' = admitted
      PROVE  LimiterInv'
  <2>1. /\ pc' = [pc EXCEPT ![r] = next] /\ next \in PCs /\ next # "counting"
        /\ stamp' \in [Requests -> Int] /\ on' \in [Requests -> Workers]
    BY <1>7 DEF Goes, PCs, LimiterInv, LimiterTypes
  <2>. QED
    BY <1>7, <2>1, QuietStep
<1>8. CASE ~fallback
  <2>1. Goes(r, "unavailable") /\ table' = table /\ admitted' = admitted
    BY <1>8 DEF DecideLocally
  <2>. QED
    BY <1>6, <1>7, <2>1
<1>9. CASE fallback /\ HasRoom(Cardinality(active) + 1, l)
  <2>1. table' = [table EXCEPT ![w][l] = active \cup {own}] /\ Admit(r, w)
    BY <1>9 DEF DecideLocally
  <2>2. Cardinality(active \cup {own}) <= MaxRequests[l] /\ active \subseteq active \cup {own}
    BY <1>1, <1>3, <1>4, <1>9, Limits DEF HasRoom
  <2>3. active \cup {own} \in SUBSET Marks
    BY <1>4
  <2>4. TableKeeps /\ table'[w][l] = active \cup {own}
    <3> HIDE DEF active, own
    <3>. QED
      BY <1>4, <1>5, <2>1, <2>2, <2>3, Zenon
  <2>5. own \in table'[w][l]
    BY <2>4
  <2>. QED
    BY <2>1, <2>4, <2>5, LocalAdmission
<1>10. CASE fallback /\ ~HasRoom(Cardinality(active) + 1, l)
  <2>1. table' = [table EXCEPT ![w][l] = active] /\ Goes(r, "refused") /\ admitted' = admitted
    BY <1>10 DEF DecideLocally
  <2>2. TableKeeps
    BY <1>3, <1>5, <2>1
  <2>. QED
    BY <1>7, <2>1, <2>2
<1>. QED
  BY <1>8, <1>9, <1>10

(* The window after r's pipeline, and after its removal.                   *)
LEMMA CountKeeps ==
  ASSUME LimiterInv, NEW r \in Requests, pc[r] = "counting", window' = WithOwn(r)
  PROVE  WindowKeeps /\ [by |-> r, at |-> stamp[r]] \in window'
<1> DEFINE own == [by |-> r, at |-> stamp[r]]
<1>1. stamp[r] \in 0..Horizon /\ stamp[r] <= now /\ now \in Nat
  BY Limits DEF LimiterInv, LimiterTypes, StampInv
<1>2. IsFiniteSet(Purged(stamp[r])) /\ Purged(stamp[r]) \subseteq Marks
  <2>1. Purged(stamp[r]) \in SUBSET window
    BY DEF Purged
  <2>. QED
    BY <2>1, FS_Subset DEF LimiterInv, WindowInv
<1>3. window' = Purged(stamp[r]) \cup {own} /\ own \in Marks
  BY <1>1 DEF WithOwn, Marks
<1>4. WindowInv'
  <2> HIDE DEF own
  <2>1. IsFiniteSet(window')
    BY <1>2, <1>3, FS_AddElement
  <2>. QED
    BY <1>2, <1>3, <2>1 DEF WindowInv
<1>5. ASSUME NEW m \in window, m.at > now - Window
      PROVE  m \in window'
  <2>1. m.at > stamp[r] - Window
    BY <1>1, <1>5, Limits DEF LimiterInv, WindowInv, Marks
  <2>. QED
    BY <1>3, <2>1 DEF Purged
<1>. QED
  BY <1>3, <1>4, <1>5 DEF WindowKeeps

LEMMA RemoveKeeps ==
  ASSUME LimiterInv, NEW r \in Requests, pc[r] \notin Through, window' = WithoutOwn(r)
  PROVE  WindowKeeps
<1>1. WithoutOwn(r) \in SUBSET window
  BY DEF WithoutOwn
<1>2. WindowInv'
  BY <1>1, FS_Subset DEF LimiterInv, WindowInv
<1>. QED
  BY <1>2 DEF WindowKeeps, WithoutOwn

LEMMA SameStores ==
  ASSUME LimiterInv
  PROVE  /\ window' = window => WindowKeeps
         /\ table' = table => TableKeeps
BY DEF LimiterInv, WindowInv, TableInv, WindowKeeps, TableKeeps

LEMMA InitLimiterInv ==
  ASSUME LimiterInit
  PROVE  LimiterInv
<1>1. LimiterTypes
  <2>1. (CHOOSE w \in Workers : TRUE) \in Workers
    BY LimiterAssumption
  <2>2. path \in [Requests -> Paths] /\ now \in 0..Horizon
    BY LimiterAssumption DEF LimiterInit
  <2>3. on \in [Requests -> Workers]
    BY <2>1 DEF LimiterInit
  <2>4. /\ backoff \in [Workers -> [Limiters -> 1..MaxBackoff]] /\ lost \subseteq Stores
        /\ pc \in [Requests -> PCs] /\ stamp \in [Requests -> Int]
    BY Limits DEF LimiterInit, PCs
  <2>. QED
    BY <2>2, <2>3, <2>4 DEF LimiterTypes
<1>2. StampInv /\ WindowInv
  BY FS_EmptySet DEF LimiterInit, StampInv, WindowInv
<1>3. TableInv
  BY FS_EmptySet, Limits DEF LimiterInit, TableInv
<1>4. AdmittedInv /\ KeptInv
  BY FS_EmptySet DEF LimiterInit, AdmittedInv, KeptInv
<1>5. RedisBounded
  <2>1. \A l \in Limiters : RecentOf("redis", l) = {}
    BY DEF LimiterInit, RecentOf
  <2>. QED
    BY <2>1, FS_EmptySet, Limits DEF RedisBounded
<1>. QED
  BY <1>1, <1>2, <1>3, <1>4, <1>5 DEF LimiterInv

(* After a failed call to Redis: an await, or on with the table.           *)
LEMMA FailKeeps ==
  ASSUME LimiterInv, NEW r \in Requests, pc[r] \notin Through, WindowKeeps,
         \/ Fail(r)
         \/ GiveUp(r, on[r], LimiterOf(r)),
         UNCHANGED <<now, path, on, stamp, lost>>
  PROVE  LimiterInv'
<1>0. on[r] \in Workers /\ LimiterOf(r) \in Limiters
  BY Limits DEF LimiterInv, LimiterTypes
<1>1. CASE GiveUp(r, on[r], LimiterOf(r))
  <2>1. backoff' \in [Workers -> [Limiters -> 1..MaxBackoff]]
    <3> DEFINE d == backoff[on[r]][LimiterOf(r)]
               e == IF 2 * d < MaxBackoff THEN 2 * d ELSE MaxBackoff
    <3>1. d \in 1..MaxBackoff
      BY <1>0 DEF LimiterInv, LimiterTypes
    <3>2. e \in 1..MaxBackoff
      BY <3>1, Limits
    <3>3. backoff' = [backoff EXCEPT ![on[r]][LimiterOf(r)] = e]
      BY <1>1 DEF GiveUp
    <3> HIDE DEF e
    <3>. QED
      BY <1>0, <3>2, <3>3 DEF LimiterInv, LimiterTypes
  <2>. QED
    BY <1>1, <2>1, DecideKeeps DEF GiveUp
<1>2. CASE Fail(r) /\ ~client[on[r]][LimiterOf(r)]
  BY <1>1, <1>2 DEF Fail
<1>3. CASE Fail(r) /\ client[on[r]][LimiterOf(r)]
  <2>1. /\ pc' = [pc EXCEPT ![r] = "closing"] /\ "closing" \in PCs
        /\ backoff' = backoff /\ table' = table /\ admitted' = admitted
    BY <1>3 DEF Fail, Goes, PCs
  <2>2. /\ TableKeeps /\ stamp' \in [Requests -> Int] /\ on' \in [Requests -> Workers]
        /\ backoff' \in [Workers -> [Limiters -> 1..MaxBackoff]]
    BY <2>1, SameStores DEF LimiterInv, LimiterTypes
  <2>. QED
    BY <2>1, <2>2, QuietStep
<1>. QED
  BY <1>1, <1>2, <1>3

LEMMA LimiterStepKeeps ==
  ASSUME LimiterInv, NEW r \in Requests, LimiterStep(r)
  PROVE  LimiterInv'
<1>0. /\ on[r] \in Workers /\ LimiterOf(r) \in Limiters /\ stamp \in [Requests -> Int]
      /\ on \in [Requests -> Workers] /\ now \in Int
      /\ backoff \in [Workers -> [Limiters -> 1..MaxBackoff]]
  BY Limits DEF LimiterInv, LimiterTypes
<1>1. [stamp EXCEPT ![r] = now] \in [Requests -> Int]
  BY <1>0
<1>2. ASSUME Count(r), pc[r] \notin Through, UNCHANGED <<now, path, admitted, lost, on, window, table>>,
             backoff' \in [Workers -> [Limiters -> 1..MaxBackoff]]
      PROVE  LimiterInv'
  <2>1. /\ pc' = [pc EXCEPT ![r] = "counting"] /\ "counting" \in PCs
        /\ stamp' \in [Requests -> Int] /\ stamp'[r] = now
        /\ \A q \in Requests \ {r} : stamp'[q] = stamp[q]
        /\ WindowKeeps /\ TableKeeps /\ on' \in [Requests -> Workers]
    BY <1>0, <1>1, <1>2, SameStores DEF Count, Goes, PCs
  <2>. QED
    BY <1>2, <2>1, QuietStep
<1>3. CASE Ask(r)
  <2>1. /\ Count(r) /\ pc[r] \notin Through /\ backoff' = backoff
        /\ UNCHANGED <<now, path, admitted, lost, on, window, table>>
    BY <1>3 DEF Ask, Through, clocks, stores, clients
  <2>. QED
    BY <1>0, <1>2, <2>1
<1>4. CASE Dial(r)
  <2>1. /\ pc' = [pc EXCEPT ![r] = "pinging"] /\ pc[r] \notin Through /\ "pinging" \in PCs
        /\ UNCHANGED <<now, path, admitted, lost, on, stamp, backoff, window, table>>
    BY <1>4 DEF Dial, Goes, Through, PCs, clocks, stores
  <2>2. WindowKeeps /\ TableKeeps
    BY <2>1, SameStores
  <2>. QED
    BY <1>0, <2>1, <2>2, QuietStep
<1>5. CASE DoWithout(r)
  <2>1. /\ pc[r] \notin Through /\ DecideLocally(r, on[r], LimiterOf(r))
        /\ UNCHANGED <<now, path, lost, on, stamp, backoff, window>>
    BY <1>5 DEF DoWithout, Through, clocks, clients
  <2>2. WindowKeeps
    BY <2>1, SameStores
  <2>. QED
    BY <1>0, <2>1, <2>2, DecideKeeps
<1>6. CASE Pinged(r)
  <2>1. /\ pc[r] \notin Through /\ backoff' = [backoff EXCEPT ![on[r]][LimiterOf(r)] = 1]
        /\ UNCHANGED <<now, path, lost, on, window>>
    BY <1>6 DEF Pinged, Through, clocks
  <2>2. backoff' \in [Workers -> [Limiters -> 1..MaxBackoff]]
    BY <1>0, <2>1, Limits
  <2>3. CASE client[on[r]][LimiterOf(r)]
    <3>1. Count(r) /\ UNCHANGED <<table, admitted>>
      BY <1>6, <2>3 DEF Pinged
    <3>. QED
      BY <1>2, <2>1, <2>2, <3>1
  <2>4. CASE ~client[on[r]][LimiterOf(r)]
    <3>1. DecideLocally(r, on[r], LimiterOf(r)) /\ stamp' = stamp /\ WindowKeeps
      BY <1>6, <2>1, <2>4, SameStores DEF Pinged
    <3>. QED
      BY <2>1, <2>2, <3>1, DecideKeeps
  <2>. QED
    BY <2>3, <2>4
<1>7. CASE PingFails(r)
  <2>1. /\ pc[r] \notin Through /\ Fail(r) /\ UNCHANGED <<now, path, on, stamp, lost, window>>
    BY <1>7 DEF PingFails, Through, clocks
  <2>. QED
    BY <2>1, SameStores, FailKeeps
<1>8. CASE Counted(r)
  <2>1. /\ pc[r] = "counting" /\ window' = WithOwn(r)
        /\ UNCHANGED <<now, path, on, stamp, lost, table, backoff>>
    BY <1>8 DEF Counted, clocks, clients
  <2>2. WindowKeeps /\ [by |-> r, at |-> stamp[r]] \in window'
    BY <2>1, CountKeeps
  <2>3. CASE HasRoom(Cardinality(WithOwn(r)), LimiterOf(r))
    <3>1. Admit(r, "redis") /\ Cardinality(window') <= MaxRequests[LimiterOf(r)]
      BY <1>8, <2>1, <2>3 DEF Counted, HasRoom
    <3>. QED
      BY <2>1, <2>2, <3>1, RedisAdmission
  <2>4. CASE ~HasRoom(Cardinality(WithOwn(r)), LimiterOf(r))
    <3>1. /\ pc' = [pc EXCEPT ![r] = "removing"] /\ "removing" \in PCs
          /\ admitted' = admitted /\ pc[r] \notin Through
      BY <1>8, <2>1, <2>4 DEF Counted, Goes, PCs, Through
    <3>. QED
      BY <1>0, <2>1, <2>2, <3>1, SameStores, QuietStep
  <2>. QED
    BY <2>3, <2>4
<1>9. CASE Removed(r)
  <2>1. /\ pc[r] \notin Through /\ window' = WithoutOwn(r)
        /\ pc' = [pc EXCEPT ![r] = "refused"] /\ "refused" \in PCs
        /\ UNCHANGED <<now, path, on, stamp, lost, table, backoff, admitted>>
    BY <1>9 DEF Removed, Goes, PCs, Through, clocks, clients
  <2>. QED
    BY <1>0, <2>1, RemoveKeeps, SameStores, QuietStep
<1>10. CASE Closed(r)
  <2>1. /\ pc[r] \notin Through /\ GiveUp(r, on[r], LimiterOf(r))
        /\ UNCHANGED <<now, path, on, stamp, lost, window>>
    BY <1>10 DEF Closed, Through, clocks
  <2>. QED
    BY <2>1, SameStores, FailKeeps
<1>11. ASSUME NEW applied \in BOOLEAN, CountFails(r, applied)
       PROVE  LimiterInv'
  <2>1. /\ pc[r] = "counting" /\ pc[r] \notin Through /\ Fail(r)
        /\ window' = WithOwn(r) \/ window' = window
        /\ UNCHANGED <<now, path, on, stamp, lost>>
    BY <1>11 DEF CountFails, Through, clocks
  <2>2. WindowKeeps
    BY <2>1, CountKeeps, SameStores
  <2>. QED
    BY <2>1, <2>2, FailKeeps
<1>12. ASSUME NEW applied \in BOOLEAN, RemoveFails(r, applied)
       PROVE  LimiterInv'
  <2>1. /\ pc[r] \notin Through /\ Fail(r)
        /\ window' = WithoutOwn(r) \/ window' = window
        /\ UNCHANGED <<now, path, on, stamp, lost>>
    BY <1>12 DEF RemoveFails, Through, clocks
  <2>2. WindowKeeps
    BY <2>1, RemoveKeeps, SameStores
  <2>. QED
    BY <2>1, <2>2, FailKeeps
<1>. QED
  BY <1>3, <1>4, <1>5, <1>6, <1>7, <1>8, <1>9, <1>10, <1>11, <1>12 DEF LimiterStep

(* Time passes, and stores lose what they have counted.                    *)
LEMMA SurroundingsKeep ==
  ASSUME LimiterInv, Surroundings
  PROVE  LimiterInv'
<1>1. CASE Tick
  <2>1. /\ now' = now + 1 /\ now + 1 \in 0..Horizon
        /\ \A r \in Requests : pc[r] = "counting" => now - stamp[r] < Lag
        /\ UNCHANGED <<lost, window, table, backoff, pc, on, path, stamp, admitted>>
    BY <1>1, Limits DEF Tick, stores, clients, asked, LimiterInv, LimiterTypes
  <2>2. LimiterTypes'
    BY <2>1 DEF LimiterInv, LimiterTypes
  <2>3. StampInv'
    BY <2>1, Limits DEF LimiterInv, LimiterTypes, StampInv
  <2>4. WindowInv' /\ TableInv'
    BY <2>1 DEF LimiterInv, WindowInv, TableInv
  <2>5. \A a \in admitted : a.at \in Nat /\ (IsRecent(a)' => IsRecent(a))
    BY <2>1, Limits DEF LimiterInv, LimiterTypes, AdmittedInv, Admissions, IsRecent
  <2>6. AdmittedInv'
    BY <2>1, <2>5, Limits DEF LimiterInv, LimiterTypes, AdmittedInv
  <2>7. KeptInv'
    BY <2>1, <2>5 DEF LimiterInv, KeptInv, LimiterOf
  <2>8. RedisBounded'
    <3>. SUFFICES ASSUME "redis" \notin lost', NEW l \in Limiters
                  PROVE  Cardinality(RecentOf("redis", l)') <= MaxRequests[l]
      BY DEF RedisBounded
    <3>1. /\ RecentOf("redis", l)' \in SUBSET RecentOf("redis", l)
          /\ RecentOf("redis", l) \in SUBSET admitted
      BY <2>1, <2>5 DEF RecentOf, LimiterOf
    <3>2. IsFiniteSet(RecentOf("redis", l)) /\ IsFiniteSet(RecentOf("redis", l)')
      BY <3>1, FS_Subset DEF LimiterInv, AdmittedInv
    <3>3. Cardinality(RecentOf("redis", l)') <= Cardinality(RecentOf("redis", l))
      BY <3>1, <3>2, FS_Subset
    <3>4. /\ Cardinality(RecentOf("redis", l)') \in Nat /\ Cardinality(RecentOf("redis", l)) \in Nat
          /\ MaxRequests[l] \in Nat /\ Cardinality(RecentOf("redis", l)) <= MaxRequests[l]
      BY <2>1, <3>2, FS_CardinalityType, Limits DEF LimiterInv, RedisBounded
    <3>. QED
      BY <3>3, <3>4
  <2>. QED
    BY <2>2, <2>3, <2>4, <2>6, <2>7, <2>8 DEF LimiterInv
<1>2. CASE Restart
  <2>1. /\ window' = {} /\ lost' = lost \cup {"redis"}
        /\ UNCHANGED <<now, table, backoff, pc, on, path, stamp, admitted>>
    BY <1>2 DEF Restart, clocks, clients, asked
  <2>2. LimiterTypes' /\ StampInv'
    BY <2>1, Limits DEF LimiterInv, LimiterTypes, StampInv
  <2>3. WindowInv' /\ TableInv' /\ AdmittedInv' /\ RedisBounded'
    BY <2>1, FS_EmptySet DEF LimiterInv, WindowInv, TableInv, AdmittedInv, RedisBounded
  <2>4. KeptInv'
    BY <2>1 DEF LimiterInv, KeptInv, IsRecent, LimiterOf
  <2>. QED
    BY <2>2, <2>3, <2>4 DEF LimiterInv
<1>3. ASSUME NEW w \in Workers, NEW l \in Limiters, Evict(w, l)
      PROVE  LimiterInv'
  <2>1. /\ table' = [table EXCEPT ![w][l] = {}] /\ lost' = lost \cup {w}
        /\ UNCHANGED <<now, window, backoff, pc, on, path, stamp, admitted>>
    BY <1>3 DEF Evict, clocks, clients, asked
  <2>2. LimiterTypes' /\ StampInv' /\ WindowInv' /\ AdmittedInv'
    BY <2>1, Limits DEF LimiterInv, LimiterTypes, StampInv, WindowInv, AdmittedInv
  <2>3. /\ table' \in [Workers -> [Limiters -> SUBSET Marks]] /\ table'[w][l] = {}
        /\ \A v \in Workers, k \in Limiters : v # w \/ k # l => table'[v][k] = table[v][k]
    BY <2>1 DEF LimiterInv, TableInv
  <2>4. TableInv'
    <3>. SUFFICES ASSUME NEW v \in Workers, NEW k \in Limiters
                  PROVE  IsFiniteSet(table'[v][k]) /\ Cardinality(table'[v][k]) <= MaxRequests[k]
      BY <2>3 DEF TableInv
    <3>1. CASE v = w /\ k = l
      <4>1. IsFiniteSet({}) /\ Cardinality({}) = 0 /\ MaxRequests[k] \in Nat
        BY FS_EmptySet, Limits
      <4>2. table'[v][k] = {}
        BY <2>3, <3>1
      <4>3. Cardinality(table'[v][k]) = 0
        BY <4>1, <4>2
      <4>. QED
        BY <4>1, <4>2, <4>3
    <3>2. CASE v # w \/ k # l
      BY <2>3, <3>2 DEF LimiterInv, TableInv
    <3>. QED
      BY <3>1, <3>2
  <2>5. KeptInv'
    <3>. SUFFICES ASSUME NEW a \in admitted, IsRecent(a), a.via \notin lost, a.via # w
                  PROVE  /\ a.via = "redis" => [by |-> a.by, at |-> stamp[a.by]] \in window
                         /\ a.via # "redis" =>
                              [by |-> a.by, at |-> a.at] \in table'[a.via][LimiterOf(a.by)]
      BY <2>1 DEF KeptInv, IsRecent, LimiterOf
    <3>1. a.via # "redis" => a.via \in Workers
      BY DEF LimiterInv, AdmittedInv, Admissions, Stores
    <3>. QED
      BY <2>3, <3>1, Limits DEF LimiterInv, KeptInv
  <2>6. RedisBounded'
    BY <2>1 DEF LimiterInv, RedisBounded, RecentOf, IsRecent, LimiterOf
  <2>. QED
    BY <2>2, <2>4, <2>5, <2>6 DEF LimiterInv
<1>. QED
  BY <1>1, <1>2, <1>3 DEF Surroundings

(* Whoever the table or the window let through lately is in it.            *)
LEMMA LimiterInvImplies ==
  ASSUME LimiterInv
  PROVE  AdmittedIsBounded
<1>. SUFFICES ASSUME NEW s \in Stores \ lost, NEW l \in Limiters
              PROVE  Cardinality(RecentOf(s, l)) <= MaxRequests[l]
  BY DEF AdmittedIsBounded, RecentOf, IsRecent
<1>1. CASE s = "redis"
  BY <1>1 DEF LimiterInv, RedisBounded
<1>2. CASE s # "redis"
  <2> DEFINE f == [a \in RecentOf(s, l) |-> [by |-> a.by, at |-> a.at]]
  <2>1. s \in Workers
    BY <1>2 DEF Stores
  <2>2. IsFiniteSet(table[s][l]) /\ Cardinality(table[s][l]) <= MaxRequests[l]
    BY <2>1 DEF LimiterInv, TableInv
  <2>3. f \in [RecentOf(s, l) -> table[s][l]]
    BY <1>2 DEF LimiterInv, KeptInv, RecentOf
  <2>4. \A a, b \in RecentOf(s, l) : f[a] = f[b] => a = b
    BY DEF LimiterInv, AdmittedInv, RecentOf
  <2> HIDE DEF f
  <2>5. Cardinality(RecentOf(s, l)) <= Cardinality(table[s][l])
    BY <2>2, <2>3, <2>4, Embedding
  <2>6. IsFiniteSet(RecentOf(s, l))
    <3>1. RecentOf(s, l) \in SUBSET admitted
      BY DEF RecentOf
    <3>. QED
      BY <3>1, FS_Subset DEF LimiterInv, AdmittedInv
  <2>7. /\ Cardinality(RecentOf(s, l)) \in Nat /\ Cardinality(table[s][l]) \in Nat
        /\ MaxRequests[l] \in Nat
    BY <2>2, <2>6, FS_CardinalityType, Limits
  <2>. QED
    BY <2>2, <2>5, <2>7
<1>. QED
  BY <1>1, <1>2

-----------------------------------------------------------------------------
(* Why a request is refused: a mark in Redis is of one request that has    *)
(* been counted, under its clock reading, and a mark in a table is of one  *)
(* that was admitted.                                                      *)
Early == {"idle", "asking", "pinging", "counting"}

MarksInv ==
  /\ \A m \in window : stamp[m.by] = m.at /\ pc[m.by] \notin Early
  /\ \A w \in Workers, l \in Limiters : \A m \in table[w][l] :
       [by |-> m.by, via |-> w, at |-> m.at] \in admitted /\ LimiterOf(m.by) = l

(* A step of r: it never goes back, and adds no mark but its own.          *)
LEMMA MarksStep ==
  ASSUME LimiterInv, MarksInv, NEW r \in Requests, NEW next,
         pc' = [pc EXCEPT ![r] = next], next \in Early => pc[r] \in Early,
         \A q \in Requests : q # r \/ pc[r] \notin Early => stamp'[q] = stamp[q],
         \/ window' \subseteq window
         \/ /\ window' \subseteq window \cup {[by |-> r, at |-> stamp[r]]}
            /\ next \notin Early /\ stamp' = stamp,
         admitted \subseteq admitted', path' = path,
         \A w \in Workers, l \in Limiters : \A m \in table'[w][l] :
           \/ m \in table[w][l]
           \/ [by |-> m.by, via |-> w, at |-> m.at] \in admitted' /\ LimiterOf(m.by) = l
  PROVE  MarksInv'
<1>0. pc'[r] = next /\ \A q \in Requests \ {r} : pc'[q] = pc[q]
  BY DEF LimiterInv, LimiterTypes
<1>1. \A m \in window : m.by \in Requests
  BY DEF LimiterInv, WindowInv, Marks
<1>2. ASSUME NEW m \in window'
      PROVE  stamp'[m.by] = m.at /\ pc'[m.by] \notin Early
  <2>1. CASE m \in window
    BY <1>0, <1>1, <2>1 DEF MarksInv
  <2>2. CASE m \notin window
    BY <1>0, <2>2
  <2>. QED
    BY <2>1, <2>2
<1>3. ASSUME NEW w \in Workers, NEW l \in Limiters, NEW m \in table'[w][l]
      PROVE  [by |-> m.by, via |-> w, at |-> m.at] \in admitted' /\ LimiterOf(m.by)' = l
  BY DEF MarksInv, LimiterOf
<1>. QED
  BY <1>2, <1>3 DEF MarksInv

LEMMA DecideMarks ==
  ASSUME LimiterInv, NEW r \in Requests, DecideLocally(r, on[r], LimiterOf(r))
  PROVE  /\ \E next \in {"unavailable", "allowed", "refused"} : pc' = [pc EXCEPT ![r] = next]
         /\ admitted \subseteq admitted'
         /\ \A w \in Workers, l \in Limiters : \A m \in table'[w][l] :
              \/ m \in table[w][l]
              \/ [by |-> m.by, via |-> w, at |-> m.at] \in admitted' /\ LimiterOf(m.by) = l
<1> DEFINE v == on[r]
           k == LimiterOf(r)
           active == {m \in table[v][k] : now - m.at < Window}
           own == [by |-> r, at |-> now]
<1>1. v \in Workers /\ k \in Limiters /\ table \in [Workers -> [Limiters -> SUBSET Marks]]
  BY Limits DEF LimiterInv, LimiterTypes, TableInv
<1>2. CASE ~fallback
  BY <1>2 DEF DecideLocally, Goes
<1>3. CASE fallback /\ HasRoom(Cardinality(active) + 1, k)
  <2>1. /\ table' = [table EXCEPT ![v][k] = active \cup {own}]
        /\ admitted' = admitted \cup {[by |-> r, via |-> v, at |-> now]}
        /\ pc' = [pc EXCEPT ![r] = "allowed"]
    BY <1>3 DEF DecideLocally, Admit, Goes
  <2>2. ASSUME NEW w \in Workers, NEW l \in Limiters, NEW m \in table'[w][l]
        PROVE  \/ m \in table[w][l]
               \/ [by |-> m.by, via |-> w, at |-> m.at] \in admitted' /\ LimiterOf(m.by) = l
    <3>1. CASE w = v /\ l = k
      <4>1. m \in active \cup {own}
        BY <1>1, <2>1, <3>1
      <4>. QED
        BY <2>1, <3>1, <4>1
    <3>2. CASE ~ (w = v /\ l = k)
      BY <1>1, <2>1, <3>2
    <3>. QED
      BY <3>1, <3>2
  <2>. QED
    BY <2>1, <2>2
<1>4. CASE fallback /\ ~HasRoom(Cardinality(active) + 1, k)
  <2>1. /\ table' = [table EXCEPT ![v][k] = active]
        /\ admitted' = admitted /\ pc' = [pc EXCEPT ![r] = "refused"]
    BY <1>4 DEF DecideLocally, Goes
  <2>2. ASSUME NEW w \in Workers, NEW l \in Limiters, NEW m \in table'[w][l]
        PROVE  m \in table[w][l]
    BY <1>1, <2>1
  <2>. QED
    BY <2>1, <2>2
<1>. QED
  BY <1>2, <1>3, <1>4

(* After a failed call, and while the client is being closed.              *)
LEMMA FailMarks ==
  ASSUME LimiterInv, NEW r \in Requests,
         \/ Fail(r)
         \/ GiveUp(r, on[r], LimiterOf(r))
  PROVE  /\ \E next \in {"closing", "unavailable", "allowed", "refused"} :
              pc' = [pc EXCEPT ![r] = next]
         /\ admitted \subseteq admitted'
         /\ \A w \in Workers, l \in Limiters : \A m \in table'[w][l] :
              \/ m \in table[w][l]
              \/ [by |-> m.by, via |-> w, at |-> m.at] \in admitted' /\ LimiterOf(m.by) = l
<1>1. CASE GiveUp(r, on[r], LimiterOf(r))
  <2>1. DecideLocally(r, on[r], LimiterOf(r))
    BY <1>1 DEF GiveUp
  <2>. QED
    BY <2>1, DecideMarks
<1>2. CASE Fail(r) /\ ~client[on[r]][LimiterOf(r)]
  BY <1>1, <1>2 DEF Fail
<1>3. CASE Fail(r) /\ client[on[r]][LimiterOf(r)]
  BY <1>3 DEF Fail, Goes
<1>. QED
  BY <1>1, <1>2, <1>3

LEMMA LimiterStepMarks ==
  ASSUME LimiterInv, MarksInv, NEW r \in Requests, LimiterStep(r)
  PROVE  /\ MarksInv'
         /\ \E next \in PCs : pc' = [pc EXCEPT ![r] = next]
<1> DEFINE own == [by |-> r, at |-> stamp[r]]
           TablesFrom == \A w \in Workers, l \in Limiters : \A m \in table'[w][l] :
             \/ m \in table[w][l]
             \/ [by |-> m.by, via |-> w, at |-> m.at] \in admitted' /\ LimiterOf(m.by) = l
<1>0. stamp \in [Requests -> Int]
  BY DEF LimiterInv, LimiterTypes
<1>1. WithOwn(r) \subseteq window \cup {own} /\ WithoutOwn(r) \subseteq window
  BY DEF WithOwn, Purged, WithoutOwn
<1>2. table' = table => TablesFrom
  OBVIOUS
<1>3. ASSUME NEW next \in PCs, pc' = [pc EXCEPT ![r] = next], next \in Early => pc[r] \in Early,
             \A q \in Requests : q # r \/ pc[r] \notin Early => stamp'[q] = stamp[q],
             \/ window' \subseteq window
             \/ window' \subseteq window \cup {own} /\ next \notin Early /\ stamp' = stamp,
             admitted \subseteq admitted', path' = path, TablesFrom
      PROVE  MarksInv' /\ \E n \in PCs : pc' = [pc EXCEPT ![r] = n]
  BY <1>3, MarksStep
<1> HIDE DEF own, TablesFrom
<1>4. CASE Ask(r)
  BY <1>0, <1>2, <1>3, <1>4 DEF Ask, Count, Goes, clocks, stores, Early, PCs
<1>5. CASE Dial(r)
  BY <1>2, <1>3, <1>5 DEF Dial, Goes, stores, Early, PCs
<1>6. ASSUME DecideLocally(r, on[r], LimiterOf(r)), UNCHANGED <<window, path, stamp>>
      PROVE  MarksInv' /\ \E n \in PCs : pc' = [pc EXCEPT ![r] = n]
  <2>1. PICK next \in {"unavailable", "allowed", "refused"} : pc' = [pc EXCEPT ![r] = next]
    BY <1>6, DecideMarks
  <2>2. admitted \subseteq admitted' /\ TablesFrom
    BY <1>6, DecideMarks DEF TablesFrom
  <2>. QED
    BY <1>3, <1>6, <2>1, <2>2 DEF Early, PCs
<1>7. CASE DoWithout(r)
  BY <1>6, <1>7 DEF DoWithout
<1>8. CASE Pinged(r)
  <2>1. CASE client[on[r]][LimiterOf(r)]
    BY <1>0, <1>2, <1>3, <1>8, <2>1 DEF Pinged, Count, Goes, Early, PCs
  <2>2. CASE ~client[on[r]][LimiterOf(r)]
    BY <1>6, <1>8, <2>2 DEF Pinged
  <2>. QED
    BY <2>1, <2>2
<1>9. ASSUME Fail(r) \/ GiveUp(r, on[r], LimiterOf(r)), UNCHANGED <<path, stamp>>,
             window' \subseteq window \cup {own}
      PROVE  MarksInv' /\ \E n \in PCs : pc' = [pc EXCEPT ![r] = n]
  <2>1. PICK next \in {"closing", "unavailable", "allowed", "refused"} :
          pc' = [pc EXCEPT ![r] = next]
    BY <1>9, FailMarks
  <2>2. admitted \subseteq admitted' /\ TablesFrom
    BY <1>9, FailMarks DEF TablesFrom
  <2>. QED
    BY <1>3, <1>9, <2>1, <2>2 DEF Early, PCs
<1>10. CASE PingFails(r)
  BY <1>9, <1>10 DEF PingFails
<1>11. CASE Closed(r)
  BY <1>9, <1>11 DEF Closed
<1>12. CASE Counted(r)
  <2>1. /\ window' \subseteq window \cup {own} /\ TablesFrom
        /\ UNCHANGED <<path, stamp>> /\ admitted \subseteq admitted'
    BY <1>1, <1>2, <1>12 DEF Counted, Admit
  <2>2. PICK next \in {"allowed", "removing"} : pc' = [pc EXCEPT ![r] = next]
    BY <1>12 DEF Counted, Admit, Goes
  <2>. QED
    BY <1>3, <2>1, <2>2 DEF Early, PCs
<1>13. CASE Removed(r)
  BY <1>1, <1>2, <1>3, <1>13 DEF Removed, Goes, Early, PCs
<1>14. ASSUME NEW applied \in BOOLEAN, CountFails(r, applied) \/ RemoveFails(r, applied)
       PROVE  MarksInv' /\ \E n \in PCs : pc' = [pc EXCEPT ![r] = n]
  <2>1. /\ Fail(r) /\ UNCHANGED <<path, stamp>> /\ window' \subseteq window \cup {own}
    BY <1>1, <1>14 DEF CountFails, RemoveFails
  <2>. QED
    BY <1>9, <2>1
<1>. QED
  BY <1>4, <1>5, <1>7, <1>8, <1>10, <1>11, <1>12, <1>13, <1>14 DEF LimiterStep

(* What has left room for nobody: marks of the others in the window, or of *)
(* those this worker let through.                                          *)
LEMMA EarnedInRedis ==
  ASSUME LimiterInv, MarksInv, NEW r \in Requests, pc[r] = "counting",
         ~HasRoom(Cardinality(WithOwn(r)), LimiterOf(r))
  PROVE  Cardinality(CountedBefore(r)) >= MaxRequests[LimiterOf(r)]
<1> DEFINE W == Purged(stamp[r])
           own == [by |-> r, at |-> stamp[r]]
           f == [m \in W |-> m.by]
<1>1. IsFiniteSet(W) /\ W \subseteq window /\ W \subseteq Marks
  <2>1. W \in SUBSET window
    BY DEF Purged
  <2>. QED
    BY <2>1, FS_Subset DEF LimiterInv, WindowInv
<1>2. \A m \in W : /\ m.by \in Requests /\ m.by # r /\ stamp[m.by] = m.at
                   /\ m.at > stamp[r] - Window
                   /\ m = [by |-> m.by, at |-> m.at] /\ pc[m.by] \notin Early
  BY <1>1 DEF MarksInv, Marks, Purged, Early
<1>3. f \in [W -> CountedBefore(r)] /\ \A a, b \in W : f[a] = f[b] => a = b
  BY <1>2 DEF CountedBefore, Early
<1>4. IsFiniteSet(CountedBefore(r))
  <2>1. CountedBefore(r) \in SUBSET Requests
    BY DEF CountedBefore
  <2>. QED
    BY <2>1, FS_Subset, LimiterAssumption
<1> HIDE DEF f, W
<1>5. Cardinality(W) <= Cardinality(CountedBefore(r))
  BY <1>3, <1>4, Embedding
<1>6. WithOwn(r) = W \cup {own}
  BY DEF WithOwn, W
<1> HIDE DEF own
<1>7. Cardinality(WithOwn(r)) <= Cardinality(W) + 1 /\ Cardinality(WithOwn(r)) \in Nat
  <2>1. /\ Cardinality(W \cup {own}) = IF own \in W THEN Cardinality(W) ELSE Cardinality(W) + 1
        /\ IsFiniteSet(W \cup {own})
    BY <1>1, FS_AddElement
  <2>2. Cardinality(W) \in Nat
    BY <1>1, FS_CardinalityType
  <2>. QED
    BY <1>6, <2>1, <2>2
<1>8. /\ Cardinality(W) \in Nat /\ Cardinality(CountedBefore(r)) \in Nat
      /\ MaxRequests[LimiterOf(r)] \in Nat
  BY <1>1, <1>4, FS_CardinalityType, Limits
<1>. QED
  BY <1>5, <1>7, <1>8 DEF HasRoom

LEMMA EarnedLocally ==
  ASSUME LimiterInv, MarksInv, NEW r \in Requests, pc[r] # "refused",
         DecideLocally(r, on[r], LimiterOf(r)), pc'[r] = "refused"
  PROVE  Cardinality(TakenHere(r)) >= MaxRequests[LimiterOf(r)]
<1> DEFINE v == on[r]
           l == LimiterOf(r)
           active == {m \in table[v][l] : now - m.at < Window}
           f == [m \in active |-> [by |-> m.by, via |-> v, at |-> m.at]]
<1>1. v \in Workers /\ l \in Limiters /\ table \in [Workers -> [Limiters -> SUBSET Marks]]
  BY Limits DEF LimiterInv, LimiterTypes, TableInv
<1>2. ~HasRoom(Cardinality(active) + 1, l)
  BY DEF DecideLocally, Admit, Goes, LimiterInv, LimiterTypes
<1>3. IsFiniteSet(active)
  <2>1. active \in SUBSET table[v][l]
    OBVIOUS
  <2>. QED
    BY <1>1, <2>1, FS_Subset DEF LimiterInv, TableInv
<1>4. \A m \in active : /\ m = [by |-> m.by, at |-> m.at] /\ now - m.at < Window
                        /\ [by |-> m.by, via |-> v, at |-> m.at] \in admitted
                        /\ LimiterOf(m.by) = l
  BY <1>1 DEF MarksInv, Marks
<1>5. f \in [active -> TakenHere(r)] /\ \A a, b \in active : f[a] = f[b] => a = b
  BY <1>4 DEF TakenHere
<1>6. IsFiniteSet(TakenHere(r))
  <2>1. TakenHere(r) \in SUBSET admitted
    BY DEF TakenHere
  <2>. QED
    BY <2>1, FS_Subset DEF LimiterInv, AdmittedInv
<1> HIDE DEF f, active
<1>7. Cardinality(active) <= Cardinality(TakenHere(r))
  BY <1>5, <1>6, Embedding
<1>8. /\ Cardinality(active) \in Nat /\ Cardinality(TakenHere(r)) \in Nat
      /\ MaxRequests[l] \in Nat
  BY <1>1, <1>3, <1>6, FS_CardinalityType, Limits
<1>. QED
  BY <1>2, <1>7, <1>8 DEF HasRoom

Earned(r) ==
  /\ pc[r] = "counting" /\ pc'[r] = "removing" =>
       Cardinality(CountedBefore(r)) >= MaxRequests[LimiterOf(r)]
  /\ pc[r] \in {"asking", "pinging", "counting", "closing"} /\ pc'[r] = "refused" =>
       Cardinality(TakenHere(r)) >= MaxRequests[LimiterOf(r)]

LEMMA LimiterStepEarns ==
  ASSUME LimiterInv, MarksInv, NEW q \in Requests, LimiterStep(q), NEW r \in Requests
  PROVE  Earned(r)
<1>1. CASE r # q
  <2>1. PICK next \in PCs : pc' = [pc EXCEPT ![q] = next]
    BY LimiterStepMarks
  <2>2. pc'[r] = pc[r]
    BY <1>1, <2>1 DEF LimiterInv, LimiterTypes
  <2>. QED
    BY <2>2 DEF Earned
<1>2. CASE r = q
  <2>0. /\ pc \in [Requests -> PCs] /\ LimiterStep(r)
        /\ \A next : Goes(r, next) => pc'[r] = next
    BY <1>2 DEF LimiterInv, LimiterTypes, Goes
  <2>1. ASSUME pc[r] = "counting", pc'[r] = "removing"
        PROVE  ~HasRoom(Cardinality(WithOwn(r)), LimiterOf(r))
    <3>1. ASSUME Fail(r)
          PROVE  FALSE
      <4>1. PICK next \in {"closing", "unavailable", "allowed", "refused"} :
              pc' = [pc EXCEPT ![r] = next]
        BY <3>1, FailMarks
      <4>. QED
        BY <2>0, <2>1, <4>1
    <3>2. Counted(r)
      BY <2>0, <2>1, <3>1
      DEF LimiterStep, Ask, Dial, DoWithout, Pinged, PingFails, Closed, Removed, CountFails,
          RemoveFails
    <3>. QED
      BY <2>0, <2>1, <3>2 DEF Counted, Admit
  <2>2. ASSUME pc[r] \in {"asking", "pinging", "counting", "closing"}, pc'[r] = "refused"
        PROVE  DecideLocally(r, on[r], LimiterOf(r))
    <3>1. ASSUME Fail(r)
          PROVE  DecideLocally(r, on[r], LimiterOf(r))
      BY <2>0, <2>2, <3>1 DEF Fail, GiveUp
    <3>2. ~Ask(r) /\ ~Dial(r) /\ ~Counted(r) /\ ~Removed(r)
      BY <2>0, <2>2 DEF Ask, Count, Dial, Counted, Admit, Removed
    <3>3. DoWithout(r) \/ Pinged(r) \/ Closed(r) => DecideLocally(r, on[r], LimiterOf(r))
      BY <2>0, <2>2 DEF DoWithout, Pinged, Count, Closed, GiveUp
    <3>4. PingFails(r) => Fail(r)
      BY DEF PingFails
    <3>5. \A applied \in BOOLEAN : CountFails(r, applied) \/ RemoveFails(r, applied) => Fail(r)
      BY DEF CountFails, RemoveFails
    <3>. QED
      BY <2>0, <3>1, <3>2, <3>3, <3>4, <3>5, Zenon DEF LimiterStep
  <2>3. pc[r] = "counting" /\ pc'[r] = "removing" =>
          Cardinality(CountedBefore(r)) >= MaxRequests[LimiterOf(r)]
    BY <2>1, EarnedInRedis
  <2>4. pc[r] \in {"asking", "pinging", "counting", "closing"} /\ pc'[r] = "refused" =>
          Cardinality(TakenHere(r)) >= MaxRequests[LimiterOf(r)]
    BY <2>2, EarnedLocally
  <2>. QED
    BY <2>3, <2>4 DEF Earned
<1>. QED
  BY <1>1, <1>2

-----------------------------------------------------------------------------
(* The application.                                                        *)
LEMMA SameTurns ==
  ASSUME TurnInv, UNCHANGED turnVars
  PROVE  TurnInv'
BY DEF TurnInv, TurnTypeOK, SentMatchesStage, IsClosedStream, IsTerminal, turnVars

LEMMA SameButFaults ==
  ASSUME LimiterInv, UNCHANGED <<clocks, stores, clients, asked>>
  PROVE  LimiterInv'
BY DEF LimiterInv, LimiterTypes, StampInv, WindowInv, TableInv, AdmittedInv, KeptInv,
       RedisBounded, RecentOf, IsRecent, LimiterOf, clocks, stores, clients, asked

LEMMA SameLimiter ==
  ASSUME LimiterInv, UNCHANGED limiterVars
  PROVE  LimiterInv'
BY SameButFaults DEF limiterVars

LEMMA NextKeeps ==
  ASSUME IInv, [Next]_vars
  PROVE  IInv'
<1>0. LimiterInv /\ TurnInv
  BY DEF IInv
<1>1. ASSUME NEW r \in Requests, NEW w \in Workers, Arrive(r, w), UNCHANGED turnVars
      PROVE  IInv'
  <2>1. PICK next \in {"allowed", "asking"} : pc' = [pc EXCEPT ![r] = next]
    BY <1>1 DEF Arrive, Goes
  <2>2. /\ next \in PCs /\ next # "counting" /\ pc[r] \notin Through
        /\ on' \in [Requests -> Workers] /\ stamp' = stamp /\ stamp' \in [Requests -> Int]
        /\ backoff' \in [Workers -> [Limiters -> 1..MaxBackoff]]
        /\ UNCHANGED <<now, path, admitted, lost>> /\ WindowKeeps /\ TableKeeps
    BY <1>0, <1>1, SameStores
    DEF Arrive, clocks, stores, clients, PCs, Through, LimiterInv, LimiterTypes
  <2>. QED
    BY <1>0, <1>1, <2>1, <2>2, QuietStep, SameTurns DEF IInv
<1>2. ASSUME NEW r \in Requests, LimiterStep(r), UNCHANGED turnVars
      PROVE  IInv'
  BY <1>0, <1>2, LimiterStepKeeps, SameTurns DEF IInv
<1>3. ASSUME NEW r \in Requests, Handle(r)
      PROVE  IInv'
  <2>1. /\ pc' = [pc EXCEPT ![r] = "handled"] /\ "handled" \in PCs
        /\ stamp' = stamp /\ stamp' \in [Requests -> Int] /\ on' \in [Requests -> Workers]
        /\ backoff' \in [Workers -> [Limiters -> 1..MaxBackoff]]
        /\ UNCHANGED <<now, path, admitted, lost>> /\ WindowKeeps /\ TableKeeps
    BY <1>0, <1>3, SameStores
    DEF Handle, Goes, clocks, stores, clients, PCs, LimiterInv, LimiterTypes
  <2>2. LimiterInv'
    BY <1>0, <2>1, QuietStep
  <2>3. ASSUME path[r] # "login"
        PROVE  TurnInv'
    <3>1. Begin(r, path[r] = "chat", path[r] = "cards")
      BY <1>3, <2>3 DEF Handle
    <3>2. PICK chat, list \in BOOLEAN : Begin(r, chat, list)
      BY <3>1
    <3>. QED
      BY <1>0, <3>2, BeginKeeps, GatewayAssumption
  <2>4. ASSUME path[r] = "login"
        PROVE  TurnInv'
    <3>1. UNCHANGED turnVars
      BY <1>3, <2>4 DEF Handle
    <3>. QED
      BY <1>0, <3>1, SameTurns
  <2>. QED
    BY <2>2, <2>3, <2>4 DEF IInv
<1>4. ASSUME NEW r \in Requests, TurnStep(r), UNCHANGED limiterVars
      PROVE  IInv'
  BY <1>0, <1>4, TurnStepKeeps, SameLimiter, GatewayAssumption DEF IInv
<1>5. ASSUME Surroundings, UNCHANGED turnVars
      PROVE  IInv'
  BY <1>0, <1>5, SurroundingsKeep, SameTurns DEF IInv
<1>6. ASSUME UNCHANGED vars
      PROVE  IInv'
  BY <1>0, <1>6, SameLimiter, SameTurns DEF IInv, vars
<1>7. ASSUME NEW r \in Requests, ProviderFails(r), UNCHANGED turnVars
      PROVE  IInv'
  BY <1>0, <1>7, SameButFaults, SameTurns DEF ProviderFails, IInv
<1>8. ASSUME UNCHANGED <<limiterVars, turnVars>>
      PROVE  IInv'
  BY <1>0, <1>8, SameLimiter, SameTurns DEF IInv
<1>. QED
  BY <1>1, <1>2, <1>3, <1>4, <1>5, <1>6, <1>7, <1>8 DEF Next, Request

LEMMA Invariant == Spec => []IInv
<1>1. Init => IInv
  BY InitLimiterInv, InitTurnInv DEF Init, IInv
<1>2. IInv /\ [Next]_vars => IInv'
  BY NextKeeps
<1>. QED
  BY <1>1, <1>2, PTL DEF Spec

(* Every step of the application keeps MarksInv, and refuses for a reason. *)
LEMMA NextEarns ==
  ASSUME LimiterInv, MarksInv, [Next]_vars
  PROVE  /\ MarksInv'
         /\ limiterVars' = limiterVars \/ \A r \in Requests : Earned(r)
<1>0. pc \in [Requests -> PCs]
  BY DEF LimiterInv, LimiterTypes
<1>1. ASSUME UNCHANGED limiterVars
      PROVE  MarksInv'
  BY <1>1 DEF MarksInv, LimiterOf, limiterVars, stores, asked
<1>2. ASSUME NEW q \in Requests, NEW next \in PCs, pc' = [pc EXCEPT ![q] = next],
             next \notin {"removing", "refused"}
      PROVE  \A r \in Requests : Earned(r)
  BY <1>0, <1>2 DEF Earned
<1>3. ASSUME NEW q \in Requests, NEW w \in Workers, Arrive(q, w)
      PROVE  MarksInv' /\ \A r \in Requests : Earned(r)
  <2>1. PICK next \in {"allowed", "asking"} : pc' = [pc EXCEPT ![q] = next]
    BY <1>3 DEF Arrive, Goes
  <2>2. next \in PCs /\ next \notin {"removing", "refused"} /\ pc[q] \in Early
    BY <1>3 DEF PCs, Arrive, Early
  <2>3. UNCHANGED <<window, table, stamp, admitted, path>>
    BY <1>3 DEF Arrive, stores
  <2>. QED
    BY <1>2, <2>1, <2>2, <2>3, MarksStep
<1>4. ASSUME NEW q \in Requests, LimiterStep(q)
      PROVE  MarksInv' /\ \A r \in Requests : Earned(r)
  BY <1>4, LimiterStepMarks, LimiterStepEarns
<1>5. ASSUME NEW q \in Requests, Handle(q)
      PROVE  MarksInv' /\ \A r \in Requests : Earned(r)
  <2>1. pc' = [pc EXCEPT ![q] = "handled"] /\ UNCHANGED <<window, table, stamp, admitted, path>>
    BY <1>5 DEF Handle, Goes, stores
  <2>2. "handled" \in PCs /\ "handled" \notin Early
    BY DEF PCs, Early
  <2>. QED
    BY <1>2, <2>1, <2>2, MarksStep
<1>6. ASSUME Surroundings
      PROVE  MarksInv' /\ \A r \in Requests : Earned(r)
  <2>1. /\ UNCHANGED <<pc, stamp, admitted, path>> /\ window' \subseteq window
        /\ \/ table' = table
           \/ \E w \in Workers, l \in Limiters : table' = [table EXCEPT ![w][l] = {}]
    BY <1>6 DEF Surroundings, Tick, Restart, Evict, stores, asked
  <2>2. ASSUME NEW w \in Workers, NEW l \in Limiters
        PROVE  table'[w][l] \subseteq table[w][l]
    BY <2>1 DEF LimiterInv, TableInv
  <2>3. MarksInv'
    BY <2>1, <2>2 DEF MarksInv, LimiterOf
  <2>. QED
    BY <2>1, <2>3 DEF Earned
<1>7. ASSUME NEW q \in Requests, ProviderFails(q)
      PROVE  MarksInv' /\ \A r \in Requests : Earned(r)
  BY <1>7 DEF ProviderFails, MarksInv, LimiterOf, Earned, stores, asked
<1>. QED
  BY <1>1, <1>3, <1>4, <1>5, <1>6, <1>7 DEF Next, Request, vars

LEMMA MarksInvariant == Spec => [](LimiterInv /\ MarksInv)
<1>1. Init => MarksInv
  BY DEF Init, LimiterInit, MarksInv
<1>2. IInv /\ MarksInv /\ [Next]_vars => MarksInv'
  BY NextEarns DEF IInv
<1>3. IInv => LimiterInv
  BY DEF IInv
<1>. QED
  BY <1>1, <1>2, <1>3, Invariant, PTL DEF Spec

-----------------------------------------------------------------------------
(* Every variable keeps its type: the tables and the backoff their limits, *)
(* a retry loop its number of attempts.                                    *)
THEOREM TypeCorrect == Spec => []TypeOK
<1>1. IInv /\ KeysInv => TypeOK
  BY DEF IInv, LimiterInv, LimiterTypes, WindowInv, TableInv, TurnInv, KeysInv, TypeOK,
         Marks, PCs
<1>. QED
  BY <1>1, Invariant, KeysInvariant, PTL

(* limiter.py: whatever the order of requests, failures and reconnections, *)
(* a store that kept its counts never lets a limiter exceed its maximum.   *)
THEOREM BudgetHolds == Spec => []AdmittedIsBounded
<1>1. IInv => AdmittedIsBounded
  BY LimiterInvImplies DEF IInv
<1>. QED
  BY <1>1, Invariant, PTL

(* services/chat.py: what a browser is shown is the answer of one call,    *)
(* with one last event that is true of it.                                 *)
THEOREM OneAnswer == Spec => []OneAnswerPerTurn
<1>1. IInv => OneAnswerPerTurn
  BY TurnInvImplies DEF IInv
<1>. QED
  BY <1>1, Invariant, PTL

(* limiter.py: a request is refused only if as many others as its limit    *)
(* were counted in the window before it.                                   *)
THEOREM RefusalsAreEarned == Spec => RefusalIsEarned
<1>1. LimiterInv /\ MarksInv /\ [Next]_vars => [\A r \in Requests : Earned(r)]_limiterVars
  BY NextEarns
<1>. QED
  BY <1>1, MarksInvariant, PTL DEF Spec, RefusalIsEarned, Earned
=============================================================================
