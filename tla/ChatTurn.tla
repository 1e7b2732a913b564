------------------------------ MODULE ChatTurn ------------------------------
(***************************************************************************)
(* What the handlers behind the middleware do with a request: chat_stream  *)
(* (api/v1/chat.py), which reads the employee's last timecard for the      *)
(* prompt and streams the model's answer (services/chat.py, oci_genai.py), *)
(* and list_timecards, which only reads. Reads go through the retry loop   *)
(* of otl_client.py. Demo mode, which streams a constant, is left out.     *)
(***************************************************************************)
EXTENDS Integers, Sequences, FiniteSets

CONSTANTS
  Turns,      \* requests
  Retries,    \* max_retries of both retry loops
  MaxDeltas   \* bound: the pieces a streamed answer comes in

ASSUME TurnAssumption == Retries \in Nat /\ MaxDeltas \in Nat

VARIABLES
  stage,   \* where a handler waits
  chats,   \* whether it is the chat's
  tries,   \* attempt, of the loop that runs
  cut,     \* a call that had given text failed
  gone,    \* the browser has left
  sent,    \* the events of the stream: [kind, call]
  status   \* the HTTP status, 0 before there is one

turnVars == <<stage, chats, tries, cut, gone, sent, status>>

Stages == {"none", "looking", "reading", "opening", "streaming", "completing",
           "finishing", "ended", "closed"}

TurnTypeOK ==
  /\ stage \in [Turns -> Stages]
  /\ chats \in [Turns -> BOOLEAN]
  /\ tries \in [Turns -> 0..Retries]
  /\ cut \in [Turns -> BOOLEAN] /\ gone \in [Turns -> BOOLEAN]
  /\ status \in [Turns -> {0, 200, 500, 502}]

TurnInit ==
  /\ stage = [r \in Turns |-> "none"]
  /\ chats = [r \in Turns |-> FALSE]
  /\ tries = [r \in Turns |-> 0]
  /\ cut = [r \in Turns |-> FALSE]
  /\ gone = [r \in Turns |-> FALSE]
  /\ sent = [r \in Turns |-> << >>]
  /\ status = [r \in Turns |-> 0]

-----------------------------------------------------------------------------
Moves(r, s) == stage' = [stage EXCEPT ![r] = s]

Answers(r, code) ==
  /\ Moves(r, "ended")
  /\ status' = [status EXCEPT ![r] = code]

(* The route's first line: the chat looks up the assignments, the list     *)
(* reads at once, other routes answer.                                     *)
Begin(r, chat, list) ==
  /\ stage[r] = "none"
  /\ chats' = [chats EXCEPT ![r] = chat]
  /\ IF chat \/ list
     THEN Moves(r, IF chat THEN "looking" ELSE "reading") /\ UNCHANGED status
     ELSE Answers(r, 200)
  /\ UNCHANGED <<tries, cut, gone, sent>>

LookedUp(r, ok) ==
  /\ stage[r] = "looking"
  /\ IF ok THEN Moves(r, "reading") /\ UNCHANGED status ELSE Answers(r, 500)
  /\ UNCHANGED <<chats, tries, cut, gone, sent>>

(* Mutation: the last attempt is retried too.                              *)
BugRetriesOnceMore(r, outcome) == outcome = "retryable" /\ tries[r] <= Retries

MayRetry(r, outcome) == outcome = "retryable" /\ tries[r] < Retries

Again(r) == tries' = [tries EXCEPT ![r] = @ + 1]
Afresh(r) == tries' = [tries EXCEPT ![r] = 0]

(* A failed read is a 502 of the list; the chat does without.              *)
AfterRead(r, ok) ==
  IF chats[r] THEN Moves(r, "opening") /\ status' = [status EXCEPT ![r] = 200]
  ELSE Answers(r, IF ok THEN 200 ELSE 502)

(* One attempt of _arequest_with_retry and the sleep before the next.      *)
Read(r, outcome) ==
  /\ stage[r] = "reading"
  /\ IF MayRetry(r, outcome) THEN Again(r) /\ UNCHANGED <<stage, status>>
     ELSE Afresh(r) /\ AfterRead(r, outcome = "done")
  /\ UNCHANGED <<chats, cut, gone, sent>>

-----------------------------------------------------------------------------
(* stream_sse. Nothing is sent to a browser that has left, and the         *)
(* generator is not asked again.                                           *)
Emits(r, kind, call, next) ==
  IF gone[r] THEN Moves(r, "closed") /\ UNCHANGED sent
  ELSE /\ sent' = [sent EXCEPT ![r] = Append(@, [kind |-> kind, call |-> call])]
       /\ Moves(r, next)

Opened(r, ok) ==
  /\ stage[r] = "opening"
  /\ IF ok THEN Moves(r, "streaming") /\ UNCHANGED sent
     ELSE Emits(r, "error", 0, "ended")
  /\ UNCHANGED <<chats, tries, cut, gone, status>>

HasProduced(r) == sent[r] # << >>

Delta(r) ==
  /\ stage[r] = "streaming" /\ Len(sent[r]) < MaxDeltas
  /\ Emits(r, "delta", 0, "streaming")
  /\ UNCHANGED <<chats, tries, cut, gone, status>>

(* The stream is over, with or without its [DONE].                         *)
StreamEnds(r) ==
  /\ stage[r] = "streaming"
  /\ IF HasProduced(r) THEN Emits(r, "done", 0, "ended")
     ELSE Moves(r, "completing") /\ UNCHANGED sent
  /\ UNCHANGED <<chats, tries, cut, gone, status>>

(* Mutation: the answer is asked for again whatever has been sent of it.   *)
BugAlwaysFallsBack(r) == TRUE

FallsBack(r) == ~HasProduced(r)

StreamFails(r) ==
  /\ stage[r] = "streaming"
  /\ cut' = [cut EXCEPT ![r] = HasProduced(r)]
  /\ IF FallsBack(r) THEN Moves(r, "completing") /\ UNCHANGED sent
     ELSE Emits(r, "error", 0, "ended")
  /\ UNCHANGED <<chats, tries, gone, status>>

(* One attempt of complete; an answer without text is not sent.            *)
Complete(r, outcome, text) ==
  /\ stage[r] = "completing"
  /\ IF MayRetry(r, outcome) THEN Again(r) /\ UNCHANGED <<stage, sent>>
     ELSE /\ UNCHANGED tries
          /\ IF outcome # "done" THEN Emits(r, "error", 1, "ended")
             ELSE IF text THEN Emits(r, "delta", 1, "finishing")
             ELSE Emits(r, "done", 1, "ended")
  /\ UNCHANGED <<chats, cut, gone, status>>

Finish(r) ==
  /\ stage[r] = "finishing"
  /\ Emits(r, "done", 1, "ended")
  /\ UNCHANGED <<chats, tries, cut, gone, status>>

(* The browser closes the connection.                                      *)
Leave(r) ==
  /\ chats[r] /\ stage[r] \notin {"none", "ended", "closed"} /\ ~gone[r]
  /\ gone' = [gone EXCEPT ![r] = TRUE]
  /\ UNCHANGED <<stage, chats, tries, cut, sent, status>>

Outcomes == {"done", "retryable", "fatal"}

TurnStep(r) ==
  \/ \E ok \in BOOLEAN : LookedUp(r, ok) \/ Opened(r, ok)
  \/ \E o \in Outcomes : Read(r, o) \/ (\E text \in BOOLEAN : Complete(r, o, text))
  \/ Delta(r) \/ StreamEnds(r) \/ StreamFails(r) \/ Finish(r)
  \/ Leave(r)

-----------------------------------------------------------------------------
(* Properties.                                                             *)

(* What a browser is shown as an answer is one call's: an answer that was  *)
(* cut short is never continued by a second call's nor called done, there  *)
(* is one last event and nothing after it, and a stream that the browser   *)
(* waited for has one.                                                     *)
IsTerminal(e) == e.kind \in {"done", "error"}
OneAnswerPerTurn ==
  \A r \in Turns :
    LET n == Len(sent[r]) IN
      /\ \A i \in 1..n : IsTerminal(sent[r][i]) => i = n
      /\ \A i, j \in 1..n : sent[r][i].call = sent[r][j].call
      /\ cut[r] => \A i \in 1..n : sent[r][i].kind # "done"
      /\ stage[r] = "ended" /\ chats[r] /\ status[r] = 200 =>
           n > 0 /\ IsTerminal(sent[r][n])
=============================================================================
