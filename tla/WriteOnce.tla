----------------------------- MODULE WriteOnce -----------------------------
(***************************************************************************)
(* What the idempotency store promises the callers of one key, without     *)
(* clocks, leases, payloads or backends: a slot per key that is free, held *)
(* by one caller, or carries the result one caller wrote. Only the holder  *)
(* of a slot can write or release it; only a written slot is echoed, and   *)
(* only with the writer's result; every caller is answered at most once.   *)
(* Time may take a slot away at any moment (Forget, and Grant of a held    *)
(* slot), which is all that expiry and lease lapse amount to here.         *)
(***************************************************************************)
CONSTANTS Keys, Callers, NoCaller

VARIABLES
  slot,  \* key -> who holds it, or who wrote its result
  told   \* caller -> the answer it got, and whose result that is

Slot == [kind : {"free", "held", "written"}, by : Callers \cup {NoCaller}]
Told == [kind : {"nothing", "own", "echo", "refused"}, by : Callers \cup {NoCaller}]

Free       == [kind |-> "free", by |-> NoCaller]
HeldBy(c)  == [kind |-> "held", by |-> c]
WroteBy(c) == [kind |-> "written", by |-> c]
Nothing    == [kind |-> "nothing", by |-> NoCaller]

Init == /\ slot = [k \in Keys |-> Free]
        /\ told = [c \in Callers |-> Nothing]

Tell(c, kind, by) ==
  /\ told[c] = Nothing
  /\ told' = [told EXCEPT ![c] = [kind |-> kind, by |-> by]]

(* Forgotten(S): the slots after those of S have expired.                  *)
Forgotten(S) == [k \in Keys |-> IF k \in S THEN Free ELSE slot[k]]

Grant(c, k, S) ==
  /\ told[c] = Nothing
  /\ Forgotten(S)[k].kind \in {"free", "held"}
  /\ slot' = [Forgotten(S) EXCEPT ![k] = HeldBy(c)]
  /\ UNCHANGED told

Write(c, k) ==
  /\ slot[k] = HeldBy(c)
  /\ slot' = [slot EXCEPT ![k] = WroteBy(c)]
  /\ Tell(c, "own", c)

Release(c, k) ==
  /\ slot[k] = HeldBy(c)
  /\ slot' = [slot EXCEPT ![k] = Free]
  /\ Tell(c, "own", c)

(* A caller that took no part in the protocol reports its own result.      *)
Bypass(c) == Tell(c, "own", c) /\ UNCHANGED slot

Echo(c, k, S) ==
  /\ Forgotten(S)[k].kind = "written"
  /\ slot' = Forgotten(S)
  /\ Tell(c, "echo", slot[k].by)

Refuse(c, S) ==
  /\ slot' = Forgotten(S)
  /\ Tell(c, "refused", NoCaller)

Forget(S) == slot' = Forgotten(S) /\ UNCHANGED told

(* A process-local store and its callers start over together.              *)
StartOver == /\ slot' = [k \in Keys |-> Free]
             /\ told' = [c \in Callers |-> Nothing]

Next ==
  \/ \E c \in Callers, k \in Keys : Write(c, k) \/ Release(c, k)
  \/ \E c \in Callers, k \in Keys, S \in SUBSET Keys :
       Grant(c, k, S) \/ Echo(c, k, S)
  \/ \E c \in Callers, S \in SUBSET Keys : Refuse(c, S)
  \/ \E c \in Callers : Bypass(c)
  \/ \E S \in SUBSET Keys : Forget(S)
  \/ StartOver

Spec == Init /\ [][Next]_<<slot, told>>
=============================================================================
