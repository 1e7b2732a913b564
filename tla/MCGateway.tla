------------------------------ MODULE MCGateway ------------------------------
(* Small instances of Gateway for TLC.                                     *)
EXTENDS Gateway, TLC

CONSTANTS r1, r2, r3, k1, k2

MCMax == [l \in Limiters |-> IF l = "auth" THEN 2 ELSE 1]

Mix(p, q, s) == (r1 :> p) @@ (r2 :> q) @@ (r3 :> s)
MCMixes == {Mix("auth", "other", "other"), Mix("chat", "none", "none"),
            Mix("cards", "health", "none"), Mix("login", "login", "none")}

(* One key goes when the other comes.                                      *)
MCSchedule == (k1 :> [since |-> 0, until |-> 1]) @@ (k2 :> [since |-> 1, until |-> 9])
OneOfEach == {Mix("auth", "other", "other")}
=============================================================================
