------------------------- MODULE MCSessionRequests -------------------------
(* Small instances of SessionRequests for TLC.                             *)
EXTENDS SessionRequests, TLC

(* Requests, workers and sessions are only compared for equality.          *)
Symmetry == Permutations(Requests) \cup Permutations(Workers) \cup Permutations(Sessions)
=============================================================================
