--------------------------- MODULE MCReviewPanel ---------------------------
(* Small instances of ReviewPanel for TLC.                                 *)
EXTENDS ReviewPanel, TLC

(* Callers, keys and contents are only compared for equality.          *)
Symmetry == Permutations(Callers) \cup Permutations(Keys) \cup Permutations(Contents)
=============================================================================
