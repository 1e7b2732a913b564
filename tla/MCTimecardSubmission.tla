----------------------- MODULE MCTimecardSubmission -----------------------
(* Small instances of TimecardSubmission for TLC.                          *)
EXTENDS TimecardSubmission, TLC

(* Callers and fingerprints are only compared for equality.                *)
Symmetry == Permutations(Callers) \cup Permutations(Fingerprints)
=============================================================================
