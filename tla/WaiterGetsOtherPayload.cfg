\* The instance of SubmissionSafety, with one property the code does not keep.
SPECIFICATION Spec
CONSTANTS
  Keys = {k1}
  Fingerprints = {h1, h2}
  Callers = {c1, c2, c3}
  NoCaller = NoCaller
  NoKey = NoKey
  Ttl = 3
  Lease = 2
  Wait = 1
  Demo = FALSE
  Horizon = 3
SYMMETRY Symmetry
INVARIANT ReplayIsForTheSameData
