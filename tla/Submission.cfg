\* Two rows on one key, two payloads, a lease of 2 in a lifetime of 3, without
\* symmetry: safety, answers and the refinement.
SPECIFICATION FairSpec
CONSTANTS
  Keys = {k1}
  Fingerprints = {h1, h2}
  Callers = {c1, c2}
  NoCaller = NoCaller
  NoKey = NoKey
  Ttl = 3
  Lease = 2
  Wait = 1
  Demo = FALSE
  Horizon = 3
INVARIANT TypeOK
INVARIANT ExclusiveClaim
INVARIANT SecondPostIsJustified
INVARIANT ReplayIsTruthful
INVARIANT LostOnlyAfterDeadline
PROPERTY MemoisedResultIsFinal
PROPERTY EveryRowIsAnswered
PROPERTY ImplementsWriteOnce
