\* Two threads and one project, with two faults: no symmetry, for liveness.
SPECIFICATION FairSpec
CONSTANTS
  Projects = {p1}
  Loaders = {l1, l2}
  NoLoader = NoLoader
  MaxFaults = 2
INVARIANT TypeOK
INVARIANT OneLoadAtATime
PROPERTY RefreshKeepsWhatItHas
PROPERTY LoadingFlagIsCleared
