\* Two attempts with one body under two names, four states of the catalogue, one midnight.
SPECIFICATION Spec
CONSTANTS
  None = None
  Bad = Bad
  me = me  other = other  k1 = k1  k2 = k2  p1 = p1  p2 = p2
  n1 = n1  n2 = n2  n3 = n3  A = A  B = B
  t1 = t1  t2 = t2  t3 = t3  d1 = d1  d2 = d2  reg = reg  odd = odd  m1 = m1  m2 = m2
  Day = 8
  DefaultStart = 3
  MaxEntry = 8
  MaxDay = 8
  Types = {reg}
  DefaultType = reg
  Attempts = {a1, a2}
  Keys <- MCKeys
  Me = me
  Names <- MCNames
  NumericIds = {me}
  Bodies <- MCBodies
  Resent <- MCResent
  Catalogues <- MCCatalogues
  MaxRows = 3
  LastDay = 1
SYMMETRY Symmetry
INVARIANT TypeOK
INVARIANT BookedWorkIsAssigned
INVARIANT BookedTimesAreWhole
INVARIANT DaysStayWithinLimit
INVARIANT StatusIsTrue
INVARIANT PreflightAgreesWithTheRoute
INVARIANT ConflictIsExplained
