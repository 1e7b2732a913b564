\* Up to two entries, three keys, three rows served, two contents of an entry.
SPECIFICATION PanelSpec
CONSTANTS
  Keys = {k1, k2, k3}
  Contents = {e1, e2}
  Callers = {c1, c2, c3}
  NoCaller = NoCaller
  NoKey = NoKey
  NoCall = NoCall
  MaxEntries = 2
SYMMETRY Symmetry
INVARIANT PanelTypeOK
INVARIANT ResultsFollowTheirRows
INVARIANT ConfirmedMeansCreated
PROPERTY NewKeyOnlyForStuckRows
CHECK_DEADLOCK FALSE
