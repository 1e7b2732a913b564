\* Three requests on two workers; seconds of two ticks, tokens of two seconds.
SPECIFICATION Spec
CONSTANTS
  Sessions = {s1, s2}
  Workers = {w1, w2}
  Requests = {r1, r2, r3}
  NoSession = NoSession
  NoWorker = NoWorker
  Second = 2
  Ttl = 4
  Horizon = 4
SYMMETRY Symmetry
INVARIANT TypeOK
INVARIANT EndedSessionIsRefused
INVARIANT RotationEndsOldSession
PROPERTY DenialOutlivesOutage
PROPERTY AcceptedIsUnexpired
CHECK_DEADLOCK FALSE
