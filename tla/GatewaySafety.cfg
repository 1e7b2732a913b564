\* Three requests of one address at one worker, room for two under /api/auth/ and
\* for one elsewhere, one fault; two logins while the keys rotate; a chat and a list.
SPECIFICATION Spec
CONSTANTS
  r1 = r1  r2 = r2  r3 = r3
  Requests = {r1, r2, r3}
  Turns = {r1, r2, r3}
  Workers = {w1}
  k1 = k1  k2 = k2
  Keys = {k1, k2}
  Nobody = Nobody
  Logins = {r1, r2, r3}
  Servers = {w1}
  Schedule <- MCSchedule
  CacheSeconds = 3
  RefreshMin = 1
  UrlSeconds = 2
  Timeout = 1
  MaxRequests <- MCMax
  Window = 3
  MaxBackoff = 2
  Lag = 1
  MaxFaults = 1
  Horizon = 4
  Retries = 1
  MaxDeltas = 2
  Mixes <- MCMixes
CHECK_DEADLOCK FALSE
INVARIANT TypeOK
INVARIANT AdmittedIsBounded
INVARIANT OneAnswerPerTurn
PROPERTY RefusalIsEarned
PROPERTY VerdictsFollowTheKeys
