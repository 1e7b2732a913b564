\* Two connections of one user with one slot, a queue of one, two results.
\* The system may stop: see AwaitsProvider.
SPECIFICATION FairSttSpec
CONSTANTS
  Sessions = {s1, s2}
  Users = {u1}
  MaxConnections = 1
  QueueSize = 1
  MaxResults = 2
INVARIANT SttTypeOK
INVARIANT SlotsAreCounted
INVARIANT ProviderConnectionsAreBounded
INVARIANT NothingIsLostWhileOpen
PROPERTY BrowserEndsSession
PROPERTY ProviderEndsSession
PROPERTY TranscriptsArrive
CHECK_DEADLOCK FALSE
