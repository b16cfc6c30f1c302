CONSTANTS
  Peers = {p1, p2, p3}
  Ids = {s1}
  MaxSessions = 6
  Rounds = 2
  WithStats = TRUE
SPECIFICATION Spec
INVARIANT RegistryEmptyWhenIdle
INVARIANT GaugeZeroWhenIdle
CHECK_DEADLOCK FALSE
INVARIANT StaleSessionPendingDelete
PROPERTY ImplementsSessionMap
