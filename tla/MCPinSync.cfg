CONSTANTS
  c1 = c1
  c2 = c2
  t = t
  Coroutines <- TwoCoroutines
  Tracks <- MCTracks
  MaxTs = 3
  MaxFaults = 1
  MaxLines = 3
SPECIFICATION SyncSpec
INVARIANT SyncedMeansWritten
INVARIANT RowIsNewest
INVARIANT PinReachesDesktop
ACTION_CONSTRAINT PhoneFirst
SYMMETRY Interchangeable
CHECK_DEADLOCK FALSE
