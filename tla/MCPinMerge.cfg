CONSTANTS
  t = t
  Tracks <- MCTracks
  MaxTs = 3
  MaxLines = 3
  Total = 3
SPECIFICATION Spec
CONSTRAINT LinesBound
INVARIANT NewestLineWins
INVARIANT NeverPinnedAndUnsynced
INVARIANT PinOutlivesStaleUnsync
INVARIANT DeleteSticks
PROPERTY NeverRepinned
CHECK_DEADLOCK FALSE
