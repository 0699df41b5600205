CONSTANTS
  t1 = t1
  t2 = t2
  r1 = r1
  s1 = s1
  Tracks <- MCTracks
  First <- MCFirst
  Roots <- MCRoots
  Refreshers <- MCRefreshers
  MaxSize = 1
  MaxCommits = 3
  MaxChanges = 1
  MaxFaults = 1
SPECIFICATION Spec
INVARIANT CacheIsTrue
INVARIANT YoungManifestIsListed
PROPERTY Converges
CHECK_DEADLOCK FALSE
