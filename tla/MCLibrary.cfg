CONSTANTS
  t1 = t1
  t2 = t2
  r1 = r1
  r2 = r2
  Tracks <- MCTracks
  Rels <- MCRels
  None = None
  Torn = Torn
  MaxFaults = 1
  MaxMoves = 2
  MaxResolves = 1
  Settings <- AllSettings
SPECIFICATION FairSpec
INVARIANT UndisturbedIsServed
PROPERTY RowsAreFiles
PROPERTY NoContentLost
PROPERTY PinsFollowFiles
PROPERTY PublishingResumes
