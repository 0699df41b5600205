CONSTANTS
  t1 = t1
  t2 = t2
  flac = flac
  opus = opus
  lossy = lossy
  Tracks <- MCTracks
  Rels <- MCRels
  Opus <- MCOpus
  None = None
  MaxFaults = 2
SPECIFICATION FairSpec
INVARIANT DeliveredIsWhole
PROPERTY LostOnlyToANamesake
PROPERTY Settles
