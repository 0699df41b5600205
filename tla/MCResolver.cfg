CONSTANTS
  Tracks <- MCTracks
  Size <- MCSize
  Added <- MCAdded
  Album <- MCAlbum
  NoAlbum = NoAlbum
  Artist <- MCArtist
  Excluded = {"b"}
  DiscoverCount = 3
  Seeds = {1, 2}
  Rank <- MCRank
  Count <- MCCount
  MinPlays = 1
  CapEffective = 44
  Hysteresis = 20
  MaxChanges = 3
SPECIFICATION Spec
INVARIANT CapWithinDiscount
INVARIANT LeftOutForSpace
INVARIANT PinsResident
PROPERTY Settles
PROPERTY ExplorationAtMargin
PROPERTY PicksSpread
