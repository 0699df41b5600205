CONSTANTS
  root = root
  a = a
  sub = sub
  b = b
  i1 = i1
  i2 = i2
  i3 = i3
  None = None
  Root <- root
  Dirs <- MCDirs
  Parent <- MCParent
  Inodes <- MCInodes
  Wd <- MCWd
  InitialSlots = 4
  Others = 1
  Headroom = 1
  Limits = {2, 3}
  MaxEvents = 3
  MaxChanges = 3
  MaxStops = 1
  MaxFaults = 1
SPECIFICATION FairSpec
INVARIANT Covered
INVARIANT LookupIsRight
PROPERTY EventuallyScanned
PROPERTY PeriodicHeals
CHECK_DEADLOCK FALSE
