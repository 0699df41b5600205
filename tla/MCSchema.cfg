CONSTANTS
  p1 = p1
  p2 = p2
  i1 = i1
  i2 = i2
  Procs <- MCProcs
  Inodes <- MCInodes
  NoProc = NoProc
  NoInode = NoInode
  Target = 9
  Altering = {4, 5, 9}
  MaxFaults = 1
SPECIFICATION FairSpec
INVARIANT OpenedIsCurrent
INVARIANT StuckOnlyWhenStale
PROPERTY Converges
