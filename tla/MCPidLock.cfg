CONSTANTS
  p1 = p1
  p2 = p2
  p3 = p3
  i1 = i1
  i2 = i2
  i3 = i3
  i4 = i4
  Procs <- MCProcs
  Inodes <- MCInodes
  NoProc = NoProc
  NoInode = NoInode
SPECIFICATION Spec
SYMMETRY Symmetry
INVARIANT SingleWriterUnlessRaced
INVARIANT PidfileNamesHolder
