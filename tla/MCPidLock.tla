----------------------------- MODULE MCPidLock -----------------------------
(* PidLock with three processes.  Four inodes are one more than can be open *)
(* at a time, so creating the file is never blocked by the bound.           *)
EXTENDS PidLock, TLC

CONSTANTS p1, p2, p3, i1, i2, i3, i4

MCProcs == {p1, p2, p3}
MCInodes == {i1, i2, i3, i4}
Symmetry == Permutations(MCProcs) \cup Permutations(MCInodes)
=============================================================================
