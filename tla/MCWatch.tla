------------------------------ MODULE MCWatch ------------------------------
(* Watch for a directory with a subdirectory and a place to move it to.  The  *)
(* watch numbers share a slot of the table as long as it has eight.           *)
EXTENDS Watch

CONSTANTS root, a, sub, b, i1, i2, i3

MCDirs == {a, sub, b}
MCParent == [p \in MCDirs |-> IF p = sub THEN a ELSE root]
MCInodes == {i1, i2, i3}
MCWd == [i \in MCInodes |-> IF i = i1 THEN 7 ELSE IF i = i2 THEN 15 ELSE 23]
=============================================================================
