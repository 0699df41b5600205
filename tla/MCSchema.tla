------------------------------ MODULE MCSchema ------------------------------
(* Schema with the nine migrations of schema/, of which 0004, 0005 and 0009 *)
(* alter a table, and two processes.                                        *)
EXTENDS Schema

CONSTANTS p1, p2, i1, i2

MCProcs == {p1, p2}
MCInodes == {i1, i2}
=============================================================================
