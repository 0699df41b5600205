--------------------------- MODULE MCJsonlStream ---------------------------
(* JsonlStream with three lines: one byte and two bytes of content, and one *)
(* that is refused.  The limit is two bytes; lines over the limit arise     *)
(* when a torn write leaves a fragment in front of the next line.           *)
EXTENDS JsonlStream

CONSTANTS a, b, no

MCLines == {a, b, no}
MCWidth == [l \in Lines |-> IF l = b THEN 2 ELSE 1]
MCRejected == {no}
=============================================================================
