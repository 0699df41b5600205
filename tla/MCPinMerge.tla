----------------------------- MODULE MCPinMerge -----------------------------
(* PinMerge for one track and up to Total lines in all files together.      *)
EXTENDS PinMerge

CONSTANTS t, Total

MCTracks == {t}

\* State constraint: the lines that arrive, in all.
LinesBound == Len(file["likes"]) + Len(file["pins"]) + Len(file["actions"]) <= Total
=============================================================================
