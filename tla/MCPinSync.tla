----------------------------- MODULE MCPinSync -----------------------------
(* PinSync for one track and two coroutines.                                *)
EXTENDS PinSync, TLC

CONSTANTS c1, c2, t

TwoCoroutines == {c1, c2}
MCTracks == {t}
Interchangeable == Permutations(TwoCoroutines)

\* No step of the phone reads what the desktop writes, so a step of the desktop
\* can be put off until after every step of the phone that follows it, and the
\* same state is reached.  It is enough to let the phone finish first.
PhoneFirst ==
  \/ UNCHANGED vars /\ reading = "none" /\ \A l \in Phone!Logs : file[l] = <<>>
  \/ UNCHANGED phone /\ \A c \in Coroutines : at[c] = "idle"
=============================================================================
