---------------------------- MODULE MCDownloads ----------------------------
(* Downloads for two requests, of which the second fails, a coroutine that  *)
(* submits and one that polls.                                              *)
EXTENDS Downloads

CONSTANTS w1, p1, q

OneWriter == {w1}
OnePoller == {p1}
OneQuery == {q}
SecondFails == {2}
=============================================================================
