----------------------------- MODULE MCLibrary -----------------------------
(* LibraryCycle for two tracks and two names.                              *)
EXTENDS LibraryCycle

CONSTANTS t1, t2, r1, r2

MCTracks == {t1, t2}
MCRels == {r1, r2}

Own == [r \in MCRels |-> r]
One == [r \in MCRels |-> r1]
Set(m, x, o, l) == [mode |-> m, xdev |-> x, out |-> o, lossy |-> l]

TranscodeOnly == {Set("transcode", FALSE, Own, {})}
AllSettings == TranscodeOnly \cup {Set("transcode", FALSE, One, {}),
                                  Set("move", FALSE, Own, {}), Set("move", TRUE, Own, {r1})}
=============================================================================
