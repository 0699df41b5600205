----------------------------- MODULE MCMigrate -----------------------------
(* Migrate for two tracks and three names: a.flac, whose transcode is      *)
(* a.opus, an original that is named a.opus, and another lossy original.    *)
EXTENDS Migrate

CONSTANTS t1, t2, flac, opus, lossy

MCTracks == {t1, t2}
MCRels == {flac, opus, lossy}
MCOpus == [r \in MCRels |-> IF r = flac THEN opus ELSE r]
=============================================================================
