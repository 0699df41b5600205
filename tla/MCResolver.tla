---------------------------- MODULE MCResolver ----------------------------
(* Resolver for five tracks, of which two or three fit under the cap.      *)
EXTENDS Resolver

MCTracks == 1..5
MCSize == <<7, 12, 20, 14, 9>>
MCAdded == <<2, 4, 1, 3, 5>>
MCRank == <<<<3, 1, 4, 2, 5>>, <<1, 5, 2, 3, 4>>>>
MCAlbum == <<"a", "a", "a", NoAlbum, "b">>
MCArtist == <<"x", "y", "x", "y", "y">>
MCCount == [b \in Buckets |-> IF b = "manual_pins" THEN 5 ELSE 2]
=============================================================================
