----------------------------- MODULE MCCatalog -----------------------------
(* Catalog for one AppRoot coroutine and one refresh.                       *)
EXTENDS Catalog

CONSTANTS t1, t2, r1, s1

MCTracks == {t1, t2}
MCRoots == {r1}
MCRefreshers == {s1}
MCFirst == {t1}
=============================================================================
