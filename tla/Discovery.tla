----------------------------- MODULE Discovery -----------------------------
(***************************************************************************)
(* What `nocturned discover` (discover.c) can pick: four pools of tracks,  *)
(* each shuffled, are gone through one after the other; a track is taken   *)
(* while its pool has a quota left and its album has had fewer than        *)
(* PerAlbumCap picks, from whatever pool.  The shuffles are left open: a   *)
(* pick is any outcome of some order of the pools.                         *)
(***************************************************************************)
EXTENDS Naturals, FiniteSets

CONSTANTS Album,         \* the album of each track, or NoAlbum
          NoAlbum,
          Artist,        \* the album artist of each track
          Excluded,      \* albums named by exclude_album_substrings
          DiscoverCount  \* discover_count

ASSUME DiscoveryAssumption == DiscoverCount \in Nat

PerAlbumCap == 2

FromAlbum(S, t) == {u \in S : Album[u] = Album[t]}

\* Tracks without an album are not counted (ac_get, ac_inc).
Spread(S) == \A t \in S : Album[t] = NoAlbum \/ Cardinality(FromAlbum(S, t)) <= PerAlbumCap

\* What no earlier pool has given (set_has, set_add).
Untaken(pool, had) == pool \ had

\* Mutant: a counter of albums for each pool.
TakesPerPool(pool, had, target) ==
  {S \in SUBSET Untaken(pool, had) :
     /\ Spread(S) /\ Cardinality(S) <= target
     /\ Cardinality(S) = target \/ \A t \in Untaken(pool, had) \ S : ~Spread(S \cup {t})}

\* take_from_pool: what can be taken from a pool when had is picked already.
\* The walk ends early only when nothing in the pool may be taken any more.
Takes(pool, had, target) ==
  {S \in SUBSET Untaken(pool, had) :
     /\ Spread(had \cup S) /\ Cardinality(S) <= target
     /\ Cardinality(S) = target \/ \A t \in Untaken(pool, had) \ S : ~Spread(had \cup S \cup {t})}

\* Each quota is rounded up, so together they may pass the count.
Quota(percent) == (DiscoverCount * percent + 99) \div 100

Listed(S) == {t \in S : Album[t] \notin Excluded}

NearLoved(S, pinned) == {t \in S : \E p \in pinned : Artist[p] = Artist[t]}

\* The picks of one run: never played, aged out, by an artist of a pinned track
\* and never played, and any track for what is left of the count.
Picks(all, unplayed, old, pinned) ==
  UNION {UNION {UNION {
    LET had  == N \cup A \cup L
        left == IF Cardinality(had) < DiscoverCount
                THEN DiscoverCount - Cardinality(had) ELSE 0
    IN  {had \cup F : F \in Takes(Listed(all), had, left)}
    : L \in Takes(Listed(NearLoved(unplayed, pinned)), N \cup A, Quota(15))}
    : A \in Takes(Listed(old), N, Quota(25))}
    : N \in Takes(Listed(unplayed), {}, Quota(50))}
=============================================================================
