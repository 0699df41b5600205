------------------------------ MODULE Resolver ------------------------------
(***************************************************************************)
(* `nocturned resolve` (resolver.c, resolve_cmd.c): which tracks the phone *)
(* is to hold.  Seven buckets propose candidates; the candidates are       *)
(* admitted one by one, by priority, while they fit under the effective    *)
(* cap; a track that is resident already weighs less, another one more;    *)
(* the result, without the tracks the user does not want, is the manifest  *)
(* the next resolve starts from.                                           *)
(*                                                                         *)
(* The writer lock keeps every other writer out of a resolve, so the       *)
(* tables it reads change between resolves only.  Tracks are numbers, in   *)
(* the order of their sha256.                                              *)
(***************************************************************************)
EXTENDS Discovery, Sequences, FiniteSetsExt

CONSTANTS Tracks,
          Size,        \* [Tracks -> Nat]
          Added,       \* [Tracks -> Nat], injective: date_added
          Seeds,
          Rank,        \* [Seeds -> [Tracks -> Nat]], injective: explore_rank
          Count,       \* the buckets' limits
          MinPlays,    \* cold_start_play_threshold
          CapEffective,
          Hysteresis,  \* hysteresis_ratio, in percent
          MaxChanges   \* bound: changes of the tables

Buckets == {"manual_pins", "loved", "top_played", "recent_plays", "recent_adds",
            "exploration", "weekly_discovery"}

\* explore_rank gives no two tracks the same rank; the ratio is one.
ASSUME ResolverAssumption ==
  /\ Tracks \subseteq Nat /\ IsFiniteSet(Tracks)
  /\ Size \in [Tracks -> Nat] /\ Count \in [Buckets -> Nat]
  /\ Rank \in [Seeds -> [Tracks -> Nat]]
  /\ \A s \in Seeds : \A t, u \in Tracks : Rank[s][t] = Rank[s][u] => t = u
  /\ CapEffective \in Nat /\ Hysteresis \in 0..100 /\ MaxChanges \in Nat

VARIABLES
  tracks,    \* the tracks table
  history,   \* the phone's plays, oldest first: [track, skip]
  loved,     \* the liked tracks, by the time of the like
  pins,
  picks,     \* the picks of each week, this week's last
  unsynced,  \* unsync_overrides (a blacklisted track has no row in tracks)
  seed,
  manifest,  \* manifest_current
  walking,   \* the admission loop is running
  prio,      \* the candidates of this resolve and their priorities
  todo, admitted, used,
  changes,   \* against the bound
  quiet      \* resolves since the tables changed, at most 2

inputs == <<tracks, history, loved, pins, picks, unsynced, seed>>
loop   == <<prio, todo, admitted, used>>
vars   == <<inputs, manifest, walking, loop, changes, quiet>>

Init ==
  /\ tracks = Tracks /\ history = <<>> /\ loved = <<>> /\ pins = {} /\ picks = <<{}>>
  /\ unsynced = {} /\ seed \in Seeds
  /\ manifest = {} /\ walking = FALSE /\ prio = <<>>
  /\ todo = {} /\ admitted = {} /\ used = 0
  /\ changes = 0 /\ quiet = 0
-----------------------------------------------------------------------------
(* The tables, as ingest, scan, discover and the clock change them.        *)

Changes == ~walking /\ changes < MaxChanges /\ changes' = changes + 1 /\ quiet' = 0
           /\ UNCHANGED <<walking, loop>>

\* The rows that a DELETE leaves.
Without(s, gone) ==
  LET kept[n \in 0..Len(s)] ==
        IF n = 0 THEN <<>>
        ELSE IF s[n] \in gone THEN kept[n - 1] ELSE Append(kept[n - 1], s[n])
  IN  kept[Len(s)]

Play(t, skip) ==
  /\ Changes /\ t \in tracks
  /\ history' = Append(history, [track |-> t, skip |-> skip])
  /\ UNCHANGED <<tracks, loved, pins, picks, unsynced, seed, manifest>>

Like(t, liked) ==
  /\ Changes /\ t \in tracks
  /\ loved' = IF liked THEN Append(Without(loved, {t}), t) ELSE Without(loved, {t})
  /\ UNCHANGED <<tracks, history, pins, picks, unsynced, seed, manifest>>

\* A pin lifts an unsync, an unsync ends a pin.
Pin(t) ==
  /\ Changes /\ t \in tracks /\ pins' = pins \cup {t} /\ unsynced' = unsynced \ {t}
  /\ UNCHANGED <<tracks, history, loved, picks, seed, manifest>>

Unpin(t) ==
  /\ Changes /\ t \in pins /\ pins' = pins \ {t}
  /\ UNCHANGED <<tracks, history, loved, picks, unsynced, seed, manifest>>

Unsync(t) ==
  /\ Changes /\ t \in tracks /\ unsynced' = unsynced \cup {t} /\ pins' = pins \ {t}
  /\ UNCHANGED <<tracks, history, loved, picks, seed, manifest>>

\* The tracks the phone never started.
Unplayed == {t \in tracks : \A i \in DOMAIN history : history[i].track # t}

\* Played, the last time more than 120 days ago: any of the tracks that were
\* played, since time is not modelled.
AgedOut == SUBSET (tracks \ Unplayed)

\* Another run in the same week adds to its picks (INSERT OR IGNORE).
Discover ==
  /\ Changes
  /\ \E old \in AgedOut : \E P \in Picks(tracks, Unplayed, old, pins) :
       picks' = [picks EXCEPT ![Len(picks)] = @ \cup P]
  /\ UNCHANGED <<tracks, history, loved, pins, unsynced, seed, manifest>>

\* A new week: another seed for the exploration bucket, no picks yet.
Reseed(s) ==
  /\ Changes /\ seed' = s /\ s # seed
  /\ picks' = Append(picks, {})
  /\ UNCHANGED <<tracks, history, loved, pins, unsynced, manifest>>

Arrive(t) ==
  /\ Changes /\ t \notin tracks /\ tracks' = tracks \cup {t}
  /\ UNCHANGED <<history, loved, pins, picks, unsynced, seed, manifest>>

\* Foreign keys and a trigger clear whatever names the track.
Leave(t) ==
  /\ Changes /\ t \in tracks /\ tracks' = tracks \ {t}
  /\ history' = Without(history, [track : {t}, skip : BOOLEAN])
  /\ loved' = Without(loved, {t}) /\ pins' = pins \ {t} /\ picks' = [w \in DOMAIN picks |-> picks[w] \ {t}]
  /\ unsynced' = unsynced \ {t} /\ manifest' = manifest \ {t}
  /\ UNCHANGED seed
-----------------------------------------------------------------------------
(* The buckets.                                                            *)

\* ORDER BY, LIMIT: the members of S with fewer than n others ahead of them.
First(S, n, ahead) == {t \in S : Cardinality(ahead[t]) < n}

\* The plays of a track that count, by their place in the history.  (The time
\* window never excludes one: it compares a text with an integer.)
Heard(t) == {i \in DOMAIN history : history[i].track = t /\ ~history[i].skip}
HeardTracks == {t \in tracks : Heard(t) # {}}
LikedAt(t) == CHOOSE i \in DOMAIN loved : loved[i] = t

MorePlays(u, t) == \/ Cardinality(Heard(u)) > Cardinality(Heard(t))
                   \/ Cardinality(Heard(u)) = Cardinality(Heard(t)) /\ u < t
Later(u, t) == Max(Heard(u)) > Max(Heard(t))

\* A shuffle of the whole list: the rank goes to the place in the list.
LowerRankByPlace(u, t) ==
  LET Place(v) == Cardinality({w \in Unplayed : w <= v})
  IN  Rank[seed][Place(u)] < Rank[seed][Place(t)]

LowerRank(u, t) == Rank[seed][u] < Rank[seed][t]
Explored == First(Unplayed, Count["exploration"],
                  [t \in Unplayed |-> {u \in Unplayed : LowerRank(u, t)}])

LovedTracks == {t \in tracks : \E i \in DOMAIN loved : loved[i] = t}

\* MAX(week_start): the last week of which a pick is left.  The query has no
\* ORDER BY; where it cuts, the order of the sha256 stands for the engine's.
Latest == {t \in tracks : \E w \in DOMAIN picks :
             t \in picks[w] /\ \A v \in DOMAIN picks : v > w => picks[v] = {}}

Selected(b) ==
  CASE b = "recent_adds"  ->
         First(tracks, Count[b], [t \in tracks |-> {u \in tracks : Added[u] > Added[t]}])
    [] b = "top_played"   ->
         First(HeardTracks, Count[b], [t \in HeardTracks |-> {u \in HeardTracks : MorePlays(u, t)}])
    [] b = "recent_plays" ->
         First(HeardTracks, Count[b], [t \in HeardTracks |-> {u \in HeardTracks : Later(u, t)}])
    [] b = "loved"        ->
         First(LovedTracks, Count[b],
               [t \in LovedTracks |-> {u \in LovedTracks : LikedAt(u) > LikedAt(t)}])
    [] b = "exploration"  -> Explored
    [] b = "weekly_discovery" ->
         First(Latest, Count[b], [t \in Latest |-> {u \in Latest : u < t}])
    [] b = "manual_pins"  -> pins

Cold == Len(history) < MinPlays
RunningPinsWait == IF Cold THEN {"recent_adds", "exploration"} ELSE Buckets
Running == IF Cold THEN {"recent_adds", "exploration", "manual_pins"} ELSE Buckets

BucketPriority ==
  [b \in Buckets |-> CASE b = "manual_pins" -> 10 [] b = "loved" -> 8 [] b = "top_played" -> 7
                       [] b = "recent_plays" -> 6 [] b = "recent_adds" -> 5
                       [] b = "exploration" -> 2 [] OTHER -> 1]

Candidates == UNION {Selected(b) : b \in Running}
Priority(t) == Max({BucketPriority[b] : b \in {r \in Running : t \in Selected(r)}})
Priorities == [c \in Candidates |-> Priority(c)]
-----------------------------------------------------------------------------
(* Admission.                                                              *)

\* cmp_cand_priority: by priority, then by the sha256.
Precedes(p, c, d) == p[c] > p[d] \/ (p[c] = p[d] /\ c < d)
Before(c, d) == Precedes(prio, c, d)

\* A resident track is easier to keep, another one harder to admit.
Weight(c, resident) ==
  (Size[c] * (IF resident THEN 100 - Hysteresis ELSE 100 + Hysteresis)) \div 100

\* Mutant: the discount and the surcharge are swapped.
EffectiveSwapped(c) == Weight(c, c \notin manifest)

\* The manifest is the one of the previous resolve until the walk is over.
Effective(c) == Weight(c, c \in manifest)

Begin ==
  /\ ~walking /\ walking' = TRUE
  /\ prio' = Priorities
  /\ todo' = DOMAIN prio' /\ admitted' = {} /\ used' = 0
  /\ UNCHANGED <<inputs, manifest, changes, quiet>>

Foremost == CHOOSE c \in todo : \A d \in todo \ {c} : Before(c, d)
Fits(c) == used + Effective(c) <= CapEffective \/ prio[c] >= 10

Walk == walking /\ todo # {} /\ UNCHANGED <<inputs, manifest, walking, prio, changes, quiet>>

AdmitChargesEffective ==
  /\ Walk /\ Fits(Foremost)
  /\ admitted' = admitted \cup {Foremost} /\ used' = used + Effective(Foremost)
  /\ todo' = todo \ {Foremost}

Admit ==
  /\ Walk /\ Fits(Foremost)
  /\ admitted' = admitted \cup {Foremost} /\ used' = used + Size[Foremost]
  /\ todo' = todo \ {Foremost}

SkipEndsWalk ==
  /\ Walk /\ ~Fits(Foremost)
  /\ todo' = {} /\ UNCHANGED <<admitted, used>>

Skip ==
  /\ Walk /\ ~Fits(Foremost)
  /\ todo' = todo \ {Foremost} /\ UNCHANGED <<admitted, used>>

\* write_manifest_to_db: unsynced tracks are left out here only.
Commit ==
  /\ walking /\ todo = {} /\ walking' = FALSE
  /\ manifest' = admitted \ unsynced
  /\ quiet' = Min({quiet + 1, 2})
  /\ prio' = <<>> /\ admitted' = {} /\ used' = 0
  /\ UNCHANGED <<inputs, todo, changes>>

Next ==
  \/ \E t \in Tracks :
       \/ \E yes \in BOOLEAN : Play(t, yes) \/ Like(t, yes)
       \/ Pin(t) \/ Unpin(t) \/ Unsync(t) \/ Arrive(t) \/ Leave(t)
  \/ Discover \/ \E s \in Seeds : Reseed(s)
  \/ Begin \/ Admit \/ Skip \/ Commit

Spec == Init /\ [][Next]_vars
-----------------------------------------------------------------------------
(* Properties.                                                             *)

Bytes(S) == MapThenSumSet(LAMBDA t : Size[t], S)

\* The walk has ended and its result is not written yet.
Walked == walking /\ todo = {}

\* What the discount of one track can come to.
Slack == Max({0} \cup {Size[t] - (Size[t] * (100 - Hysteresis)) \div 100 : t \in Tracks})

\* The manifest passes the effective cap by the discount of one track at the
\* most, however many of its tracks had one; only pins may take more than that
\* (the walk charges the real size of what it admits at a discount).
CapWithinDiscount ==
  Walked => \/ Bytes(admitted) <= CapEffective + Slack
            \/ Bytes(admitted) = Bytes(pins)

\* A candidate is left out only because the candidates that come before it
\* leave no room for it: one that does not fit never ends the walk, and nothing
\* of a lower priority takes the room of what comes before it.
LeftOutForSpace ==
  Walked => \A c \in DOMAIN prio \ admitted :
              /\ c \notin pins
              /\ Bytes({a \in admitted : Before(a, c)}) + Effective(c) > CapEffective

\* After a resolve every pinned track is resident, in cold
\* start and beyond the cap too, and nothing that is unsynced is resident.
PinsResident ==
  quiet >= 1 => pins \subseteq manifest /\ manifest \cap unsynced = {}

\* While the tables do not change the manifest settles: the first resolve after
\* a change is final unless an unsynced track was resident, whose room the second
\* one gives away.  Residents are never exchanged back and forth at the cap.
Settles ==
  [][Commit /\ (quiet = 2 \/ (quiet = 1 /\ unsynced \cap DOMAIN prio = {}))
     => manifest' = manifest]_vars

\* One change of the library or of the plays moves one pick of the exploration
\* bucket at the most: the bucket is not sent to the phone anew.
ExplorationAtMargin ==
  [][seed' = seed => Cardinality(Explored' \ Explored) <= 1]_vars

\* The first picks of a week hold at most two tracks of an album, from whatever
\* pools they come, none of an excluded album, and are fewer than the count only
\* when no other track may be picked (discover_run, take_from_pool).
PicksSpread ==
  [][LET was == picks[Len(picks)]  now == picks'[Len(picks)]
     IN  was = {} /\ now # {} =>
           /\ Spread(now) /\ \A t \in now : Album[t] \notin Excluded
           /\ Cardinality(now) < DiscoverCount =>
                \A t \in tracks \ now : Album[t] \in Excluded \/ ~Spread(now \cup {t})]_vars
-----------------------------------------------------------------------------
(* The inductive strengthening of the safety properties above.             *)

TypeOK ==
  /\ tracks \subseteq Tracks /\ manifest \subseteq Tracks /\ pins \subseteq tracks
  /\ history \in Seq([track : Tracks, skip : BOOLEAN]) /\ loved \in Seq(Tracks)
  /\ picks \in Seq(SUBSET Tracks) /\ picks # <<>>
  /\ unsynced \subseteq tracks /\ seed \in Seeds
  /\ walking \in BOOLEAN /\ quiet \in 0..2

NeverBoth == pins \cap unsynced = {}

\* What the candidates in S that come before c take.
Ahead(S, c) == Bytes({a \in S : Precedes(Priorities, a, c)})

\* One verdict of the walk, in terms of what it has admitted so far.
Verdict(c) == c \in pins \/ Ahead(admitted, c) + Effective(c) <= CapEffective

WalkOK == walking =>
  /\ prio = Priorities
  /\ todo \subseteq Candidates /\ admitted \subseteq Candidates \ todo
  /\ \A c \in Candidates \ todo : \A d \in todo : Before(c, d)
  /\ used = Bytes(admitted)
  /\ used <= CapEffective + Slack \/ admitted \subseteq pins
  /\ \A c \in Candidates \ todo : c \in admitted <=> Verdict(c)

\* S is what a walk admits, be the weights what they were before it or what they
\* are after it.
Fixpoint(S) ==
  /\ pins \subseteq S
  /\ \A c \in S \ pins : Ahead(S, c) + Weight(c, c \notin unsynced) <= CapEffective
  /\ \A c \in Candidates \ S : Ahead(S, c) + Weight(c, FALSE) > CapEffective

Settled == \E S \in SUBSET Candidates : Fixpoint(S) /\ manifest = S \ unsynced

SettledOK == (quiet = 2 \/ (quiet = 1 /\ unsynced \cap Candidates = {})) => Settled

IInv == TypeOK /\ NeverBoth /\ PinsResident /\ WalkOK /\ SettledOK
=============================================================================
