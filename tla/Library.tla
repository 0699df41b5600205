------------------------------ MODULE Library ------------------------------
(***************************************************************************)
(* The library on disk and the rows about it, shared by the steps of       *)
(* `nocturned cycle` (cycle_cmd.c): Scan, Rotate and RotateTranscode.      *)
(*                                                                         *)
(* A track is its content (the sha256 of its audio).  A file lies under    *)
(* archive/ or resident/ at a relative name; in transcode mode resident/   *)
(* holds derived files, in xfs, and the originals stay in the archive.     *)
(* The derived file has the name of its original with another extension,   *)
(* so that 01.flac and 01.mp3 share 01.opus.                               *)
(***************************************************************************)
EXTENDS Naturals, FiniteSets

CONSTANTS Tracks,
          Rels,        \* names relative to archive/ or resident/
          None,
          Torn,        \* the content of a file whose copy was cut short
          MaxFaults,   \* bound: crashes and failing system calls
          MaxMoves,    \* bound: what the user does to the archive
          MaxResolves  \* bound: how often the manifest changes

ASSUME LibraryAssumption ==
  /\ None \notin Tracks \cup Rels /\ Torn \notin Tracks \cup {None}
  /\ MaxFaults \in Nat /\ MaxMoves \in Nat /\ MaxResolves \in Nat

Paths == {"archive", "resident"} \X Rels

VARIABLES
  fs,       \* fs[p]: the content of the file at p, or None
  linked,   \* names whose two files are one inode
  xfs,      \* xfs[r]: the transcode at resident/r, or None
  db,       \* the committed rows
  mode,     \* [transcode] enabled or not
  xdev,     \* archive/ and resident/ are on different file systems
  out,      \* out[r]: the name of the transcode of an original named r
  lossy,    \* the names with the extension of a transcode (opus, m4a, aac)
  black,    \* track_blacklist
  pc,       \* what the cycle does next
  work, seen, visited, bad,           \* the scan's transaction, see Scan
  missed,   \* tracks that the walk under way may pass by or whose row it may drop
  handled,  \* tracks that the user moved, added or deleted during the walk
  resident, todo, cur, step, errors,  \* the rotation, see Rotate
  faults, moves, resolves,            \* against the bounds
  excused,  \* the archive changed under a running cycle, or a name was given to
            \* another file
  clash     \* two tracks with rows have had one name for their transcodes

files == <<fs, linked, xfs>>
conf  == <<mode, xdev, black, out, lossy>>
notes == <<missed, handled>>
scan  == <<work, seen, visited, bad, notes>>
rot   == <<resident, todo, cur, step, errors>>
hist  == <<faults, moves, resolves, excused, clash>>
vars  == <<files, db, conf, pc, scan, rot, hist>>

\* tracks.path, residency_state.location and transcode_path, pins, and
\* manifest_current.  A track without a row has no path.
Rows == [path : [Tracks -> Paths \cup {None}],
         loc : [Tracks -> {"none", "archive", "resident"}],
         x : [Tracks -> Rels \cup {None}],
         pins : SUBSET Tracks, manifest : SUBSET Tracks]

Transcode == [of : Tracks \cup {Torn}, whole : BOOLEAN]

ASSUME NoneAssumption == None \notin Paths \cup Transcode

Known(d) == {t \in Tracks : d.path[t] # None}

\* The track whose row has path p (tracks.path is UNIQUE).
At(d, p) == IF \E t \in Tracks : d.path[t] = p
            THEN CHOOSE t \in Tracks : d.path[t] = p ELSE None

\* DELETE FROM tracks: the cascades and the trigger of schema 0008.
DropRows(d, S) ==
  [path |-> [t \in Tracks |-> IF t \in S THEN None ELSE d.path[t]],
   loc |-> [t \in Tracks |-> IF t \in S THEN "none" ELSE d.loc[t]],
   x |-> [t \in Tracks |-> IF t \in S THEN None ELSE d.x[t]],
   pins |-> d.pins \ S, manifest |-> d.manifest \ S]

\* unlink_transcodes: the derived files of the rows that are dropped.
DropTranscodes(d, S) ==
  [r \in Rels |-> IF \E t \in S : d.x[t] = r THEN None ELSE xfs[r]]

\* The transcode of one track has, or is about to take, the name of another's.
Shared(d) ==
  /\ mode = "transcode"
  /\ \E t, u \in Known(d) : t # u /\ out[d.path[u][2]] \in {out[d.path[t][2]], d.x[t]}

\* is_transcode_artifact: the scan takes any file of such a name under resident/
\* for a transcode, an original that was moved there as well.
Artifact(p) == p[1] = "resident" /\ p[2] \in lossy

\* A library that was scanned and rotated before: each file has its row, the
\* resident ones are in place, and any of them are pinned or in the manifest.
Settled(home, up) ==
  LET Where(t) == IF home[t] = None THEN None
                  ELSE IF t \in up /\ mode = "move"
                       THEN <<"resident", home[t]>> ELSE <<"archive", home[t]>>
      Occupant(p) == {t \in Tracks : Where(t) = p}
      Derived(r) == {t \in up : mode = "transcode" /\ out[home[t]] = r}
      known == {t \in Tracks : home[t] # None}
  IN  /\ up \subseteq known /\ black \subseteq Tracks \ known
      /\ \A t, u \in known : t # u => home[t] # home[u]
      /\ \A t, u \in up : t # u /\ mode = "transcode" => out[home[t]] # out[home[u]]
      /\ fs = [p \in Paths |-> IF Occupant(p) = {} THEN None
                               ELSE CHOOSE t \in Occupant(p) : TRUE]
      /\ xfs = [r \in Rels |->
                  IF Derived(r) = {} THEN None
                  ELSE [of |-> CHOOSE t \in Derived(r) : TRUE, whole |-> TRUE]]
      /\ db = [path |-> [t \in Tracks |-> Where(t)],
               loc |-> [t \in Tracks |-> IF t \in up THEN "resident" ELSE "none"],
               x |-> [t \in Tracks |-> IF t \in up /\ mode = "transcode"
                                       THEN out[home[t]] ELSE None],
               pins |-> known, manifest |-> up]

Init ==
  /\ mode \in {"move", "transcode"}
  /\ xdev \in BOOLEAN /\ (mode = "transcode" => ~xdev)
  /\ out \in [Rels -> Rels] /\ lossy \in SUBSET Rels
  /\ black \in SUBSET Tracks
  /\ \E home \in [Tracks -> Rels \cup {None}], up \in SUBSET Tracks : Settled(home, up)
  /\ linked = {}
  /\ pc = "scan"
  /\ work = db /\ seen = {} /\ visited = {} /\ bad = FALSE /\ missed = {} /\ handled = {}
  /\ resident = {} /\ todo = {} /\ cur = None /\ step = "none" /\ errors = FALSE
  /\ faults = 0 /\ moves = 0 /\ resolves = 0
  /\ excused = FALSE /\ clash = Shared(db)
-----------------------------------------------------------------------------
(* The user (beets, streamrip) works on the archive.                       *)

\* A name the rotation is moving or encoding right now, or whose two files are
\* one inode: the user is assumed to leave it alone.
Busy(r) == r \in linked \/ (cur # None /\ db.path[cur][2] = r)

\* Whether touching p now may cost a track its row or its transcode: a cycle
\* is under way, or p is the path of another track's row.
Risky(t, p) == pc # "scan" \/ \E u \in Tracks \ {t} : db.path[u] # None /\ db.path[u] = p

\* What it may cost while the scan walks.  A track that comes to lie where the
\* walk has been, and was not seen before, is passed by; the row of a track at
\* whose path another content comes to lie is dropped when that is found.
Touches(t) == handled' = IF pc = "walking" THEN handled \cup {t} ELSE handled
Puts(t, p) ==
  missed' = IF pc # "walking" THEN missed
            ELSE missed \cup (IF p \in visited THEN {t} \ seen ELSE {})
                        \cup {u \in Tracks \ {t} : work.path[u] = p}

\* A rename keeps the extension: it changes the name of the transcode.
UserMoves(t, r, s) ==
  /\ moves < MaxMoves
  /\ fs[<<"archive", r>>] = t /\ fs[<<"archive", s>>] = None
  /\ ~Busy(r) /\ ~Busy(s) /\ (r \in lossy <=> s \in lossy) /\ out[r] # out[s]
  /\ fs' = [fs EXCEPT ![<<"archive", r>>] = None, ![<<"archive", s>>] = t]
  /\ moves' = moves + 1
  /\ excused' = (excused \/ Risky(t, <<"archive", s>>))
  /\ Touches(t) /\ Puts(t, <<"archive", s>>)
  /\ UNCHANGED <<linked, xfs, db, conf, pc, work, seen, visited, bad, rot, faults, resolves, clash>>

UserDeletes(t, r) ==
  /\ moves < MaxMoves
  /\ fs[<<"archive", r>>] = t /\ ~Busy(r)
  /\ fs' = [fs EXCEPT ![<<"archive", r>>] = None]
  /\ moves' = moves + 1
  /\ excused' = (excused \/ Risky(t, None))
  /\ Touches(t) /\ missed' = missed
  /\ UNCHANGED <<linked, xfs, db, conf, pc, work, seen, visited, bad, rot, faults, resolves, clash>>

\* A new track, or one that the user has deleted and downloads again.
UserAdds(t, r) ==
  /\ moves < MaxMoves
  /\ \A p \in Paths : fs[p] # t
  /\ fs[<<"archive", r>>] = None /\ ~Busy(r)
  /\ fs' = [fs EXCEPT ![<<"archive", r>>] = t]
  /\ moves' = moves + 1
  /\ excused' = (excused \/ Risky(t, <<"archive", r>>))
  /\ Touches(t) /\ Puts(t, <<"archive", r>>)
  /\ UNCHANGED <<linked, xfs, db, conf, pc, work, seen, visited, bad, rot, faults, resolves, clash>>

User == \/ \E t \in Tracks, r, s \in Rels : UserMoves(t, r, s)
        \/ \E t \in Tracks, r \in Rels : UserDeletes(t, r) \/ UserAdds(t, r)
=============================================================================
