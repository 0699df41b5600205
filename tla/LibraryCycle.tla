---------------------------- MODULE LibraryCycle ----------------------------
(***************************************************************************)
(* `nocturned cycle` (cycle_cmd.c) on the library: scan, resolve, rotate,  *)
(* publish, again and again, while the user works on the archive, system   *)
(* calls fail and the process may be killed at any step.  The ingest step  *)
(* is PinMerge; what resolve picks is left open.                           *)
(***************************************************************************)
EXTENDS Scan, RotateTranscode

\* How the library is set up: [transcode] or not, on one file system or two, and
\* what its names are like.
CONSTANT Settings

Start == \E s \in Settings : /\ mode = s.mode /\ xdev = s.xdev
                             /\ out = s.out /\ lossy = s.lossy
                             /\ Init

\* The manifest becomes any set of tracks with rows.
Resolve ==
  /\ pc = "resolve" /\ pc' = "rotate"
  /\ \/ UNCHANGED <<db, hist>>
     \/ /\ resolves < MaxResolves /\ resolves' = resolves + 1
        /\ \E S \in SUBSET Known(db) : db' = [db EXCEPT !.manifest = S]
        /\ UNCHANGED <<faults, moves, excused, clash>>
  /\ UNCHANGED <<files, conf, scan, rot>>

Publish ==
  /\ pc = "publish" /\ pc' = "scan"
  /\ UNCHANGED <<files, db, conf, scan, rot, hist>>

\* Killed: the scan's transaction is rolled back, the rest stays as it is.
Crash ==
  /\ pc # "scan" /\ faults < MaxFaults /\ faults' = faults + 1
  /\ EndCycle
  /\ resident' = {} /\ todo' = {} /\ errors' = FALSE /\ Stop
  /\ UNCHANGED <<files, db, conf, moves, resolves, excused, clash>>

Cycle == ScanStep \/ Resolve \/ RotateStep \/ TranscodeStep \/ Publish
         \/ (\E t \in Tracks : RelocateRefused(t) \/ EncodeFails(t))

Fails == ScanFails \/ Crash \/ (\E t \in Tracks : MoveFails(t) \/ RowFails(t))

Next == Cycle \/ User \/ Fails

Spec == Start /\ [][Next]_vars

\* The timer starts cycle after cycle (nocturne-cycle.timer).
FairSpec == Spec /\ WF_<<pc, visited, todo, cur, step>>(Cycle)
-----------------------------------------------------------------------------
\* The types of the rows, the files and the program counter (schema 0002 to
\* 0008, cycle_cmd_main).
TypeOK ==
  /\ fs \in [Paths -> Tracks \cup {None, Torn}] /\ linked \in SUBSET Rels
  /\ xfs \in [Rels -> Transcode \cup {None}]
  /\ db \in Rows /\ work \in Rows
  /\ mode \in {"move", "transcode"} /\ xdev \in BOOLEAN /\ black \in SUBSET Tracks
  /\ out \in [Rels -> Rels] /\ lossy \in SUBSET Rels
  /\ pc \in {"scan", "walking", "resolve", "rotate", "relocating", "adding", "removing", "publish"}
  /\ missed \in SUBSET Tracks /\ handled \in SUBSET Tracks
  /\ seen \in SUBSET Tracks /\ visited \in SUBSET Paths /\ bad \in BOOLEAN
  /\ resident \in SUBSET Tracks /\ todo \in SUBSET Tracks /\ cur \in Tracks \cup {None}
  /\ step \in {"none", "copy", "unlink", "path", "location", "encode", "row"}
  /\ errors \in BOOLEAN /\ excused \in BOOLEAN /\ clash \in BOOLEAN
  /\ faults \in 0..MaxFaults /\ moves \in 0..MaxMoves /\ resolves \in 0..MaxResolves

Held(t) == \E p \in Paths : fs[p] = t

\* A file of t lies where the scan looks.
Visible(t) == \E p \in Paths : fs[p] = t /\ ~Artifact(p)

\* Whatever fails or is killed between a link or a copy and the unlink, the
\* content of a track stays whole in some place until the user deletes it
\* (move_one, copy_and_unlink).
NoContentLost == [][\A t \in Tracks : Held(t) /\ ~Held(t)' => moves' # moves]_vars

\* A track whose file the scan can see keeps its pins and likes, wherever the
\* user moves it, between cycles or under the walk, and whatever crashed
\* (on_file, the sweep, the trigger of schema 0008).  The exceptions are the
\* tracks in missed: not seen by this walk because the file was not read, or
\* went from a place still to be visited to one already visited; or another
\* content has taken the path of the row.
PinsFollowFiles == [][\A t \in db.pins \ db'.pins : Visible(t) => t \in missed]_vars

\* The rows that a scan commits are the files it could see, also where a crashed
\* rotation left a file in two places or a row behind; but for the same
\* exceptions, and for the files the user touched during this very walk
\* (on_file, the sweep).
RowsAreFiles ==
  [][pc = "walking" /\ pc' = "resolve" =>
       \A t \in Tracks \ (black \cup missed \cup handled) :
         /\ t \in Known(db') <=> Visible(t)
         /\ t \in Known(db') => fs[db'.path[t]] = t]_vars

\* The file from which Syncthing serves a track of the manifest.
Served(t) ==
  IF mode = "move" THEN db.path[t][1] = "resident" /\ fs[db.path[t]] = t
  ELSE db.x[t] # None /\ xfs[db.x[t]] = [of |-> t, whole |-> TRUE]

\* A cycle that gets as far as publish has put every track of the manifest where
\* the phone gets it from (rotate_run_ex before publish_run).
PublishedIsServed ==
  (pc = "publish" /\ ~excused) => \A t \in db.manifest : Served(t)

\* The same for cycles that nothing has disturbed so far, as long as no two
\* tracks have shared a name for their transcodes: the second of them would be
\* served from the first one's file (promote_transcode).
UndisturbedIsServed == (faults = 0 /\ ~clash) => PublishedIsServed

\* The phone never plays another track's audio under a track's name: what is
\* published for it was made from it, through renames, relocations, adoptions
\* and crashes (relocate_transcodes, promote_transcode, unlink_transcodes).
RightAudio ==
  (pc = "publish" /\ ~excused) =>
    \A t \in db.manifest : db.x[t] # None /\ xfs[db.x[t]] # None => xfs[db.x[t]].of = t

\* Two different files with the same name in archive/ and resident/: the move
\* of either is refused in every cycle.
NameClash == \E r \in Rels \ linked : \A s \in {"archive", "resident"} : fs[<<s, r>>] # None

\* A file at a path of another track's row: every walk that finds it before the
\* other's file is rolled back.
RowClash == \E p \in Paths : Conflict(p)

\* After crashes and failures the cycle reaches publish again and again, by
\* retrying alone (the header of rotate.c: retry-convergence), unless cycle
\* after cycle two files clash, or a file and another track's row.
PublishingResumes == []<>(pc = "publish" \/ NameClash \/ RowClash)
=============================================================================
