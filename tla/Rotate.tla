------------------------------- MODULE Rotate -------------------------------
(***************************************************************************)
(* `nocturned rotate` in move mode (rotate.c): the files of the manifest   *)
(* are moved to resident/, the others back to archive/, each by link and   *)
(* unlink (by a copy across file systems), then by two row updates that    *)
(* are commits of their own.  Also what both modes share: the diff of the  *)
(* manifest against what is resident, adds before removes, and the end.    *)
(***************************************************************************)
EXTENDS Library

Side == IF pc = "adding" THEN "resident" ELSE "archive"

\* swap_segment of the row's path; pc says in which direction.
Src(t) == db.path[t]
Dst(t) == <<Side, db.path[t][2]>>

\* filter_resident_present: said to be resident, and the file is there.
Present(t) ==
  /\ db.loc[t] = "resident"
  /\ IF mode = "transcode" THEN db.x[t] # None /\ xfs[db.x[t]] # None
                           ELSE fs[db.path[t]] # None

Stop == cur' = None /\ step' = "none"
Finish(t) == Stop /\ todo' = todo \ {t}

Idle(t) == pc \in {"adding", "removing"} /\ cur = None /\ t \in todo
InMove(t, s) == pc \in {"adding", "removing"} /\ cur = t /\ step = s

Fault == faults < MaxFaults /\ faults' = faults + 1 /\ UNCHANGED <<moves, resolves, excused, clash>>

BeginRotate ==
  /\ pc = "rotate"
  /\ resident' = {t \in Tracks : Present(t)}
  /\ IF mode = "transcode"
       THEN pc' = "relocating" /\ todo' = resident'
       ELSE pc' = "adding" /\ todo' = db.manifest \ resident'
  /\ cur' = None /\ step' = "none" /\ errors' = FALSE
  /\ UNCHANGED <<files, db, conf, scan, hist>>

\* Adds first, then removes.
AddsDone ==
  /\ pc = "adding" /\ todo = {} /\ cur = None
  /\ pc' = "removing" /\ todo' = resident \ db.manifest
  /\ UNCHANGED <<files, db, conf, scan, resident, cur, step, errors, hist>>

\* rotate_cmd.c exits with 1 if any track had an error, and the cycle stops
\* short of publish.  In transcode mode the files under resident/ that no row
\* names are removed (remove_orphan_transcodes).
RemovesDone ==
  /\ pc = "removing" /\ todo = {} /\ cur = None
  /\ pc' = IF errors THEN "scan" ELSE "publish"
  /\ xfs' = IF mode = "move" THEN xfs
            ELSE [r \in Rels |-> IF \E t \in Tracks : db.x[t] = r THEN xfs[r] ELSE None]
  /\ resident' = {} /\ errors' = FALSE
  /\ UNCHANGED <<fs, linked, db, conf, scan, todo, cur, step, hist>>
-----------------------------------------------------------------------------
(* move_one                                                                *)

\* Already on the target side: only the location is recorded.
MoveRecovers(t) ==
  /\ mode = "move" /\ Idle(t) /\ Src(t)[1] = Side
  /\ db' = [db EXCEPT !.loc[t] = Side]
  /\ Finish(t)
  /\ UNCHANGED <<files, conf, pc, scan, resident, errors, hist>>

\* No file to link (ENOENT), or another inode in its place (EEXIST).
MoveRefused(t) ==
  /\ mode = "move" /\ Idle(t) /\ Src(t)[1] # Side
  /\ fs[Src(t)] = None \/ (fs[Dst(t)] # None /\ Src(t)[2] \notin linked)
  /\ errors' = TRUE
  /\ Finish(t)
  /\ UNCHANGED <<files, db, conf, pc, scan, resident, hist>>

\* link(2), or a link that an earlier run left behind (EEXIST, same inode).
MoveLinks(t) ==
  /\ mode = "move" /\ Idle(t) /\ Src(t)[1] # Side
  /\ fs[Src(t)] # None
  /\ \/ fs[Dst(t)] = None /\ ~xdev
     \/ Src(t)[2] \in linked
  /\ fs' = [fs EXCEPT ![Dst(t)] = fs[Src(t)]]
  /\ linked' = linked \cup {Src(t)[2]}
  /\ cur' = t /\ step' = "unlink"
  /\ UNCHANGED <<xfs, db, conf, pc, scan, resident, todo, errors, hist>>

\* EXDEV: copy_and_unlink begins to fill the destination.
MoveCopies(t) ==
  /\ mode = "move" /\ Idle(t) /\ Src(t)[1] # Side
  /\ fs[Src(t)] # None /\ fs[Dst(t)] = None /\ xdev
  /\ fs' = [fs EXCEPT ![Dst(t)] = Torn]
  /\ cur' = t /\ step' = "copy"
  /\ UNCHANGED <<linked, xfs, db, conf, pc, scan, resident, todo, errors, hist>>

CopyDone(t) ==
  /\ InMove(t, "copy")
  /\ fs' = [fs EXCEPT ![Dst(t)] = fs[Src(t)]]
  /\ step' = "unlink"
  /\ UNCHANGED <<linked, xfs, db, conf, pc, scan, resident, todo, cur, errors, hist>>

\* Mutant: the source goes away before its copy is complete.
UnlinkEarly(t) ==
  /\ cur = t /\ step \in {"copy", "unlink"} /\ mode = "move"
  /\ fs' = [fs EXCEPT ![Src(t)] = None]
  /\ linked' = linked \ {Src(t)[2]}
  /\ step' = "path"
  /\ UNCHANGED <<xfs, db, conf, pc, scan, resident, todo, cur, errors, hist>>

UnlinkSource(t) ==
  /\ InMove(t, "unlink") /\ mode = "move"
  /\ fs' = [fs EXCEPT ![Src(t)] = None]
  /\ linked' = linked \ {Src(t)[2]}
  /\ step' = "path"
  /\ UNCHANGED <<xfs, db, conf, pc, scan, resident, todo, cur, errors, hist>>

\* tracks.path is UNIQUE: the update may fail, and the next one is made anyway.
UpdatePath(t) ==
  /\ InMove(t, "path")
  /\ IF At(db, Dst(t)) \in {None, t}
       THEN db' = [db EXCEPT !.path[t] = Dst(t)] /\ UNCHANGED errors
       ELSE errors' = TRUE /\ UNCHANGED db
  /\ step' = "location"
  /\ UNCHANGED <<files, conf, pc, scan, resident, todo, cur, hist>>

RecordLocation(t) ==
  /\ InMove(t, "location")
  /\ db' = [db EXCEPT !.loc[t] = Side]
  /\ Finish(t)
  /\ UNCHANGED <<files, conf, pc, scan, resident, errors, hist>>

\* A system call or a commit fails: copy_only removes its output, a failed
\* unlink or update is counted; after an unlink that fails across file systems
\* nothing more is done for the track.
MoveFails(t) ==
  /\ mode = "move" /\ cur = t /\ pc \in {"adding", "removing"} /\ Fault
  /\ errors' = TRUE
  /\ fs' = IF step = "copy" THEN [fs EXCEPT ![Dst(t)] = None] ELSE fs
  /\ IF step = "copy" \/ (step = "unlink" /\ xdev) \/ step = "location"
       THEN Finish(t)
       ELSE /\ step' = (IF step = "unlink" THEN "path" ELSE "location")
            /\ UNCHANGED <<todo, cur>>
  /\ UNCHANGED <<linked, xfs, db, conf, pc, scan, resident>>

Move(t) == \/ MoveRecovers(t) \/ MoveRefused(t) \/ MoveLinks(t) \/ MoveCopies(t)
           \/ CopyDone(t) \/ UnlinkSource(t) \/ UpdatePath(t) \/ RecordLocation(t)

RotateStep == BeginRotate \/ AddsDone \/ RemovesDone \/ (\E t \in Tracks : Move(t))
=============================================================================
