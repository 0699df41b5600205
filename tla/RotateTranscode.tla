-------------------------- MODULE RotateTranscode --------------------------
(***************************************************************************)
(* `nocturned rotate` in transcode mode (rotate.c, transcode.c): the       *)
(* originals stay in archive/; resident/ holds what ffmpeg made of them,   *)
(* at a name derived from the original's.  (All originals are under        *)
(* archive/: transcode-migrate has been run.)                              *)
(***************************************************************************)
EXTENDS Rotate

\* path_with_ext of the original's path under resident/.
Name(t) == out[db.path[t][2]]

Task(t, phase) == mode = "transcode" /\ pc = phase /\ cur = None /\ t \in todo
InTask(t, phase, s) == mode = "transcode" /\ pc = phase /\ cur = t /\ step = s

-----------------------------------------------------------------------------
(* relocate_transcodes: transcodes follow their renamed originals.         *)

InPlace(t) ==
  /\ Task(t, "relocating") /\ db.x[t] = Name(t)
  /\ Finish(t)
  /\ UNCHANGED <<files, db, conf, pc, scan, resident, errors, hist>>

\* Mutant: whatever has the new name is overwritten without a look.
RelocateOver(t) ==
  /\ Task(t, "relocating") /\ db.x[t] # Name(t) /\ xfs[db.x[t]] # None
  /\ xfs' = [xfs EXCEPT ![db.x[t]] = None]
  /\ cur' = t /\ step' = "row"
  /\ UNCHANGED <<fs, linked, db, conf, pc, scan, resident, todo, errors, hist>>

\* The file is renamed; if the new name is taken, it is removed instead.
Relocate(t) ==
  /\ Task(t, "relocating") /\ db.x[t] # Name(t)
  /\ xfs[Name(t)] # None \/ xfs[db.x[t]] # None
  /\ xfs' = [xfs EXCEPT ![db.x[t]] = None,
                        ![Name(t)] = IF @ = None THEN xfs[db.x[t]] ELSE @]
  /\ cur' = t /\ step' = "row"
  /\ UNCHANGED <<fs, linked, db, conf, pc, scan, resident, todo, errors, hist>>

\* Another track's relocation took the file away, or rename(2) fails.
RelocateRefused(t) ==
  /\ Task(t, "relocating") /\ db.x[t] # Name(t)
  /\ IF xfs[Name(t)] = None /\ xfs[db.x[t]] = None THEN UNCHANGED hist ELSE Fault
  /\ errors' = TRUE
  /\ Finish(t)
  /\ UNCHANGED <<files, db, conf, pc, scan, resident>>

\* The row adopts the file under the new name, whoever made it.
RelocateRow(t) ==
  /\ InTask(t, "relocating", "row")
  /\ db' = [db EXCEPT !.x[t] = Name(t)]
  /\ Finish(t)
  /\ UNCHANGED <<files, conf, pc, scan, resident, errors, hist>>

RelocateDone ==
  /\ pc = "relocating" /\ todo = {} /\ cur = None
  /\ pc' = "adding" /\ todo' = db.manifest \ resident
  /\ UNCHANGED <<files, db, conf, scan, resident, cur, step, errors, hist>>
-----------------------------------------------------------------------------
(* promote_transcode                                                       *)

Delivered(t) == [db EXCEPT !.loc[t] = "resident", !.x[t] = Name(t)]

\* A file of that name is taken for the transcode, complete or not.
PromoteAdopts(t) ==
  /\ Task(t, "adding") /\ xfs[Name(t)] # None
  /\ db' = Delivered(t)
  /\ Finish(t)
  /\ UNCHANGED <<files, conf, pc, scan, resident, errors, hist>>

\* ffmpeg writes to the final name.
Encode(t) ==
  /\ Task(t, "adding") /\ xfs[Name(t)] = None /\ fs[db.path[t]] # None
  /\ xfs' = [xfs EXCEPT ![Name(t)] = [of |-> fs[db.path[t]], whole |-> FALSE]]
  /\ cur' = t /\ step' = "encode"
  /\ UNCHANGED <<fs, linked, db, conf, pc, scan, resident, todo, errors, hist>>

EncodeDone(t) ==
  /\ InTask(t, "adding", "encode")
  /\ xfs' = [xfs EXCEPT ![Name(t)].whole = TRUE]
  /\ step' = "row"
  /\ UNCHANGED <<fs, linked, db, conf, pc, scan, resident, todo, cur, errors, hist>>

\* ffmpeg cannot open its input, or ends with an error: its output is removed.
EncodeFails(t) ==
  /\ \/ InTask(t, "adding", "encode") /\ Fault
     \/ /\ Task(t, "adding") /\ xfs[Name(t)] = None /\ fs[db.path[t]] = None
        /\ UNCHANGED hist
  /\ xfs' = [xfs EXCEPT ![Name(t)] = None]
  /\ errors' = TRUE
  /\ Finish(t)
  /\ UNCHANGED <<fs, linked, db, conf, pc, scan, resident>>

PromoteRow(t) ==
  /\ InTask(t, "adding", "row")
  /\ db' = Delivered(t)
  /\ Finish(t)
  /\ UNCHANGED <<files, conf, pc, scan, resident, errors, hist>>
-----------------------------------------------------------------------------
(* demote_transcode                                                        *)

\* An unlink that fails is not an error.
Demote(t) ==
  /\ Task(t, "removing")
  /\ \/ xfs' = (IF db.x[t] = None THEN xfs ELSE [xfs EXCEPT ![db.x[t]] = None]) /\ UNCHANGED hist
     \/ UNCHANGED xfs /\ Fault
  /\ cur' = t /\ step' = "row"
  /\ UNCHANGED <<fs, linked, db, conf, pc, scan, resident, todo, errors>>

DemoteRow(t) ==
  /\ InTask(t, "removing", "row")
  /\ db' = [db EXCEPT !.loc[t] = "archive", !.x[t] = None]
  /\ Finish(t)
  /\ UNCHANGED <<files, conf, pc, scan, resident, errors, hist>>

\* The row update after a file operation fails: counted, and left at that.
RowFails(t) ==
  /\ mode = "transcode" /\ cur = t /\ step = "row" /\ Fault
  /\ errors' = TRUE
  /\ Finish(t)
  /\ UNCHANGED <<files, db, conf, pc, scan, resident>>

TranscodeTrack(t) ==
  \/ InPlace(t) \/ Relocate(t) \/ RelocateRow(t)
  \/ PromoteAdopts(t) \/ Encode(t) \/ EncodeDone(t) \/ PromoteRow(t)
  \/ Demote(t) \/ DemoteRow(t)

TranscodeStep == RelocateDone \/ (\E t \in Tracks : TranscodeTrack(t))
=============================================================================
