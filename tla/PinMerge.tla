------------------------------ MODULE PinMerge ------------------------------
(***************************************************************************)
(* How the daemon merges what the phones said about their tracks: likes,   *)
(* pins, and the actions "unsync" and "delete" (src/nocturned/ingest.c,    *)
(* actions.c, schema 0008).  One ingest pass reads the three kinds of file *)
(* one after the other, each in a transaction of its own.                  *)
(*                                                                         *)
(* A line is a record [id, ts, val]: val says liked, pinned, or for an     *)
(* action that it is a delete.  Lines arrive in any order of their ts: the *)
(* files are carried separately and several phones may write.  JsonlStream *)
(* models how one file is cut into lines; here a version is the number of  *)
(* whole lines that have arrived.                                          *)
(***************************************************************************)
EXTENDS Naturals, Sequences

CONSTANTS Tracks,
          MaxTs,      \* bound: the latest time an event may carry
          MaxLines    \* bound: lines per file

ASSUME MergeAssumption == MaxTs \in Nat \ {0} /\ MaxLines \in Nat

Kinds == {"likes", "pins", "actions"}
Event == [id : Tracks, ts : 1..MaxTs, val : BOOLEAN]

\* A row of the tables likes and pins; ts = 0 when there is none.
Row   == [ts : 0..MaxTs, val : BOOLEAN]
NoRow == [ts |-> 0, val |-> FALSE]

VARIABLES file,   \* file[k]: the lines of kind k that have reached the desktop
          db,     \* the committed database
          work,   \* the database as the open transaction sees it
          reading,\* the kind whose file the pass has open, or "none"
          upto,   \* the lines of that file when it was opened
          disk    \* tracks whose file is in the library
vars == <<file, db, work, reading, upto, disk>>

Database == [likes : [Tracks -> Row], pins : [Tracks -> Row],
             override : SUBSET Tracks, blacklist : SUBSET Tracks,
             tracks : SUBSET Tracks, off : [Kinds -> 0..MaxLines]]

\* Types; the transaction sees the committed rows when no pass is under way,
\* and reads no further than the file it opened (ingest_one_file).
TypeOK == /\ file \in [Kinds -> Seq(Event)]
          /\ \A k \in Kinds : Len(file[k]) <= MaxLines
          /\ db \in Database /\ work \in Database
          /\ reading \in Kinds \cup {"none"}
          /\ upto \in 0..MaxLines
          /\ disk \subseteq Tracks
          /\ reading = "none" => work = db
          /\ reading # "none" => work.off[reading] <= upto
                                 /\ upto <= Len(file[reading])
          /\ \A k \in Kinds : db.off[k] <= Len(file[k]) /\ work.off[k] <= Len(file[k])

\* A library that has been scanned: rows for some tracks, all of them on disk;
\* a phone may also know tracks that the library has dropped.
Init ==
  /\ file = [k \in Kinds |-> <<>>]
  /\ \E known \in SUBSET Tracks :
       /\ db = [likes |-> [id \in Tracks |-> NoRow],
                pins |-> [id \in Tracks |-> NoRow],
                override |-> {}, blacklist |-> {}, tracks |-> known,
                off |-> [k \in Kinds |-> 0]]
       /\ disk = known
  /\ work = db
  /\ reading = "none"
  /\ upto = 0
-----------------------------------------------------------------------------
(* The handlers.  Each returns the database after one line.                *)

\* Mutant: whatever came last wins.
LastWins(row, e) == [ts |-> e.ts, val |-> e.val]

\* INSERT ... ON CONFLICT DO UPDATE WHERE excluded.ts >= ts.
Newer(row, e) == IF e.ts >= row.ts THEN [ts |-> e.ts, val |-> e.val] ELSE row

HandleLike(w, e) == [w EXCEPT !.likes[e.id] = Newer(@, e)]

\* Mutants: the blacklist is not consulted; the override is not cleared.
HandlePinAny(w, e) ==
  [w EXCEPT !.pins[e.id] = Newer(@, e),
            !.override = IF e.val THEN @ \ {e.id} ELSE @]
HandlePinKeeps(w, e) ==
  IF e.id \in w.blacklist THEN w ELSE [w EXCEPT !.pins[e.id] = Newer(@, e)]

\* A blacklisted track is never pinned again.  A pin clears the override of
\* an earlier unsync, also when it is too old to change the row itself.
HandlePin(w, e) ==
  IF e.id \in w.blacklist THEN w
  ELSE [w EXCEPT !.pins[e.id] = Newer(@, e),
                 !.override = IF e.val THEN @ \ {e.id} ELSE @]

\* Mutant: the gate against stale actions is missing.
UnsyncAlways(w, e) ==
  [w EXCEPT !.pins[e.id].val = FALSE, !.override = @ \cup {e.id}]

\* unsync_track behind the gate of handle_action: a strictly newer pin row
\* makes the action stale.  The row keeps its ts.
UnsyncTrack(w, e) ==
  IF w.pins[e.id].ts > e.ts THEN w
  ELSE [w EXCEPT !.pins[e.id].val = FALSE, !.override = @ \cup {e.id}]

\* delete_track_everywhere: blacklist the track and delete its row; the
\* trigger of schema 0008 drops the companions of a row that was there.
DeleteTrack(w, e) ==
  LET gone == e.id \in w.tracks
  IN  [w EXCEPT !.blacklist = @ \cup {e.id},
                !.tracks = @ \ {e.id},
                !.override = IF gone THEN @ \ {e.id} ELSE @,
                !.pins[e.id] = IF gone THEN NoRow ELSE @,
                !.likes[e.id] = IF gone THEN NoRow ELSE @]

Handle(k, w, e) == CASE k = "likes" -> HandleLike(w, e)
                     [] k = "pins" -> HandlePin(w, e)
                     [] k = "actions" /\ e.val -> DeleteTrack(w, e)
                     [] OTHER -> UnsyncTrack(w, e)
-----------------------------------------------------------------------------
\* A line reaches the desktop.
Arrive(k, e) ==
  /\ Len(file[k]) < MaxLines
  /\ file' = [file EXCEPT ![k] = Append(@, e)]
  /\ UNCHANGED <<db, work, reading, upto, disk>>

\* The order of ingest_run (the plays before them touch none of this).
After(k) == CASE k = "none" -> "likes" [] k = "likes" -> "pins"
              [] k = "pins" -> "actions" [] OTHER -> "none"

\* The next file is opened: its version is fixed and a transaction begins.
Open(k) == /\ reading' = k
           /\ upto' = IF k = "none" THEN 0 ELSE Len(file[k])

BeginPass ==
  /\ reading = "none"
  /\ Open("likes")
  /\ UNCHANGED <<file, db, work, disk>>

\* One line: the handler's writes go to the transaction, but a delete unlinks
\* the library's file at once (or fails to).
ReadLine ==
  /\ reading # "none"
  /\ work.off[reading] < upto
  /\ LET k == reading
         e == file[k][work.off[k] + 1]
     IN  /\ work' = [Handle(k, work, e) EXCEPT !.off[k] = @ + 1]
         /\ IF k = "actions" /\ e.val /\ e.id \in work.tracks
            THEN disk' \in {disk, disk \ {e.id}}
            ELSE disk' = disk
  /\ UNCHANGED <<file, db, reading, upto>>

\* Mutant: the offset is durable although the rows are rolled back.
RollbackKeepsOffset ==
  /\ reading # "none"
  /\ db' = [db EXCEPT !.off = work.off] /\ work' = db'
  /\ Open(After(reading))
  /\ UNCHANGED <<file, disk>>

\* The end of the file: rows and offset are committed together.
CommitFile ==
  /\ reading # "none" /\ work.off[reading] = upto
  /\ db' = work
  /\ Open(After(reading))
  /\ UNCHANGED <<file, work, disk>>

\* A database error fails this file only; the pass goes on with the next.
RollbackFile ==
  /\ reading # "none"
  /\ work' = db
  /\ Open(After(reading))
  /\ UNCHANGED <<file, db, disk>>

Crash ==
  /\ reading # "none"
  /\ work' = db
  /\ Open("none")
  /\ UNCHANGED <<file, db, disk>>

Ingest == BeginPass \/ ReadLine \/ CommitFile \/ RollbackFile \/ Crash

Next == (\E k \in Kinds, e \in Event : Arrive(k, e)) \/ Ingest

Spec == Init /\ [][Next]_vars
-----------------------------------------------------------------------------
(* What the merge guarantees.  Applied(d, k, id): the lines of kind k about *)
(* id that database d has absorbed.                                         *)

Applied(d, k, id) == {file[k][i] : i \in {j \in 1..d.off[k] : file[k][j].id = id}}

\* Last writer wins whatever the order of arrival (INGEST-03): the row of a
\* track that was not deleted carries the newest ts among the lines absorbed,
\* and says pinned or liked only if a line of that ts did.
NewestWins(d) ==
  \A id \in Tracks \ d.blacklist :
    /\ \A e \in Applied(d, "likes", id) : e.ts <= d.likes[id].ts
    /\ \A e \in Applied(d, "pins", id) : e.ts <= d.pins[id].ts
    /\ d.likes[id].ts > 0 => d.likes[id] \in
         {[ts |-> e.ts, val |-> e.val] : e \in Applied(d, "likes", id)}
    /\ d.pins[id].val => \E e \in Applied(d, "pins", id) :
                           e.ts = d.pins[id].ts /\ e.val
NewestLineWins == NewestWins(db)

\* The two tables that decide residency never contradict each other: a track
\* with an unsync override is not pinned (handle_pin and unsync_track write
\* both tables).
Consistent(d) == \A id \in d.override : ~d.pins[id].val
NeverPinnedAndUnsynced == Consistent(db)

\* The gate of handle_action works in every order of arrival: when the newest
\* pin line says pinned and no absorbed unsync is as new, the track is pinned
\* and not overridden ("I pinned it but it won't download", ingest.c:565-570).
PinHolds(d) ==
  \A id \in Tracks \ d.blacklist :
    \A e \in Applied(d, "pins", id) :
      /\ \A f \in Applied(d, "pins", id) : f = e \/ f.ts < e.ts
      /\ e.val
      /\ \A a \in Applied(d, "actions", id) : a.ts < e.ts
      => d.pins[id].val /\ id \notin d.override
PinOutlivesStaleUnsync == PinHolds(db)

\* A file is only ever removed for a delete that sticks: the track is
\* blacklisted, or the line that asked for it will be read again, whatever
\* rolled back or crashed after the unlink.
DeleteSticks ==
  \A id \in Tracks \ disk :
    id \in db.tracks =>
      \E i \in (db.off["actions"] + 1)..Len(file["actions"]) :
        file["actions"][i].id = id /\ file["actions"][i].val

\* A deleted track is never pinned again by a line that comes later, and the
\* blacklist only grows (handle_pin refuses it, ingest.c:533-538).
NeverRepinned ==
  [][\A t \in db.blacklist :
       t \in db'.blacklist /\ (db'.pins[t].val => db.pins[t].val)]_vars
=============================================================================
