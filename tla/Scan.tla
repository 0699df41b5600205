-------------------------------- MODULE Scan --------------------------------
(***************************************************************************)
(* `nocturned scan` (scan.c, track_repo.c): walk the library, one file     *)
(* after the other, in one transaction, then sweep the rows that were not  *)
(* seen.  Files may move while the walk is under way.                      *)
(***************************************************************************)
EXTENDS Library

Passes(p) == /\ pc = "walking" /\ p \notin visited
             /\ visited' = visited \cup {p}

Visit(p) == Passes(p) /\ ~Artifact(p)

\* The transaction is gone and the cycle ends; the next one scans again.
EndCycle == /\ pc' = "scan"
            /\ work' = db /\ seen' = {} /\ visited' = {} /\ bad' = FALSE
            /\ missed' = {} /\ handled' = {}

\* A track whose path another content has taken may lose its row in this walk.
BeginScan ==
  /\ pc = "scan" /\ pc' = "walking"
  /\ work' = db
  /\ missed' = {t \in Known(db) : fs[db.path[t]] \notin {t, None}}
  /\ UNCHANGED <<files, db, conf, seen, visited, bad, handled, rot, hist>>

\* A transcode, or what is taken for one: not looked at.
VisitSkipped(p) ==
  /\ Passes(p) /\ Artifact(p)
  /\ UNCHANGED <<files, db, conf, pc, work, seen, bad, notes, rot, hist>>

\* Nothing there when the walk comes by.
VisitNothing(p) ==
  /\ Visit(p) /\ fs[p] = None
  /\ UNCHANGED <<files, db, conf, pc, work, seen, bad, notes, rot, hist>>

\* The row of this path has this content: its last_seen_at is refreshed.
VisitKnown(p) ==
  /\ Visit(p) /\ fs[p] # None /\ fs[p] = At(work, p)
  /\ seen' = seen \cup {fs[p]}
  /\ UNCHANGED <<files, db, conf, pc, work, bad, notes, rot, hist>>

\* The file was not read: its track is not seen.
NotRead(p) ==
  /\ faults < MaxFaults /\ faults' = faults + 1
  /\ missed' = missed \cup ({fs[p]} \cap Tracks)
  /\ UNCHANGED <<files, db, conf, pc, work, seen, handled, rot, moves, resolves, excused, clash>>

\* Vanished since its directory was read, unreadable, or changing while it is
\* hashed: counted.
HashFails(p) ==
  /\ Visit(p) /\ (fs[p] = None \/ fs[p] # At(work, p))
  /\ bad' = TRUE /\ NotRead(p)

\* In a directory that cannot be read: the walk goes on and nothing is counted
\* that the scan's result depends on.
Unreadable(p) ==
  /\ Visit(p) /\ fs[p] # None
  /\ bad' = bad /\ NotRead(p)

\* is_blacklisted: the file is treated as if it were not there.
VisitBlacklisted(p) ==
  /\ Visit(p) /\ fs[p] \in black /\ fs[p] # At(work, p)
  /\ UNCHANGED <<files, db, conf, pc, work, seen, bad, notes, rot, hist>>

\* Mutant: a file that moved is dropped and inserted as a new track.
VisitMovedReinserts(p) ==
  /\ Visit(p)
  /\ fs[p] \in Known(work) \ black /\ At(work, p) = None
  /\ work' = [DropRows(work, {fs[p]}) EXCEPT !.path[fs[p]] = p]
  /\ seen' = seen \cup {fs[p]}
  /\ UNCHANGED <<files, db, conf, pc, bad, notes, rot, hist>>

\* Mutant: a file that moved keeps its row as it is.
VisitMovedSeen(p) ==
  /\ Visit(p)
  /\ fs[p] \in Known(work) \ black /\ At(work, p) = None
  /\ seen' = seen \cup {fs[p]}
  /\ UNCHANGED <<files, db, conf, pc, work, bad, notes, rot, hist>>

\* A track with a row at another path: the row follows the file.
VisitMoved(p) ==
  /\ Visit(p)
  /\ fs[p] \in Known(work) \ black /\ At(work, p) = None
  /\ work' = [work EXCEPT !.path[fs[p]] = p]
  /\ seen' = seen \cup {fs[p]}
  /\ UNCHANGED <<files, db, conf, pc, bad, notes, rot, hist>>

\* The same, but another track's row still has that path: the UPDATE violates
\* UNIQUE, the walk stops and everything is rolled back.
Conflict(p) ==
  /\ pc = "walking" /\ p \notin visited /\ ~Artifact(p)
  /\ fs[p] \in Known(work) \ black /\ At(work, p) \notin {None, fs[p]}
VisitConflict(p) ==
  /\ Conflict(p)
  /\ EndCycle
  /\ UNCHANGED <<files, db, conf, rot, hist>>

\* A content without a row: it takes the path, and the row that had the path
\* is deleted with its companions and its transcode.  (The row of a torn copy
\* is not modelled.)
VisitNew(p) ==
  /\ Visit(p)
  /\ fs[p] \notin Known(work) \cup black \cup {None}
  /\ LET old == {At(work, p)} \ {None}
     IN  /\ work' = IF fs[p] = Torn THEN DropRows(work, old)
                    ELSE [DropRows(work, old) EXCEPT !.path[fs[p]] = p]
         /\ seen' = (seen \ old) \cup ({fs[p]} \ {Torn})
         /\ xfs' = DropTranscodes(work, old)
  /\ UNCHANGED <<fs, linked, db, conf, pc, bad, notes, rot, hist>>

Unseen == Known(work) \ seen

\* Mutant: what is counted is not reset, and every later scan fails as well.
SweepStaysBad ==
  /\ pc = "walking" /\ visited = Paths
  /\ db' = DropRows(work, Unseen)
  /\ xfs' = DropTranscodes(work, Unseen)
  /\ pc' = IF bad THEN "scan" ELSE "resolve"
  /\ work' = db' /\ seen' = {} /\ visited' = {} /\ bad' = bad
  /\ missed' = {} /\ handled' = {}
  /\ clash' = (clash \/ Shared(db'))
  /\ UNCHANGED <<fs, linked, conf, rot, faults, moves, resolves, excused>>

\* track_repo_delete_unseen_under_root and COMMIT.  A file that could not be
\* hashed makes the exit code 1, on which the cycle stops.
Sweep ==
  /\ pc = "walking" /\ visited = Paths
  /\ db' = DropRows(work, Unseen)
  /\ xfs' = DropTranscodes(work, Unseen)
  /\ pc' = IF bad THEN "scan" ELSE "resolve"
  /\ work' = db' /\ seen' = {} /\ visited' = {} /\ bad' = FALSE
  /\ missed' = {} /\ handled' = {}
  /\ clash' = (clash \/ Shared(db'))
  /\ UNCHANGED <<fs, linked, conf, rot, faults, moves, resolves, excused>>

\* Killed, or the COMMIT fails: the derived files are gone, the rows are not.
SweepRolledBack ==
  /\ pc = "walking" /\ visited = Paths
  /\ faults < MaxFaults /\ faults' = faults + 1
  /\ xfs' = DropTranscodes(work, Unseen)
  /\ EndCycle
  /\ UNCHANGED <<fs, linked, db, conf, rot, moves, resolves, excused, clash>>

VisitFile(p) == \/ VisitSkipped(p) \/ VisitNothing(p) \/ VisitKnown(p) \/ VisitBlacklisted(p)
                \/ VisitMoved(p) \/ VisitConflict(p) \/ VisitNew(p)

ScanStep == BeginScan \/ (\E p \in Paths : VisitFile(p)) \/ Sweep
ScanFails == (\E p \in Paths : HashFails(p) \/ Unreadable(p)) \/ SweepRolledBack
=============================================================================
