---------------------------- MODULE LibraryProofs ----------------------------
(***************************************************************************)
(* Proofs about LibraryCycle, for any tracks, names, faults, user's moves  *)
(* and changes of the manifest: the types, that no content is lost, that   *)
(* the rows are the files after a scan, that pins follow their files, and  *)
(* that an undisturbed cycle serves what it publishes.                     *)
(***************************************************************************)
EXTENDS LibraryCycle, TLAPS

\* Rows, committed or not yet: pins, places and transcodes are those of tracks
\* with a path, and a blacklisted track has none.
RowsOK(d) ==
  /\ d \in Rows
  /\ d.pins \subseteq Known(d) /\ d.manifest \subseteq Known(d)
  /\ \A t \in Tracks \ Known(d) : d.loc[t] = "none" /\ d.x[t] = None
  /\ Known(d) \cap black = {}

\* The configuration and the counters.
HistOK ==
  /\ mode \in {"move", "transcode"} /\ xdev \in BOOLEAN /\ black \in SUBSET Tracks
  /\ out \in [Rels -> Rels] /\ lossy \in SUBSET Rels
  /\ faults \in 0..MaxFaults /\ moves \in 0..MaxMoves /\ resolves \in 0..MaxResolves
  /\ excused \in BOOLEAN /\ clash \in BOOLEAN

\* The scan's transaction is empty outside of the walk.
ScanOK ==
  /\ pc \in {"scan", "walking", "resolve", "rotate", "relocating", "adding", "removing", "publish"}
  /\ seen \in SUBSET Tracks /\ visited \in SUBSET Paths /\ bad \in BOOLEAN
  /\ missed \in SUBSET Tracks /\ handled \in SUBSET Tracks
  /\ pc # "walking" => seen = {} /\ visited = {} /\ missed = {} /\ handled = {}

Rotating == pc \in {"relocating", "adding", "removing"}
MoveSteps == {"copy", "unlink", "path", "location"}

\* The rotation works on tracks with rows, and on one at a time.
ControlOK ==
  /\ resident \in SUBSET Tracks /\ todo \in SUBSET Tracks /\ cur \in Tracks \cup {None}
  /\ errors \in BOOLEAN
  /\ step \in {"none", "encode", "row"} \cup MoveSteps
  /\ cur = None <=> step = "none"
  /\ cur # None => cur \in todo
  /\ ~Rotating => todo = {} /\ resident = {}
  /\ pc = "relocating" => mode = "transcode"
  /\ \A t \in todo : t \in Known(db) /\ (pc = "relocating" => db.x[t] # None)
  /\ resident \subseteq Known(db)
  /\ step \in MoveSteps => mode = "move"
  /\ step \in {"encode", "row"} => mode = "transcode"
  /\ step = "encode" => pc = "adding"

\* The name of a track's original; that of its transcode is Name.
Rel(t) == db.path[t][2]

\* The two names of a link have one content; a move has left behind what it
\* needs to go on.
FilesOK ==
  /\ fs \in [Paths -> Tracks \cup {None, Torn}] /\ linked \in SUBSET Rels
  /\ xfs \in [Rels -> Transcode \cup {None}]
  /\ \A r \in linked : fs[<<"archive", r>>] = fs[<<"resident", r>>] /\ fs[<<"archive", r>>] # None
  /\ step \in {"copy", "unlink"} => Src(cur)[1] # Side /\ fs[Src(cur)] # None
  /\ step = "copy" => fs[Dst(cur)] = Torn /\ Src(cur)[2] \notin linked
  /\ step = "unlink" => fs[Dst(cur)] = fs[Src(cur)]
  /\ step = "encode" => xfs[Name(cur)] # None

\* The inductive invariant, types included (cycle_cmd_main).
IInv == HistOK /\ RowsOK(db) /\ RowsOK(work) /\ ScanOK /\ ControlOK /\ FilesOK
-----------------------------------------------------------------------------
(* The rows                                                                *)

LEMMA PathType ==
  ASSUME NEW d, RowsOK(d), NEW t \in Known(d)
  PROVE  /\ t \in Tracks /\ d.path[t] \in Paths
         /\ d.path[t][1] \in {"archive", "resident"} /\ d.path[t][2] \in Rels
         /\ d.path[t] = <<d.path[t][1], d.path[t][2]>>
         /\ \A s \in {"archive", "resident"} : <<s, d.path[t][2]>> \in Paths
<1>1. t \in Tracks /\ d.path[t] \in Paths
  BY DEF RowsOK, Rows, Known
<1> QED  BY <1>1 DEF Paths

\* Which track has a path (tracks.path is looked up in track_repo.c).
LEMMA AtFacts ==
  ASSUME NEW d, NEW p
  PROVE  /\ At(d, p) # None => At(d, p) \in Tracks /\ d.path[At(d, p)] = p
         /\ At(d, p) = None => \A t \in Tracks : d.path[t] # p
<1>1. CASE \E t \in Tracks : d.path[t] = p
  BY <1>1, LibraryAssumption DEF At
<1>2. CASE ~\E t \in Tracks : d.path[t] = p
  BY <1>2 DEF At
<1> QED  BY <1>1, <1>2

\* DELETE FROM tracks takes the row and its companions and leaves the others.
LEMMA DropFacts ==
  ASSUME NEW d, RowsOK(d), NEW S
  PROVE  /\ RowsOK(DropRows(d, S))
         /\ Known(DropRows(d, S)) = Known(d) \ S
         /\ \A t \in Known(d) \ S : DropRows(d, S).path[t] = d.path[t]
         /\ DropRows(d, S).pins = d.pins \ S
         /\ S = {} => DropRows(d, S).path = d.path /\ DropRows(d, S).x = d.x
                      /\ DropRows(d, S).loc = d.loc
<1>1. DropRows(d, S) \in Rows
  BY DEF DropRows, RowsOK, Rows
<1>2. Known(DropRows(d, S)) = Known(d) \ S
  BY DEF DropRows, Known
<1>3. \A t \in Tracks : t \notin S => /\ DropRows(d, S).path[t] = d.path[t]
                                      /\ DropRows(d, S).loc[t] = d.loc[t]
                                      /\ DropRows(d, S).x[t] = d.x[t]
  BY DEF DropRows
<1>4. \A t \in Tracks : t \in S => DropRows(d, S).loc[t] = "none" /\ DropRows(d, S).x[t] = None
  BY DEF DropRows
<1>5. DropRows(d, S).pins = d.pins \ S /\ DropRows(d, S).manifest = d.manifest \ S
  BY DEF DropRows
<1>6. RowsOK(DropRows(d, S))
  BY <1>1, <1>2, <1>3, <1>4, <1>5 DEF RowsOK
<1>7. S = {} => DropRows(d, S).path = d.path /\ DropRows(d, S).x = d.x
                /\ DropRows(d, S).loc = d.loc
  BY DEF DropRows, RowsOK, Rows
<1> QED  BY <1>2, <1>3, <1>5, <1>6, <1>7 DEF Known

LEMMA DropTranscodesType ==
  ASSUME FilesOK, NEW d, NEW S
  PROVE  DropTranscodes(d, S) \in [Rels -> Transcode \cup {None}]
BY DEF FilesOK, DropTranscodes

\* A row gets a path: of a new track, or of one that has moved.
LEMMA SetPath ==
  ASSUME NEW d, RowsOK(d), NEW t \in Tracks \ black, NEW p \in Paths
  PROVE  LET d2 == [d EXCEPT !.path[t] = p]
         IN  /\ RowsOK(d2) /\ Known(d2) = Known(d) \cup {t}
             /\ d2.path[t] = p /\ \A u \in Tracks \ {t} : d2.path[u] = d.path[u]
             /\ d2.pins = d.pins /\ d2.manifest = d.manifest /\ d2.loc = d.loc /\ d2.x = d.x
<1> DEFINE d2 == [d EXCEPT !.path[t] = p]
<1>1. d2 \in Rows
  BY DEF RowsOK, Rows
<1>2. d2.path[t] = p /\ \A u \in Tracks \ {t} : d2.path[u] = d.path[u]
  BY DEF RowsOK, Rows
<1>3. d2.pins = d.pins /\ d2.manifest = d.manifest /\ d2.loc = d.loc /\ d2.x = d.x
  BY DEF RowsOK, Rows
<1> HIDE DEF d2
<1>4. Known(d2) = Known(d) \cup {t}
  BY <1>2, NoneAssumption DEF Known
<1>5. RowsOK(d2)
  BY <1>1, <1>3, <1>4 DEF RowsOK
<1> QED  BY <1>2, <1>3, <1>4, <1>5 DEF d2

\* The row of a file that has moved (VisitMoved).
LEMMA MovedRow ==
  ASSUME RowsOK(work), NEW t \in Tracks \ black, NEW p \in Paths, t \in Known(work),
         work' = [work EXCEPT !.path[t] = p]
  PROVE  /\ Known(work') = Known(work) \cup {t} /\ work'.path[t] = p
         /\ \A u \in Tracks \ {t} : work'.path[u] = work.path[u]
         /\ work'.pins = work.pins /\ work'.loc = work.loc /\ work'.x = work.x
<1> DEFINE w == [work EXCEPT !.path[t] = p]
<1>1. /\ Known(w) = Known(work) \cup {t} /\ w.path[t] = p /\ w.pins = work.pins
      /\ w.loc = work.loc /\ w.x = work.x
      /\ \A u \in Tracks \ {t} : w.path[u] = work.path[u]
  BY SetPath
<1>2. work' = w
  OBVIOUS
<1> HIDE DEF w
<1> QED  BY <1>1, <1>2

\* The row that has the path of a new content, which takes it (VisitNew).
Old(p) == {At(work, p)} \ {None}

LEMMA NewRow ==
  ASSUME IInv, NEW p \in Paths, VisitNew(p)
  PROVE  /\ fs[p] # None
         /\ fs[p] # Torn => fs[p] \in Tracks \ black
         /\ fs[p] \notin Known(work)
         /\ Known(work') = (Known(work) \ Old(p)) \cup ({fs[p]} \ {Torn})
         /\ fs[p] # Torn => work'.path[fs[p]] = p
         /\ \A u \in Known(work) \ Old(p) : work'.path[u] = work.path[u]
         /\ work'.pins = work.pins \ Old(p)
<1> DEFINE d == DropRows(work, Old(p))
<1>1. /\ fs[p] # None /\ fs[p] \notin Known(work) \cup black
      /\ work' = IF fs[p] = Torn THEN d ELSE [d EXCEPT !.path[fs[p]] = p]
  BY DEF VisitNew, Old
<1>2. fs[p] # Torn => fs[p] \in Tracks \ black
  BY <1>1 DEF IInv, FilesOK
<1>3. /\ RowsOK(d) /\ Known(d) = Known(work) \ Old(p) /\ d.pins = work.pins \ Old(p)
      /\ \A u \in Known(work) \ Old(p) : d.path[u] = work.path[u]
  BY DropFacts DEF IInv
<1> HIDE DEF d
<1>4. CASE fs[p] = Torn
  BY <1>1, <1>2, <1>3, <1>4
<1>5. CASE fs[p] # Torn
  <2>1. fs[p] \in Tracks \ black
    BY <1>2, <1>5
  <2> DEFINE w == [d EXCEPT !.path[fs[p]] = p]
  <2>2. /\ Known(w) = Known(d) \cup {fs[p]} /\ w.path[fs[p]] = p /\ w.pins = d.pins
        /\ \A u \in Tracks \ {fs[p]} : w.path[u] = d.path[u]
    BY <1>3, <2>1, SetPath
  <2>3. work' = w
    BY <1>1, <1>5
  <2> HIDE DEF w
  <2>4. Known(work) \subseteq Tracks
    BY DEF Known
  <2> QED  BY <1>1, <1>3, <1>5, <2>1, <2>2, <2>3, <2>4
<1> QED  BY <1>4, <1>5

\* The rows that are left by the sweep are those that were seen.
LEMMA SweptRows ==
  ASSUME RowsOK(work), seen \subseteq Known(work), Sweep
  PROVE  /\ Known(db') = seen /\ db'.pins = work.pins \ (Known(work) \ seen)
         /\ \A t \in seen : db'.path[t] = work.path[t]
<1> DEFINE S == Known(work) \ seen
           d == DropRows(work, S)
<1>1. /\ Known(d) = Known(work) \ S /\ d.pins = work.pins \ S
      /\ \A t \in Known(work) \ S : d.path[t] = work.path[t]
  BY DropFacts
<1>2. db' = d
  BY DEF Sweep, Unseen
<1> HIDE DEF d
<1> QED  BY <1>1, <1>2

\* An update of residency_state: one row changes, its path does not.
StateOnly(d, d2, t) ==
  /\ RowsOK(d2) /\ Known(d2) = Known(d)
  /\ d2.path = d.path /\ d2.pins = d.pins /\ d2.manifest = d.manifest
  /\ \A u \in Tracks \ {t} : d2.loc[u] = d.loc[u] /\ d2.x[u] = d.x[u]

LEMMA StateIsKept ==
  ASSUME NEW d, RowsOK(d), NEW t \in Known(d), NEW d2 \in Rows,
         d2.path = d.path, d2.pins = d.pins, d2.manifest = d.manifest,
         \A u \in Tracks \ {t} : d2.loc[u] = d.loc[u] /\ d2.x[u] = d.x[u]
  PROVE  StateOnly(d, d2, t)
<1>1. Known(d2) = Known(d)
  BY DEF Known
<1>2. RowsOK(d2)
  BY <1>1 DEF RowsOK
<1> QED  BY <1>1, <1>2 DEF StateOnly

LEMMA SetLoc ==
  ASSUME NEW d, RowsOK(d), NEW t \in Known(d), NEW l \in {"none", "archive", "resident"}
  PROVE  LET d2 == [d EXCEPT !.loc[t] = l]
         IN  StateOnly(d, d2, t) /\ d2.loc[t] = l /\ d2.x = d.x
<1> DEFINE d2 == [d EXCEPT !.loc[t] = l]
<1>1. t \in Tracks
  BY DEF Known
<1>2. /\ d2 \in Rows /\ d2.path = d.path /\ d2.pins = d.pins /\ d2.manifest = d.manifest
      /\ \A u \in Tracks \ {t} : d2.loc[u] = d.loc[u] /\ d2.x[u] = d.x[u]
      /\ d2.loc[t] = l /\ d2.x = d.x
  BY <1>1 DEF RowsOK, Rows
<1> HIDE DEF d2
<1>3. StateOnly(d, d2, t)
  BY <1>2, StateIsKept
<1> QED  BY <1>2, <1>3 DEF d2

LEMMA SetX ==
  ASSUME NEW d, RowsOK(d), NEW t \in Known(d), NEW x \in Rels \cup {None}
  PROVE  LET d2 == [d EXCEPT !.x[t] = x]
         IN  StateOnly(d, d2, t) /\ d2.x[t] = x /\ d2.loc = d.loc
<1> DEFINE d2 == [d EXCEPT !.x[t] = x]
<1>1. t \in Tracks
  BY DEF Known
<1>2. /\ d2 \in Rows /\ d2.path = d.path /\ d2.pins = d.pins /\ d2.manifest = d.manifest
      /\ \A u \in Tracks \ {t} : d2.loc[u] = d.loc[u] /\ d2.x[u] = d.x[u]
      /\ d2.x[t] = x /\ d2.loc = d.loc
  BY <1>1 DEF RowsOK, Rows
<1> HIDE DEF d2
<1>3. StateOnly(d, d2, t)
  BY <1>2, StateIsKept
<1> QED  BY <1>2, <1>3 DEF d2

LEMMA SetState ==
  ASSUME NEW d, RowsOK(d), NEW t \in Known(d), NEW x \in Rels \cup {None},
         NEW l \in {"none", "archive", "resident"}
  PROVE  LET d2 == [d EXCEPT !.loc[t] = l, !.x[t] = x]
         IN  StateOnly(d, d2, t) /\ d2.loc[t] = l /\ d2.x[t] = x
<1> DEFINE d2 == [d EXCEPT !.loc[t] = l, !.x[t] = x]
<1>1. t \in Tracks
  BY DEF Known
<1>2. /\ d2 \in Rows /\ d2.path = d.path /\ d2.pins = d.pins /\ d2.manifest = d.manifest
      /\ \A u \in Tracks \ {t} : d2.loc[u] = d.loc[u] /\ d2.x[u] = d.x[u]
      /\ d2.loc[t] = l /\ d2.x[t] = x
  BY <1>1 DEF RowsOK, Rows
<1> HIDE DEF d2
<1>3. StateOnly(d, d2, t)
  BY <1>2, StateIsKept
<1> QED  BY <1>2, <1>3 DEF d2
-----------------------------------------------------------------------------
(* Each step keeps the invariant                                           *)

LEMMA InvInit == Start => IInv
<1> SUFFICES ASSUME Start PROVE IInv
  OBVIOUS
<1>1. PICK home \in [Tracks -> Rels \cup {None}], up \in SUBSET Tracks : Settled(home, up)
  BY DEF Start, Init
<1> DEFINE Where(t) == IF home[t] = None THEN None
                       ELSE IF t \in up /\ mode = "move"
                            THEN <<"resident", home[t]>> ELSE <<"archive", home[t]>>
           known == {t \in Tracks : home[t] # None}
<1>2. /\ mode \in {"move", "transcode"} /\ xdev \in BOOLEAN /\ black \in SUBSET Tracks
      /\ out \in [Rels -> Rels] /\ lossy \in SUBSET Rels /\ clash \in BOOLEAN
      /\ linked = {} /\ pc = "scan" /\ work = db /\ seen = {} /\ visited = {} /\ bad = FALSE
      /\ missed = {} /\ handled = {}
      /\ resident = {} /\ todo = {} /\ cur = None /\ step = "none" /\ errors = FALSE
      /\ faults = 0 /\ moves = 0 /\ resolves = 0 /\ excused = FALSE
  BY DEF Start, Init, Shared
<1>3. \A t \in Tracks : Where(t) \in Paths \cup {None} /\ (Where(t) = None <=> home[t] = None)
  BY NoneAssumption DEF Paths
<1>4. /\ db.path = [t \in Tracks |-> Where(t)] /\ db.pins = known /\ db.manifest = up
      /\ db.loc = [t \in Tracks |-> IF t \in up THEN "resident" ELSE "none"]
      /\ db.x = [t \in Tracks |-> IF t \in up /\ mode = "transcode"
                              THEN out[home[t]] ELSE None]
      /\ up \subseteq known /\ black \subseteq Tracks \ known
  BY <1>1 DEF Settled
<1>5. Known(db) = known
  BY <1>3, <1>4 DEF Known
<1>12. \A t \in up : out[home[t]] \in Rels
  BY <1>2, <1>4
<1>6. db \in Rows
  <2>1. /\ db.path \in [Tracks -> Paths \cup {None}]
        /\ db.loc \in [Tracks -> {"none", "archive", "resident"}]
        /\ db.x \in [Tracks -> Rels \cup {None}]
        /\ db.pins \in SUBSET Tracks /\ db.manifest \in SUBSET Tracks
    BY <1>3, <1>4, <1>12
  <2>2. db = [path |-> db.path, loc |-> db.loc, x |-> db.x, pins |-> db.pins,
              manifest |-> db.manifest]
    BY <1>1 DEF Settled
  <2> QED  BY <2>1, <2>2 DEF Rows
<1>7. RowsOK(db)
  BY <1>2, <1>4, <1>5, <1>6 DEF RowsOK
<1>8. fs \in [Paths -> Tracks \cup {None, Torn}]
  <2>1. \A p \in Paths : {t \in Tracks : Where(t) = p} # {} =>
          (CHOOSE t \in {u \in Tracks : Where(u) = p} : TRUE) \in Tracks
    OBVIOUS
  <2> QED  BY <1>1, <2>1 DEF Settled
<1>9. xfs \in [Rels -> Transcode \cup {None}]
  <2> DEFINE Derived(r) == {t \in up : mode = "transcode" /\ out[home[t]] = r}
  <2>1. \A r \in Rels : Derived(r) # {} => (CHOOSE t \in Derived(r) : TRUE) \in Tracks
    OBVIOUS
  <2>2. \A r \in Rels : Derived(r) # {} =>
          [of |-> CHOOSE t \in Derived(r) : TRUE, whole |-> TRUE] \in Transcode
    BY <2>1 DEF Transcode
  <2> QED  BY <1>1, <2>2 DEF Settled
<1>10. FilesOK /\ ControlOK /\ ScanOK
  BY <1>2, <1>8, <1>9 DEF FilesOK, ControlOK, ScanOK, Rotating, MoveSteps
<1>11. HistOK
  <2>1. 0 \in 0..MaxFaults /\ 0 \in 0..MaxMoves /\ 0 \in 0..MaxResolves
    BY LibraryAssumption
  <2> QED  BY <1>2, <2>1 DEF HistOK
<1> QED  BY <1>2, <1>7, <1>10, <1>11 DEF IInv

\* The configuration never changes, and no counter passes its bound.
LEMMA HistUser ==
  ASSUME IInv, User
  PROVE  HistOK' /\ UNCHANGED <<conf, clash>> /\ (excused => excused') /\ moves' # moves
<1>1. moves' = moves + 1 /\ moves < MaxMoves /\ UNCHANGED <<conf, faults, resolves, clash>>
  BY DEF User, UserMoves, UserDeletes, UserAdds
<1>2. excused' \in BOOLEAN /\ (excused => excused')
  BY DEF User, UserMoves, UserDeletes, UserAdds
<1>3. moves' \in 0..MaxMoves /\ moves' # moves
  BY <1>1, LibraryAssumption DEF IInv, HistOK
<1> QED  BY <1>1, <1>2, <1>3 DEF IInv, HistOK, conf

\* The steps of a cycle leave the configuration, and count at most one fault.
Counted == /\ UNCHANGED <<conf, moves, excused>> /\ clash' \in BOOLEAN /\ (clash => clash')
           /\ UNCHANGED faults \/ (faults < MaxFaults /\ faults' = faults + 1)
           /\ UNCHANGED resolves \/ (resolves < MaxResolves /\ resolves' = resolves + 1)

LEMMA HistCounted ==
  ASSUME IInv, Counted
  PROVE  HistOK' /\ excused' = excused /\ (clash => clash')
<1>1. faults' \in 0..MaxFaults /\ resolves' \in 0..MaxResolves
  BY LibraryAssumption DEF IInv, HistOK, Counted
<1>2. excused' = excused /\ clash' \in BOOLEAN /\ (clash => clash')
  BY DEF Counted
<1>3. /\ mode' = mode /\ xdev' = xdev /\ black' = black /\ out' = out /\ lossy' = lossy
      /\ moves' = moves
  BY DEF Counted, conf
<1> QED  BY <1>1, <1>2, <1>3 DEF IInv, HistOK

LEMMA HistScan ==
  ASSUME IInv, ScanStep \/ ScanFails
  PROVE  Counted
<1>1. clash \in BOOLEAN
  BY DEF IInv, HistOK
<1>2. CASE Sweep
  BY <1>1, <1>2 DEF Counted, conf, Sweep, Shared
<1>3. CASE ScanFails
  BY <1>1, <1>3 DEF Counted, conf, ScanFails, HashFails, Unreadable, NotRead, SweepRolledBack
<1>4. CASE BeginScan
  BY <1>1, <1>4 DEF Counted, conf, hist, BeginScan
<1>5. ASSUME NEW p \in Paths, VisitFile(p)
      PROVE  Counted
  <2>1. UNCHANGED <<conf, hist>>
    BY <1>5 DEF VisitFile, VisitSkipped, VisitNothing, VisitKnown, VisitBlacklisted, VisitMoved,
       VisitConflict, VisitNew
  <2> QED  BY <1>1, <2>1 DEF Counted, conf, hist
<1> QED  BY <1>2, <1>3, <1>4, <1>5 DEF ScanStep

LEMMA HistRotate ==
  ASSUME IInv,
         \/ Resolve \/ Publish \/ Crash \/ RotateStep
         \/ \E t \in Tracks : MoveFails(t)
  PROVE  Counted
<1>0. clash \in BOOLEAN
  BY DEF IInv, HistOK
<1>1. CASE Resolve \/ Publish \/ Crash \/ BeginRotate \/ AddsDone \/ RemovesDone
  BY <1>1, <1>0 DEF Counted, conf, hist, Resolve, Publish, Crash, BeginRotate, AddsDone, RemovesDone
<1>2. CASE \E t \in Tracks : Move(t) \/ MoveFails(t)
  BY <1>2, <1>0 DEF Counted, conf, hist, Move, MoveRecovers, MoveRefused, MoveLinks, MoveCopies, CopyDone,
     UnlinkSource, UpdatePath, RecordLocation, MoveFails, Fault
<1> QED  BY <1>1, <1>2 DEF RotateStep

LEMMA HistTranscode ==
  ASSUME IInv,
         \/ TranscodeStep
         \/ \E t \in Tracks : RelocateRefused(t) \/ EncodeFails(t) \/ RowFails(t)
  PROVE  Counted
<1>0. clash \in BOOLEAN
  BY DEF IInv, HistOK
<1>1. CASE \E t \in Tracks : RelocateRefused(t) \/ EncodeFails(t) \/ RowFails(t)
  BY <1>1, <1>0 DEF Counted, conf, hist, RelocateRefused, EncodeFails, RowFails, Fault
<1>2. CASE RelocateDone
  BY <1>2, <1>0 DEF Counted, conf, hist, RelocateDone
<1>3. ASSUME NEW t \in Tracks, TranscodeTrack(t)
      PROVE  Counted
  <2>1. CASE Demote(t)
    BY <1>0, <2>1 DEF Counted, conf, hist, Demote, Fault
  <2>2. CASE UNCHANGED <<conf, hist>>
    BY <1>0, <2>2 DEF Counted, conf, hist
  <2> QED  BY <1>3, <2>1, <2>2 DEF TranscodeTrack, InPlace, Relocate, RelocateRow, PromoteAdopts, Encode,
     EncodeDone, PromoteRow, DemoteRow
<1> QED  BY <1>1, <1>2, <1>3 DEF TranscodeStep

\* The user leaves alone the names that the rotation is working on.
LEMMA InvUser == ASSUME IInv, User PROVE IInv'
<1>1. UNCHANGED <<linked, xfs, db, conf, pc, work, seen, visited, bad, rot>>
  BY DEF User, UserMoves, UserDeletes, UserAdds
<1>8. missed' \in SUBSET Tracks /\ handled' \in SUBSET Tracks
      /\ (pc # "walking" => missed' = {} /\ handled' = {})
  <2>1. missed \in SUBSET Tracks /\ handled \in SUBSET Tracks
        /\ (pc # "walking" => missed = {} /\ handled = {})
    BY DEF IInv, ScanOK
  <2>2. ASSUME NEW t \in Tracks, Touches(t), missed' = missed \/ \E p : Puts(t, p)
        PROVE  <1>8!:
    BY <2>1, <2>2 DEF Touches, Puts
  <2> QED  BY <2>2 DEF User, UserMoves, UserDeletes, UserAdds
<1>2. HistOK'
  BY HistUser
<1>3. RowsOK(db)' /\ RowsOK(work)' /\ ScanOK' /\ ControlOK'
  BY <1>1, <1>8 DEF IInv, RowsOK, Known, ScanOK, ControlOK, Rotating, conf, rot
<1>4. /\ fs' \in [Paths -> Tracks \cup {None, Torn}]
      /\ \A r \in Rels : Busy(r) => fs'[<<"archive", r>>] = fs[<<"archive", r>>]
      /\ \A r \in Rels : fs'[<<"resident", r>>] = fs[<<"resident", r>>]
  <2>1. fs \in [Paths -> Tracks \cup {None, Torn}]
    BY DEF IInv, FilesOK
  <2>2. \A r \in Rels : <<"archive", r>> \in Paths /\ <<"resident", r>> \in Paths
    BY DEF Paths
  <2>3. ASSUME NEW t \in Tracks, NEW r \in Rels, NEW s \in Rels, UserMoves(t, r, s)
        PROVE  <1>4!:
    BY <2>1, <2>2, <2>3 DEF UserMoves
  <2>4. ASSUME NEW t \in Tracks, NEW r \in Rels, UserDeletes(t, r) \/ UserAdds(t, r)
        PROVE  <1>4!:
    BY <2>1, <2>2, <2>4 DEF UserDeletes, UserAdds
  <2> QED  BY <2>3, <2>4 DEF User
<1>5. \A r \in Rels : Busy(r) => \A s \in {"archive", "resident"} : fs'[<<s, r>>] = fs[<<s, r>>]
  BY <1>4
<1>6. ASSUME cur # None
      PROVE  /\ Src(cur)' = Src(cur) /\ Dst(cur)' = Dst(cur) /\ Name(cur)' = Name(cur)
             /\ fs'[Src(cur)] = fs[Src(cur)] /\ fs'[Dst(cur)] = fs[Dst(cur)]
  <2>1. cur \in Known(db)
    BY <1>6 DEF IInv, ControlOK
  <2>2. Busy(db.path[cur][2])
    BY <1>6 DEF Busy
  <2>3. /\ Src(cur) \in {<<s, db.path[cur][2]>> : s \in {"archive", "resident"}}
        /\ db.path[cur][2] \in Rels
    BY <2>1, PathType DEF IInv, Src
  <2>4. Dst(cur) \in {<<s, db.path[cur][2]>> : s \in {"archive", "resident"}}
    BY DEF Dst, Side
  <2>5. Src(cur)' = Src(cur) /\ Dst(cur)' = Dst(cur) /\ Name(cur)' = Name(cur)
    BY <1>1 DEF Src, Dst, Name, Side, rot, conf
  <2> QED  BY <1>5, <2>2, <2>3, <2>4, <2>5
<1>7. FilesOK'
  <2>1. \A r \in linked' : fs'[<<"archive", r>>] = fs'[<<"resident", r>>] /\ fs'[<<"archive", r>>] # None
    BY <1>1, <1>5 DEF Busy, IInv, FilesOK
  <2>2. step' = step /\ cur' = cur /\ xfs' = xfs /\ linked' = linked
    BY <1>1 DEF rot
  <2>3. step # "none" => cur # None
    BY DEF IInv, ControlOK
  <2>4. Side' = Side
    BY <1>1 DEF Side
  <2> QED  BY <1>4, <1>6, <2>1, <2>2, <2>3, <2>4 DEF IInv, FilesOK
<1> QED  BY <1>2, <1>3, <1>7 DEF IInv

\* Outside of a rotation only the types of rows and files matter.
LEMMA OuterFrame ==
  ASSUME IInv, ~Rotating, ~Rotating', UNCHANGED <<fs, linked, rot>>, Counted,
         xfs' \in [Rels -> Transcode \cup {None}], RowsOK(db'), RowsOK(work'), ScanOK'
  PROVE  IInv'
<1>1. HistOK' /\ black' = black
  BY HistCounted DEF Counted, conf
<1>2. RowsOK(db)' /\ RowsOK(work)'
  BY <1>1 DEF RowsOK, Known
<1>3. todo = {} /\ resident = {} /\ cur = None /\ step = "none"
  BY DEF IInv, ControlOK
<1>4. todo' = {} /\ resident' = {} /\ cur' = None /\ step' = "none" /\ errors' = errors
  BY <1>3 DEF rot
<1>5. ControlOK'
  BY <1>4 DEF IInv, ControlOK, Rotating, MoveSteps
<1>6. FilesOK'
  BY <1>4 DEF IInv, FilesOK
<1> QED  BY <1>1, <1>2, <1>5, <1>6 DEF IInv

LEMMA InvScan == ASSUME IInv, ScanStep \/ ScanFails PROVE IInv'
<1>1. Counted /\ black' = black
  BY HistScan DEF Counted, conf
<1>2. /\ UNCHANGED <<fs, linked, rot>> /\ pc \in {"scan", "walking"}
      /\ pc' \in {"scan", "walking", "resolve"}
  BY DEF ScanStep, ScanFails, BeginScan, VisitFile, VisitSkipped, VisitNothing, VisitKnown,
     VisitBlacklisted, VisitMoved, VisitConflict, Conflict, VisitNew, Sweep, HashFails, Unreadable,
     NotRead, SweepRolledBack, Visit, Passes, EndCycle, files
<1>3. ~Rotating /\ ~Rotating'
  BY <1>2 DEF Rotating
<1>4. /\ RowsOK(db) /\ RowsOK(work) /\ xfs \in [Rels -> Transcode \cup {None}]
      /\ fs \in [Paths -> Tracks \cup {None, Torn}]
  BY DEF IInv, FilesOK
<1> DEFINE Goal == /\ xfs' \in [Rels -> Transcode \cup {None}]
                   /\ RowsOK(db') /\ RowsOK(work') /\ ScanOK'
<1> SUFFICES Goal
  BY <1>1, <1>2, <1>3, OuterFrame
<1>5. CASE BeginScan
  BY <1>4, <1>5 DEF BeginScan, files, IInv, ScanOK, Known
<1>6. ASSUME EndCycle, UNCHANGED <<files, db>> \/ (UNCHANGED db /\ xfs' \in [Rels -> Transcode \cup {None}])
      PROVE  Goal
  BY <1>4, <1>6 DEF EndCycle, files, ScanOK
<1>7. ASSUME NEW p \in Paths, VisitFile(p) \/ HashFails(p) \/ Unreadable(p)
      PROVE  Goal
  <2>1. fs[p] \in Tracks \cup {None, Torn}
    BY <1>4
  <2>2. CASE VisitConflict(p)
    BY <1>6, <2>2 DEF VisitConflict, Conflict
  <2>3. CASE VisitSkipped(p) \/ VisitNothing(p) \/ VisitKnown(p) \/ VisitBlacklisted(p)
             \/ HashFails(p) \/ Unreadable(p)
    <3>1. fs[p] # None /\ fs[p] = At(work, p) => fs[p] \in Tracks
      BY AtFacts
    <3>2. UNCHANGED <<xfs, db, pc, work, handled>> /\ visited' = visited \cup {p} /\ pc = "walking"
          /\ missed' \in {missed, missed \cup ({fs[p]} \cap Tracks)}
          /\ bad' \in {bad, TRUE} /\ (seen' = seen \/ (fs[p] \in Tracks /\ seen' = seen \cup {fs[p]}))
      BY <2>3, <3>1
         DEF VisitSkipped, VisitNothing, VisitKnown, VisitBlacklisted, HashFails, Unreadable,
             NotRead, Visit, Passes, files, notes
    <3> QED  BY <1>4, <3>2 DEF IInv, ScanOK
  <2>4. CASE VisitMoved(p)
    <3>1. fs[p] \in Tracks \ black
      BY <2>4 DEF VisitMoved, Known
    <3>2. RowsOK(work')
      BY <1>4, <2>4, <3>1, SetPath DEF VisitMoved
    <3> QED  BY <1>4, <2>4, <3>1, <3>2 DEF VisitMoved, Visit, Passes, files, notes, IInv, ScanOK
  <2>5. CASE VisitNew(p)
    <3> DEFINE old == {At(work, p)} \ {None}
    <3>1. fs[p] = Torn \/ fs[p] \in Tracks \ black
      BY <2>1, <2>5 DEF VisitNew
    <3>2. RowsOK(DropRows(work, old))
      BY <1>4, DropFacts
    <3>3. RowsOK(work')
      <4>1. CASE fs[p] = Torn
        BY <2>5, <3>2, <4>1 DEF VisitNew
      <4>2. CASE fs[p] # Torn
        <5>1. work' = [DropRows(work, old) EXCEPT !.path[fs[p]] = p]
          BY <2>5, <4>2 DEF VisitNew
        <5> QED  BY <3>1, <3>2, <4>2, <5>1, SetPath
      <4> QED  BY <4>1, <4>2
    <3>4. xfs' \in [Rels -> Transcode \cup {None}]
      BY <2>5, DropTranscodesType DEF VisitNew, IInv
    <3>5. seen' \in SUBSET Tracks
      BY <2>5, <3>1 DEF VisitNew, IInv, ScanOK
    <3>6. ScanOK'
      BY <2>5, <3>5 DEF VisitNew, Visit, Passes, notes, IInv, ScanOK
    <3> QED  BY <1>4, <2>5, <3>3, <3>4, <3>6 DEF VisitNew
  <2> QED  BY <1>7, <2>2, <2>3, <2>4, <2>5 DEF VisitFile
<1>8. CASE Sweep
  <2>1. RowsOK(db') /\ work' = db'
    BY <1>4, <1>8, DropFacts DEF Sweep
  <2>2. xfs' \in [Rels -> Transcode \cup {None}]
    BY <1>8, DropTranscodesType DEF Sweep, IInv
  <2>3. ScanOK'
    BY <1>2, <1>8 DEF Sweep, ScanOK
  <2> QED  BY <2>1, <2>2, <2>3
<1>9. CASE SweepRolledBack
  BY <1>6, <1>9, DropTranscodesType DEF SweepRolledBack, IInv
<1> QED  BY <1>5, <1>7, <1>8, <1>9 DEF ScanStep, ScanFails

\* A step of the rotation at one track: it ends there, or goes on.
LEMMA ControlMove ==
  ASSUME ControlOK, Rotating, NEW t \in todo, UNCHANGED <<pc, mode, resident>>,
         Known(db') = Known(db), errors' \in BOOLEAN,
         pc = "relocating" => \A u \in Tracks : db.x[u] # None => db'.x[u] # None,
         \/ Finish(t)
         \/ /\ cur' = t /\ t # None /\ todo' = todo
            /\ \/ step' \in MoveSteps /\ mode = "move"
               \/ step' \in {"encode", "row"} /\ mode = "transcode"
            /\ step' = "encode" => pc = "adding"
  PROVE  ControlOK'
<1>1. /\ resident' \in SUBSET Tracks /\ todo' \in SUBSET todo /\ cur' \in Tracks \cup {None}
      /\ step' \in {"none", "encode", "row"} \cup MoveSteps
      /\ cur' = None <=> step' = "none"
      /\ cur' # None => cur' \in todo'
      /\ step' \in MoveSteps => mode = "move"
      /\ step' \in {"encode", "row"} => mode = "transcode"
      /\ step' = "encode" => pc = "adding"
  BY DEF ControlOK, Finish, Stop, MoveSteps
<1>2. \A u \in todo' : u \in Known(db') /\ (pc = "relocating" => db'.x[u] # None)
  BY <1>1 DEF ControlOK
<1> QED  BY <1>1, <1>2 DEF ControlOK, Rotating, Known, MoveSteps

\* What a step of the rotation may rely on.
LEMMA TaskFacts ==
  ASSUME IInv, NEW t \in todo
  PROVE  /\ t \in Tracks /\ t # None /\ t \in Known(db) /\ Rotating
         /\ Src(t) \in Paths /\ Dst(t) \in Paths /\ Rel(t) \in Rels /\ Name(t) \in Rels
         /\ Src(t)[2] = Rel(t) /\ Src(t)[1] \in {"archive", "resident"}
         /\ Src(t) = <<Src(t)[1], Rel(t)>> /\ Dst(t) = <<Side, Rel(t)>>
         /\ Src(t)[1] # Side => Src(t) # Dst(t)
<1>1. t \in Tracks /\ t # None /\ t \in Known(db) /\ Rotating
  BY LibraryAssumption DEF IInv, ControlOK
<1>2. Side \in {"archive", "resident"}
  BY DEF Side
<1>3. RowsOK(db) /\ out \in [Rels -> Rels]
  BY DEF IInv, HistOK
<1>4. /\ db.path[t] \in Paths /\ db.path[t][1] \in {"archive", "resident"}
      /\ db.path[t][2] \in Rels /\ db.path[t] = <<db.path[t][1], db.path[t][2]>>
      /\ \A s \in {"archive", "resident"} : <<s, db.path[t][2]>> \in Paths
  BY <1>1, <1>3, PathType
<1>5. Src(t) = db.path[t] /\ Rel(t) = db.path[t][2] /\ Dst(t) = <<Side, db.path[t][2]>>
      /\ Name(t) = out[db.path[t][2]]
  BY DEF Src, Dst, Name, Rel
<1> QED  BY <1>1, <1>2, <1>3, <1>4, <1>5

\* The parts of the invariant, put together for a step of the rotation.
LEMMA RotateFrame ==
  ASSUME IInv, Counted, UNCHANGED scan, RowsOK(db'), ControlOK', FilesOK',
         pc' \in {"scan", "rotate", "relocating", "adding", "removing", "publish"},
         pc # "walking"
  PROVE  IInv'
<1>1. HistOK' /\ black' = black
  BY HistCounted DEF Counted, conf
<1>2. RowsOK(db)' /\ RowsOK(work)'
  BY <1>1 DEF RowsOK, Known, IInv, scan, notes
<1>3. ScanOK'
  BY DEF ScanOK, IInv, scan, notes
<1> QED  BY <1>1, <1>2, <1>3 DEF IInv

\* The files stay as they are, and the next step does not depend on them.
LEMMA FilesKept ==
  ASSUME FilesOK, UNCHANGED files, step' \notin {"copy", "unlink", "encode"}
  PROVE  FilesOK'
BY DEF FilesOK, files

LEMMA InvCycle == ASSUME IInv, Resolve \/ Publish \/ Crash PROVE IInv'
<1>1. Counted /\ black' = black
  BY HistRotate DEF Counted, conf
<1>2. RowsOK(db) /\ RowsOK(work) /\ xfs \in [Rels -> Transcode \cup {None}]
  BY DEF IInv, FilesOK
<1>3. CASE Resolve
  <2>1. ~Rotating /\ ~Rotating' /\ UNCHANGED <<files, rot, scan>> /\ ScanOK'
    BY <1>3 DEF Resolve, Rotating, IInv, ScanOK, scan, notes
  <2>2. RowsOK(db')
    <3>1. ASSUME NEW S \in SUBSET Known(db), db' = [db EXCEPT !.manifest = S]
          PROVE  RowsOK(db')
      <4>1. db' \in Rows /\ db'.path = db.path /\ db'.loc = db.loc /\ db'.x = db.x
            /\ db'.pins = db.pins /\ db'.manifest = S
        BY <1>2, <3>1 DEF RowsOK, Rows, Known
      <4> QED  BY <1>2, <4>1 DEF RowsOK, Known
    <3> QED  BY <1>2, <1>3, <3>1 DEF Resolve
  <2> QED  BY <1>1, <1>2, <2>1, <2>2, OuterFrame DEF files, scan, notes
<1>4. CASE Publish
  <2>1. ~Rotating /\ ~Rotating' /\ UNCHANGED <<files, db, rot, scan>> /\ ScanOK'
    BY <1>4 DEF Publish, Rotating, IInv, ScanOK, scan, notes
  <2> QED  BY <1>1, <1>2, <2>1, OuterFrame DEF files, scan, notes
<1>5. CASE Crash
  <2>1. /\ UNCHANGED <<files, db>> /\ work' = db /\ pc' = "scan"
        /\ seen' = {} /\ visited' = {} /\ bad' = FALSE /\ missed' = {} /\ handled' = {}
        /\ resident' = {} /\ todo' = {} /\ errors' = FALSE /\ cur' = None /\ step' = "none"
    BY <1>5 DEF Crash, EndCycle, Stop
  <2>2. HistOK'
    BY <1>1, HistCounted
  <2>3. FilesOK'
    BY <2>1, FilesKept DEF IInv
  <2>4. ControlOK' /\ ScanOK'
    BY <2>1 DEF ControlOK, ScanOK, Rotating, MoveSteps
  <2>5. RowsOK(db)' /\ RowsOK(work)'
    BY <1>1, <1>2, <2>1 DEF RowsOK, Known
  <2> QED  BY <2>2, <2>3, <2>4, <2>5 DEF IInv
<1> QED  BY <1>3, <1>4, <1>5

LEMMA InvPhase ==
  ASSUME IInv, BeginRotate \/ AddsDone \/ RemovesDone \/ RelocateDone
  PROVE  IInv'
<1>1. Counted
  BY HistRotate, HistTranscode DEF RotateStep, TranscodeStep
<1>2. UNCHANGED <<fs, linked, db, scan>> /\ RowsOK(db) /\ db.manifest \subseteq Known(db)
  BY DEF BeginRotate, AddsDone, RemovesDone, RelocateDone, IInv, RowsOK, files
<1>3. CASE BeginRotate
  <2>1. \A t \in Tracks : Present(t) => t \in Known(db) /\ (mode = "transcode" => db.x[t] # None)
    BY <1>2 DEF Present, RowsOK
  <2>2. /\ UNCHANGED files /\ resident' = {t \in Tracks : Present(t)} /\ mode' = mode
        /\ cur' = None /\ step' = "none" /\ errors' = FALSE
        /\ pc = "rotate" /\ pc' \in {"relocating", "adding"}
        /\ pc' = "relocating" => mode = "transcode" /\ todo' = resident'
        /\ pc' = "adding" => todo' = db.manifest \ resident'
    BY <1>3 DEF BeginRotate, conf
  <2>3. Known(db) \subseteq Tracks
    BY DEF Known
  <2>4. ControlOK'
    BY <1>2, <2>1, <2>2, <2>3 DEF ControlOK, Rotating, MoveSteps, Known
  <2>5. FilesOK'
    BY <2>2, FilesKept DEF IInv
  <2> QED  BY <1>1, <1>2, <2>2, <2>4, <2>5, RotateFrame
<1>4. CASE AddsDone \/ RelocateDone
  <2>1. /\ UNCHANGED <<files, mode, resident, cur, step, errors>> /\ cur = None
        /\ pc \in {"relocating", "adding"} /\ pc' \in {"adding", "removing"}
        /\ todo' \subseteq db.manifest \cup resident
    BY <1>4 DEF AddsDone, RelocateDone, conf
  <2>2. Known(db) \subseteq Tracks
    BY DEF Known
  <2>3. step = "none"
    BY <2>1 DEF IInv, ControlOK
  <2>4. ControlOK'
    BY <1>2, <2>1, <2>2, <2>3 DEF IInv, ControlOK, Rotating, MoveSteps, Known
  <2>5. FilesOK'
    BY <2>1, <2>3, FilesKept DEF IInv
  <2> QED  BY <1>1, <1>2, <2>1, <2>4, <2>5, RotateFrame
<1>5. CASE RemovesDone
  <2>1. /\ UNCHANGED <<mode, todo, cur, step>> /\ cur = None /\ todo = {}
        /\ pc = "removing" /\ pc' \in {"scan", "publish"}
        /\ resident' = {} /\ errors' = FALSE
        /\ \/ xfs' = xfs
           \/ xfs' = [r \in Rels |-> IF \E t \in Tracks : db.x[t] = r THEN xfs[r] ELSE None]
    BY <1>5 DEF RemovesDone, conf
  <2>2. step = "none"
    BY <2>1 DEF IInv, ControlOK
  <2>3. ControlOK'
    BY <2>1, <2>2 DEF ControlOK, Rotating, MoveSteps
  <2>4. xfs' \in [Rels -> Transcode \cup {None}]
    BY <2>1 DEF IInv, FilesOK
  <2>5. FilesOK'
    BY <1>2, <2>1, <2>2, <2>4 DEF IInv, FilesOK
  <2> QED  BY <1>1, <1>2, <2>1, <2>3, <2>5, RotateFrame
<1> QED  BY <1>3, <1>4, <1>5

\* A step that touches one path, whose name is not one of a link, or both of
\* whose names keep one content.
LEMMA SetOne ==
  ASSUME FilesOK, NEW q \in Paths, NEW v \in Tracks \cup {None, Torn},
         fs' = [fs EXCEPT ![q] = v]
  PROVE  /\ fs' \in [Paths -> Tracks \cup {None, Torn}] /\ fs'[q] = v
         /\ \A p \in Paths : p # q => fs'[p] = fs[p]
BY DEF FilesOK

LEMMA LinkPaths ==
  ASSUME NEW r \in Rels
  PROVE  /\ <<"archive", r>> \in Paths /\ <<"resident", r>> \in Paths
         /\ <<"archive", r>> # <<"resident", r>>
BY DEF Paths

\* move_one, copy_and_unlink: what is linked has one content, a copy is torn
\* until it is done, and the source goes only when the other side is as good.
LEMMA InvMove ==
  ASSUME IInv, NEW t \in Tracks, Move(t) \/ MoveFails(t)
  PROVE  IInv'
<1>1. Counted
  BY HistRotate DEF RotateStep
<1>2. t \in todo /\ pc \in {"adding", "removing"} /\ pc' = pc /\ Rotating
  BY LibraryAssumption
     DEF Move, MoveRecovers, MoveRefused, MoveLinks, MoveCopies, CopyDone, UnlinkSource, UpdatePath,
         RecordLocation, MoveFails, Idle, InMove, IInv, ControlOK, Rotating
<1>3. /\ t # None /\ t \in Known(db) /\ Src(t) \in Paths /\ Dst(t) \in Paths /\ Rel(t) \in Rels
      /\ Src(t) = <<Src(t)[1], Rel(t)>> /\ Dst(t) = <<Side, Rel(t)>> /\ Src(t)[2] = Rel(t)
      /\ Src(t)[1] \in {"archive", "resident"} /\ Side \in {"archive", "resident"}
      /\ Src(t)[1] # Side => Src(t) # Dst(t)
  BY <1>2, TaskFacts DEF Side
<1>4. /\ UNCHANGED <<scan, mode, resident, xfs>> /\ Side' = Side
  BY <1>2 DEF Move, MoveRecovers, MoveRefused, MoveLinks, MoveCopies, CopyDone, UnlinkSource, UpdatePath,
         RecordLocation, MoveFails, conf, files, Side
<1>5. RowsOK(db) /\ FilesOK /\ ControlOK /\ errors \in BOOLEAN /\ xfs \in [Rels -> Transcode \cup {None}]
  BY DEF IInv, FilesOK, ControlOK
<1>6. ASSUME RowsOK(db'), Known(db') = Known(db), FilesOK', errors' \in BOOLEAN,
             \/ Finish(t)
             \/ cur' = t /\ todo' = todo /\ step' \in MoveSteps /\ mode = "move"
      PROVE  IInv'
  <2>1. ControlOK'
    BY <1>2, <1>3, <1>4, <1>5, <1>6, ControlMove DEF MoveSteps
  <2> QED  BY <1>1, <1>2, <1>4, <1>6, <2>1, RotateFrame
<1>7. CASE MoveRecovers(t) \/ RecordLocation(t)
  <2>1. /\ db' = [db EXCEPT !.loc[t] = Side] /\ Finish(t) /\ UNCHANGED files /\ errors' = errors
        /\ step' = "none"
    BY <1>7 DEF MoveRecovers, RecordLocation, Finish, Stop
  <2>2. RowsOK(db') /\ Known(db') = Known(db)
    <3>1. Side \in {"none", "archive", "resident"}
      BY <1>3
    <3>2. StateOnly(db, [db EXCEPT !.loc[t] = Side], t)
      BY <1>3, <1>5, <3>1, SetLoc
    <3>3. db' = [db EXCEPT !.loc[t] = Side]
      BY <2>1
    <3>4. StateOnly(db, db', t)
      BY <3>2, <3>3
    <3> QED  BY <3>4 DEF StateOnly
  <2> QED  BY <1>5, <1>6, <2>1, <2>2, FilesKept
<1>8. CASE MoveRefused(t)
  <2>1. db' = db /\ Finish(t) /\ UNCHANGED files /\ errors' = TRUE /\ step' = "none"
    BY <1>8 DEF MoveRefused, Finish, Stop
  <2> QED  BY <1>5, <1>6, <2>1, FilesKept
<1>9. CASE MoveLinks(t)
  <2>1. /\ Src(t)[1] # Side /\ fs[Src(t)] # None /\ mode = "move"
        /\ fs' = [fs EXCEPT ![Dst(t)] = fs[Src(t)]] /\ linked' = linked \cup {Rel(t)}
        /\ cur' = t /\ step' = "unlink" /\ UNCHANGED <<xfs, db, todo, errors>>
    BY <1>3, <1>9 DEF MoveLinks
  <2>2. /\ fs' \in [Paths -> Tracks \cup {None, Torn}] /\ fs'[Dst(t)] = fs[Src(t)]
        /\ \A p \in Paths : p # Dst(t) => fs'[p] = fs[p]
    BY <1>3, <1>5, <2>1, SetOne DEF FilesOK
  <2>3. fs'[Src(t)] = fs[Src(t)]
    BY <1>3, <2>1, <2>2
  <2>4. \A r \in linked' : fs'[<<"archive", r>>] = fs'[<<"resident", r>>] /\ fs'[<<"archive", r>>] # None
    <3> SUFFICES ASSUME NEW r \in linked'
                 PROVE  fs'[<<"archive", r>>] = fs'[<<"resident", r>>] /\ fs'[<<"archive", r>>] # None
      OBVIOUS
    <3>1. CASE r = Rel(t)
      BY <1>3, <2>1, <2>2, <2>3, <3>1
    <3>2. CASE r # Rel(t)
      BY <1>3, <1>5, <2>1, <2>2, <3>2, LinkPaths DEF FilesOK
    <3> QED  BY <3>1, <3>2
  <2>5. Src(t)' = Src(t) /\ Dst(t)' = Dst(t)
    BY <1>4, <2>1 DEF Src, Dst
  <2>6. FilesOK'
    BY <1>3, <1>4, <1>5, <2>1, <2>2, <2>3, <2>4, <2>5 DEF FilesOK
  <2> QED  BY <1>5, <1>6, <2>1, <2>6 DEF MoveSteps
<1>10. CASE MoveCopies(t)
  <2>1. /\ Src(t)[1] # Side /\ fs[Src(t)] # None /\ mode = "move" /\ fs[Dst(t)] = None
        /\ fs' = [fs EXCEPT ![Dst(t)] = Torn] /\ linked' = linked
        /\ cur' = t /\ step' = "copy" /\ UNCHANGED <<xfs, db, todo, errors>>
    BY <1>10 DEF MoveCopies
  <2>2. /\ fs' \in [Paths -> Tracks \cup {None, Torn}] /\ fs'[Dst(t)] = Torn
        /\ \A p \in Paths : p # Dst(t) => fs'[p] = fs[p]
    BY <1>3, <1>5, <2>1, SetOne
  <2>3. fs'[Src(t)] = fs[Src(t)] /\ Rel(t) \notin linked
    BY <1>3, <1>5, <2>1, <2>2 DEF FilesOK
  <2>4. \A r \in linked : <<"archive", r>> # Dst(t) /\ <<"resident", r>> # Dst(t)
    BY <1>3, <2>3
  <2>5. Src(t)' = Src(t) /\ Dst(t)' = Dst(t)
    BY <1>4, <2>1 DEF Src, Dst
  <2>6. FilesOK'
    BY <1>3, <1>4, <1>5, <2>1, <2>2, <2>3, <2>4, <2>5, LinkPaths DEF FilesOK
  <2> QED  BY <1>5, <1>6, <2>1, <2>6 DEF MoveSteps
<1>11. CASE CopyDone(t)
  <2>1. /\ cur = t /\ step = "copy" /\ fs' = [fs EXCEPT ![Dst(t)] = fs[Src(t)]] /\ linked' = linked
        /\ step' = "unlink" /\ cur' = t /\ UNCHANGED <<xfs, db, todo, errors>>
    BY <1>11 DEF CopyDone, InMove
  <2>2. Src(t)[1] # Side /\ fs[Src(t)] # None /\ Rel(t) \notin linked /\ mode = "move"
    BY <1>3, <1>5, <2>1 DEF FilesOK, ControlOK, MoveSteps
  <2>3. /\ fs' \in [Paths -> Tracks \cup {None, Torn}] /\ fs'[Dst(t)] = fs[Src(t)]
        /\ \A p \in Paths : p # Dst(t) => fs'[p] = fs[p]
    BY <1>3, <1>5, <2>1, SetOne DEF FilesOK
  <2>4. \A r \in linked : <<"archive", r>> # Dst(t) /\ <<"resident", r>> # Dst(t)
    BY <1>3, <2>2
  <2>5. Src(t)' = Src(t) /\ Dst(t)' = Dst(t)
    BY <1>4, <2>1 DEF Src, Dst
  <2>6. FilesOK'
    BY <1>3, <1>4, <1>5, <2>1, <2>2, <2>3, <2>4, <2>5, LinkPaths DEF FilesOK
  <2> QED  BY <1>5, <1>6, <2>1, <2>2, <2>6 DEF MoveSteps
<1>12. CASE UnlinkSource(t)
  <2>1. /\ cur = t /\ step = "unlink" /\ fs' = [fs EXCEPT ![Src(t)] = None]
        /\ linked' = linked \ {Rel(t)} /\ mode = "move"
        /\ step' = "path" /\ cur' = t /\ UNCHANGED <<xfs, db, todo, errors>>
    BY <1>3, <1>12 DEF UnlinkSource, InMove
  <2>2. /\ fs' \in [Paths -> Tracks \cup {None, Torn}]
        /\ \A p \in Paths : p # Src(t) => fs'[p] = fs[p]
    BY <1>3, <1>5, <2>1, SetOne
  <2>3. \A r \in linked' : <<"archive", r>> # Src(t) /\ <<"resident", r>> # Src(t)
    BY <1>3, <2>1
  <2>4. FilesOK'
    BY <1>5, <2>1, <2>2, <2>3, LinkPaths DEF FilesOK
  <2> QED  BY <1>5, <1>6, <2>1, <2>4 DEF MoveSteps
<1>13. CASE UpdatePath(t)
  <2>1. /\ cur' = t /\ cur = t /\ step = "path" /\ step' = "location" /\ todo' = todo
        /\ UNCHANGED files /\ errors' \in BOOLEAN
        /\ db' = db \/ db' = [db EXCEPT !.path[t] = Dst(t)]
    BY <1>5, <1>13 DEF UpdatePath, InMove
  <2>2. mode = "move"
    BY <1>5, <2>1 DEF ControlOK, MoveSteps
  <2>3. t \in Tracks \ black
    BY <1>3, <1>5 DEF RowsOK
  <2>4. RowsOK(db') /\ Known(db') = Known(db)
    <3>1. CASE db' = [db EXCEPT !.path[t] = Dst(t)]
      <4>1. RowsOK(db') /\ Known(db') = Known(db) \cup {t}
        BY <1>3, <1>5, <2>3, <3>1, SetPath
      <4> QED  BY <1>3, <4>1
    <3> QED  BY <1>5, <2>1, <3>1
  <2> QED  BY <1>5, <1>6, <2>1, <2>2, <2>4, FilesKept DEF MoveSteps
<1>14. CASE MoveFails(t)
  <2>1. /\ cur = t /\ mode = "move" /\ errors' = TRUE /\ UNCHANGED <<linked, xfs, db>>
        /\ fs' = IF step = "copy" THEN [fs EXCEPT ![Dst(t)] = None] ELSE fs
        /\ \/ Finish(t)
           \/ cur' = t /\ todo' = todo /\ step' \in {"path", "location"}
    BY <1>14 DEF MoveFails
  <2>2. step' \notin {"copy", "unlink", "encode"}
    BY <2>1 DEF Finish, Stop
  <2>3. FilesOK'
    <3>1. CASE step # "copy"
      BY <1>5, <2>1, <2>2, <3>1, FilesKept DEF files
    <3>2. CASE step = "copy"
      <4>1. /\ fs' \in [Paths -> Tracks \cup {None, Torn}]
            /\ \A p \in Paths : p # Dst(t) => fs'[p] = fs[p]
        BY <1>3, <1>5, <2>1, <3>2, SetOne
      <4>2. Rel(t) \notin linked
        BY <1>3, <1>5, <2>1, <3>2 DEF FilesOK
      <4>3. \A r \in linked : <<"archive", r>> # Dst(t) /\ <<"resident", r>> # Dst(t)
        BY <1>3, <4>2
      <4> QED  BY <1>5, <2>1, <2>2, <4>1, <4>3, LinkPaths DEF FilesOK
    <3> QED  BY <3>1, <3>2
  <2> QED  BY <1>5, <1>6, <2>1, <2>3 DEF MoveSteps
<1> QED  BY <1>7, <1>8, <1>9, <1>10, <1>11, <1>12, <1>13, <1>14 DEF Move

\* In transcode mode the originals stay where they are.
LEMMA FilesDerived ==
  ASSUME FilesOK, UNCHANGED <<fs, linked>>, xfs' \in [Rels -> Transcode \cup {None}],
         step' \in {"none", "row"}
  PROVE  FilesOK'
BY DEF FilesOK

TranscodeAny(t) == TranscodeTrack(t) \/ RelocateRefused(t) \/ EncodeFails(t) \/ RowFails(t)

\* What a step at a track does to the derived files, and where it leads.
LEMMA TranscodeStepFacts ==
  ASSUME IInv, NEW t \in Tracks, TranscodeAny(t)
  PROVE  /\ Counted /\ t \in todo /\ mode = "transcode" /\ Rotating
         /\ UNCHANGED <<fs, linked, mode, pc, scan, resident>> /\ errors' \in {errors, TRUE}
         /\ \/ Finish(t)
            \/ cur' = t /\ todo' = todo /\ (step' = "row" \/ (step' = "encode" /\ Encode(t)))
         /\ xfs' \in [Rels -> Transcode \cup {None}]
<1>1. Counted
  BY HistTranscode DEF TranscodeAny, TranscodeStep
<1>2. /\ t \in todo /\ mode = "transcode" /\ Rotating
      /\ UNCHANGED <<fs, linked, mode, pc, scan, resident>> /\ errors' \in {errors, TRUE}
  <2>1. step = "row" => mode = "transcode" /\ Rotating
    BY DEF IInv, ControlOK
  <2>2. cur = t => t \in todo
    BY LibraryAssumption DEF IInv, ControlOK
  <2>3. CASE TranscodeTrack(t)
    BY <2>2, <2>3 DEF TranscodeTrack, InPlace, Relocate, RelocateRow, PromoteAdopts, Encode, EncodeDone,
       PromoteRow, Demote, DemoteRow, Task, InTask, Rotating, files, conf
  <2>4. CASE RelocateRefused(t) \/ EncodeFails(t) \/ RowFails(t)
    BY <2>1, <2>2, <2>4 DEF RelocateRefused, EncodeFails, RowFails, Task, InTask, Rotating, files, conf
  <2> QED  BY <2>3, <2>4 DEF TranscodeAny
<1>3. \/ Finish(t)
      \/ cur' = t /\ todo' = todo /\ (step' = "row" \/ (step' = "encode" /\ Encode(t)))
  BY DEF TranscodeAny, TranscodeTrack, InPlace, Relocate, RelocateRow, PromoteAdopts, Encode,
     EncodeDone, PromoteRow, Demote, DemoteRow, RelocateRefused, EncodeFails, RowFails, InTask
<1>4. xfs' \in [Rels -> Transcode \cup {None}]
  <2>1. /\ xfs \in [Rels -> Transcode \cup {None}] /\ fs \in [Paths -> Tracks \cup {None, Torn}]
        /\ Name(t) \in Rels /\ db.path[t] \in Paths /\ db.x[t] \in Rels \cup {None} /\ t \in Tracks
    BY <1>2, TaskFacts DEF IInv, FilesOK, Src, RowsOK, Rows
  <2>2. CASE InPlace(t) \/ RelocateRow(t) \/ PromoteAdopts(t) \/ PromoteRow(t) \/ DemoteRow(t)
             \/ RelocateRefused(t) \/ RowFails(t)
    BY <2>1, <2>2 DEF InPlace, RelocateRow, PromoteAdopts, PromoteRow, DemoteRow, RelocateRefused,
       RowFails, files
  <2>3. CASE Relocate(t)
    <3>1. db.x[t] \in Rels
      BY <1>2, <2>1, <2>3 DEF Relocate, Task, IInv, ControlOK
    <3> QED  BY <2>1, <2>3, <3>1 DEF Relocate
  <2>4. CASE Encode(t)
    <3>1. [of |-> fs[db.path[t]], whole |-> FALSE] \in Transcode
      BY <2>1, <2>4 DEF Encode, Transcode
    <3> QED  BY <2>1, <2>4, <3>1 DEF Encode
  <2>5. CASE EncodeDone(t)
    <3>1. xfs[Name(t)] \in Transcode
      BY <2>1, <2>5 DEF EncodeDone, InTask, IInv, FilesOK
    <3>2. [xfs[Name(t)] EXCEPT !.whole = TRUE] \in Transcode
      BY <3>1 DEF Transcode
    <3>3. xfs' = [xfs EXCEPT ![Name(t)] = [xfs[Name(t)] EXCEPT !.whole = TRUE]]
      BY <2>5 DEF EncodeDone
    <3> QED  BY <2>1, <3>2, <3>3
  <2>6. CASE EncodeFails(t)
    BY <2>1, <2>6 DEF EncodeFails
  <2>7. CASE Demote(t)
    BY <2>1, <2>7 DEF Demote
  <2> QED  BY <2>2, <2>3, <2>4, <2>5, <2>6, <2>7 DEF TranscodeAny, TranscodeTrack
<1> QED  BY <1>1, <1>2, <1>3, <1>4

\* The rows after a step in transcode mode.
LEMMA TranscodeRows ==
  ASSUME IInv, NEW t \in Tracks, TranscodeAny(t)
  PROVE  StateOnly(db, db', t)
         /\ (pc = "relocating" => \A u \in Tracks : db.x[u] # None => db'.x[u] # None)
<1>1. /\ RowsOK(db) /\ t \in Known(db) /\ Name(t) \in Rels
      /\ Name(t) # None
  BY TranscodeStepFacts, TaskFacts, LibraryAssumption DEF IInv
<1>2. CASE UNCHANGED db
  BY <1>1, <1>2 DEF StateOnly
<1>3. CASE RelocateRow(t)
  <2>1. db' = [db EXCEPT !.x[t] = Name(t)]
    BY <1>3 DEF RelocateRow
  <2>2. /\ StateOnly(db, [db EXCEPT !.x[t] = Name(t)], t)
        /\ [db EXCEPT !.x[t] = Name(t)].x[t] = Name(t)
    BY <1>1, SetX
  <2>3. StateOnly(db, db', t) /\ db'.x[t] = Name(t)
    BY <2>1, <2>2
  <2> QED  BY <1>1, <2>3 DEF StateOnly
<1>4. CASE PromoteAdopts(t) \/ PromoteRow(t)
  <2>1. db' = [db EXCEPT !.loc[t] = "resident", !.x[t] = Name(t)] /\ pc # "relocating"
    BY <1>4 DEF PromoteAdopts, PromoteRow, Delivered, Task, InTask
  <2>2. StateOnly(db, [db EXCEPT !.loc[t] = "resident", !.x[t] = Name(t)], t)
    BY <1>1, SetState
  <2> QED  BY <2>1, <2>2
<1>5. CASE DemoteRow(t)
  <2>1. db' = [db EXCEPT !.loc[t] = "archive", !.x[t] = None] /\ pc # "relocating"
    BY <1>5 DEF DemoteRow, InTask
  <2>2. StateOnly(db, [db EXCEPT !.loc[t] = "archive", !.x[t] = None], t)
    BY <1>1, SetState
  <2> QED  BY <2>1, <2>2
<1> QED  BY <1>2, <1>3, <1>4, <1>5
         DEF TranscodeAny, TranscodeTrack, InPlace, Relocate, Encode, EncodeDone, Demote,
             RelocateRefused, EncodeFails, RowFails

LEMMA InvTranscode ==
  ASSUME IInv, NEW t \in Tracks, TranscodeAny(t)
  PROVE  IInv'
<1>1. /\ Counted /\ t \in todo /\ mode = "transcode" /\ Rotating
      /\ UNCHANGED <<fs, linked, mode, pc, scan, resident>> /\ errors' \in {errors, TRUE}
      /\ \/ Finish(t)
         \/ cur' = t /\ todo' = todo /\ (step' = "row" \/ (step' = "encode" /\ Encode(t)))
      /\ xfs' \in [Rels -> Transcode \cup {None}]
  BY TranscodeStepFacts
<1>2. RowsOK(db') /\ Known(db') = Known(db)
      /\ (pc = "relocating" => \A u \in Tracks : db.x[u] # None => db'.x[u] # None)
  BY TranscodeRows DEF StateOnly
<1>3. t # None /\ Name(t) \in Rels
  BY <1>1, TaskFacts
<1>4. Encode(t) => pc = "adding"
  BY DEF Encode, Task
<1>5. ControlOK'
  <2>1. errors' \in BOOLEAN /\ ControlOK
    BY <1>1 DEF IInv, ControlOK
  <2> QED  BY <1>1, <1>2, <1>3, <1>4, <2>1, ControlMove
<1>6. FilesOK'
  <2>1. CASE step' = "encode" /\ Encode(t) /\ cur' = t
    <3>1. xfs'[Name(t)] = [of |-> fs[db.path[t]], whole |-> FALSE] /\ db' = db
          /\ fs[db.path[t]] # None
      BY <1>3, <2>1 DEF Encode, IInv, FilesOK
    <3>2. fs[db.path[t]] \in Tracks \cup {Torn}
      BY <1>1, <3>1, TaskFacts DEF IInv, FilesOK, Src
    <3>3. xfs'[Name(t)] \in Transcode
      BY <3>1, <3>2 DEF Transcode
    <3>4. Name(t)' = Name(t) /\ xfs'[Name(t)] # None
      BY <1>1, <3>1, <3>3, NoneAssumption DEF Name, Counted, conf
    <3> QED  BY <1>1, <2>1, <3>4 DEF IInv, FilesOK
  <2>2. CASE step' \in {"none", "row"}
    BY <1>1, <2>2, FilesDerived DEF IInv
  <2> QED  BY <1>1, <2>1, <2>2 DEF Finish, Stop
<1>7. pc' \in {"scan", "rotate", "relocating", "adding", "removing", "publish"} /\ pc # "walking"
  BY <1>1 DEF Rotating
<1> QED  BY <1>1, <1>2, <1>5, <1>6, <1>7, RotateFrame

\* The types, the rows, the walk of a rotation and the files, whatever the user
\* does and whatever fails or is killed (cycle_cmd_main).
THEOREM LibraryInvariant == Spec => []IInv
<1>1. IInv /\ [Next]_vars => IInv'
  <2> SUFFICES ASSUME IInv, [Next]_vars PROVE IInv'
    OBVIOUS
  <2>1. CASE User
    BY <2>1, InvUser
  <2>2. CASE ScanStep \/ ScanFails
    BY <2>2, InvScan
  <2>3. CASE Resolve \/ Publish \/ Crash
    BY <2>3, InvCycle
  <2>4. CASE RotateStep \/ \E t \in Tracks : MoveFails(t)
    BY <2>4, InvPhase, InvMove DEF RotateStep
  <2>5. CASE \/ TranscodeStep
             \/ \E t \in Tracks : RelocateRefused(t) \/ EncodeFails(t) \/ RowFails(t)
    BY <2>5, InvPhase, InvTranscode DEF TranscodeStep, TranscodeAny
  <2>6. CASE UNCHANGED vars
    BY <2>6 DEF vars, files, conf, scan, notes, rot, hist, IInv, HistOK, RowsOK, Known, ScanOK,
       ControlOK, FilesOK, Rotating, Src, Dst, Name, Side
  <2> QED  BY <2>1, <2>2, <2>3, <2>4, <2>5, <2>6 DEF Next, Cycle, Fails
<1> QED  BY <1>1, InvInit, PTL DEF Spec

\* The rows, the files and the program counter keep their types.
THEOREM TypeOKHolds == Spec => []TypeOK
<1>1. IInv => TypeOK
  BY DEF IInv, HistOK, RowsOK, ScanOK, ControlOK, FilesOK, MoveSteps, TypeOK
<1> QED  BY <1>1, LibraryInvariant, PTL
-----------------------------------------------------------------------------
(* No content is lost                                                      *)

\* Only the user and a move touch the originals.
LEMMA OriginalsStay ==
  ASSUME IInv,
         \/ ScanStep \/ ScanFails \/ Resolve \/ Publish \/ Crash
         \/ BeginRotate \/ AddsDone \/ RemovesDone \/ TranscodeStep
         \/ \E t \in Tracks : RelocateRefused(t) \/ EncodeFails(t) \/ RowFails(t)
  PROVE  fs' = fs
<1>1. CASE ScanStep \/ ScanFails
  BY <1>1 DEF ScanStep, ScanFails, BeginScan, VisitFile, VisitSkipped, VisitNothing, VisitKnown,
     VisitBlacklisted, VisitMoved, VisitConflict, Conflict, VisitNew, Sweep, HashFails, Unreadable,
     NotRead, SweepRolledBack, files
<1>2. CASE Resolve \/ Publish \/ Crash \/ BeginRotate \/ AddsDone \/ RemovesDone \/ RelocateDone
  BY <1>2 DEF Resolve, Publish, Crash, BeginRotate, AddsDone, RemovesDone, RelocateDone, files
<1>3. CASE \E t \in Tracks : TranscodeAny(t)
  BY <1>3, TranscodeStepFacts
<1> QED  BY <1>1, <1>2, <1>3 DEF TranscodeStep, TranscodeAny

\* What a move does to the originals: it writes where nothing whole is lost, or
\* removes a source whose other side is as good.
LEMMA MoveFiles ==
  ASSUME IInv, NEW t \in Tracks, Move(t) \/ MoveFails(t)
  PROVE  \/ fs' = fs
         \/ /\ fs[Src(t)] # None /\ Src(t)[1] # Side /\ t \in todo
            /\ \E v \in Tracks \cup {None, Torn} :
                 fs' = [fs EXCEPT ![Dst(t)] = v] /\ (fs[Dst(t)] = v \/ fs[Dst(t)] \in {None, Torn})
         \/ /\ fs[Src(t)] # None /\ Src(t)[1] # Side /\ t \in todo
            /\ fs' = [fs EXCEPT ![Src(t)] = None] /\ fs[Dst(t)] = fs[Src(t)]
<1>1. t # None /\ FilesOK
  BY LibraryAssumption DEF IInv
<1>2. CASE MoveLinks(t)
  <2>1. t \in todo /\ Src(t)[1] # Side /\ fs[Src(t)] # None /\ fs' = [fs EXCEPT ![Dst(t)] = fs[Src(t)]]
        /\ (fs[Dst(t)] = None \/ Src(t)[2] \in linked)
    BY <1>2 DEF MoveLinks, Idle
  <2>2. /\ Src(t) = <<Src(t)[1], Rel(t)>> /\ Dst(t) = <<Side, Rel(t)>> /\ Src(t)[2] = Rel(t)
        /\ Src(t)[1] \in {"archive", "resident"} /\ Side \in {"archive", "resident"}
        /\ Src(t) \in Paths
    BY <2>1, TaskFacts DEF Side
  <2>3. fs[Dst(t)] = None \/ fs[Dst(t)] = fs[Src(t)]
    BY <1>1, <2>1, <2>2 DEF FilesOK
  <2>4. fs[Src(t)] \in Tracks \cup {None, Torn}
    BY <1>1, <2>2 DEF FilesOK
  <2> QED  BY <2>1, <2>3, <2>4
<1>3. CASE MoveCopies(t)
  BY <1>3 DEF MoveCopies, Idle
<1>4. ASSUME cur = t, step \in {"copy", "unlink"}
      PROVE  fs[Src(t)] # None /\ Src(t)[1] # Side /\ t \in todo
             /\ Src(t) \in Paths /\ fs[Src(t)] \in Tracks \cup {None, Torn}
             /\ (step = "copy" => fs[Dst(t)] = Torn) /\ (step = "unlink" => fs[Dst(t)] = fs[Src(t)])
  <2>1. t \in todo
    BY <1>1, <1>4 DEF IInv, ControlOK
  <2> QED  BY <1>1, <1>4, <2>1, TaskFacts DEF FilesOK
<1>5. CASE CopyDone(t)
  BY <1>4, <1>5 DEF CopyDone, InMove
<1>6. CASE UnlinkSource(t)
  BY <1>4, <1>6 DEF UnlinkSource, InMove
<1>7. CASE MoveFails(t)
  BY <1>4, <1>7 DEF MoveFails
<1>8. CASE MoveRecovers(t) \/ MoveRefused(t) \/ UpdatePath(t) \/ RecordLocation(t)
  BY <1>8 DEF MoveRecovers, MoveRefused, UpdatePath, RecordLocation, files
<1> QED  BY <1>2, <1>3, <1>5, <1>6, <1>7, <1>8 DEF Move

LEMMA MoveKeeps ==
  ASSUME IInv, NEW u \in Tracks, Move(u) \/ MoveFails(u), NEW t \in Tracks, Held(t)
  PROVE  Held(t)'
<1>1. PICK p \in Paths : fs[p] = t
  BY DEF Held
<1>2. fs \in [Paths -> Tracks \cup {None, Torn}] /\ t \notin {None, Torn}
  BY LibraryAssumption DEF IInv, FilesOK
<1>3. CASE fs' = fs
  BY <1>3 DEF Held
<1>4. ASSUME u \in todo, NEW v, fs' = [fs EXCEPT ![Dst(u)] = v],
             fs[Dst(u)] = v \/ fs[Dst(u)] \in {None, Torn}
      PROVE  Held(t)'
  <2>1. fs'[p] = t
    BY <1>1, <1>2, <1>4
  <2> QED  BY <2>1 DEF Held
<1>5. ASSUME u \in todo, Src(u)[1] # Side, fs' = [fs EXCEPT ![Src(u)] = None],
             fs[Dst(u)] = fs[Src(u)]
      PROVE  Held(t)'
  <2>1. Src(u) \in Paths /\ Dst(u) \in Paths /\ Src(u) # Dst(u)
    BY <1>5, TaskFacts
  <2>2. fs'[p] = t \/ fs'[Dst(u)] = t
    BY <1>1, <1>2, <1>5, <2>1
  <2> QED  BY <2>1, <2>2 DEF Held
<1> QED  BY <1>3, <1>4, <1>5, MoveFiles

\* The content of a track stays whole somewhere until the user deletes it,
\* whatever fails or is killed between a link or a copy and the unlink
\* (move_one, copy_and_unlink of rotate.c).
THEOREM NoContentLostHolds == Spec => NoContentLost
<1>1. IInv /\ [Next]_vars => [\A t \in Tracks : Held(t) /\ ~Held(t)' => moves' # moves]_vars
  <2> SUFFICES ASSUME IInv, Next, NEW t \in Tracks, Held(t)
               PROVE  Held(t)' \/ moves' # moves
    OBVIOUS
  <2>1. CASE User
    BY <2>1, HistUser
  <2>2. CASE \E u \in Tracks : Move(u) \/ MoveFails(u)
    BY <2>2, MoveKeeps
  <2>3. CASE fs' = fs
    BY <2>3 DEF Held
  <2> QED  BY <2>1, <2>2, <2>3, OriginalsStay DEF Next, Cycle, Fails, RotateStep
<1> QED  BY <1>1, LibraryInvariant, PTL DEF Spec, NoContentLost
-----------------------------------------------------------------------------
(* The rows and the files.  While nothing has happened that may cost a row, *)
(* no other track lies where a row points to: so no row is taken for that   *)
(* of a file that has gone, and the sweep drops none whose file is there.   *)

Other(p) == <<IF p[1] = "archive" THEN "resident" ELSE "archive", p[2]>>

Follow(d) == \A t \in Known(d) : fs[d.path[t]] \in {t, None}

\* What the walk has seen is there, at its row's path.
WalkOK ==
  pc = "walking" => /\ Follow(work) /\ seen \subseteq Known(work)
                    /\ \A t \in seen : fs[work.path[t]] = t

\* A row is where the file is, or where a move has taken it from.
GoodRow(t) == \/ fs[db.path[t]] = t
              \/ fs[db.path[t]] = None /\ fs[Other(db.path[t])] = t

MovedOK ==
  /\ pc \notin {"scan", "walking"} => \A t \in Known(db) : GoodRow(t)
  /\ step = "path" => Src(cur)[1] # Side /\ fs[Dst(cur)] = cur

\* The rows of a library in which nothing has cost a row.
RInv == ~excused => Follow(db) /\ WalkOK /\ MovedOK

LEMMA GoodFollow ==
  ASSUME RowsOK(db), \A t \in Known(db) : GoodRow(t)
  PROVE  Follow(db)
BY DEF GoodRow, Follow

\* A library that was scanned and rotated before has its files where its rows are.
LEMMA StartRows ==
  ASSUME Start, NEW t \in Known(db)
  PROVE  fs[db.path[t]] = t
<1>1. PICK home \in [Tracks -> Rels \cup {None}], up \in SUBSET Tracks : Settled(home, up)
  BY DEF Start, Init
<1> DEFINE Where(u) == IF home[u] = None THEN None
                       ELSE IF u \in up /\ mode = "move"
                            THEN <<"resident", home[u]>> ELSE <<"archive", home[u]>>
<1>2. /\ fs = [p \in Paths |-> IF {v \in Tracks : Where(v) = p} = {} THEN None
                               ELSE CHOOSE v \in {u \in Tracks : Where(u) = p} : TRUE]
      /\ \A u, v \in Tracks : home[u] # None /\ home[v] # None /\ u # v => home[u] # home[v]
      /\ db.path = [u \in Tracks |-> Where(u)]
  BY <1>1 DEF Settled
<1>3. RowsOK(db)
  BY InvInit DEF IInv
<1>4. t \in Tracks /\ db.path[t] = Where(t) /\ Where(t) \in Paths /\ Where(t) # None
  BY <1>2, <1>3, PathType DEF Known
<1>5. home[t] # None
  BY <1>4
<1>6. \A u \in Tracks : Where(u) = Where(t) => u = t
  BY <1>2, <1>4, <1>5
<1>7. {u \in Tracks : Where(u) = Where(t)} = {t}
  BY <1>4, <1>6
<1>8. (CHOOSE u \in {v \in Tracks : Where(v) = Where(t)} : TRUE) = t
  BY <1>7
<1> QED  BY <1>2, <1>4, <1>7, <1>8

LEMMA RowsInit == Start => RInv
<1> SUFFICES ASSUME Start PROVE RInv
  OBVIOUS
<1>1. pc = "scan" /\ step = "none"
  BY DEF Start, Init
<1> QED  BY <1>1, StartRows DEF RInv, Follow, WalkOK, MovedOK

LEMMA RowsUser == ASSUME IInv, RInv, User PROVE RInv'
<1> SUFFICES ASSUME ~excused' PROVE (Follow(db) /\ WalkOK /\ MovedOK)'
  BY DEF RInv
<1>1. UNCHANGED <<db, conf, pc, cur, step>> /\ ~excused
  BY HistUser DEF User, UserMoves, UserDeletes, UserAdds, rot
<1>2. Follow(db) /\ RowsOK(db) /\ fs \in [Paths -> Tracks \cup {None, Torn}]
  BY <1>1 DEF RInv, IInv, FilesOK
<1>3. pc = "scan"
  BY DEF User, UserMoves, UserDeletes, UserAdds, Risky
<1>4. ASSUME NEW t \in Tracks, NEW p \in Paths, NEW q \in Paths, ~Risky(t, p),
             \/ fs' = [fs EXCEPT ![q] = None, ![p] = t]
             \/ fs' = [fs EXCEPT ![q] = None]
             \/ fs' = [fs EXCEPT ![p] = t]
      PROVE  Follow(db)'
  <2> SUFFICES ASSUME NEW u \in Known(db) PROVE fs'[db.path[u]] \in {u, None}
    BY <1>1 DEF Follow, Known
  <2>1. u \in Tracks /\ db.path[u] \in Paths /\ db.path[u] # None /\ fs[db.path[u]] \in {u, None}
    BY <1>2, PathType DEF Follow, Known
  <2>2. db.path[u] = p => u = t
    BY <1>4, <2>1 DEF Risky
  <2> QED  BY <1>2, <1>4, <2>1, <2>2
<1>5. Follow(db)'
  <2>1. \A r \in Rels : <<"archive", r>> \in Paths
    BY DEF Paths
  <2>2. ASSUME NEW t \in Tracks, NEW r \in Rels, NEW s \in Rels, UserMoves(t, r, s)
        PROVE  Follow(db)'
    BY <1>4, <2>1, <2>2 DEF UserMoves
  <2>3. ASSUME NEW t \in Tracks, NEW r \in Rels, UserAdds(t, r)
        PROVE  Follow(db)'
    BY <1>4, <2>1, <2>3 DEF UserAdds
  <2>4. ASSUME NEW t \in Tracks, NEW r \in Rels, UserDeletes(t, r)
        PROVE  Follow(db)'
    <3>1. fs' = [fs EXCEPT ![<<"archive", r>>] = None]
      BY <2>4 DEF UserDeletes
    <3> QED  BY <1>1, <1>2, <2>1, <3>1, PathType DEF Follow, Known
  <2> QED  BY <2>2, <2>3, <2>4 DEF User
<1>6. step = "none"
  BY <1>3 DEF IInv, ControlOK, Rotating
<1> QED  BY <1>1, <1>3, <1>5, <1>6 DEF WalkOK, MovedOK

\* A new content does not lie where a row points to.
LEMMA NewTakesNoRow ==
  ASSUME Follow(work), NEW p \in Paths, fs[p] # None, fs[p] \notin Known(work)
  PROVE  At(work, p) = None
<1> SUFFICES ASSUME At(work, p) # None PROVE FALSE
  OBVIOUS
<1>1. At(work, p) \in Tracks /\ work.path[At(work, p)] = p
  BY AtFacts
<1>2. At(work, p) \in Known(work)
  BY <1>1, NoneAssumption DEF Known
<1> QED  BY <1>1, <1>2 DEF Follow

\* A file found where its row is, or elsewhere: the row is there afterwards.
LEMMA RowsVisit ==
  ASSUME IInv, RInv, ~excused, NEW p \in Paths, VisitFile(p) \/ HashFails(p) \/ Unreadable(p)
  PROVE  Follow(db)' /\ WalkOK' /\ pc' \in {"scan", "walking"}
<1>1. UNCHANGED <<fs, db>> /\ pc = "walking"
  BY DEF VisitFile, VisitSkipped, VisitNothing, VisitKnown, VisitBlacklisted, VisitMoved,
     VisitConflict, Conflict, VisitNew, HashFails, Unreadable, NotRead, files, Visit, Passes
<1>2. /\ RowsOK(work) /\ Follow(db) /\ Follow(work) /\ seen \subseteq Known(work)
      /\ \A t \in seen : fs[work.path[t]] = t
  BY <1>1 DEF RInv, WalkOK, IInv
<1>3. Follow(db)'
  BY <1>1, <1>2 DEF Follow, Known
<1>4. CASE VisitConflict(p)
  BY <1>1, <1>3, <1>4 DEF VisitConflict, EndCycle, WalkOK
<1>5. ASSUME Follow(work'), seen' \subseteq Known(work'), pc' = pc, \A t \in seen' : fs[work'.path[t]] = t
      PROVE  Follow(db)' /\ WalkOK' /\ pc' \in {"scan", "walking"}
  <2>1. Follow(work)' /\ Known(work)' = Known(work')
    BY <1>1, <1>5 DEF Follow, Known
  <2> QED  BY <1>1, <1>3, <1>5, <2>1 DEF WalkOK
<1>6. CASE VisitSkipped(p) \/ VisitNothing(p) \/ VisitBlacklisted(p) \/ HashFails(p) \/ Unreadable(p)
  <2>1. UNCHANGED <<pc, work, seen>>
    BY <1>6 DEF VisitSkipped, VisitNothing, VisitBlacklisted, HashFails, Unreadable, NotRead
  <2> QED  BY <1>2, <1>5, <2>1
<1>7. CASE VisitKnown(p)
  <2>1. UNCHANGED <<pc, work>> /\ seen' = seen \cup {fs[p]} /\ fs[p] \in Tracks /\ work.path[fs[p]] = p
    BY <1>7, AtFacts DEF VisitKnown
  <2>2. fs[p] \in Known(work)
    BY <2>1, NoneAssumption DEF Known
  <2> QED  BY <1>2, <1>5, <2>1, <2>2
<1>8. CASE VisitMoved(p)
  <2>1. /\ pc' = pc /\ seen' = seen \cup {fs[p]}
        /\ fs[p] \in Tracks \ black /\ fs[p] \in Known(work)
        /\ work' = [work EXCEPT !.path[fs[p]] = p]
    BY <1>8 DEF VisitMoved, Known
  <2>2. /\ Known(work') = Known(work) \cup {fs[p]} /\ work'.path[fs[p]] = p
        /\ \A u \in Tracks \ {fs[p]} : work'.path[u] = work.path[u]
    BY <1>2, <2>1, MovedRow
  <2>3. Follow(work') /\ \A t \in seen' : fs[work'.path[t]] = t
    BY <1>2, <2>1, <2>2 DEF Follow, Known
  <2> QED  BY <1>2, <1>5, <2>1, <2>2, <2>3
<1>9. CASE VisitNew(p)
  <2>1. Old(p) = {}
    BY <1>2, <1>9, NewTakesNoRow DEF VisitNew, Old
  <2>4. pc' = pc /\ seen' = (seen \ Old(p)) \cup ({fs[p]} \ {Torn})
    BY <1>9 DEF VisitNew, Old
  <2>2. /\ seen' = seen \cup ({fs[p]} \ {Torn})
        /\ Known(work') = Known(work) \cup ({fs[p]} \ {Torn})
        /\ fs[p] # Torn => work'.path[fs[p]] = p
        /\ \A u \in Known(work) : work'.path[u] = work.path[u]
    <3>1. /\ Known(work') = (Known(work) \ Old(p)) \cup ({fs[p]} \ {Torn})
          /\ fs[p] # Torn => work'.path[fs[p]] = p
          /\ \A u \in Known(work) \ Old(p) : work'.path[u] = work.path[u]
      BY <1>9, NewRow
    <3> QED  BY <2>1, <2>4, <3>1
  <2>3. Follow(work') /\ \A t \in seen' : fs[work'.path[t]] = t
    BY <1>2, <2>2 DEF Follow
  <2>5. seen' \subseteq Known(work')
    BY <1>2, <2>2
  <2> QED  BY <1>5, <2>3, <2>4, <2>5
<1> QED  BY <1>4, <1>6, <1>7, <1>8, <1>9 DEF VisitFile

\* The sweep leaves the rows of the files that were seen.
LEMMA RowsSweep ==
  ASSUME IInv, RInv, ~excused, Sweep
  PROVE  \A t \in Known(db') : fs[db'.path[t]] = t
<1>1. pc = "walking" /\ RowsOK(work)
  BY DEF Sweep, IInv
<1>2. seen \subseteq Known(work) /\ \A t \in seen : fs[work.path[t]] = t
  BY <1>1 DEF RInv, WalkOK
<1> QED  BY <1>1, <1>2, SweptRows

LEMMA RowsScan == ASSUME IInv, RInv, ScanStep \/ ScanFails PROVE RInv'
<1> SUFFICES ASSUME ~excused' PROVE (Follow(db) /\ WalkOK /\ MovedOK)'
  BY DEF RInv
<1>1. ~excused /\ fs' = fs
  BY HistScan, OriginalsStay DEF Counted
<1>2. Follow(db) /\ RowsOK(db)
  BY <1>1 DEF RInv, IInv
<1>3. pc \in {"scan", "walking"} /\ UNCHANGED <<cur, step>>
  BY DEF ScanStep, ScanFails, BeginScan, VisitFile, VisitSkipped, VisitNothing, VisitKnown,
     VisitBlacklisted, VisitMoved, VisitConflict, Conflict, VisitNew, Sweep, HashFails, Unreadable,
     NotRead, SweepRolledBack, Visit, Passes, rot
<1>4. step' = "none"
  BY <1>3 DEF IInv, ControlOK, Rotating
<1>5. CASE BeginScan
  <2>1. pc = "scan" /\ pc' = "walking" /\ UNCHANGED <<db, seen>> /\ work' = db
    BY <1>5 DEF BeginScan
  <2>2. seen = {}
    BY <2>1 DEF IInv, ScanOK
  <2> QED  BY <1>1, <1>2, <1>4, <2>1, <2>2 DEF Follow, Known, WalkOK, MovedOK
<1>6. CASE \E p \in Paths : VisitFile(p) \/ HashFails(p) \/ Unreadable(p)
  <2>1. Follow(db)' /\ WalkOK' /\ pc' \in {"scan", "walking"}
    BY <1>1, <1>6, RowsVisit
  <2> QED  BY <1>4, <2>1 DEF MovedOK
<1>8. CASE SweepRolledBack
  BY <1>1, <1>2, <1>4, <1>8
     DEF SweepRolledBack, EndCycle, Follow, Known, WalkOK, MovedOK
<1>9. CASE Sweep
  <2>1. \A t \in Known(db') : fs[db'.path[t]] = t
    BY <1>1, <1>9, RowsSweep
  <2>2. pc' \in {"scan", "resolve"}
    BY <1>9 DEF Sweep
  <2>3. Known(db)' = Known(db')
    BY DEF Known
  <2> QED  BY <1>1, <1>4, <2>1, <2>2, <2>3 DEF Follow, WalkOK, MovedOK, GoodRow
<1> QED  BY <1>5, <1>6, <1>8, <1>9 DEF ScanStep, ScanFails

\* After the scan, the steps that leave the originals and the paths alone.
LEMMA RowsKept ==
  ASSUME RInv, fs' = fs, excused' = excused, db'.path = db.path, step' # "path",
         pc \notin {"scan", "walking"}, pc' # "walking"
  PROVE  RInv'
<1>1. Known(db)' = Known(db) /\ \A t \in Tracks : GoodRow(t)' <=> GoodRow(t)
  BY DEF Known, GoodRow
<1> QED  BY <1>1 DEF RInv, Follow, WalkOK, MovedOK, Known

LEMMA RowsCycle ==
  ASSUME IInv, RInv,
         \/ Resolve \/ Publish \/ Crash \/ BeginRotate \/ AddsDone \/ RemovesDone \/ TranscodeStep
         \/ \E t \in Tracks : RelocateRefused(t) \/ EncodeFails(t) \/ RowFails(t)
  PROVE  RInv' /\ (db'.pins = db.pins)
<1>1. fs' = fs /\ excused' = excused
  BY OriginalsStay, HistRotate, HistTranscode DEF RotateStep, Counted
<1>2. RowsOK(db)
  BY DEF IInv
<1>3. CASE Resolve
  <2>1. db'.path = db.path /\ db'.pins = db.pins
    BY <1>2, <1>3 DEF Resolve, RowsOK, Rows
  <2>2. pc \notin {"scan", "walking"} /\ pc' \notin {"walking", "resolve"} /\ step' = step
        /\ ~Rotating
    BY <1>3 DEF Resolve, rot, Rotating
  <2>3. step = "none"
    BY <2>2 DEF IInv, ControlOK
  <2> QED  BY <1>1, <2>1, <2>2, <2>3, RowsKept
<1>4. CASE Publish \/ BeginRotate \/ AddsDone \/ RemovesDone \/ RelocateDone
  <2>1. db' = db /\ pc \notin {"scan", "walking"} /\ pc' \notin {"walking", "resolve"}
        /\ (step' = "none" \/ (step' = step /\ (cur = None \/ ~Rotating)))
    BY <1>4 DEF Publish, BeginRotate, AddsDone, RemovesDone, RelocateDone, rot, Rotating
  <2>2. step' = "none"
    BY <2>1 DEF IInv, ControlOK
  <2> QED  BY <1>1, <2>1, <2>2, RowsKept
<1>5. CASE Crash
  <2>1. db' = db /\ pc' = "scan" /\ step' = "none"
    BY <1>5 DEF Crash, EndCycle, Stop
  <2> QED  BY <1>1, <2>1 DEF RInv, Follow, Known, WalkOK, MovedOK
<1>6. CASE \E t \in Tracks : TranscodeAny(t)
  <2>1. PICK t \in Tracks : TranscodeAny(t)
    BY <1>6
  <2>2. db'.path = db.path /\ db'.pins = db.pins
    BY <2>1, TranscodeRows DEF StateOnly
  <2>3. Rotating /\ pc' = pc /\ step' # "path"
    BY <2>1, TranscodeStepFacts DEF Finish, Stop
  <2> QED  BY <1>1, <2>2, <2>3, RowsKept DEF Rotating
<1> QED  BY <1>3, <1>4, <1>5, <1>6 DEF TranscodeStep, TranscodeAny

\* The two sides of a track that is being moved.
LEMMA Sides ==
  ASSUME IInv, NEW t \in todo, Src(t)[1] # Side
  PROVE  Other(Src(t)) = Dst(t) /\ \A p \in Paths : Other(p) = Dst(t) => p = Src(t)
<1>1. /\ Src(t) = <<Src(t)[1], Rel(t)>> /\ Dst(t) = <<Side, Rel(t)>>
      /\ Src(t)[1] \in {"archive", "resident"} /\ Side \in {"archive", "resident"}
  BY TaskFacts DEF Side
<1>2. Other(Src(t)) = Dst(t)
  BY <1>1 DEF Other
<1>3. ASSUME NEW p \in Paths, Other(p) = Dst(t) PROVE p = Src(t)
  <2>1. p[1] \in {"archive", "resident"} /\ p = <<p[1], p[2]>>
    BY DEF Paths
  <2>2. p[2] = Rel(t) /\ (p[1] = "archive" <=> Side = "resident")
    BY <1>1, <1>3, <2>1 DEF Other
  <2>3. p[1] = Src(t)[1]
    BY <1>1, <2>1, <2>2
  <2> QED  BY <1>1, <2>1, <2>2, <2>3
<1> QED  BY <1>2, <1>3

\* No row points to the side a track is being moved to: what is done there
\* leaves every row as good as it was.
LEMMA GoodDst ==
  ASSUME IInv, NEW t \in todo, Src(t)[1] # Side, \A u \in Known(db) : GoodRow(u),
         fs[Src(t)] # None, fs[Dst(t)] \in {None, Torn, fs[Src(t)]},
         NEW v, fs' = [fs EXCEPT ![Dst(t)] = v], db' = db
  PROVE  fs[Src(t)] = t /\ \A u \in Known(db) : GoodRow(u)'
<1>1. /\ t \in Known(db) /\ t \in Tracks /\ Src(t) \in Paths /\ Dst(t) \in Paths /\ Src(t) # Dst(t)
      /\ Src(t) = db.path[t] /\ RowsOK(db) /\ fs \in [Paths -> Tracks \cup {None, Torn}]
  BY TaskFacts DEF Src, IInv, FilesOK
<1>2. fs[Src(t)] = t
  BY <1>1 DEF GoodRow
<1>3. ASSUME NEW u \in Known(db)
      PROVE  GoodRow(u)'
  <2> DEFINE q == db.path[u]
  <2>1. q \in Paths /\ u \in Tracks /\ u # None /\ u # Torn
    BY <1>1, PathType, LibraryAssumption
  <2>2. q # Dst(t)
    <3>1. ASSUME q = Dst(t) PROVE FALSE
      <4>1. fs[q] = t \/ fs[q] = None \/ fs[q] = Torn
        BY <1>2, <3>1
      <4>2. fs[q] = u \/ (fs[q] = None /\ fs[Other(q)] = u)
        BY DEF GoodRow
      <4>3. Other(q) = Src(t)
        <5>1. /\ Src(t) = <<Src(t)[1], Rel(t)>> /\ Dst(t) = <<Side, Rel(t)>>
              /\ Src(t)[1] \in {"archive", "resident"} /\ Side \in {"archive", "resident"}
          BY TaskFacts DEF Side
        <5> QED  BY <3>1, <5>1 DEF Other
      <4>4. u = t
        BY <1>2, <2>1, <4>1, <4>2, <4>3
      <4> QED  BY <1>1, <3>1, <4>4
    <3> QED  BY <3>1
  <2>3. fs'[q] = fs[q]
    BY <1>1, <2>1, <2>2
  <2>4. fs[q] = None => fs'[Other(q)] = fs[Other(q)]
    <3>1. fs[q] = None => q # Src(t)
      BY <1>2, LibraryAssumption
    <3>2. fs[q] = None => Other(q) # Dst(t)
      BY <2>1, <3>1, Sides
    <3>3. Other(q) \in Paths
      BY <2>1 DEF Other, Paths
    <3> QED  BY <1>1, <3>2, <3>3
  <2> QED  BY <2>3, <2>4 DEF GoodRow
<1> QED  BY <1>2, <1>3

\* The source of a move goes away when the content is on the other side.
LEMMA GoodSrc ==
  ASSUME IInv, NEW t \in todo, Src(t)[1] # Side, \A u \in Known(db) : GoodRow(u),
         fs[Src(t)] # None, fs[Dst(t)] = fs[Src(t)],
         fs' = [fs EXCEPT ![Src(t)] = None], db' = db
  PROVE  fs'[Dst(t)] = t /\ \A u \in Known(db) : GoodRow(u)'
<1>1. /\ t \in Known(db) /\ t \in Tracks /\ Src(t) \in Paths /\ Dst(t) \in Paths /\ Src(t) # Dst(t)
      /\ Src(t) = db.path[t] /\ RowsOK(db) /\ fs \in [Paths -> Tracks \cup {None, Torn}]
  BY TaskFacts DEF Src, IInv, FilesOK
<1>2. fs[Src(t)] = t /\ fs[Dst(t)] = t /\ fs'[Dst(t)] = t /\ fs'[Src(t)] = None /\ t # None
  BY <1>1, LibraryAssumption DEF GoodRow
<1>3. GoodRow(t)'
  BY <1>1, <1>2, Sides DEF GoodRow
<1>4. ASSUME NEW u \in Known(db), u # t
      PROVE  GoodRow(u)'
  <2> DEFINE q == db.path[u]
  <2>1. q \in Paths /\ Other(q) \in Paths
    BY <1>1, PathType DEF Other, Paths
  <2>2. fs[q] = u \/ (fs[q] = None /\ fs[Other(q)] = u)
    BY DEF GoodRow
  <2>3. fs'[q] = fs[q] /\ (fs[q] = None => fs'[Other(q)] = fs[Other(q)])
    <3>0. u \in Tracks /\ u # None /\ u # t
      BY <1>1, <1>4, LibraryAssumption DEF Known
    <3>3. q # Src(t)
      BY <1>2, <2>2, <3>0
    <3>4. fs[q] = None => Other(q) # Src(t)
      BY <1>2, <2>2, <3>0
    <3>1. q # Src(t) /\ (fs[q] = None => Other(q) # Src(t))
      BY <3>3, <3>4
    <3>2. \A p \in Paths : p # Src(t) => fs'[p] = fs[p]
      BY <1>1
    <3> QED  BY <2>1, <3>1, <3>2
  <2> QED  BY <2>2, <2>3 DEF GoodRow
<1> QED  BY <1>2, <1>3, <1>4

LEMMA RowsMove ==
  ASSUME IInv, RInv, NEW t \in Tracks, Move(t) \/ MoveFails(t)
  PROVE  RInv' /\ db'.pins = db.pins
<1>1. RowsOK(db) /\ FilesOK /\ ControlOK /\ t # None
  BY LibraryAssumption DEF IInv
<1>2. t \in todo /\ pc \in {"adding", "removing"} /\ pc' = pc
  BY <1>1
     DEF Move, MoveRecovers, MoveRefused, MoveLinks, MoveCopies, CopyDone, UnlinkSource, UpdatePath,
         RecordLocation, MoveFails, Idle, InMove, ControlOK
<1>3. excused' = excused /\ Side' = Side
  BY <1>2, HistRotate DEF RotateStep, Side, Counted
<1>4. /\ t \in Known(db) /\ Src(t) \in Paths /\ Dst(t) \in Paths /\ Src(t) = db.path[t]
      /\ Src(t)[1] # Side => Src(t) # Dst(t)
  BY <1>2, TaskFacts DEF Src
<1>5. db'.pins = db.pins /\ (db'.path = db.path \/ UpdatePath(t))
  <2>1. CASE MoveRecovers(t) \/ RecordLocation(t)
    <3>1. db' = [db EXCEPT !.loc[t] = Side]
      BY <2>1 DEF MoveRecovers, RecordLocation
    <3> QED  BY <1>1, <3>1 DEF RowsOK, Rows
  <2>2. CASE UpdatePath(t)
    <3>1. db' = db \/ db' = [db EXCEPT !.path[t] = Dst(t)]
      BY <2>2 DEF UpdatePath
    <3> QED  BY <1>1, <2>2, <3>1 DEF RowsOK, Rows
  <2>3. CASE UNCHANGED db
    BY <2>3
  <2> QED  BY <2>1, <2>2, <2>3
           DEF Move, MoveRefused, MoveLinks, MoveCopies, CopyDone, UnlinkSource, MoveFails
<1> SUFFICES ASSUME ~excused PROVE (Follow(db) /\ WalkOK /\ MovedOK)'
  BY <1>3, <1>5 DEF RInv
<1>6. /\ \A u \in Known(db) : GoodRow(u)
      /\ step = "path" => Src(cur)[1] # Side /\ fs[Dst(cur)] = cur
  BY <1>2 DEF RInv, MovedOK
<1>7. ASSUME \A u \in Known(db') : GoodRow(u)',
             step' = "path" => cur' = t /\ db' = db /\ Src(t)[1] # Side /\ fs'[Dst(t)] = t
      PROVE  (Follow(db) /\ WalkOK /\ MovedOK)'
  <2>1. Known(db)' = Known(db')
    BY DEF Known
  <2>2. step' = "path" => Src(cur)' = Src(t) /\ Dst(cur)' = Dst(t)
    BY <1>3, <1>7 DEF Src, Dst
  <2> QED  BY <1>2, <1>3, <1>7, <2>1, <2>2 DEF Follow, WalkOK, MovedOK, GoodRow
<1>8. ASSUME fs' = fs, db'.path = db.path,
             step' = "path" => cur' = t /\ db' = db /\ Src(t)[1] # Side /\ fs[Dst(t)] = t
      PROVE  (Follow(db) /\ WalkOK /\ MovedOK)'
  <2>1. Known(db') = Known(db) /\ \A u \in Known(db) : GoodRow(u)'
    BY <1>6, <1>8 DEF Known, GoodRow
  <2> QED  BY <1>7, <1>8, <2>1
<1>9. CASE MoveRecovers(t) \/ RecordLocation(t) \/ MoveRefused(t)
  <2>1. fs' = fs /\ step' = "none" /\ ~UpdatePath(t)
    BY <1>1, <1>9 DEF MoveRecovers, RecordLocation, MoveRefused, Finish, Stop, files, UpdatePath
  <2> QED  BY <1>5, <1>8, <2>1
<1>10. CASE MoveLinks(t) \/ MoveCopies(t) \/ CopyDone(t)
  <2>1. Src(t)[1] # Side /\ fs[Src(t)] # None /\ db' = db /\ step' # "path"
        /\ fs[Dst(t)] \in {None, Torn, fs[Src(t)]}
    <3>1. CASE MoveLinks(t)
      <4>1. Src(t)[1] # Side /\ fs[Src(t)] # None /\ db' = db /\ step' # "path"
            /\ (fs[Dst(t)] = None \/ Src(t)[2] \in linked)
        BY <3>1 DEF MoveLinks
      <4>2. /\ Src(t) = <<Src(t)[1], Rel(t)>> /\ Dst(t) = <<Side, Rel(t)>> /\ Src(t)[2] = Rel(t)
            /\ Src(t)[1] \in {"archive", "resident"} /\ Side \in {"archive", "resident"}
        BY <1>2, TaskFacts DEF Side
      <4> QED  BY <1>1, <4>1, <4>2 DEF FilesOK
    <3>2. CASE MoveCopies(t)
      BY <3>2 DEF MoveCopies
    <3>3. CASE CopyDone(t)
      BY <1>1, <3>3 DEF CopyDone, InMove, FilesOK
    <3> QED  BY <1>10, <3>1, <3>2, <3>3
  <2>2. \E v : fs' = [fs EXCEPT ![Dst(t)] = v]
    BY <1>10 DEF MoveLinks, MoveCopies, CopyDone
  <2>3. \A u \in Known(db) : GoodRow(u)'
    BY <1>2, <1>6, <2>1, <2>2, GoodDst
  <2> QED  BY <1>7, <2>1, <2>3
<1>11. CASE UnlinkSource(t)
  <2>1. /\ Src(t)[1] # Side /\ fs[Src(t)] # None /\ fs[Dst(t)] = fs[Src(t)]
        /\ fs' = [fs EXCEPT ![Src(t)] = None] /\ db' = db /\ cur' = t
    BY <1>1, <1>11 DEF UnlinkSource, InMove, FilesOK
  <2>2. fs'[Dst(t)] = t /\ \A u \in Known(db) : GoodRow(u)'
    BY <1>2, <1>6, <2>1, GoodSrc
  <2> QED  BY <1>7, <2>1, <2>2
<1>12. CASE UpdatePath(t)
  <2>1. /\ fs' = fs /\ step' = "location" /\ cur = t /\ step = "path"
        /\ db' = db \/ db' = [db EXCEPT !.path[t] = Dst(t)]
    BY <1>12 DEF UpdatePath, InMove, files
  <2>2. CASE db' = db
    BY <1>8, <2>1, <2>2
  <2>3. CASE db' = [db EXCEPT !.path[t] = Dst(t)]
    <3>1. fs'[Dst(t)] = t
      BY <1>6, <2>1
    <3> DEFINE d == [db EXCEPT !.path[t] = Dst(t)]
    <3>2. /\ Known(d) = Known(db) \cup {t} /\ d.path[t] = Dst(t)
          /\ \A u \in Tracks \ {t} : d.path[u] = db.path[u]
      <4>1. t \in Tracks \ black
        BY <1>1, <1>4 DEF RowsOK
      <4> QED  BY <1>1, <1>4, <4>1, SetPath
    <3> HIDE DEF d
    <3>3. db' = d
      BY <2>3 DEF d
    <3>4. \A u \in Known(db') : GoodRow(u)'
      BY <1>6, <2>1, <3>1, <3>2, <3>3 DEF GoodRow, Known
    <3> QED  BY <1>7, <2>1, <3>4
  <2> QED  BY <2>1, <2>2, <2>3
<1>13. CASE MoveFails(t)
  <2>1. /\ cur = t /\ db' = db /\ step \in MoveSteps
        /\ fs' = IF step = "copy" THEN [fs EXCEPT ![Dst(t)] = None] ELSE fs
        /\ step' = "path" => step = "unlink" /\ cur' = t
    BY <1>1, <1>13 DEF MoveFails, Finish, Stop, ControlOK, MoveSteps
  <2>2. CASE step = "copy"
    <3>1. Src(t)[1] # Side /\ fs[Src(t)] # None /\ fs[Dst(t)] = Torn
      BY <1>1, <2>1, <2>2 DEF FilesOK
    <3>2. \A u \in Known(db) : GoodRow(u)'
      BY <1>2, <1>6, <2>1, <2>2, <3>1, GoodDst
    <3> QED  BY <1>7, <2>1, <2>2, <3>2
  <2>3. CASE step # "copy"
    <3>1. step = "unlink" => Src(t)[1] # Side /\ fs[Dst(t)] = fs[Src(t)] /\ fs[Src(t)] # None
      BY <1>1, <2>1 DEF FilesOK
    <3>2. step = "unlink" => fs[Src(t)] = t
      BY <1>4, <1>6, <3>1 DEF GoodRow
    <3> QED  BY <1>8, <2>1, <2>3, <3>1, <3>2
  <2> QED  BY <2>2, <2>3
<1> QED  BY <1>9, <1>10, <1>11, <1>12, <1>13 DEF Move

LEMMA RowsInvariant == Spec => []RInv
<1>1. IInv /\ RInv /\ [Next]_vars => RInv'
  <2> SUFFICES ASSUME IInv, RInv, [Next]_vars PROVE RInv'
    OBVIOUS
  <2>1. CASE User
    BY <2>1, RowsUser
  <2>2. CASE ScanStep \/ ScanFails
    BY <2>2, RowsScan
  <2>3. CASE \E t \in Tracks : Move(t) \/ MoveFails(t)
    BY <2>3, RowsMove
  <2>4. CASE UNCHANGED vars
    BY <2>4 DEF vars, files, conf, scan, notes, rot, hist, RInv, Follow, Known, WalkOK,
       MovedOK, GoodRow, Held, Src, Dst, Side
  <2> QED  BY <2>1, <2>2, <2>3, <2>4, RowsCycle DEF Next, Cycle, Fails, RotateStep
<1> QED  BY <1>1, RowsInit, LibraryInvariant, PTL DEF Spec

-----------------------------------------------------------------------------
(* The walk, whatever the user does meanwhile and whatever has failed.     *)

\* A row is taken only from a track in missed ...
RowsOfMissed == \A t \in Known(work) \ missed : fs[work.path[t]] \in {t, None}

\* ... which are also the only ones that a visit has passed by ...
SeenBehind == \A p \in visited :
                ~Artifact(p) /\ fs[p] \in Tracks \ (black \cup missed) => fs[p] \in seen

\* ... and what was seen is still there, if the user has not touched it since.
SeenThere == /\ seen \subseteq Known(work)
             /\ \A t \in seen \ handled : fs[work.path[t]] = t /\ ~Artifact(work.path[t])

WInv == pc = "walking" =>
          RowsOfMissed /\ SeenBehind /\ SeenThere /\ db.pins \ missed \subseteq work.pins

LEMMA WalkUser == ASSUME IInv, WInv, User PROVE WInv'
<1> SUFFICES ASSUME pc' = "walking" PROVE WInv'
  BY DEF WInv
<1>1. /\ UNCHANGED <<db, work, seen, visited, black, lossy>> /\ pc = "walking"
  BY DEF User, UserMoves, UserDeletes, UserAdds, conf
<1>2. RowsOfMissed /\ SeenBehind /\ SeenThere /\ db.pins \ missed \subseteq work.pins
  BY <1>1 DEF WInv
<1>3. fs \in [Paths -> Tracks \cup {None, Torn}] /\ RowsOK(work) /\ None \notin Tracks
  BY LibraryAssumption DEF IInv, FilesOK
<1>4. ASSUME NEW t \in Tracks, NEW p \in Paths, handled' = handled \cup {t}, missed \subseteq missed',
             \A q \in Paths : fs'[q] # fs[q] => fs[q] \in {t, None} /\ fs'[q] \in {t, None},
             \A q \in Paths : fs'[q] = t /\ fs[q] # t =>
               /\ q \in visited => t \in missed' \cup seen
               /\ \A u \in Tracks \ {t} : work.path[u] = q => u \in missed'
      PROVE  WInv'
  <2>1. \A u \in Known(work) : u \in Tracks /\ u # None /\ work.path[u] \in Paths
    BY <1>3, PathType
  <2>2. RowsOfMissed'
    <3> SUFFICES ASSUME NEW u \in Known(work) \ missed' PROVE fs'[work.path[u]] \in {u, None}
      BY <1>1 DEF RowsOfMissed, Known
    <3>1. u \in Tracks /\ work.path[u] \in Paths /\ fs[work.path[u]] \in {u, None}
      BY <1>2, <1>4, <2>1 DEF RowsOfMissed
    <3> QED  BY <1>4, <3>1
  <2>3. SeenBehind'
    <3> SUFFICES ASSUME NEW q \in visited, ~Artifact(q), fs'[q] \in Tracks \ (black \cup missed')
                 PROVE  fs'[q] \in seen
      BY <1>1 DEF SeenBehind, Artifact
    <3>1. q \in Paths
      BY DEF IInv, ScanOK
    <3>2. CASE fs'[q] = fs[q]
      BY <1>2, <1>4, <3>2 DEF SeenBehind
    <3>3. CASE fs'[q] # fs[q]
      BY <1>3, <1>4, <3>1, <3>3
    <3> QED  BY <3>2, <3>3
  <2>4. SeenThere'
    <3> SUFFICES ASSUME NEW u \in seen \ handled'
                 PROVE  fs'[work.path[u]] = u /\ ~Artifact(work.path[u])
      BY <1>1, <1>2 DEF SeenThere, Known, Artifact
    <3>1. u \in Known(work) /\ fs[work.path[u]] = u /\ ~Artifact(work.path[u]) /\ u # t
      BY <1>2, <1>4 DEF SeenThere
    <3> QED  BY <1>4, <2>1, <3>1
  <2>5. db.pins \ missed' \subseteq work.pins
    BY <1>2, <1>4
  <2> QED  BY <1>1, <2>2, <2>3, <2>4, <2>5 DEF WInv
<1>5. \A r \in Rels : <<"archive", r>> \in Paths
  BY DEF Paths
<1>6. ASSUME NEW t \in Tracks, NEW r \in Rels, NEW s \in Rels, UserMoves(t, r, s)
      PROVE  WInv'
  <2>1. /\ fs[<<"archive", r>>] = t /\ fs[<<"archive", s>>] = None
        /\ fs' = [fs EXCEPT ![<<"archive", r>>] = None, ![<<"archive", s>>] = t]
        /\ handled' = handled \cup {t} /\ Puts(t, <<"archive", s>>)
    BY <1>1, <1>6 DEF UserMoves, Touches
  <2>2. \A q \in Paths : fs'[q] = IF q = <<"archive", s>> THEN t
                                  ELSE IF q = <<"archive", r>> THEN None ELSE fs[q]
    BY <1>3, <1>5, <2>1
  <2>3. /\ missed \subseteq missed' /\ (<<"archive", s>> \in visited => t \in missed' \cup seen)
        /\ \A u \in Tracks \ {t} : work.path[u] = <<"archive", s>> => u \in missed'
    BY <1>1, <2>1 DEF Puts
  <2>4. \A q \in Paths : fs'[q] # fs[q] => fs[q] \in {t, None} /\ fs'[q] \in {t, None}
    BY <1>5, <2>1, <2>2
  <2>5. \A q \in Paths : fs'[q] = t /\ fs[q] # t => q = <<"archive", s>>
    BY <1>3, <2>1, <2>2
  <2>6. \A q \in Paths : fs'[q] = t /\ fs[q] # t =>
          /\ q \in visited => t \in missed' \cup seen
          /\ \A u \in Tracks \ {t} : work.path[u] = q => u \in missed'
    BY <2>3, <2>5
  <2> QED  BY <1>4, <1>5, <2>1, <2>3, <2>4, <2>6
<1>7. ASSUME NEW t \in Tracks, NEW r \in Rels, UserAdds(t, r)
      PROVE  WInv'
  <2>1. /\ fs[<<"archive", r>>] = None /\ fs' = [fs EXCEPT ![<<"archive", r>>] = t]
        /\ handled' = handled \cup {t} /\ Puts(t, <<"archive", r>>)
    BY <1>1, <1>7 DEF UserAdds, Touches
  <2>2. \A q \in Paths : fs'[q] = IF q = <<"archive", r>> THEN t ELSE fs[q]
    BY <1>3, <1>5, <2>1
  <2>3. /\ missed \subseteq missed' /\ (<<"archive", r>> \in visited => t \in missed' \cup seen)
        /\ \A u \in Tracks \ {t} : work.path[u] = <<"archive", r>> => u \in missed'
    BY <1>1, <2>1 DEF Puts
  <2> QED  BY <1>4, <1>5, <2>1, <2>2, <2>3
<1>8. ASSUME NEW t \in Tracks, NEW r \in Rels, UserDeletes(t, r)
      PROVE  WInv'
  <2>1. /\ fs[<<"archive", r>>] = t /\ fs' = [fs EXCEPT ![<<"archive", r>>] = None]
        /\ handled' = handled \cup {t} /\ missed' = missed
    BY <1>1, <1>8 DEF UserDeletes, Touches
  <2>2. \A q \in Paths : fs'[q] = IF q = <<"archive", r>> THEN None ELSE fs[q]
    BY <1>3, <1>5, <2>1
  <2>3. t # None
    BY <1>3
  <2> QED  BY <1>4, <1>5, <2>1, <2>2, <2>3
<1> QED  BY <1>6, <1>7, <1>8 DEF User

\* A visit: what is seen is at its path, and a row that is dropped for another
\* content was missed before.
LEMMA WalkVisit ==
  ASSUME IInv, WInv, NEW p \in Paths, VisitFile(p) \/ HashFails(p) \/ Unreadable(p)
  PROVE  WInv' /\ db' = db
<1>2. pc = "walking" /\ db' = db
  BY DEF VisitFile, VisitSkipped, VisitNothing, VisitKnown, VisitBlacklisted, VisitMoved,
     VisitConflict, Conflict, VisitNew, HashFails, Unreadable, NotRead, Visit, Passes
<1>3. /\ RowsOfMissed /\ SeenBehind /\ SeenThere /\ db.pins \ missed \subseteq work.pins
      /\ RowsOK(work) /\ fs[p] \in Tracks \cup {None, Torn} /\ None \notin Tracks /\ Torn \notin Tracks
  BY <1>2, LibraryAssumption DEF WInv, IInv, FilesOK
<1>4. CASE VisitConflict(p)
  BY <1>2, <1>4 DEF VisitConflict, EndCycle, WInv
<1>5. ASSUME UNCHANGED <<fs, db, black, lossy, handled>>, pc' = pc, visited' = visited \cup {p},
             missed \subseteq missed',
             \A u \in Known(work') \ missed' : \/ u \in Known(work) /\ work'.path[u] = work.path[u]
                                               \/ fs[work'.path[u]] = u,
             seen \subseteq seen' \cup missed,
             ~Artifact(p) /\ fs[p] \in Tracks \ (black \cup missed') => fs[p] \in seen',
             seen' \subseteq Known(work'),
             \A u \in seen' : \/ u \in seen /\ work'.path[u] = work.path[u]
                              \/ fs[work'.path[u]] = u /\ ~Artifact(work'.path[u]),
             work.pins \ missed \subseteq work'.pins
      PROVE  WInv' /\ db' = db
  <2>1. RowsOfMissed'
    <3> SUFFICES ASSUME NEW u \in Known(work') \ missed' PROVE fs[work'.path[u]] \in {u, None}
      BY <1>5 DEF RowsOfMissed, Known
    <3> QED  BY <1>3, <1>5 DEF RowsOfMissed
  <2>2. SeenBehind'
    <3> SUFFICES ASSUME NEW q \in visited', ~Artifact(q), fs[q] \in Tracks \ (black \cup missed')
                 PROVE  fs[q] \in seen'
      BY <1>5 DEF SeenBehind, Artifact
    <3> QED  BY <1>3, <1>5 DEF SeenBehind
  <2>3. SeenThere'
    <3>1. Known(work)' = Known(work')
      BY DEF Known
    <3> SUFFICES ASSUME NEW u \in seen' \ handled
                 PROVE  fs[work'.path[u]] = u /\ ~Artifact(work'.path[u])
      BY <1>5, <3>1 DEF SeenThere, Artifact
    <3> QED  BY <1>3, <1>5 DEF SeenThere
  <2>4. db.pins \ missed' \subseteq work'.pins
    BY <1>3, <1>5
  <2> QED  BY <1>5, <2>1, <2>2, <2>3, <2>4 DEF WInv
<1>6. CASE VisitSkipped(p) \/ VisitNothing(p) \/ VisitBlacklisted(p) \/ HashFails(p) \/ Unreadable(p)
  <2>1. UNCHANGED <<fs, db, black, lossy, handled, work, seen, pc>> /\ visited' = visited \cup {p}
        /\ missed \subseteq missed'
    BY <1>6 DEF VisitSkipped, VisitNothing, VisitBlacklisted, HashFails, Unreadable, NotRead, Visit,
       Passes, files, conf, notes
  <2>2. Artifact(p) \/ fs[p] \notin Tracks \ (black \cup missed')
    BY <1>3, <1>6 DEF VisitSkipped, VisitNothing, VisitBlacklisted, HashFails, Unreadable, NotRead
  <2> QED  BY <1>3, <1>5, <2>1, <2>2 DEF SeenThere
<1>7. CASE VisitKnown(p)
  <2>1. /\ UNCHANGED <<fs, db, black, lossy, notes, work, pc>> /\ visited' = visited \cup {p}
        /\ seen' = seen \cup {fs[p]} /\ fs[p] \in Tracks /\ work.path[fs[p]] = p /\ ~Artifact(p)
    BY <1>7, AtFacts DEF VisitKnown, Visit, Passes, files, conf
  <2>2. fs[p] \in Known(work)
    BY <2>1, NoneAssumption DEF Known
  <2> QED  BY <1>3, <1>5, <2>1, <2>2 DEF SeenThere, notes
<1>8. CASE VisitMoved(p)
  <2>1. /\ UNCHANGED <<fs, db, black, lossy, notes, pc>> /\ visited' = visited \cup {p}
        /\ seen' = seen \cup {fs[p]} /\ fs[p] \in Known(work) \ black /\ ~Artifact(p)
        /\ work' = [work EXCEPT !.path[fs[p]] = p]
    BY <1>8 DEF VisitMoved, Visit, Passes, files, conf
  <2>2. /\ Known(work') = Known(work) \cup {fs[p]} /\ work'.path[fs[p]] = p
        /\ \A u \in Tracks \ {fs[p]} : work'.path[u] = work.path[u]
        /\ work'.pins = work.pins
    <3>1. fs[p] \in Tracks \ black
      BY <2>1 DEF Known
    <3> QED  BY <1>3, <2>1, <3>1, MovedRow
  <2>3. \A u \in Known(work') : \/ u \in Known(work) /\ work'.path[u] = work.path[u]
                                \/ u = fs[p]
    BY <2>2 DEF Known
  <2>4. \A u \in seen' : \/ u \in seen /\ work'.path[u] = work.path[u]
                         \/ u = fs[p]
    BY <1>3, <2>1, <2>2 DEF SeenThere, Known
  <2> QED  BY <1>3, <1>5, <2>1, <2>2, <2>3, <2>4 DEF SeenThere, notes
<1>9. CASE VisitNew(p)
  <2>1. /\ UNCHANGED <<fs, db, black, lossy, notes, pc>> /\ visited' = visited \cup {p}
        /\ seen' = (seen \ Old(p)) \cup ({fs[p]} \ {Torn}) /\ ~Artifact(p)
    BY <1>9 DEF VisitNew, Visit, Passes, conf, Old
  <2>2. /\ fs[p] # None
        /\ fs[p] # Torn => fs[p] \in Tracks \ black
        /\ fs[p] \notin Known(work)
        /\ Known(work') = (Known(work) \ Old(p)) \cup ({fs[p]} \ {Torn})
        /\ fs[p] # Torn => work'.path[fs[p]] = p
        /\ \A u \in Known(work) \ Old(p) : work'.path[u] = work.path[u]
        /\ work'.pins = work.pins \ Old(p)
    BY <1>9, NewRow
  <2>3. Old(p) \subseteq missed
    <3> SUFFICES ASSUME At(work, p) # None PROVE At(work, p) \in missed
      BY DEF Old
    <3>1. At(work, p) \in Tracks /\ work.path[At(work, p)] = p
      BY AtFacts
    <3>2. At(work, p) \in Known(work)
      BY <3>1, NoneAssumption DEF Known
    <3>3. fs[p] # None /\ fs[p] \notin Known(work)
      BY <1>9, NewRow
    <3>4. fs[work.path[At(work, p)]] \notin {At(work, p), None}
      BY <3>1, <3>2, <3>3
    <3> QED  BY <1>3, <3>2, <3>4 DEF RowsOfMissed
  <2>4. /\ seen' \subseteq Known(work') /\ seen \subseteq seen' \cup missed
        /\ work.pins \ missed \subseteq work'.pins
    BY <1>3, <2>1, <2>2, <2>3 DEF SeenThere
  <2>5. \A u \in Known(work') : \/ u \in Known(work) /\ work'.path[u] = work.path[u]
                                \/ u = fs[p] /\ fs[p] # Torn
    BY <2>2
  <2>6. \A u \in seen' : \/ u \in seen /\ work'.path[u] = work.path[u]
                         \/ u = fs[p] /\ fs[p] # Torn
    BY <1>3, <2>1, <2>2 DEF SeenThere
  <2>7. fs[p] \in Tracks => fs[p] \in seen'
    BY <1>3, <2>1
  <2> QED  BY <1>5, <2>1, <2>2, <2>4, <2>5, <2>6, <2>7 DEF notes
<1> QED  BY <1>4, <1>6, <1>7, <1>8, <1>9 DEF VisitFile

\* The walk begins with the committed rows.
LEMMA WalkBegins == ASSUME IInv, BeginScan PROVE WInv'
<1>1. /\ work' = db /\ UNCHANGED <<fs, db, seen, visited, handled>> /\ pc = "scan"
      /\ missed' = {t \in Known(db) : fs[db.path[t]] \notin {t, None}}
  BY DEF BeginScan, files
<1>2. seen = {} /\ visited = {}
  BY <1>1 DEF IInv, ScanOK
<1>3. Known(work)' = Known(db)
  BY <1>1 DEF Known
<1>4. RowsOfMissed'
  BY <1>1, <1>3 DEF RowsOfMissed
<1> QED  BY <1>1, <1>2, <1>3, <1>4 DEF WInv, SeenBehind, SeenThere

\* The other steps are not those of a walk, and leave the pins alone.
LEMMA WalkOther ==
  ASSUME IInv,
         \/ SweepRolledBack \/ Resolve \/ RotateStep \/ TranscodeStep \/ Publish \/ Crash
         \/ \E t \in Tracks : RelocateRefused(t) \/ EncodeFails(t) \/ MoveFails(t) \/ RowFails(t)
  PROVE  pc' # "walking" /\ db'.pins = db.pins
<1>1. RowsOK(db)
  BY DEF IInv
<1>2. CASE SweepRolledBack \/ Crash \/ Publish
  BY <1>2 DEF SweepRolledBack, Crash, EndCycle, Publish
<1>3. CASE Resolve
  BY <1>1, <1>3 DEF Resolve, RowsOK, Rows
<1>4. CASE BeginRotate \/ AddsDone \/ RemovesDone \/ RelocateDone
  BY <1>4 DEF BeginRotate, AddsDone, RemovesDone, RelocateDone
<1>5. CASE \E t \in Tracks : TranscodeAny(t)
  BY <1>5, TranscodeStepFacts, TranscodeRows DEF StateOnly, Rotating
<1>6. ASSUME NEW t \in Tracks, Move(t) \/ MoveFails(t)
      PROVE  pc' # "walking" /\ db'.pins = db.pins
  <2>1. pc \in {"adding", "removing"} /\ pc' = pc
    BY <1>6, LibraryAssumption
       DEF Move, MoveRecovers, MoveRefused, MoveLinks, MoveCopies, CopyDone, UnlinkSource, UpdatePath,
           RecordLocation, MoveFails, Idle, InMove, IInv, ControlOK, Rotating, MoveSteps
  <2>2. \/ db' = db \/ db' = [db EXCEPT !.loc[t] = Side] \/ db' = [db EXCEPT !.path[t] = Dst(t)]
    BY <1>6 DEF Move, MoveRecovers, MoveRefused, MoveLinks, MoveCopies, CopyDone, UnlinkSource,
       UpdatePath, RecordLocation, MoveFails
  <2>3. db'.pins = db.pins
    BY <1>1, <2>2 DEF RowsOK, Rows
  <2> QED  BY <2>1, <2>3
<1> QED  BY <1>2, <1>3, <1>4, <1>5, <1>6 DEF RotateStep, TranscodeStep, TranscodeAny

LEMMA WalkInvariant == Spec => []WInv
<1>1. Start => WInv
  BY DEF Start, Init, WInv
<1>2. IInv /\ WInv /\ [Next]_vars => WInv'
  <2> SUFFICES ASSUME IInv, WInv, [Next]_vars PROVE WInv'
    OBVIOUS
  <2>1. CASE User
    BY <2>1, WalkUser
  <2>2. CASE BeginScan
    BY <2>2, WalkBegins
  <2>3. CASE \E p \in Paths : VisitFile(p) \/ HashFails(p) \/ Unreadable(p)
    BY <2>3, WalkVisit
  <2>4. CASE Sweep
    BY <2>4 DEF Sweep, WInv
  <2>5. CASE \/ SweepRolledBack \/ Resolve \/ RotateStep \/ TranscodeStep \/ Publish \/ Crash
             \/ \E t \in Tracks : RelocateRefused(t) \/ EncodeFails(t) \/ MoveFails(t) \/ RowFails(t)
    BY <2>5, WalkOther DEF WInv
  <2>6. CASE UNCHANGED vars
    BY <2>6 DEF vars, files, conf, scan, notes, WInv, RowsOfMissed, SeenBehind, SeenThere, Known,
       Artifact
  <2> QED  BY <2>1, <2>2, <2>3, <2>4, <2>5, <2>6 DEF Next, Cycle, Fails, ScanStep, ScanFails
<1> QED  BY <1>1, <1>2, LibraryInvariant, PTL DEF Spec

\* What the sweep finds: everything that could be seen was, but for missed.
LEMMA SweepSees ==
  ASSUME IInv, WInv, Sweep, NEW t \in Tracks \ (black \cup missed), Visible(t)
  PROVE  t \in seen
<1>1. PICK p \in Paths : fs[p] = t /\ ~Artifact(p)
  BY DEF Visible
<1>2. visited = Paths /\ SeenBehind
  BY DEF Sweep, WInv
<1> QED  BY <1>1, <1>2 DEF SeenBehind

\* The rows that a scan commits are the files it could see, for any number of
\* tracks, whatever a crashed rotation left behind and whatever the user does
\* during the walk; but for the tracks in missed, which a walk may pass by, and
\* those the user touched under it (on_file, the sweep of scan.c).
THEOREM RowsAreFilesHolds == Spec => RowsAreFiles
<1>1. IInv /\ WInv /\ [Next]_vars =>
        [pc = "walking" /\ pc' = "resolve" =>
           \A t \in Tracks \ (black \cup missed \cup handled) :
             /\ t \in Known(db') <=> Visible(t)
             /\ t \in Known(db') => fs[db'.path[t]] = t]_vars
  <2> SUFFICES ASSUME IInv, WInv, Next, pc = "walking", pc' = "resolve",
                      NEW t \in Tracks \ (black \cup missed \cup handled)
               PROVE  /\ t \in Known(db') <=> Visible(t)
                      /\ t \in Known(db') => fs[db'.path[t]] = t
    OBVIOUS
  <2>1. Sweep
    <3>1. ~User /\ ~BeginScan /\ ~SweepRolledBack /\ ~Crash /\ ~Resolve /\ ~Publish /\ ~RelocateDone
          /\ ~BeginRotate /\ ~AddsDone /\ ~RemovesDone
      BY DEF User, UserMoves, UserDeletes, UserAdds, BeginScan, SweepRolledBack, EndCycle, Crash,
         Resolve, Publish, RelocateDone, BeginRotate, AddsDone, RemovesDone
    <3>2. \A p \in Paths : ~(VisitFile(p) \/ HashFails(p) \/ Unreadable(p))
      BY DEF VisitFile, VisitSkipped, VisitNothing, VisitKnown, VisitBlacklisted, VisitMoved,
         VisitConflict, EndCycle, VisitNew, HashFails, Unreadable, NotRead
    <3>3. todo = {} /\ cur = None
      BY DEF IInv, ControlOK, Rotating
    <3>4. \A u \in Tracks : ~TranscodeAny(u)
      BY <3>3, TranscodeStepFacts
    <3>5. \A u \in Tracks : ~(Move(u) \/ MoveFails(u))
      BY <3>3, LibraryAssumption DEF Move, MoveRecovers, MoveRefused, MoveLinks, MoveCopies, CopyDone,
         UnlinkSource, UpdatePath, RecordLocation, MoveFails, Idle, InMove
    <3> QED  BY <3>1, <3>2, <3>4, <3>5 DEF Next, Cycle, Fails, ScanStep, ScanFails, RotateStep,
         TranscodeStep, TranscodeAny
  <2>2. RowsOK(work) /\ SeenThere
    BY DEF IInv, WInv
  <2>3. Known(db') = seen /\ \A u \in seen : db'.path[u] = work.path[u]
    BY <2>1, <2>2, SweptRows DEF SeenThere
  <2>4. t \in seen => fs[work.path[t]] = t /\ ~Artifact(work.path[t]) /\ work.path[t] \in Paths
    BY <2>2, PathType DEF SeenThere
  <2>5. Visible(t) => t \in seen
    BY <2>1, SweepSees
  <2> QED  BY <2>3, <2>4, <2>5 DEF Visible
<1> QED  BY <1>1, LibraryInvariant, WalkInvariant, PTL DEF Spec, RowsAreFiles

\* A track whose file the scan can see keeps its pins, wherever the file is
\* moved, between two cycles or under the walk, and whatever crashed; but for
\* the tracks in missed (the sweep, the trigger of schema 0008).
THEOREM PinsFollowFilesHolds == Spec => PinsFollowFiles
<1>1. IInv /\ WInv /\ [Next]_vars =>
        [\A t \in db.pins \ db'.pins : Visible(t) => t \in missed]_vars
  <2> SUFFICES ASSUME IInv, WInv, Next, NEW t \in db.pins \ db'.pins, Visible(t), t \notin missed
               PROVE  FALSE
    OBVIOUS
  <2>1. ~User /\ ~BeginScan
    BY DEF User, UserMoves, UserDeletes, UserAdds, BeginScan
  <2>2. \A p \in Paths : ~(VisitFile(p) \/ HashFails(p) \/ Unreadable(p))
    BY WalkVisit
  <2>3. Sweep
    BY <2>1, <2>2, WalkOther DEF Next, Cycle, Fails, ScanStep, ScanFails
  <2>4. RowsOK(work) /\ SeenThere /\ db.pins \ missed \subseteq work.pins
    BY <2>3 DEF IInv, WInv, Sweep
  <2>5. t \in work.pins /\ t \in Tracks \ black
    BY <2>4 DEF RowsOK, Known
  <2>6. t \in seen
    BY <2>3, <2>5, SweepSees
  <2>7. db'.pins = work.pins \ (Known(work) \ seen)
    BY <2>3, <2>4, SweptRows DEF SeenThere
  <2> QED  BY <2>5, <2>6, <2>7
<1> QED  BY <1>1, LibraryInvariant, WalkInvariant, PTL DEF Spec, PinsFollowFiles
-----------------------------------------------------------------------------
(* A library that nothing has disturbed.  Each content has one place, each  *)
(* row is right, and what is said to be resident is served from there.      *)

Quiet == faults = 0 /\ ~excused /\ ~clash

\* One place for each content, but for the source of a link in progress.
Spare == IF step = "unlink" THEN {Src(cur)} ELSE {}
Single ==
  /\ \A p, q \in Paths \ Spare : fs[p] = fs[q] /\ fs[p] \in Tracks => p = q
  /\ \A r \in linked : step = "unlink" /\ Src(cur)[2] = r

\* From the scan to the end of the cycle the rows are right, but for the row
\* of a file that has just been moved.
Plain == pc \notin {"scan", "walking"} =>
           \A t \in Known(db) : fs[db.path[t]] = t \/ (step = "path" /\ t = cur)

\* The walk hashes every file and leaves residency_state alone.
WalkKeeps == ~bad /\ (pc = "walking" => work.x = db.x /\ work.loc = db.loc)

\* What the adds have done is there until publish, or an error is recorded.
Up(t) == IF mode = "move" THEN db.path[t][1] = "resident" ELSE db.x[t] # None
Added ==
  /\ pc = "adding" => \A t \in db.manifest \ todo : errors \/ Up(t)
  /\ pc = "removing" => todo \cap db.manifest = {} /\ \A t \in db.manifest : errors \/ Up(t)
  /\ pc = "publish" => \A t \in db.manifest : Up(t)

\* Move mode: a track that is said to be resident has its file there.
Home(d, t) == d.path[t][1] = "resident" /\ fs[d.path[t]] = t
Leaving(t) == pc = "removing" /\ step \in {"path", "location"} /\ t = cur
MoveHome ==
  /\ \A t \in Tracks : db.loc[t] = "resident" => Home(db, t) \/ Leaving(t)
  /\ pc = "walking" => \A t \in Tracks : work.loc[t] = "resident" => Home(work, t)
  /\ step = "location" => Src(cur)[1] = Side

\* Transcode mode: the originals stay in archive/ ...
Archived ==
  /\ \A r \in Rels : fs[<<"resident", r>>] = None
  /\ \A t \in Known(db) : db.path[t][1] = "archive"
  /\ \A t \in Known(work) : work.path[t][1] = "archive"

\* ... what a row names is a whole transcode of its track ...
Made(t, w) == [of |-> t, whole |-> w]
Away(t) == t = cur /\ step = "row" /\ pc \in {"relocating", "removing"}
Whole == \A t \in Tracks : db.x[t] # None =>
           /\ db.loc[t] = "resident"
           /\ xfs[db.x[t]] = IF Away(t) THEN None ELSE Made(t, TRUE)

\* ... the others are the one in the making ...
Making(r) == pc \in {"relocating", "adding"} /\ step \in {"encode", "row"} /\ r = Name(cur)
NoOrphan == \A r \in Rels : xfs[r] # None => Making(r) \/ \E t \in Tracks : db.x[t] = r
InHand ==
  /\ pc \in {"relocating", "adding"} /\ step = "row" => xfs[Name(cur)] = Made(cur, TRUE)
  /\ step = "encode" => xfs[Name(cur)] = Made(cur, FALSE)

\* ... and each has the name that its original gives it, or takes it in this
\* cycle, when no other transcode has it.  No two tracks have one name.
Apart == \A t, u \in Known(db) : Name(t) = Name(u) => t = u
Names ==
  /\ pc \in {"resolve", "rotate", "relocating"} =>
       \A t \in Tracks, u \in Known(db) : db.x[t] # None /\ t # u => db.x[t] # Name(u)
  /\ pc \notin {"resolve", "rotate"} =>
       \A t \in Tracks : db.x[t] # None => db.x[t] = Name(t) \/ (pc = "relocating" /\ t \in todo)
Phase ==
  /\ pc = "relocating" => resident = {t \in Tracks : db.x[t] # None}
  /\ pc = "adding" => \A t \in todo : db.x[t] = None

DerivedOK == Archived /\ Apart /\ Whole /\ NoOrphan /\ InHand /\ Names /\ Phase

UInv == Quiet => /\ Single /\ Plain /\ WalkKeeps /\ Added
                 /\ mode = "move" => MoveHome
                 /\ mode = "transcode" => DerivedOK

LEMMA UndisturbedInit == Start => UInv
<1> SUFFICES ASSUME Start PROVE UInv
  OBVIOUS
<1>1. /\ pc = "scan" /\ step = "none" /\ linked = {} /\ bad = FALSE /\ work = db
      /\ clash = Shared(db)
  BY DEF Start, Init
<1>2. PICK home \in [Tracks -> Rels \cup {None}], up \in SUBSET Tracks : Settled(home, up)
  BY DEF Start, Init
<1> DEFINE Where(t) == IF home[t] = None THEN None
                       ELSE IF t \in up /\ mode = "move"
                            THEN <<"resident", home[t]>> ELSE <<"archive", home[t]>>
           Of(r) == {t \in up : mode = "transcode" /\ out[home[t]] = r}
<1>3. /\ fs = [p \in Paths |-> IF {t \in Tracks : Where(t) = p} = {} THEN None
                               ELSE CHOOSE t \in {u \in Tracks : Where(u) = p} : TRUE]
      /\ xfs = [r \in Rels |-> IF Of(r) = {} THEN None
                               ELSE [of |-> CHOOSE t \in Of(r) : TRUE, whole |-> TRUE]]
      /\ \A t \in up : home[t] # None
      /\ \A t, u \in up : t # u /\ mode = "transcode" => out[home[t]] # out[home[u]]
      /\ \A t, u \in Tracks : home[t] # None /\ home[u] # None /\ t # u => home[t] # home[u]
      /\ db.path = [t \in Tracks |-> Where(t)]
      /\ db.loc = [t \in Tracks |-> IF t \in up THEN "resident" ELSE "none"]
      /\ db.x = [t \in Tracks |-> IF t \in up /\ mode = "transcode"
                              THEN out[home[t]] ELSE None]
  BY <1>2 DEF Settled
<1>4. \A p \in Paths : fs[p] \in Tracks => Where(fs[p]) = p
  <2> SUFFICES ASSUME NEW p \in Paths, fs[p] \in Tracks PROVE Where(fs[p]) = p
    OBVIOUS
  <2>1. {t \in Tracks : Where(t) = p} # {}
    BY <1>3, LibraryAssumption
  <2>2. fs[p] \in {t \in Tracks : Where(t) = p}
    BY <1>3, <2>1
  <2> QED  BY <2>2
<1>5. Single
  BY <1>1, <1>4 DEF Single, Spare
<1>8. \A t \in Tracks : db.loc[t] = "resident" \/ db.x[t] # None => t \in Known(db)
  BY InvInit DEF IInv, RowsOK
<1>6. ASSUME mode = "move" PROVE MoveHome
  <2>1. \A t \in Tracks : db.loc[t] = "resident" => t \in Known(db) /\ db.path[t][1] = "resident"
    <3> SUFFICES ASSUME NEW t \in Tracks, db.loc[t] = "resident"
                 PROVE  t \in Known(db) /\ db.path[t][1] = "resident"
      OBVIOUS
    <3>1. t \in up /\ home[t] # None /\ db.path[t] = Where(t)
      BY <1>3
    <3> QED  BY <1>6, <1>8, <3>1
  <2>2. \A t \in Tracks : db.loc[t] = "resident" => Home(db, t)
    BY <1>1, <2>1, StartRows DEF Home
  <2> QED  BY <1>1, <2>2 DEF MoveHome
<1>7. ASSUME mode = "transcode", ~clash PROVE DerivedOK
  <2>0. \A t \in up : home[t] \in Rels /\ out[home[t]] \in Rels
    BY <1>3, InvInit DEF IInv, HistOK
  <2>1. \A t \in Known(db) : db.path[t] = <<"archive", home[t]>> /\ home[t] # None
    BY <1>3, <1>7 DEF Known
  <2>2. \A r \in Rels : fs[<<"resident", r>>] = None
    <3> SUFFICES ASSUME NEW r \in Rels PROVE {t \in Tracks : Where(t) = <<"resident", r>>} = {}
      BY <1>3, LinkPaths
    <3> QED  BY <1>7, NoneAssumption, LinkPaths
  <2>3. Archived
    BY <1>1, <2>1, <2>2 DEF Archived
  <2>4. \A t \in Tracks : db.x[t] # None => t \in up /\ db.x[t] = out[home[t]] /\ out[home[t]] \in Rels
    BY <1>3, <2>0
  <2>5. Whole
    <3> SUFFICES ASSUME NEW t \in Tracks, db.x[t] # None
                 PROVE  db.loc[t] = "resident" /\ xfs[db.x[t]] = Made(t, TRUE)
      BY <1>1 DEF Whole, Away
    <3>1. t \in up /\ db.x[t] = out[home[t]] /\ out[home[t]] \in Rels
      BY <2>4
    <3>2. Of(out[home[t]]) = {t}
      BY <1>3, <1>7, <3>1
    <3>3. xfs[out[home[t]]] = [of |-> CHOOSE u \in {t} : TRUE, whole |-> TRUE]
      BY <1>3, <3>1, <3>2
    <3>4. (CHOOSE u \in {t} : TRUE) = t
      OBVIOUS
    <3> QED  BY <1>3, <3>1, <3>3, <3>4 DEF Made
  <2>6. NoOrphan
    <3> SUFFICES ASSUME NEW r \in Rels, xfs[r] # None PROVE \E t \in Tracks : db.x[t] = r
      BY DEF NoOrphan
    <3>1. Of(r) # {}
      BY <1>3
    <3> QED  BY <1>3, <1>7, <3>1
  <2>7. Names
    BY <1>1, <1>8, <2>1, <2>4 DEF Names, Name
  <2>8. Apart
    BY <1>1, <1>7 DEF Apart, Name, Shared
  <2> QED  BY <1>1, <2>3, <2>5, <2>6, <2>7, <2>8 DEF DerivedOK, InHand, Phase
<1> QED  BY <1>1, <1>5, <1>6, <1>7 DEF UInv, Plain, WalkKeeps, Added, Quiet

\* A step that keeps Quiet comes from a quiet state and is no fault.
LEMMA QuietBefore ==
  ASSUME IInv, Counted \/ User, Quiet'
  PROVE  Quiet /\ (Counted => faults' = faults)
<1>1. faults \in Nat /\ (Counted => faults' = faults \/ faults' = faults + 1)
  BY LibraryAssumption DEF IInv, HistOK, Counted
<1>2. User => faults' = faults /\ (excused => excused') /\ clash' = clash
  BY HistUser DEF User, UserMoves, UserDeletes, UserAdds
<1>3. Counted => (excused => excused') /\ (clash => clash')
  BY HistCounted
<1> QED  BY <1>1, <1>2, <1>3 DEF Quiet

\* While no cycle runs, the user moves, deletes and adds files of the archive.
LEMMA UndisturbedUser == ASSUME IInv, UInv, User PROVE UInv'
<1> SUFFICES ASSUME Quiet' PROVE UInv'
  BY DEF UInv
<1>1. /\ UNCHANGED <<linked, xfs, db, mode, out, pc, work, bad, todo, resident, cur, step, errors>>
      /\ pc = "scan"
  BY DEF User, UserMoves, UserDeletes, UserAdds, Risky, conf, rot, Quiet
<1>2. Quiet /\ FilesOK /\ step = "none"
  BY <1>1, QuietBefore DEF IInv, ControlOK, Rotating
<1>3. Single /\ WalkKeeps /\ (mode = "move" => MoveHome) /\ (mode = "transcode" => DerivedOK)
  BY <1>2 DEF UInv
<1>4. \A r \in Rels : <<"archive", r>> \in Paths /\ <<"resident", r>> \in Paths
                      /\ <<"archive", r>> # <<"resident", r>>
  BY LinkPaths
<1>5. fs \in [Paths -> Tracks \cup {None, Torn}] /\ None \notin Tracks
      /\ \A p, q \in Paths : fs[p] = fs[q] /\ fs[p] \in Tracks => p = q
  BY <1>2, <1>3, LibraryAssumption DEF Single, Spare, FilesOK
<1>6. /\ \A p, q \in Paths : fs'[p] = fs'[q] /\ fs'[p] \in Tracks => p = q
      /\ \A r \in Rels : fs'[<<"resident", r>>] = fs[<<"resident", r>>]
  <2>1. ASSUME NEW t \in Tracks, NEW r \in Rels, NEW s \in Rels, UserMoves(t, r, s)
        PROVE  <1>6!1 /\ <1>6!2
    <3>1. /\ fs[<<"archive", r>>] = t /\ fs[<<"archive", s>>] = None
          /\ fs' = [fs EXCEPT ![<<"archive", r>>] = None, ![<<"archive", s>>] = t]
      BY <2>1 DEF UserMoves
    <3>2. /\ fs'[<<"archive", s>>] = t /\ fs'[<<"archive", r>>] = None
          /\ \A p \in Paths : p # <<"archive", s>> /\ p # <<"archive", r>> => fs'[p] = fs[p]
      BY <1>4, <1>5, <3>1
    <3> QED  BY <1>4, <1>5, <3>1, <3>2
  <2>2. ASSUME NEW t \in Tracks, NEW r \in Rels, UserAdds(t, r)
        PROVE  <1>6!1 /\ <1>6!2
    <3>1. /\ \A p \in Paths : fs[p] # t
          /\ fs' = [fs EXCEPT ![<<"archive", r>>] = t]
      BY <2>2 DEF UserAdds
    <3>2. /\ fs'[<<"archive", r>>] = t
          /\ \A p \in Paths : p # <<"archive", r>> => fs'[p] = fs[p]
      BY <1>4, <1>5, <3>1
    <3> QED  BY <1>4, <1>5, <3>1, <3>2
  <2>3. ASSUME NEW t \in Tracks, NEW r \in Rels, UserDeletes(t, r)
        PROVE  <1>6!1 /\ <1>6!2
    <3>1. fs' = [fs EXCEPT ![<<"archive", r>>] = None]
      BY <2>3 DEF UserDeletes
    <3>2. /\ fs'[<<"archive", r>>] = None
          /\ \A p \in Paths : p # <<"archive", r>> => fs'[p] = fs[p]
      BY <1>4, <1>5, <3>1
    <3> QED  BY <1>4, <1>5, <3>2
  <2> QED  BY <2>1, <2>2, <2>3 DEF User
<1>7. Single'
  BY <1>1, <1>2, <1>3, <1>6 DEF Single, Spare
<1>8. ASSUME mode = "move" PROVE MoveHome'
  <2>1. ASSUME NEW t \in Tracks, db.loc[t] = "resident"
        PROVE  Home(db, t)'
    <3>1. Home(db, t) /\ t \in Known(db)
      BY <1>1, <1>3, <1>8, <2>1 DEF MoveHome, Leaving, IInv, RowsOK
    <3>2. db.path[t] = <<"resident", db.path[t][2]>> /\ db.path[t][2] \in Rels
      BY <3>1, PathType DEF Home, IInv
    <3> QED  BY <1>1, <1>6, <3>1, <3>2 DEF Home
  <2> QED  BY <1>1, <1>2, <2>1 DEF MoveHome
<1>9. ASSUME mode = "transcode" PROVE DerivedOK'
  <2>1. Archived'
    BY <1>1, <1>3, <1>6, <1>9 DEF DerivedOK, Archived, Known
  <2>2. (Apart /\ Whole /\ NoOrphan /\ InHand /\ Names /\ Phase)'
    BY <1>1, <1>3, <1>9
       DEF DerivedOK, Apart, Whole, Away, NoOrphan, Making, InHand, Names, Name, Phase, Known
  <2> QED  BY <2>1, <2>2 DEF DerivedOK
<1> QED  BY <1>1, <1>3, <1>7, <1>8, <1>9 DEF UInv, Plain, WalkKeeps, Added

\* What a visit does to the rows: at most one of them gets the path of a file.
LEMMA VisitRows ==
  ASSUME IInv, Follow(work), NEW p \in Paths, VisitFile(p)
  PROVE  /\ UNCHANGED <<fs, linked, xfs, db, mode, out, rot>> /\ bad' \in {bad, FALSE} /\ pc = "walking"
         /\ \/ pc' = "scan" /\ work' = db
            \/ /\ pc' = "walking" /\ work'.x = work.x /\ work'.loc = work.loc
               /\ \/ work'.path = work.path
                  \/ /\ fs[p] \in Tracks /\ work'.path[fs[p]] = p
                     /\ \A u \in Tracks \ {fs[p]} : work'.path[u] = work.path[u]
<1> DEFINE Row(w) == /\ w.x = work.x /\ w.loc = work.loc
                     /\ \/ w.path = work.path
                        \/ /\ fs[p] \in Tracks /\ w.path[fs[p]] = p
                           /\ \A u \in Tracks \ {fs[p]} : w.path[u] = work.path[u]
<1>1. RowsOK(work) /\ fs[p] \in Tracks \cup {None, Torn} /\ xfs \in [Rels -> Transcode \cup {None}]
  BY DEF IInv, FilesOK
<1>2. UNCHANGED <<fs, linked, db, mode, out, rot>> /\ bad' \in {bad, FALSE} /\ pc = "walking"
  BY DEF VisitFile, VisitSkipped, VisitNothing, VisitKnown, VisitBlacklisted, VisitMoved,
     VisitConflict, Conflict, VisitNew, Visit, Passes, EndCycle, files, conf
<1>3. CASE VisitSkipped(p) \/ VisitNothing(p) \/ VisitKnown(p) \/ VisitBlacklisted(p)
  BY <1>2, <1>3 DEF VisitSkipped, VisitNothing, VisitKnown, VisitBlacklisted, files
<1>4. CASE VisitConflict(p)
  BY <1>2, <1>4 DEF VisitConflict, Conflict, EndCycle, files
<1>5. CASE VisitMoved(p)
  <2>1. fs[p] \in Tracks \ black /\ work' = [work EXCEPT !.path[fs[p]] = p] /\ UNCHANGED <<xfs, pc>>
    BY <1>5 DEF VisitMoved, Known, files
  <2> DEFINE w == [work EXCEPT !.path[fs[p]] = p]
  <2>2. Row(w)
    BY <1>1, <2>1, SetPath
  <2> HIDE DEF w
  <2>3. work' = w
    BY <2>1 DEF w
  <2> QED  BY <1>2, <2>1, <2>2, <2>3
<1>6. CASE VisitNew(p)
  <2> DEFINE d == DropRows(work, {})
  <2>1. /\ fs[p] # None /\ fs[p] \notin Known(work) \cup black /\ pc' = pc
        /\ {At(work, p)} \ {None} = {}
    BY <1>6, NewTakesNoRow DEF VisitNew
  <2>2. /\ work' = IF fs[p] = Torn THEN d ELSE [d EXCEPT !.path[fs[p]] = p]
        /\ xfs' = DropTranscodes(work, {})
    BY <1>6, <2>1 DEF VisitNew
  <2>3. xfs' = xfs
    BY <1>1, <2>2 DEF DropTranscodes
  <2>4. RowsOK(d) /\ d.path = work.path /\ d.x = work.x /\ d.loc = work.loc
    BY <1>1, DropFacts
  <2> HIDE DEF d
  <2>5. CASE fs[p] = Torn
    BY <1>2, <2>1, <2>2, <2>3, <2>4, <2>5
  <2>6. CASE fs[p] # Torn
    <3>1. fs[p] \in Tracks \ black
      BY <1>1, <2>1, <2>6
    <3>2. work' = [d EXCEPT !.path[fs[p]] = p]
      BY <2>2, <2>6
    <3>3. /\ work'.path[fs[p]] = p /\ work'.loc = d.loc /\ work'.x = d.x
          /\ \A u \in Tracks \ {fs[p]} : work'.path[u] = d.path[u]
      BY <2>4, <3>1, <3>2, SetPath
    <3> QED  BY <1>2, <2>1, <2>3, <2>4, <3>1, <3>3
  <2> QED  BY <2>5, <2>6
<1> QED  BY <1>3, <1>4, <1>5, <1>6 DEF VisitFile

\* The steps outside of the rotation that change no residency_state.
LEMMA DerivedStays ==
  ASSUME DerivedOK, Archived', UNCHANGED <<xfs, out>>, db'.path = db.path, db'.x = db.x, db'.loc = db.loc,
         step = "none", step' = "none", ~Rotating, ~Rotating',
         pc \in {"resolve", "rotate"} <=> pc' \in {"resolve", "rotate"}
  PROVE  DerivedOK'
<1>1. Known(db)' = Known(db)
  BY DEF Known
<1>2. Whole' /\ NoOrphan'
  BY DEF DerivedOK, Whole, Away, NoOrphan, Making, Rotating
<1>3. Apart' /\ InHand' /\ Names' /\ Phase'
  BY <1>1 DEF DerivedOK, Apart, InHand, Names, Name, Phase, Rotating
<1> QED  BY <1>2, <1>3 DEF DerivedOK

\* A visit leaves what is said about residency as it is, for the row as well.
LEMMA UndisturbedVisit ==
  ASSUME IInv, RInv, UInv, Quiet, NEW p \in Paths, VisitFile(p)
  PROVE  UInv'
<1>1. /\ Follow(work) /\ Single /\ WalkKeeps /\ (mode = "move" => MoveHome)
      /\ (mode = "transcode" => DerivedOK) /\ pc = "walking"
  BY DEF UInv, RInv, WalkOK, Quiet, VisitFile, VisitSkipped, VisitNothing, VisitKnown,
     VisitBlacklisted, VisitMoved, VisitConflict, Conflict, VisitNew, Visit, Passes
<1>2. step = "none" /\ RowsOK(work) /\ RowsOK(db) /\ fs \in [Paths -> Tracks \cup {None, Torn}]
  BY <1>1 DEF IInv, ControlOK, Rotating, FilesOK
<1>3. /\ UNCHANGED <<fs, linked, xfs, db, mode, out, rot>> /\ bad' = FALSE
      /\ \/ pc' = "scan" /\ work' = db
         \/ /\ pc' = "walking" /\ work'.x = work.x /\ work'.loc = work.loc
            /\ \/ work'.path = work.path
               \/ /\ fs[p] \in Tracks /\ work'.path[fs[p]] = p
                  /\ \A u \in Tracks \ {fs[p]} : work'.path[u] = work.path[u]
  BY <1>1, VisitRows DEF WalkKeeps, IInv, ScanOK
<1>4. Single' /\ WalkKeeps'
  BY <1>1, <1>2, <1>3 DEF Single, Spare, WalkKeeps, rot
<1>5. ASSUME mode = "move" PROVE MoveHome'
  <2>1. \A t \in Tracks : db.loc[t] = "resident" => Home(db, t)'
    BY <1>1, <1>3, <1>5 DEF MoveHome, Home, Leaving
  <2>2. ASSUME pc' = "walking", NEW t \in Tracks, work'.loc[t] = "resident"
        PROVE  Home(work, t)'
    <3>1. Home(work, t) /\ t \in Known(work)
      BY <1>1, <1>2, <1>3, <1>5, <2>2 DEF MoveHome, RowsOK
    <3>2. work.path[t] \in Paths /\ fs[work.path[t]] = t
      BY <1>2, <3>1, PathType DEF Home
    <3>3. t = fs[p] => work.path[t] = p
      BY <1>1, <1>2, <3>2 DEF Single, Spare
    <3>4. work'.path[t] = work.path[t]
      BY <1>3, <2>2, <3>3
    <3> QED  BY <1>3, <3>1, <3>4 DEF Home
  <2> QED  BY <1>2, <1>3, <2>1, <2>2 DEF MoveHome, rot
<1>6. ASSUME mode = "transcode" PROVE DerivedOK'
  <2>1. Archived
    BY <1>1, <1>6 DEF DerivedOK
  <2>2. fs[p] \in Tracks => p[1] = "archive"
    <3>1. p = <<p[1], p[2]>> /\ p[1] \in {"archive", "resident"} /\ p[2] \in Rels
      BY DEF Paths
    <3> QED  BY <2>1, <3>1, LibraryAssumption DEF Archived
  <2>3. ASSUME NEW t \in Known(work') PROVE work'.path[t][1] = "archive"
    <3>1. t \in Tracks /\ work'.path[t] # None
      BY <2>3 DEF Known
    <3>2. CASE work' = db
      BY <2>1, <3>1, <3>2 DEF Archived, Known
    <3>3. CASE work'.path[t] = work.path[t]
      BY <2>1, <3>1, <3>3 DEF Archived, Known
    <3>4. CASE fs[p] \in Tracks /\ work'.path[t] = p
      BY <2>2, <3>4
    <3> QED  BY <1>3, <3>1, <3>2, <3>3, <3>4
  <2>4. Archived'
    BY <1>3, <2>1, <2>3 DEF Archived, Known
  <2> QED  BY <1>1, <1>2, <1>3, <1>6, <2>4, DerivedStays DEF rot, Rotating
<1> QED  BY <1>3, <1>4, <1>5, <1>6 DEF UInv, Plain, Added

\* Names, of the next state: before and during relocating, and after it.
LEMMA NamesAgain ==
  ASSUME pc' \in {"resolve", "rotate", "relocating"},
         \A u \in Tracks, v \in Known(db)' : db'.x[u] # None /\ u # v => db'.x[u] # Name(v)',
         pc' = "relocating" => \A u \in Tracks : db'.x[u] # None => db'.x[u] = Name(u)' \/ u \in todo'
  PROVE  Names'
BY DEF Names

LEMMA NamesKept ==
  ASSUME pc' = "relocating", Known(db)' = Known(db), \A u \in Tracks : Name(u)' = Name(u),
         \A u \in Tracks, v \in Known(db) : db'.x[u] # None /\ u # v => db'.x[u] # Name(v),
         \A u \in Tracks : db'.x[u] # None => db'.x[u] = Name(u) \/ u \in todo'
  PROVE  Names'
<1>1. Known(db) \subseteq Tracks
  BY DEF Known
<1>2. \A u \in Tracks, v \in Known(db)' : db'.x[u] # None /\ u # v => db'.x[u] # Name(v)'
  BY <1>1
<1>3. \A u \in Tracks : db'.x[u] # None => db'.x[u] = Name(u)' \/ u \in todo'
  OBVIOUS
<1> QED  BY <1>2, <1>3, NamesAgain

\* The sweep leaves the rows that the walk has seen, with their transcodes, and
\* no transcode is named as an original that another track has.
LEMMA UndisturbedSweep ==
  ASSUME IInv, RInv, UInv, Quiet, ~clash', Sweep
  PROVE  UInv'
<1> DEFINE S == Known(work) \ seen
<1>1. /\ Single /\ WalkKeeps /\ (mode = "move" => MoveHome) /\ (mode = "transcode" => DerivedOK)
      /\ Follow(db) /\ ~excused
  BY DEF UInv, RInv, Quiet
<1>2. /\ pc = "walking" /\ pc' = "resolve" /\ UNCHANGED <<fs, linked, mode, out, rot>> /\ bad' = FALSE
      /\ db' = DropRows(work, S) /\ xfs' = DropTranscodes(work, S) /\ work' = db'
      /\ work.x = db.x /\ work.loc = db.loc
  BY <1>1 DEF Sweep, Unseen, WalkKeeps, conf
<1>3. step = "none" /\ RowsOK(work) /\ RowsOK(db)
  BY <1>2 DEF IInv, ControlOK, Rotating
<1>4. /\ \A t \in Known(db') : fs[db'.path[t]] = t
      /\ Known(db') = Known(work) \ S /\ \A t \in Known(db') : db'.path[t] = work.path[t]
      /\ \A t \in Tracks : db'.x[t] # None \/ db'.loc[t] = "resident" =>
           t \in Known(db') /\ t \notin S /\ db'.x[t] = db.x[t] /\ db'.loc[t] = db.loc[t]
      /\ \A t \in Tracks \ S : db'.x[t] = db.x[t]
  <2>1. \A t \in Known(db') : fs[db'.path[t]] = t
    BY <1>1, RowsSweep
  <2> DEFINE d == DropRows(work, S)
  <2>2. /\ RowsOK(d) /\ Known(d) = Known(work) \ S
        /\ \A t \in Known(work) \ S : d.path[t] = work.path[t]
    BY <1>3, DropFacts
  <2>3. \A t \in Tracks \ S : d.x[t] = db.x[t] /\ d.loc[t] = db.loc[t]
    BY <1>2 DEF DropRows
  <2> HIDE DEF d
  <2>4. db' = d
    BY <1>2 DEF d
  <2>5. \A t \in Tracks : d.x[t] # None \/ d.loc[t] = "resident" => t \in Known(d)
    BY <2>2 DEF RowsOK
  <2> QED  BY <2>1, <2>2, <2>3, <2>4, <2>5
<1>5. Single' /\ Plain' /\ WalkKeeps'
  BY <1>1, <1>2, <1>3, <1>4 DEF Single, Spare, Plain, WalkKeeps, rot, Known
<1>6. ASSUME mode = "move" PROVE MoveHome'
  <2>1. ASSUME NEW t \in Tracks, db'.loc[t] = "resident"
        PROVE  Home(db, t)'
    <3>1. work.loc[t] = "resident" /\ db'.path[t] = work.path[t]
      BY <1>2, <1>4, <2>1
    <3> QED  BY <1>1, <1>2, <1>6, <3>1 DEF MoveHome, Home
  <2> QED  BY <1>2, <1>3, <2>1 DEF MoveHome, rot
<1>7. ASSUME mode = "transcode" PROVE DerivedOK'
  <2>1. Archived /\ Whole /\ NoOrphan
    BY <1>1, <1>7 DEF DerivedOK
  <2>2. Archived'
    BY <1>2, <1>4, <2>1 DEF Archived, Known
  <2>3. \A t \in Tracks : db.x[t] # None =>
          db.loc[t] = "resident" /\ xfs[db.x[t]] = Made(t, TRUE) /\ db.x[t] \in Rels /\ t \in Known(db)
    BY <1>2, <1>3, <2>1 DEF Whole, Away, RowsOK, Rows
  <2>4. Whole'
    <3> SUFFICES ASSUME NEW t \in Tracks, db'.x[t] # None
                 PROVE  db'.loc[t] = "resident" /\ xfs'[db'.x[t]] = Made(t, TRUE)
      BY <1>2 DEF Whole, Away, Made
    <3>1. t \notin S /\ db'.x[t] = db.x[t] /\ db'.loc[t] = db.loc[t] /\ db.x[t] \in Rels
          /\ db.loc[t] = "resident" /\ xfs[db.x[t]] = Made(t, TRUE)
      BY <1>4, <2>3
    <3>2. ASSUME NEW u \in S, work.x[u] = db.x[t] PROVE FALSE
      <4>1. u \in Tracks /\ xfs[db.x[u]] = Made(u, TRUE) /\ db.x[u] = db.x[t]
        BY <1>2, <2>3, <3>1, <3>2 DEF Known
      <4> QED  BY <3>1, <4>1 DEF Made
    <3>3. xfs'[db.x[t]] = xfs[db.x[t]]
      BY <1>2, <3>1, <3>2 DEF DropTranscodes
    <3> QED  BY <3>1, <3>3
  <2>5. NoOrphan'
    <3> SUFFICES ASSUME NEW r \in Rels, xfs'[r] # None PROVE \E t \in Tracks : db'.x[t] = r
      BY DEF NoOrphan
    <3>1. xfs[r] # None /\ \A t \in S : work.x[t] # r
      BY <1>2 DEF DropTranscodes
    <3>2. PICK t \in Tracks : db.x[t] = r
      BY <1>2, <2>1, <3>1 DEF NoOrphan, Making
    <3>3. t \notin S
      BY <1>2, <3>1, <3>2
    <3> QED  BY <1>4, <3>2, <3>3
  <2>6. \A t, u \in Known(db') : t # u => /\ out[db'.path[u][2]] # out[db'.path[t][2]]
                                          /\ out[db'.path[u][2]] # db'.x[t]
    <3>1. ~Shared(db')
      BY DEF Sweep
    <3> QED  BY <1>7, <3>1 DEF Shared
  <2>9. Known(db)' = Known(db') /\ \A t \in Tracks : Name(t)' = out[db'.path[t][2]]
    BY <1>2 DEF Known, Name
  <2>10. Known(db') \subseteq Tracks
    BY DEF Known
  <2>11. Apart'
    BY <2>6, <2>9, <2>10 DEF Apart
  <2>12. \A t \in Tracks, u \in Known(db)' : db'.x[t] # None /\ t # u => db'.x[t] # Name(u)'
    <3> SUFFICES ASSUME NEW t \in Tracks, NEW u \in Known(db'), db'.x[t] # None, t # u
                 PROVE  db'.x[t] # out[db'.path[u][2]]
      BY <2>9, <2>10
    <3>1. t \in Known(db')
      BY <1>4
    <3> QED  BY <2>6, <3>1
  <2>7. Names'
    BY <1>2, <2>12, NamesAgain
  <2>8. InHand' /\ Phase'
    BY <1>2, <1>3 DEF InHand, Phase, rot
  <2> QED  BY <2>2, <2>4, <2>5, <2>7, <2>8, <2>11 DEF DerivedOK
<1> QED  BY <1>2, <1>5, <1>6, <1>7 DEF UInv, Added

LEMMA UndisturbedScan == ASSUME IInv, RInv, UInv, ScanStep \/ ScanFails PROVE UInv'
<1> SUFFICES ASSUME Quiet' PROVE UInv'
  BY DEF UInv
<1>1. Quiet /\ faults' = faults /\ faults \in Nat
  BY HistScan, QuietBefore DEF IInv, HistOK
<1>2. CASE BeginScan
  <2>1. /\ pc = "scan" /\ pc' = "walking" /\ work' = db
        /\ UNCHANGED <<fs, linked, xfs, db, mode, out, bad, rot>>
    BY <1>2 DEF BeginScan, files, conf
  <2>2. step = "none"
    BY <2>1 DEF IInv, ControlOK, Rotating
  <2>3. Single' /\ WalkKeeps' /\ (mode = "move" => MoveHome)
        /\ (mode = "transcode" => DerivedOK)
    BY <1>1, <2>1, <2>2 DEF UInv, Single, Spare, WalkKeeps, rot
  <2>4. mode = "move" => MoveHome'
    BY <2>1, <2>2, <2>3 DEF MoveHome, Home, Leaving, rot
  <2>5. mode = "transcode" => Archived'
    BY <2>1, <2>3 DEF DerivedOK, Archived, Known
  <2>6. mode = "transcode" => DerivedOK'
    BY <2>1, <2>2, <2>3, <2>5, DerivedStays DEF rot, Rotating
  <2> QED  BY <2>1, <2>3, <2>4, <2>6 DEF UInv, Plain, Added
<1>3. CASE \E p \in Paths : VisitFile(p)
  BY <1>1, <1>3, UndisturbedVisit
<1>4. CASE Sweep
  BY <1>1, <1>4, UndisturbedSweep DEF Quiet
<1>5. ~SweepRolledBack /\ \A p \in Paths : ~HashFails(p) /\ ~Unreadable(p)
  BY <1>1 DEF SweepRolledBack, HashFails, Unreadable, NotRead
<1> QED  BY <1>2, <1>3, <1>4, <1>5 DEF ScanStep, ScanFails

LEMMA UndisturbedCycle == ASSUME IInv, UInv, Resolve \/ Publish \/ Crash PROVE UInv'
<1> SUFFICES ASSUME Quiet' PROVE UInv'
  BY DEF UInv
<1>1. Quiet /\ faults' = faults /\ faults \in Nat
  BY HistRotate, QuietBefore DEF IInv, HistOK
<1>2. /\ ~Crash /\ UNCHANGED <<files, mode, out, scan, rot>> /\ RowsOK(db)
      /\ \/ pc = "resolve" /\ pc' = "rotate"
         \/ pc = "publish" /\ pc' = "scan"
  BY <1>1 DEF Resolve, Publish, Crash, conf, IInv
<1>3. db'.path = db.path /\ db'.x = db.x /\ db'.loc = db.loc
  BY <1>2 DEF Resolve, Publish, Crash, RowsOK, Rows
<1>4. step = "none" /\ step' = "none" /\ Known(db)' = Known(db)
  BY <1>2, <1>3 DEF IInv, ControlOK, Rotating, Known, rot
<1>5. Single' /\ Plain' /\ WalkKeeps' /\ (mode = "move" => MoveHome) /\ (mode = "transcode" => DerivedOK)
  BY <1>1, <1>2, <1>3, <1>4 DEF UInv, Single, Spare, Plain, WalkKeeps, rot, scan, notes, files
<1>6. mode = "move" => MoveHome'
  BY <1>2, <1>3, <1>4, <1>5 DEF MoveHome, Home, Leaving, files
<1>7. mode = "transcode" => Archived'
  BY <1>2, <1>3, <1>5 DEF DerivedOK, Archived, Known, files, scan, notes
<1>8. mode = "transcode" => DerivedOK'
  BY <1>2, <1>3, <1>4, <1>5, <1>7, DerivedStays DEF files, Rotating
<1> QED  BY <1>2, <1>5, <1>6, <1>8 DEF UInv, Added

\* The rotation begins with what is resident, adds the rest of the manifest, and
\* then removes what is not in it.
LEMMA UndisturbedPhase ==
  ASSUME IInv, UInv, BeginRotate \/ AddsDone \/ RemovesDone \/ RelocateDone
  PROVE  UInv'
<1> SUFFICES ASSUME Quiet' PROVE UInv'
  BY DEF UInv
<1>1. Quiet /\ Counted
  BY HistRotate, HistTranscode, QuietBefore DEF RotateStep, TranscodeStep
<1>2. /\ UNCHANGED <<fs, linked, db, mode, out, scan>> /\ cur' = None /\ RowsOK(db)
      /\ pc \in {"rotate", "relocating", "adding", "removing"}
      /\ pc' \in {"relocating", "adding", "removing", "scan", "publish"}
  BY DEF BeginRotate, AddsDone, RemovesDone, RelocateDone, files, conf, IInv
<1>3. step = "none" /\ step' = "none"
  BY InvPhase DEF BeginRotate, AddsDone, RemovesDone, RelocateDone, IInv, ControlOK, Rotating
<1>4. Single' /\ Plain' /\ WalkKeeps' /\ Plain /\ (mode = "move" => MoveHome)
      /\ (mode = "transcode" => DerivedOK) /\ Added
  BY <1>1, <1>2, <1>3 DEF UInv, Single, Spare, Plain, WalkKeeps, scan, notes, Known
<1>5. mode = "move" => MoveHome'
  BY <1>2, <1>3, <1>4 DEF MoveHome, Home, Leaving
<1>6. \A t \in Tracks : mode = "transcode" /\ db.x[t] # None =>
        /\ db.loc[t] = "resident" /\ db.x[t] \in Rels
        /\ xfs[db.x[t]] = Made(t, TRUE) /\ xfs[db.x[t]] # None
  <2> SUFFICES ASSUME NEW t \in Tracks, mode = "transcode", db.x[t] # None
               PROVE  /\ db.loc[t] = "resident" /\ db.x[t] \in Rels
                      /\ xfs[db.x[t]] = Made(t, TRUE) /\ xfs[db.x[t]] # None
    OBVIOUS
  <2>1. db.loc[t] = "resident" /\ xfs[db.x[t]] = Made(t, TRUE) /\ db.x[t] \in Rels
    BY <1>2, <1>3, <1>4 DEF DerivedOK, Whole, Away, RowsOK, Rows
  <2>2. Made(t, TRUE) \in Transcode
    BY DEF Made, Transcode
  <2> QED  BY <2>1, <2>2, NoneAssumption
<1>7. ASSUME mode = "transcode" PROVE DerivedOK'
  <2>1. Archived' /\ InHand' /\ Apart'
    BY <1>2, <1>3, <1>4, <1>7 DEF DerivedOK, Archived, Known, scan, notes, InHand, Apart, Name
  <2>2. CASE RemovesDone
    <3>1. /\ xfs' = [r \in Rels |-> IF \E t \in Tracks : db.x[t] = r THEN xfs[r] ELSE None]
          /\ pc = "removing" /\ pc' \in {"scan", "publish"}
      BY <1>7, <2>2 DEF RemovesDone
    <3>2. \A t \in Tracks : db.x[t] # None => xfs'[db.x[t]] = xfs[db.x[t]]
      BY <1>6, <1>7, <3>1
    <3>3. Whole'
      BY <1>2, <1>3, <1>6, <1>7, <3>2 DEF Whole, Away, Made
    <3>4. NoOrphan'
      BY <1>2, <3>1 DEF NoOrphan
    <3>5. Names' /\ Phase'
      BY <1>2, <1>4, <1>7, <3>1 DEF DerivedOK, Names, Name, Phase, Known
    <3> QED  BY <2>1, <3>3, <3>4, <3>5 DEF DerivedOK
  <2>3. CASE ~RemovesDone
    <3>1. UNCHANGED xfs /\ pc \in {"rotate", "relocating", "adding"}
      BY <2>3 DEF BeginRotate, AddsDone, RelocateDone, files
    <3>2. Whole' /\ NoOrphan'
      BY <1>2, <1>3, <1>4, <1>6, <1>7, <3>1 DEF DerivedOK, Whole, Away, Made, NoOrphan, Making
    <3>3. CASE BeginRotate
      <4>1. pc = "rotate" /\ pc' = "relocating" /\ todo' = resident'
            /\ resident' = {t \in Tracks : Present(t)}
        BY <1>7, <3>3 DEF BeginRotate
      <4>2. \A t \in Tracks : Present(t) <=> db.x[t] # None
        BY <1>6, <1>7 DEF Present
      <4>3. Names' /\ Phase'
        BY <1>2, <1>4, <1>7, <4>1, <4>2 DEF DerivedOK, Names, Name, Phase, Known
      <4> QED  BY <2>1, <3>2, <4>3 DEF DerivedOK
    <3>4. CASE RelocateDone
      <4>1. pc = "relocating" /\ pc' = "adding" /\ todo = {} /\ todo' = db.manifest \ resident
        BY <3>4 DEF RelocateDone
      <4>2. Names' /\ Phase'
        BY <1>2, <1>4, <1>7, <4>1 DEF DerivedOK, Names, Name, Phase, Known, RowsOK
      <4> QED  BY <2>1, <3>2, <4>2 DEF DerivedOK
    <3>5. CASE AddsDone
      <4>1. pc = "adding" /\ pc' = "removing"
        BY <3>5 DEF AddsDone
      <4>2. Names' /\ Phase'
        BY <1>2, <1>4, <1>7, <4>1 DEF DerivedOK, Names, Name, Phase, Known
      <4> QED  BY <2>1, <3>2, <4>2 DEF DerivedOK
    <3> QED  BY <2>3, <3>3, <3>4, <3>5
  <2> QED  BY <2>2, <2>3
<1>8. Added'
  <2>0. /\ db.manifest \subseteq Tracks /\ \A t \in Tracks : Up(t)' <=> Up(t)
        /\ mode \in {"move", "transcode"}
    BY <1>2 DEF Up, IInv, HistOK, RowsOK, Known
  <2>1. CASE BeginRotate
    <3>1. /\ pc' = "relocating" \/ /\ mode # "transcode" /\ pc' = "adding"
                                   /\ todo' = db.manifest \ {t \in Tracks : Present(t)}
      BY <2>1 DEF BeginRotate
    <3>2. mode = "move" => \A t \in Tracks : Present(t) => Up(t)
      BY <1>3, <1>4, <2>1 DEF Present, MoveHome, Leaving, Home, Up, BeginRotate
    <3> QED  BY <1>2, <2>0, <3>1, <3>2 DEF Added
  <2>2. CASE RelocateDone
    <3>1. pc = "relocating" /\ pc' = "adding" /\ todo' = db.manifest \ resident /\ mode = "transcode"
      BY <2>2 DEF RelocateDone, IInv, ControlOK
    <3>2. \A t \in resident : Up(t)
      BY <1>4, <3>1 DEF DerivedOK, Phase, Up
    <3> QED  BY <1>2, <2>0, <3>1, <3>2 DEF Added
  <2>3. CASE AddsDone
    <3>1. /\ pc = "adding" /\ pc' = "removing" /\ todo = {} /\ todo' = resident \ db.manifest
          /\ errors' = errors
      BY <2>3 DEF AddsDone
    <3> QED  BY <1>2, <1>4, <2>0, <3>1 DEF Added
  <2>4. CASE RemovesDone
    <3>1. pc = "removing" /\ pc' = IF errors THEN "scan" ELSE "publish"
      BY <2>4 DEF RemovesDone
    <3> QED  BY <1>2, <1>4, <2>0, <3>1 DEF Added, IInv, ControlOK
  <2> QED  BY <2>1, <2>2, <2>3, <2>4
<1> QED  BY <1>4, <1>5, <1>7, <1>8, <1>2 DEF UInv

\* A move that nothing fails in: its target was free, no other row has that
\* path, and its own row is right again before the location is recorded.
LEMMA UndisturbedMove ==
  ASSUME IInv, RInv, UInv, NEW t \in Tracks, Move(t) \/ MoveFails(t)
  PROVE  UInv'
<1> SUFFICES ASSUME Quiet' PROVE UInv'
  BY DEF UInv
<1>1. Counted /\ Quiet /\ faults' = faults /\ faults \in Nat
  BY HistRotate, QuietBefore DEF RotateStep, IInv, HistOK
<1>2. Move(t)
  BY <1>1 DEF MoveFails, Fault
<1>3. /\ t \in todo /\ pc \in {"adding", "removing"} /\ pc' = pc /\ mode = "move" /\ mode' = mode
      /\ UNCHANGED <<scan, xfs>> /\ Side' = Side /\ cur \in {t, None}
      /\ cur = None <=> step = "none"
  BY <1>2, LibraryAssumption
     DEF Move, MoveRecovers, MoveRefused, MoveLinks, MoveCopies, CopyDone, UnlinkSource, UpdatePath,
         RecordLocation, Idle, InMove, IInv, ControlOK, MoveSteps, conf, Side, files
<1>4. /\ Src(t) \in Paths /\ Dst(t) \in Paths /\ (Src(t)[1] # Side => Src(t) # Dst(t))
      /\ Src(t) = db.path[t] /\ Dst(t)[1] = Side /\ t \in Known(db) /\ t \in Tracks \ black
  BY <1>3, TaskFacts DEF Src, Dst, IInv, RowsOK
<1>5. /\ Single /\ WalkKeeps /\ Added /\ MoveHome /\ RowsOK(db) /\ fs \in [Paths -> Tracks \cup {None, Torn}]
      /\ \A u \in Known(db) : fs[db.path[u]] = u \/ (step = "path" /\ u = cur)
      /\ step = "path" => Src(cur)[1] # Side /\ fs[Dst(cur)] = cur
  BY <1>1, <1>3 DEF UInv, Plain, IInv, FilesOK, RInv, MovedOK, Quiet
<1>6. /\ \A u \in Known(db) : u \in Tracks /\ u # None /\ u # Torn /\ db.path[u] \in Paths
      /\ \A u \in Tracks : db.loc[u] = "resident" => u \in Known(db)
      /\ Torn \notin Tracks /\ None \notin Tracks
  <2>1. Torn \notin Tracks /\ None \notin Tracks
    BY LibraryAssumption
  <2>2. \A u \in Known(db) : u \in Tracks /\ db.path[u] \in Paths
    BY <1>5, PathType
  <2>3. \A u \in Tracks : db.loc[u] = "resident" => u \in Known(db)
    BY <1>5 DEF RowsOK
  <2> QED  BY <2>1, <2>2, <2>3
<1>7. step # "unlink" => linked = {}
  BY <1>5 DEF Single
<1>8. Side = "resident" <=> pc = "adding"
  BY DEF Side
<1>9. ASSUME Single', MoveHome', Added', \A u \in Known(db') : fs'[db'.path[u]] = u \/ (step' = "path" /\ u = cur')
      PROVE  UInv'
  <2>1. Plain' /\ WalkKeeps'
    BY <1>3, <1>5, <1>9 DEF Plain, WalkKeeps, Known, scan, notes
  <2> QED  BY <1>3, <1>9, <2>1 DEF UInv
<1>10. CASE MoveRecovers(t) \/ RecordLocation(t)
  <2>1. /\ db' = [db EXCEPT !.loc[t] = Side] /\ UNCHANGED <<fs, linked, errors>> /\ Finish(t)
        /\ Src(t)[1] = Side /\ step \in {"none", "location"}
    BY <1>3, <1>5, <1>10
       DEF MoveRecovers, RecordLocation, InMove, Idle, MoveHome, files
  <2>2. StateOnly(db, db', t) /\ db'.loc[t] = Side
    <3>1. Side \in {"none", "archive", "resident"}
      BY DEF Side
    <3>2. StateOnly(db, [db EXCEPT !.loc[t] = Side], t)
      BY <1>4, <1>5, <3>1, SetLoc
    <3>3. db'.loc[t] = Side
      <4>1. db \in Rows /\ t \in Tracks
        BY <1>4, <1>5 DEF RowsOK
      <4> QED  BY <2>1, <3>1, <4>1 DEF Rows
    <3> QED  BY <2>1, <3>2, <3>3
  <2>3. /\ step' = "none" /\ todo' = todo \ {t} /\ db'.path = db.path /\ Known(db') = Known(db)
        /\ db'.manifest = db.manifest /\ \A u \in Tracks \ {t} : db'.loc[u] = db.loc[u]
    BY <2>1, <2>2 DEF Finish, Stop, StateOnly
  <2>4. Single'
    BY <1>5, <1>7, <2>1, <2>3 DEF Single, Spare
  <2>5. \A u \in Known(db') : fs'[db'.path[u]] = u
    BY <1>5, <2>1, <2>3
  <2>6. MoveHome'
    <3>1. ASSUME NEW u \in Tracks, db'.loc[u] = "resident" PROVE Home(db, u)'
      <4>1. CASE u = t
        BY <1>4, <2>1, <2>2, <2>3, <2>5, <3>1, <4>1 DEF Home
      <4>2. CASE u # t
        BY <1>3, <1>5, <2>1, <2>3, <3>1, <4>2 DEF MoveHome, Home, Leaving
      <4> QED  BY <4>1, <4>2
    <3> QED  BY <1>3, <2>3, <3>1 DEF MoveHome
  <2>7. Added'
    <3>1. \A u \in Tracks : Up(u)' <=> Up(u)
      BY <1>3, <2>3 DEF Up
    <3>2. pc = "adding" => Up(t)
      BY <1>3, <1>4, <1>8, <2>1 DEF Up
    <3>3. db.manifest \subseteq Tracks
      BY <1>5 DEF RowsOK, Known
    <3> QED  BY <1>3, <1>5, <2>1, <2>3, <3>1, <3>2, <3>3 DEF Added
  <2> QED  BY <1>9, <2>4, <2>5, <2>6, <2>7
<1>11. CASE MoveRefused(t)
  <2>1. UNCHANGED <<fs, linked, db>> /\ errors' = TRUE /\ step = "none" /\ step' = "none"
        /\ todo' = todo \ {t}
    BY <1>3, <1>11 DEF MoveRefused, Idle, Finish, Stop, files
  <2>2. Single' /\ MoveHome' /\ Added'
    BY <1>3, <1>5, <2>1 DEF Single, Spare, MoveHome, Home, Leaving, Added
  <2> QED  BY <1>5, <1>9, <2>1, <2>2
<1>12. ASSUME fs[Dst(t)] \in {None, Torn}, NEW v, v = Torn \/ v = fs[Src(t)],
              fs' = [fs EXCEPT ![Dst(t)] = v], UNCHANGED <<db, todo, errors>>,
              step # "path", step # "unlink", step # "location", step' \in {"copy", "unlink"}, cur' = t,
              step' = "unlink" <=> v # Torn,
              \A r \in linked' : step' = "unlink" /\ Src(t)[2] = r,
              Src(t)[1] # Side
       PROVE  UInv'
  <2>1. /\ fs'[Dst(t)] = v /\ \A p \in Paths : p # Dst(t) => fs'[p] = fs[p]
    BY <1>4, <1>5, <1>12
  <2>2. \A u \in Known(db) : fs[db.path[u]] = u /\ db.path[u] # Dst(t)
    BY <1>5, <1>6, <1>12
  <2>3. \A u \in Known(db) : fs'[db.path[u]] = u
    BY <1>6, <2>1, <2>2
  <2>4. Single'
    <3>1. \A p, q \in Paths : fs[p] = fs[q] /\ fs[p] \in Tracks => p = q
      BY <1>5, <1>12 DEF Single, Spare
    <3>2. Spare' = IF step' = "unlink" THEN {Src(t)} ELSE {}
      BY <1>12 DEF Spare, Src
    <3>3. ASSUME NEW p \in Paths, NEW q \in Paths, p \notin Spare', q \notin Spare',
                 fs'[p] = fs'[q], fs'[p] \in Tracks
          PROVE  p = q
      <4>1. CASE p # Dst(t) /\ q # Dst(t)
        BY <2>1, <3>1, <3>3, <4>1
      <4>2. CASE p = Dst(t) \/ q = Dst(t)
        <5>1. v = fs[Src(t)] /\ Spare' = {Src(t)} /\ v \in Tracks
          BY <1>6, <1>12, <2>1, <3>2, <3>3, <4>2
        <5>2. Src(t) \in Paths /\ Dst(t) \in Paths /\ p # Src(t) /\ q # Src(t)
          BY <1>4, <3>3, <5>1
        <5>3. CASE p = Dst(t) /\ q # Dst(t)
          <6>1. fs[q] = fs[Src(t)] /\ fs[q] \in Tracks
            BY <2>1, <3>3, <5>1, <5>3
          <6> QED  BY <3>1, <5>2, <6>1
        <5>4. CASE q = Dst(t) /\ p # Dst(t)
          <6>1. fs[p] = fs[Src(t)] /\ fs[p] \in Tracks
            BY <2>1, <3>3, <5>1, <5>4
          <6> QED  BY <3>1, <5>2, <6>1
        <5> QED  BY <4>2, <5>3, <5>4
      <4> QED  BY <4>1, <4>2
    <3>4. \A r \in linked' : step' = "unlink" /\ Src(cur)'[2] = r
      BY <1>12 DEF Src
    <3> QED  BY <3>3, <3>4 DEF Single
  <2>5. MoveHome'
    BY <1>3, <1>5, <1>6, <1>12, <2>2, <2>3 DEF MoveHome, Home, Leaving
  <2>6. Added'
    BY <1>3, <1>5, <1>12 DEF Added, Up
  <2> QED  BY <1>9, <1>12, <2>3, <2>4, <2>5, <2>6
<1>13. CASE MoveLinks(t)
  <2>1. /\ cur = None /\ Src(t)[1] # Side /\ fs[Src(t)] # None
        /\ fs[Dst(t)] = None \/ Src(t)[2] \in linked
        /\ fs' = [fs EXCEPT ![Dst(t)] = fs[Src(t)]] /\ linked' = linked \cup {Src(t)[2]}
        /\ cur' = t /\ step' = "unlink" /\ UNCHANGED <<db, todo, errors>>
    BY <1>13 DEF MoveLinks, Idle
  <2>2. step = "none" /\ linked = {} /\ fs[Src(t)] = t
    BY <1>3, <1>4, <1>5, <1>7, <2>1
  <2> QED  BY <1>6, <1>12, <2>1, <2>2
<1>14. CASE MoveCopies(t)
  <2>1. /\ cur = None /\ Src(t)[1] # Side /\ fs[Dst(t)] = None
        /\ fs' = [fs EXCEPT ![Dst(t)] = Torn] /\ linked' = linked
        /\ cur' = t /\ step' = "copy" /\ UNCHANGED <<db, todo, errors>>
    BY <1>14 DEF MoveCopies, Idle
  <2>2. step = "none" /\ linked = {}
    BY <1>3, <1>7, <2>1
  <2> QED  BY <1>12, <2>1, <2>2
<1>15. CASE CopyDone(t)
  <2>1. /\ cur = t /\ step = "copy" /\ fs' = [fs EXCEPT ![Dst(t)] = fs[Src(t)]] /\ linked' = linked
        /\ cur' = t /\ step' = "unlink" /\ UNCHANGED <<db, todo, errors>>
    BY <1>15 DEF CopyDone, InMove
  <2>2. linked = {} /\ fs[Src(t)] = t /\ fs[Dst(t)] = Torn /\ Src(t)[1] # Side
    BY <1>4, <1>5, <1>7, <2>1 DEF IInv, FilesOK
  <2> QED  BY <1>6, <1>12, <2>1, <2>2
<1>16. CASE UnlinkSource(t)
  <2>1. /\ cur = t /\ step = "unlink" /\ fs' = [fs EXCEPT ![Src(t)] = None]
        /\ linked' = linked \ {Src(t)[2]}
        /\ cur' = t /\ step' = "path" /\ UNCHANGED <<db, todo, errors>>
    BY <1>16 DEF UnlinkSource, InMove
  <2>2. /\ fs[Src(t)] = t /\ Src(t)[1] # Side /\ fs'[Src(t)] = None
        /\ \A p \in Paths : p # Src(t) => fs'[p] = fs[p]
    BY <1>4, <1>5, <2>1 DEF IInv, FilesOK
  <2>3. \A u \in Known(db) : u # t => fs[db.path[u]] = u /\ fs'[db.path[u]] = u
    BY <1>5, <1>6, <2>1, <2>2
  <2>4. Single'
    <3>1. linked' = {} /\ Spare' = {} /\ Spare = {Src(t)}
      BY <1>5, <2>1 DEF Single, Spare
    <3> QED  BY <1>4, <1>5, <1>6, <2>2, <3>1 DEF Single
  <2>5. MoveHome'
    <3>1. ASSUME NEW u \in Tracks, db.loc[u] = "resident" PROVE Home(db, u)' \/ Leaving(u)'
      <4>1. CASE u = t
        <5>1. pc = "removing"
          BY <1>3, <1>4, <1>5, <1>8, <2>1, <2>2, <3>1, <4>1 DEF MoveHome, Home, Leaving
        <5> QED  BY <1>3, <2>1, <4>1, <5>1 DEF Leaving
      <4>2. CASE u # t
        <5>1. Home(db, u) /\ u \in Known(db)
          BY <1>5, <1>6, <2>1, <3>1, <4>2 DEF MoveHome, Leaving
        <5> QED  BY <2>1, <2>3, <4>2, <5>1 DEF Home
      <4> QED  BY <4>1, <4>2
    <3> QED  BY <1>3, <2>1, <3>1 DEF MoveHome
  <2>6. Added'
    BY <1>3, <1>5, <2>1 DEF Added, Up
  <2> QED  BY <1>9, <2>1, <2>3, <2>4, <2>5, <2>6
<1>17. CASE UpdatePath(t)
  <2>1. /\ cur = t /\ step = "path" /\ UNCHANGED <<fs, linked, todo, cur>> /\ step' = "location"
        /\ fs[Dst(t)] = t /\ Src(t)[1] # Side
    BY <1>5, <1>17 DEF UpdatePath, InMove, files
  <2>2. At(db, Dst(t)) \in {None, t}
    <3>1. ASSUME NEW u \in Tracks, u # t, db.path[u] = Dst(t) PROVE FALSE
      <4>1. db.path[u] # None
        BY <1>4, <3>1, NoneAssumption
      <4>2. u \in Known(db)
        BY <3>1, <4>1 DEF Known
      <4> QED  BY <1>5, <2>1, <3>1, <4>2
    <3> QED  BY <3>1, AtFacts
  <2>3. db' = [db EXCEPT !.path[t] = Dst(t)] /\ errors' = errors
    BY <1>17, <2>2 DEF UpdatePath
  <2>4. /\ Known(db') = Known(db) \cup {t} /\ db'.path[t] = Dst(t)
        /\ \A u \in Tracks \ {t} : db'.path[u] = db.path[u]
        /\ db'.manifest = db.manifest /\ db'.loc = db.loc
    <3> DEFINE d == [db EXCEPT !.path[t] = Dst(t)]
    <3>1. /\ Known(d) = Known(db) \cup {t} /\ d.path[t] = Dst(t)
          /\ \A u \in Tracks \ {t} : d.path[u] = db.path[u]
          /\ d.manifest = db.manifest /\ d.loc = db.loc
      <4>1. RowsOK(db) /\ t \in Tracks \ black /\ Dst(t) \in Paths
        BY <1>4, <1>5
      <4> QED  BY <4>1, SetPath
    <3> HIDE DEF d
    <3>2. db' = d
      BY <2>3 DEF d
    <3> QED  BY <3>1, <3>2
  <2>5. \A u \in Known(db') : fs'[db'.path[u]] = u
    BY <1>5, <1>6, <2>1, <2>4
  <2>6. Single'
    BY <1>5, <1>7, <2>1 DEF Single, Spare
  <2>7. MoveHome'
    <3>1. ASSUME NEW u \in Tracks, db.loc[u] = "resident" PROVE Home(db, u)' \/ Leaving(u)'
      <4>1. CASE u = t
        <5>1. pc = "removing"
          BY <1>3, <1>4, <1>5, <1>8, <2>1, <3>1, <4>1 DEF MoveHome, Home, Leaving
        <5> QED  BY <1>3, <2>1, <4>1, <5>1 DEF Leaving
      <4>2. CASE u # t
        <5>1. Home(db, u)
          BY <1>5, <2>1, <3>1, <4>2 DEF MoveHome, Leaving
        <5> QED  BY <2>1, <2>4, <4>2, <5>1 DEF Home
      <4> QED  BY <4>1, <4>2
    <3>2. Src(cur)'[1] = Side
      BY <1>4, <2>1, <2>4 DEF Src
    <3> QED  BY <1>3, <2>1, <2>4, <3>1, <3>2 DEF MoveHome
  <2>8. Added'
    <3>1. \A u \in Tracks \ {t} : Up(u)' <=> Up(u)
      BY <1>3, <2>4 DEF Up
    <3>2. db.manifest \subseteq Tracks
      BY <1>5 DEF RowsOK, Known
    <3> QED  BY <1>3, <1>5, <2>1, <2>3, <2>4, <3>1, <3>2 DEF Added
  <2> QED  BY <1>9, <2>5, <2>6, <2>7, <2>8
<1> QED  BY <1>2, <1>10, <1>11, <1>13, <1>14, <1>15, <1>16, <1>17 DEF Move

\* ffmpeg ends: the file is whole.
LEMMA EncodeEnds ==
  ASSUME NEW t \in Tracks
  PROVE  [Made(t, FALSE) EXCEPT !.whole = TRUE] = Made(t, TRUE)
<1> DEFINE f == [Made(t, FALSE) EXCEPT !.whole = TRUE]
<1>1. Made(t, FALSE) \in Transcode /\ Made(t, FALSE).of = t
  BY DEF Made, Transcode
<1>2. Made(t, TRUE) \in Transcode /\ Made(t, TRUE).of = t /\ Made(t, TRUE).whole = TRUE
  BY DEF Made, Transcode
<1>3. f \in Transcode /\ f.of = t /\ f.whole = TRUE
  BY <1>1 DEF Transcode
<1>4. ASSUME NEW g \in Transcode, NEW h \in Transcode, g.of = h.of, g.whole = h.whole
      PROVE  g = h
  BY <1>4 DEF Transcode
<1> HIDE DEF f
<1>5. f.of = Made(t, TRUE).of /\ f.whole = Made(t, TRUE).whole
  BY <1>2, <1>3
<1>6. f = Made(t, TRUE)
  BY <1>2, <1>3, <1>4, <1>5
<1> QED  BY <1>6 DEF f

\* What a transcode step that nothing fails in may rely on.
LEMMA DerivedFacts ==
  ASSUME IInv, UInv, Quiet, NEW t \in todo, Rotating, mode = "transcode"
  PROVE  /\ Single /\ WalkKeeps /\ Added /\ DerivedOK /\ RowsOK(db) /\ t \in Known(db) /\ t \in Tracks
         /\ Name(t) \in Rels /\ Name(t) # None
         /\ step \notin MoveSteps /\ linked = {} /\ (cur = None <=> step = "none")
         /\ \A u \in Known(db) : fs[db.path[u]] = u
         /\ \A u \in Tracks : db.x[u] # None =>
              /\ u \in Known(db) /\ db.x[u] \in Rels /\ db.loc[u] = "resident"
              /\ Away(u) => xfs[db.x[u]] = None
              /\ ~Away(u) => xfs[db.x[u]] = Made(u, TRUE) /\ xfs[db.x[u]] # None
              /\ \A v \in Tracks : ~Away(u) /\ db.x[v] = db.x[u] => v = u
<1>1. /\ Single /\ WalkKeeps /\ Added /\ DerivedOK /\ RowsOK(db) /\ t \in Known(db) /\ t \in Tracks
      /\ Name(t) \in Rels /\ Name(t) # None /\ pc \notin {"scan", "walking"}
      /\ step \notin MoveSteps /\ (cur = None <=> step = "none")
  BY TaskFacts, LibraryAssumption DEF UInv, IInv, ControlOK, Rotating
<1>2. step \notin {"unlink", "path"}
  BY <1>1 DEF MoveSteps
<1>3. linked = {} /\ \A u \in Known(db) : fs[db.path[u]] = u
  BY <1>1, <1>2 DEF Single, UInv, Plain
<1>4. \A u \in Tracks : Made(u, TRUE) # None
  <2>1. \A u \in Tracks : Made(u, TRUE) \in Transcode
    BY DEF Made, Transcode
  <2> QED  BY <2>1, NoneAssumption
<1>5. \A u \in Tracks : db.x[u] # None =>
        /\ u \in Known(db) /\ db.x[u] \in Rels /\ db.loc[u] = "resident"
        /\ xfs[db.x[u]] = IF Away(u) THEN None ELSE Made(u, TRUE)
  BY <1>1 DEF DerivedOK, Whole, RowsOK, Rows
<1>6. \A u, v \in Tracks : db.x[u] # None /\ ~Away(u) /\ db.x[v] = db.x[u] => v = u
  <2> SUFFICES ASSUME NEW u \in Tracks, NEW v \in Tracks, db.x[u] # None, ~Away(u), db.x[v] = db.x[u]
               PROVE  v = u
    OBVIOUS
  <2>1. xfs[db.x[u]] = Made(u, TRUE) /\ xfs[db.x[u]] # None
    BY <1>4, <1>5
  <2>2. Made(v, TRUE) = Made(u, TRUE)
    BY <1>5, <2>1
  <2> QED  BY <2>2 DEF Made
<1> QED  BY <1>1, <1>3, <1>4, <1>5, <1>6

\* The conditions under which a transcode step leaves the library served.
LEMMA DerivedFrame ==
  ASSUME IInv, UInv, Quiet, NEW t \in Tracks, TranscodeAny(t),
         Whole', NoOrphan', InHand', Names', Phase',
         pc = "adding" /\ Finish(t) => errors' \/ Up(t)'
  PROVE  UInv'
<1>1. /\ t \in todo /\ mode = "transcode" /\ Rotating
      /\ UNCHANGED <<fs, linked, mode, pc, scan, resident>> /\ errors' \in {errors, TRUE}
      /\ \/ Finish(t)
         \/ cur' = t /\ todo' = todo /\ step' \in {"encode", "row"}
  BY TranscodeStepFacts
<1>2. /\ db'.path = db.path /\ db'.manifest = db.manifest /\ Known(db') = Known(db)
      /\ \A u \in Tracks \ {t} : db'.x[u] = db.x[u]
  BY TranscodeRows DEF StateOnly
<1>3. /\ Single /\ WalkKeeps /\ Added /\ DerivedOK /\ RowsOK(db) /\ linked = {}
      /\ step \notin MoveSteps /\ \A u \in Known(db) : fs[db.path[u]] = u
  BY <1>1, DerivedFacts
<1>4. step # "unlink" /\ step' # "unlink"
  BY <1>1, <1>3 DEF MoveSteps, Finish, Stop
<1>5. Single' /\ Plain' /\ WalkKeeps'
  BY <1>1, <1>2, <1>3, <1>4 DEF Single, Spare, Plain, WalkKeeps, Known, scan, notes, Rotating
<1>6. Archived' /\ Apart'
  <2>1. out' = out /\ Known(db)' = Known(db)
    BY <1>2, TranscodeStepFacts DEF Counted, conf, Known
  <2> QED  BY <1>1, <1>2, <1>3, <2>1 DEF DerivedOK, Archived, Apart, Name, Known, scan, notes
<1>7. Added'
  <2>1. \A u \in Tracks \ {t} : Up(u)' <=> Up(u)
    BY <1>1, <1>2 DEF Up
  <2>2. db.manifest \subseteq Tracks
    BY <1>3 DEF RowsOK, Known
  <2>3. errors => errors'
    <3>1. errors' = errors \/ errors' = TRUE
      BY <1>1
    <3> QED  BY <3>1
  <2>4. todo' \subseteq todo /\ todo \ todo' \subseteq {t} /\ (t \notin todo' => Finish(t))
    <3>1. Finish(t) => todo' = todo \ {t}
      BY DEF Finish
    <3> QED  BY <1>1, <3>1
  <2> QED  BY <1>1, <1>2, <1>3, <2>1, <2>2, <2>3, <2>4 DEF Added, Rotating
<1> QED  BY <1>1, <1>5, <1>6, <1>7 DEF UInv, DerivedOK

\* relocate_transcodes, promote_transcode and demote_transcode, when nothing
\* fails: no name that a transcode is given is that of another track's.
LEMMA UndisturbedTranscode ==
  ASSUME IInv, UInv, NEW t \in Tracks, TranscodeAny(t)
  PROVE  UInv'
<1> SUFFICES ASSUME Quiet' PROVE UInv'
  BY DEF UInv
<1>1. /\ t \in todo /\ mode = "transcode" /\ Rotating /\ Counted
      /\ UNCHANGED <<fs, mode, pc, resident>>
  BY TranscodeStepFacts
<1>2. Quiet /\ faults' = faults /\ faults \in Nat
  BY <1>1, QuietBefore DEF IInv, HistOK
<1>3. ~Fault
  BY <1>2 DEF Fault
<1>4. /\ Whole /\ NoOrphan /\ InHand /\ Names /\ Phase /\ Archived /\ RowsOK(db) /\ t \in Known(db)
      /\ Name(t) \in Rels /\ Name(t) # None
      /\ \A u \in Known(db) : fs[db.path[u]] = u
      /\ \A u \in Tracks : db.x[u] # None =>
           /\ u \in Known(db) /\ db.x[u] \in Rels /\ db.loc[u] = "resident"
           /\ Away(u) => xfs[db.x[u]] = None
           /\ ~Away(u) => xfs[db.x[u]] = Made(u, TRUE) /\ xfs[db.x[u]] # None
           /\ \A v \in Tracks : ~Away(u) /\ db.x[v] = db.x[u] => v = u
      /\ xfs \in [Rels -> Transcode \cup {None}] /\ (cur = None => step = "none")
  BY <1>1, <1>2, DerivedFacts DEF DerivedOK, IInv, FilesOK
<1>5. \A u \in Known(db) : Name(u) = Name(t) => u = t
  BY <1>1, <1>2, <1>4, DerivedFacts DEF DerivedOK, Apart
<1>6. /\ db'.path = db.path /\ Known(db') = Known(db) /\ Known(db)' = Known(db)
      /\ \A u \in Tracks \ {t} : db'.x[u] = db.x[u] /\ db'.loc[u] = db.loc[u]
      /\ \A u \in Tracks : Name(u)' = Name(u)
  BY <1>1, TranscodeRows DEF StateOnly, Name, Known, Counted, conf
<1>7. CASE InPlace(t)
  <2>1. /\ cur = None /\ step = "none" /\ step' = "none" /\ UNCHANGED <<xfs, db>> /\ todo' = todo \ {t}
        /\ pc = "relocating" /\ db.x[t] = Name(t)
    BY <1>4, <1>7 DEF InPlace, Task, Finish, Stop, files
  <2>2. Whole' /\ NoOrphan' /\ InHand' /\ Phase'
    BY <1>1, <1>4, <2>1 DEF Whole, Away, NoOrphan, Making, InHand, Phase, Made
  <2>4. \A u \in Tracks, v \in Known(db) : db.x[u] # None /\ u # v => db.x[u] # Name(v)
    BY <1>4, <2>1 DEF Names
  <2>5. \A u \in Tracks : db.x[u] # None => db.x[u] = Name(u) \/ u \in todo'
    BY <1>4, <2>1 DEF Names
  <2>3. Names'
    BY <1>1, <1>6, <2>1, <2>4, <2>5, NamesKept
  <2> QED  BY <1>2, <2>1, <2>2, <2>3, DerivedFrame
<1>8. CASE Relocate(t)
  <2>1. /\ cur = None /\ step = "none" /\ step' = "row" /\ cur' = t /\ UNCHANGED <<db, todo>>
        /\ pc = "relocating" /\ db.x[t] # Name(t) /\ db.x[t] # None
        /\ xfs' = [xfs EXCEPT ![db.x[t]] = None, ![Name(t)] = IF @ = None THEN xfs[db.x[t]] ELSE @]
    BY <1>4, <1>8 DEF Relocate, Task, IInv, ControlOK
  <2>2. xfs[Name(t)] = None
    <3>1. \A u \in Tracks : db.x[u] # Name(t)
      BY <1>4, <2>1 DEF Names
    <3> QED  BY <1>4, <2>1, <3>1 DEF NoOrphan, Making
  <2>3. ~Away(t) /\ xfs[db.x[t]] = Made(t, TRUE) /\ db.x[t] \in Rels
    BY <1>4, <2>1 DEF Away
  <2>4. /\ xfs'[db.x[t]] = None /\ xfs'[Name(t)] = Made(t, TRUE)
        /\ \A r \in Rels : r # db.x[t] /\ r # Name(t) => xfs'[r] = xfs[r]
    BY <1>4, <2>1, <2>2, <2>3
  <2>5. Whole'
    <3> SUFFICES ASSUME NEW u \in Tracks, db.x[u] # None
                 PROVE  /\ db.loc[u] = "resident"
                        /\ xfs'[db.x[u]] = IF u = t THEN None ELSE Made(u, TRUE)
      BY <1>1, <2>1 DEF Whole, Away, Made
    <3>1. u # t => db.x[u] # db.x[t] /\ db.x[u] # Name(t) /\ ~Away(u)
      BY <1>4, <2>1, <2>3 DEF Names, Away
    <3> QED  BY <1>4, <2>4, <3>1
  <2>6. NoOrphan'
    <3> SUFFICES ASSUME NEW r \in Rels, xfs'[r] # None, r # Name(t) PROVE \E u \in Tracks : db.x[u] = r
      BY <1>1, <1>6, <2>1 DEF NoOrphan, Making
    <3> QED  BY <1>4, <2>1, <2>4 DEF NoOrphan, Making
  <2>7. InHand' /\ Phase'
    BY <1>1, <1>4, <1>6, <2>1, <2>4 DEF InHand, Phase, Made
  <2>10. \A u \in Tracks, v \in Known(db) : db.x[u] # None /\ u # v => db.x[u] # Name(v)
    BY <1>4, <2>1 DEF Names
  <2>11. \A u \in Tracks : db.x[u] # None => db.x[u] = Name(u) \/ u \in todo'
    BY <1>4, <2>1 DEF Names
  <2>8. Names'
    BY <1>1, <1>6, <2>1, <2>10, <2>11, NamesKept
  <2>9. ~Finish(t)
    BY <1>1, <2>1 DEF Finish
  <2> QED  BY <1>2, <2>5, <2>6, <2>7, <2>8, <2>9, DerivedFrame
<1>9. CASE RelocateRow(t)
  <2>1. /\ cur = t /\ step = "row" /\ pc = "relocating" /\ step' = "none" /\ todo' = todo \ {t}
        /\ xfs' = xfs /\ db' = [db EXCEPT !.x[t] = Name(t)] /\ db.x[t] # None
    BY <1>1, <1>9 DEF RelocateRow, InTask, Finish, Stop, files, IInv, ControlOK
  <2>2. db'.x[t] = Name(t) /\ db'.loc[t] = db.loc[t]
    <3>1. db \in Rows
      BY <1>4 DEF RowsOK
    <3> QED  BY <1>4, <2>1, <3>1 DEF Rows
  <2>3. xfs[Name(t)] = Made(t, TRUE) /\ xfs[db.x[t]] = None
    BY <1>4, <2>1 DEF InHand, Away
  <2>4. Whole'
    <3> SUFFICES ASSUME NEW u \in Tracks, db'.x[u] # None
                 PROVE  db'.loc[u] = "resident" /\ xfs[db'.x[u]] = Made(u, TRUE)
      BY <1>1, <2>1 DEF Whole, Away, Made
    <3>1. CASE u = t
      BY <1>4, <2>1, <2>2, <2>3, <3>1
    <3>2. CASE u # t
      BY <1>4, <1>6, <2>1, <3>2 DEF Away
    <3> QED  BY <3>1, <3>2
  <2>5. NoOrphan'
    <3> SUFFICES ASSUME NEW r \in Rels, xfs[r] # None PROVE \E u \in Tracks : db'.x[u] = r
      BY <1>1, <2>1 DEF NoOrphan
    <3>1. r = Name(t) \/ \E u \in Tracks : db.x[u] = r
      BY <1>4, <2>1 DEF NoOrphan, Making
    <3> QED  BY <1>6, <2>2, <2>3, <3>1
  <2>6. Names'
    <3>1. ASSUME NEW u \in Tracks, NEW v \in Known(db), db'.x[u] # None, u # v
          PROVE  db'.x[u] # Name(v)
      BY <1>4, <1>5, <1>6, <2>1, <2>2, <3>1 DEF Names
    <3>2. \A u \in Tracks : db'.x[u] # None => db'.x[u] = Name(u) \/ u \in todo'
      BY <1>4, <1>6, <2>1, <2>2 DEF Names
    <3>3. Known(db) \subseteq Tracks
      BY DEF Known
    <3> QED  BY <1>1, <1>6, <2>1, <3>1, <3>2, <3>3 DEF Names
  <2>7. Phase'
    <3>1. \A u \in Tracks : db'.x[u] # None <=> db.x[u] # None
      BY <1>4, <1>6, <2>1, <2>2
    <3> QED  BY <1>1, <1>4, <2>1, <3>1 DEF Phase
  <2> QED  BY <1>2, <2>1, <2>4, <2>5, <2>6, <2>7, DerivedFrame DEF InHand
<1>10. ASSUME pc = "adding"
       PROVE  /\ db.x[t] = None
              /\ \A u \in Tracks : db.x[u] # None => u # t /\ db.x[u] = Name(u) /\ db.x[u] # Name(t)
  BY <1>1, <1>4, <1>5, <1>10 DEF Names, Phase
<1>11. CASE PromoteAdopts(t)
  <2>1. /\ cur = None /\ step = "none" /\ pc = "adding" /\ xfs[Name(t)] # None
    BY <1>4, <1>11 DEF PromoteAdopts, Task
  <2>2. \E u \in Tracks : db.x[u] = Name(t)
    BY <1>4, <2>1 DEF NoOrphan, Making
  <2> QED  BY <1>4, <1>10, <2>1, <2>2
<1>12. CASE Encode(t) \/ EncodeDone(t)
  <2>1. /\ pc = "adding" /\ cur' = t /\ UNCHANGED <<db, todo>> /\ cur \in {t, None} /\ step \in {"none", "encode"}
        /\ \E w \in BOOLEAN : /\ step' = IF w THEN "row" ELSE "encode"
                              /\ xfs' = [xfs EXCEPT ![Name(t)] = Made(t, w)]
    <3>1. CASE Encode(t)
      <4>1. Made(t, FALSE) = [of |-> fs[db.path[t]], whole |-> FALSE]
        BY <1>4 DEF Made
      <4> QED  BY <1>4, <3>1, <4>1 DEF Encode, Task
    <3>2. CASE EncodeDone(t)
      <4>1. xfs[Name(t)] = Made(t, FALSE)
        BY <1>4, <3>2 DEF InHand, EncodeDone, InTask
      <4>2. [xfs[Name(t)] EXCEPT !.whole = TRUE] = Made(t, TRUE)
        BY <4>1, EncodeEnds
      <4>3. xfs' = [xfs EXCEPT ![Name(t)] = [xfs[Name(t)] EXCEPT !.whole = TRUE]]
        BY <3>2 DEF EncodeDone
      <4> QED  BY <3>2, <4>2, <4>3 DEF EncodeDone, InTask
    <3> QED  BY <1>12, <3>1, <3>2
  <2>2. PICK w \in BOOLEAN : /\ step' = IF w THEN "row" ELSE "encode"
                             /\ xfs' = [xfs EXCEPT ![Name(t)] = Made(t, w)]
    BY <2>1
  <2>3. xfs'[Name(t)] = Made(t, w) /\ \A r \in Rels : r # Name(t) => xfs'[r] = xfs[r]
    BY <1>4, <2>2
  <2>4. Whole'
    <3> SUFFICES ASSUME NEW u \in Tracks, db.x[u] # None
                 PROVE  db.loc[u] = "resident" /\ xfs'[db.x[u]] = Made(u, TRUE)
      BY <1>1, <2>1 DEF Whole, Away, Made
    <3> QED  BY <1>4, <1>10, <2>1, <2>3 DEF Away
  <2>5. NoOrphan'
    <3> SUFFICES ASSUME NEW r \in Rels, xfs'[r] # None, r # Name(t) PROVE \E u \in Tracks : db.x[u] = r
      BY <1>1, <1>6, <2>1, <2>2 DEF NoOrphan, Making
    <3>1. ~Making(r)
      BY <1>4, <2>1 DEF Making
    <3> QED  BY <1>4, <2>3, <3>1 DEF NoOrphan
  <2>6. InHand'
    <3>1. step' = "row" => w = TRUE
      BY <2>2
    <3>2. step' = "encode" => w = FALSE
      BY <2>2
    <3> QED  BY <1>1, <1>6, <2>1, <2>3, <3>1, <3>2 DEF InHand, Made
  <2>7. Names' /\ Phase'
    BY <1>1, <1>4, <1>6, <2>1 DEF Names, Phase
  <2>8. ~Finish(t)
    BY <1>1, <2>1 DEF Finish
  <2> QED  BY <1>2, <2>4, <2>5, <2>6, <2>7, <2>8, DerivedFrame
<1>13. CASE PromoteRow(t)
  <2>1. /\ cur = t /\ step = "row" /\ pc = "adding" /\ step' = "none" /\ todo' = todo \ {t}
        /\ xfs' = xfs /\ db' = [db EXCEPT !.loc[t] = "resident", !.x[t] = Name(t)]
    BY <1>13 DEF PromoteRow, Delivered, InTask, Finish, Stop, files
  <2>2. db'.x[t] = Name(t) /\ db'.loc[t] = "resident"
    <3>1. db \in Rows
      BY <1>4 DEF RowsOK
    <3> QED  BY <1>4, <2>1, <3>1 DEF Rows
  <2>3. xfs[Name(t)] = Made(t, TRUE)
    BY <1>4, <2>1 DEF InHand
  <2>4. Whole'
    <3> SUFFICES ASSUME NEW u \in Tracks, db'.x[u] # None
                 PROVE  db'.loc[u] = "resident" /\ xfs[db'.x[u]] = Made(u, TRUE)
      BY <1>1, <2>1 DEF Whole, Away, Made
    <3>1. CASE u = t
      BY <2>2, <2>3, <3>1
    <3>2. CASE u # t
      BY <1>4, <1>6, <2>1, <3>2 DEF Away
    <3> QED  BY <3>1, <3>2
  <2>5. NoOrphan'
    <3> SUFFICES ASSUME NEW r \in Rels, xfs[r] # None PROVE \E u \in Tracks : db'.x[u] = r
      BY <1>1, <2>1 DEF NoOrphan
    <3>1. r = Name(t) \/ \E u \in Tracks : db.x[u] = r
      BY <1>4, <2>1 DEF NoOrphan, Making
    <3>2. r # None
      BY LibraryAssumption
    <3> QED  BY <1>6, <1>10, <2>1, <2>2, <3>1, <3>2
  <2>6. Names' /\ Phase'
    BY <1>1, <1>4, <1>6, <2>1, <2>2 DEF Names, Phase
  <2>7. Up(t)'
    BY <1>1, <1>4, <2>2 DEF Up
  <2> QED  BY <1>2, <2>1, <2>4, <2>5, <2>6, <2>7, DerivedFrame DEF InHand
<1>14. CASE Demote(t)
  <2>1. /\ cur = None /\ step = "none" /\ step' = "row" /\ cur' = t /\ UNCHANGED <<db, todo>>
        /\ pc = "removing"
        /\ xfs' = (IF db.x[t] = None THEN xfs ELSE [xfs EXCEPT ![db.x[t]] = None])
    BY <1>3, <1>4, <1>14 DEF Demote, Task
  <2>2. \A r \in Rels : IF r = db.x[t] THEN xfs'[r] = None ELSE xfs'[r] = xfs[r]
    <3>1. \A r \in Rels : r # None
      BY LibraryAssumption
    <3> QED  BY <1>4, <2>1, <3>1
  <2>3. Whole'
    <3> SUFFICES ASSUME NEW u \in Tracks, db.x[u] # None
                 PROVE  /\ db.loc[u] = "resident"
                        /\ xfs'[db.x[u]] = IF u = t THEN None ELSE Made(u, TRUE)
      BY <1>1, <2>1 DEF Whole, Away, Made
    <3>1. ~Away(u) /\ (u # t => db.x[u] # db.x[t])
      BY <1>4, <2>1 DEF Away
    <3> QED  BY <1>4, <2>2, <3>1
  <2>4. NoOrphan'
    BY <1>1, <1>4, <2>1, <2>2 DEF NoOrphan, Making
  <2>5. InHand' /\ Names' /\ Phase'
    BY <1>1, <1>4, <1>6, <2>1 DEF InHand, Names, Phase
  <2> QED  BY <1>2, <2>1, <2>3, <2>4, <2>5, DerivedFrame
<1>15. CASE DemoteRow(t)
  <2>1. /\ cur = t /\ step = "row" /\ pc = "removing" /\ step' = "none" /\ todo' = todo \ {t}
        /\ xfs' = xfs /\ db' = [db EXCEPT !.loc[t] = "archive", !.x[t] = None]
    BY <1>15 DEF DemoteRow, InTask, Finish, Stop, files
  <2>2. db'.x[t] = None
    <3>1. db \in Rows
      BY <1>4 DEF RowsOK
    <3> QED  BY <1>4, <2>1, <3>1 DEF Rows
  <2>3. Whole'
    <3> SUFFICES ASSUME NEW u \in Tracks, db'.x[u] # None
                 PROVE  db'.loc[u] = "resident" /\ xfs[db'.x[u]] = Made(u, TRUE)
      BY <1>1, <2>1 DEF Whole, Away, Made
    <3>1. u # t
      BY <2>2
    <3> QED  BY <1>4, <1>6, <2>1, <3>1 DEF Away
  <2>4. NoOrphan'
    <3> SUFFICES ASSUME NEW r \in Rels, xfs[r] # None PROVE \E u \in Tracks : db'.x[u] = r
      BY <1>1, <2>1 DEF NoOrphan
    <3>1. PICK u \in Tracks : db.x[u] = r
      BY <1>4, <2>1 DEF NoOrphan, Making
    <3>2. r # None /\ Away(t)
      BY <2>1, LibraryAssumption DEF Away
    <3>3. u # t
      BY <1>4, <3>1, <3>2
    <3> QED  BY <1>6, <3>1, <3>3
  <2>5. Names' /\ Phase'
    BY <1>1, <1>4, <1>6, <2>1, <2>2 DEF Names, Phase
  <2> QED  BY <1>2, <2>1, <2>3, <2>4, <2>5, DerivedFrame DEF InHand
<1>16. ~RelocateRefused(t)
  <2> SUFFICES ASSUME RelocateRefused(t) PROVE FALSE
    OBVIOUS
  <2>1. cur = None /\ pc = "relocating" /\ xfs[db.x[t]] = None /\ db.x[t] # None
    BY <1>3 DEF RelocateRefused, Task, IInv, ControlOK
  <2> QED  BY <1>1, <1>4, <2>1, LibraryAssumption DEF Away
<1>17. ~EncodeFails(t) /\ ~RowFails(t)
  <2>1. fs[db.path[t]] # None
    BY <1>1, <1>4, LibraryAssumption
  <2> QED  BY <1>3, <2>1 DEF EncodeFails, RowFails
<1> QED  BY <1>7, <1>8, <1>9, <1>11, <1>12, <1>13, <1>14, <1>15, <1>16, <1>17
         DEF TranscodeAny, TranscodeTrack

LEMMA UndisturbedInvariant == Spec => []UInv
<1>1. IInv /\ RInv /\ UInv /\ [Next]_vars => UInv'
  <2> SUFFICES ASSUME IInv, RInv, UInv, [Next]_vars PROVE UInv'
    OBVIOUS
  <2>1. CASE User
    BY <2>1, UndisturbedUser
  <2>2. CASE ScanStep \/ ScanFails
    BY <2>2, UndisturbedScan
  <2>3. CASE Resolve \/ Publish \/ Crash
    BY <2>3, UndisturbedCycle
  <2>4. CASE RotateStep \/ \E t \in Tracks : MoveFails(t)
    BY <2>4, UndisturbedPhase, UndisturbedMove DEF RotateStep
  <2>5. CASE \/ TranscodeStep
             \/ \E t \in Tracks : RelocateRefused(t) \/ EncodeFails(t) \/ RowFails(t)
    BY <2>5, UndisturbedPhase, UndisturbedTranscode DEF TranscodeStep, TranscodeAny
  <2>6. CASE UNCHANGED vars
    <3>1. UNCHANGED <<fs, linked, xfs, db, mode, out, pc, work, bad, resident, todo, cur, step, errors,
                      faults, excused, clash>>
      BY <2>6 DEF vars, files, conf, scan, notes, rot, hist
    <3> QED  BY <3>1 DEF UInv, Quiet, Single, Spare, Plain, WalkKeeps, Added, Up, MoveHome, Home, Leaving,
             DerivedOK, Archived, Apart, Whole, Away, NoOrphan, Making, InHand, Names, Phase, Name, Known,
             Src, Side, Made
  <2> QED  BY <2>1, <2>2, <2>3, <2>4, <2>5, <2>6 DEF Next, Cycle, Fails
<1> QED  BY <1>1, UndisturbedInit, LibraryInvariant, RowsInvariant, PTL DEF Spec

\* As long as nothing fails and the user does nothing that may cost a row, a
\* cycle that gets as far as publish has put every track of the manifest where
\* the phone gets it from: under resident/ in move mode, as a whole transcode
\* of its own audio in transcode mode (rotate_run_ex before publish_run).
THEOREM UndisturbedIsServedHolds == Spec => []UndisturbedIsServed
<1>1. IInv /\ UInv => UndisturbedIsServed
  <2> SUFFICES ASSUME IInv, UInv, Quiet, pc = "publish", NEW t \in db.manifest PROVE Served(t)
    BY DEF UndisturbedIsServed, PublishedIsServed, Quiet
  <2>1. /\ Plain /\ Added /\ (mode = "transcode" => DerivedOK) /\ t \in Known(db) /\ t \in Tracks
        /\ mode \in {"move", "transcode"} /\ step = "none"
    BY DEF UInv, IInv, HistOK, RowsOK, Known, ControlOK, Rotating
  <2>2. Up(t) /\ fs[db.path[t]] = t
    BY <2>1 DEF Added, Plain
  <2>3. mode = "transcode" /\ db.x[t] # None => xfs[db.x[t]] = [of |-> t, whole |-> TRUE]
    BY <2>1 DEF DerivedOK, Whole, Away, Made
  <2> QED  BY <2>1, <2>2, <2>3 DEF Served, Up
<1> QED  BY <1>1, LibraryInvariant, UndisturbedInvariant, PTL
=============================================================================
