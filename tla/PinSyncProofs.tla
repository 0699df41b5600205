--------------------------- MODULE PinSyncProofs ---------------------------
(***************************************************************************)
(* Proofs about PinMerge and PinSync, for any number of tracks,            *)
(* coroutines, lines and times.                                            *)
(*                                                                         *)
(* Of the merge: the type invariant, the agreement of pins and overrides,  *)
(* that the newest line wins, that a pin outlives a stale unsync, that a   *)
(* delete is final, and that a file is removed only for a delete that      *)
(* sticks.  Of the composition: that the phone's writers and the delivery  *)
(* are an environment that PinMerge allows, so that all this holds of the  *)
(* whole; and, however many coroutines interleave and whatever appends     *)
(* fail, that what is marked as synced was written, that a row is newer    *)
(* than what was said before, and that the desktop ends up agreeing.       *)
(***************************************************************************)
EXTENDS PinSync, FiniteSetTheorems, TLAPS

\* Both the committed rows and those of the open transaction are consistent.
IInv == TypeOK /\ Consistent(db) /\ Consistent(work)

\* The upsert returns a row.
LEMMA NewerType ==
  ASSUME NEW r \in Row, NEW e \in Event
  PROVE  Newer(r, e) \in Row
BY MergeAssumption DEF Row, Event, Newer

\* The handlers keep the database well formed (handle_like, handle_pin,
\* unsync_track, delete_track_everywhere) and do not touch the offsets.
LEMMA HandleType ==
  ASSUME NEW k \in Kinds, NEW w \in Database, NEW e \in Event
  PROVE  /\ Handle(k, w, e) \in Database
         /\ Handle(k, w, e).off = w.off
<1>1. /\ e.id \in Tracks
      /\ w.likes \in [Tracks -> Row] /\ w.pins \in [Tracks -> Row]
      /\ Newer(w.likes[e.id], e) \in Row /\ Newer(w.pins[e.id], e) \in Row
  BY NewerType DEF Database, Event
<1>2. NoRow \in Row /\ \A r \in Row : [r EXCEPT !.val = FALSE] \in Row
  <2>1. 0 \in 0..MaxTs
    BY MergeAssumption
  <2> QED  BY <2>1 DEF Row, NoRow
<1>3. HandleLike(w, e) \in Database /\ HandleLike(w, e).off = w.off
  BY <1>1 DEF HandleLike, Database
<1>4. HandlePin(w, e) \in Database /\ HandlePin(w, e).off = w.off
  BY <1>1 DEF HandlePin, Database
<1>5. UnsyncTrack(w, e) \in Database /\ UnsyncTrack(w, e).off = w.off
  BY <1>1, <1>2 DEF UnsyncTrack, Database
<1>6. DeleteTrack(w, e) \in Database /\ DeleteTrack(w, e).off = w.off
  BY <1>1, <1>2 DEF DeleteTrack, Database
<1> QED  BY <1>3, <1>4, <1>5, <1>6 DEF Handle

\* No handler leaves a track both pinned and overridden.
LEMMA HandleConsistent ==
  ASSUME NEW k \in Kinds, NEW w \in Database, NEW e \in Event, Consistent(w)
  PROVE  Consistent(Handle(k, w, e))
<1> USE MergeAssumption DEF Database, Event, Row, NoRow, Kinds, Consistent
<1>1. Consistent(HandleLike(w, e))
  BY DEF HandleLike
<1>2. Consistent(HandlePin(w, e))
  BY DEF HandlePin, Newer
<1>3. Consistent(UnsyncTrack(w, e))
  BY DEF UnsyncTrack
<1>4. Consistent(DeleteTrack(w, e))
  BY DEF DeleteTrack
<1> QED  BY <1>1, <1>2, <1>3, <1>4 DEF Handle

\* A library that was only scanned has no pins and no overrides (schema 0008).
THEOREM InitIInv == Init => IInv
<1> SUFFICES ASSUME Init PROVE IInv
  OBVIOUS
<1>1. PICK known \in SUBSET Tracks :
        /\ db = [likes |-> [t \in Tracks |-> NoRow],
                 pins |-> [t \in Tracks |-> NoRow],
                 override |-> {}, blacklist |-> {}, tracks |-> known,
                 off |-> [k \in Kinds |-> 0]]
        /\ disk = known
  BY DEF Init
<1>2. NoRow \in Row /\ 0 \in 0..MaxLines
  BY MergeAssumption DEF Row, NoRow
<1>3. db \in Database /\ work = db
  BY <1>1, <1>2 DEF Database, Init
<1>4. file \in [Kinds -> Seq(Event)] /\ \A k \in Kinds : Len(file[k]) = 0
  BY DEF Init
<1>5. \A k \in Kinds : db.off[k] = 0
  BY <1>1
<1>6. TypeOK
  BY <1>1, <1>2, <1>3, <1>4, <1>5, MergeAssumption DEF TypeOK, Init
<1>7. Consistent(db) /\ Consistent(work)
  BY <1>1, <1>3 DEF Consistent
<1> QED  BY <1>6, <1>7 DEF IInv

\* Opening the next file, with both databases in the same committed state.
LEMMA OpenIInv ==
  ASSUME IInv, db' = work', UNCHANGED file,
         db' \in Database, Consistent(db'),
         \A k \in Kinds : db'.off[k] <= Len(file[k]),
         disk' \subseteq Tracks,
         NEW n \in Kinds \cup {"none"}, Open(n)
  PROVE  IInv'
<1>1. /\ reading' = n
      /\ upto' \in 0..MaxLines
      /\ n # "none" => upto' = Len(file[n])
  BY MergeAssumption DEF Open, IInv, TypeOK
<1>2. n # "none" => n \in Kinds /\ work'.off[n] <= upto'
  BY <1>1
<1>3. TypeOK'
  BY <1>1, <1>2 DEF TypeOK, IInv
<1>4. Consistent(db)' /\ Consistent(work)'
  BY DEF Consistent
<1> QED  BY <1>3, <1>4 DEF IInv

\* ingest_run goes from file to file, and ends after the actions.
LEMMA AfterType ==
  ASSUME NEW k \in Kinds \cup {"none"}
  PROVE  After(k) \in Kinds \cup {"none"}
BY DEF After, Kinds

\* Every step of a pass, a failed or killed one included, keeps the types and
\* the agreement of pins and overrides, in the transaction and committed.
THEOREM NextIInv == IInv /\ [Next]_vars => IInv'
<1> SUFFICES ASSUME IInv, [Next]_vars PROVE IInv'
  OBVIOUS
<1>1. ASSUME NEW k \in Kinds, NEW e \in Event, Arrive(k, e)
      PROVE  IInv'
  <2>1. /\ file' \in [Kinds -> Seq(Event)]
        /\ \A l \in Kinds : Len(file'[l]) <= MaxLines /\ Len(file[l]) <= Len(file'[l])
    <3>1. file' = [file EXCEPT ![k] = Append(@, e)] /\ Len(file[k]) < MaxLines
      BY <1>1 DEF Arrive
    <3>2. file \in [Kinds -> Seq(Event)]
      BY DEF IInv, TypeOK
    <3>3. Append(file[k], e) \in Seq(Event) /\ Len(Append(file[k], e)) = Len(file[k]) + 1
          /\ Len(file[k]) \in Nat
      BY <3>2
    <3>4. ASSUME NEW l \in Kinds
          PROVE  Len(file'[l]) <= MaxLines /\ Len(file[l]) <= Len(file'[l])
      <4>1. CASE l = k
        BY <4>1, <3>1, <3>2, <3>3, MergeAssumption
      <4>2. CASE l # k
        <5>1. file'[l] = file[l]
          BY <4>2, <3>1, <3>2
        <5>2. Len(file[l]) \in Nat /\ Len(file[l]) <= MaxLines
          BY <3>2 DEF IInv, TypeOK
        <5> QED  BY <5>1, <5>2
      <4> QED  BY <4>1, <4>2
    <3> QED  BY <3>1, <3>2, <3>3, <3>4
  <2>2. UNCHANGED <<db, work, reading, upto, disk>>
    BY <1>1 DEF Arrive
  <2>3. /\ \A l \in Kinds : db'.off[l] <= Len(file'[l]) /\ work'.off[l] <= Len(file'[l])
        /\ reading' # "none" => upto' <= Len(file'[reading'])
    <3>1. \A l \in Kinds : /\ db.off[l] \in Nat /\ work.off[l] \in Nat
                             /\ Len(file[l]) \in Nat /\ Len(file'[l]) \in Nat
      BY <2>1, MergeAssumption DEF IInv, TypeOK, Database
    <3>2. \A l \in Kinds : db.off[l] <= Len(file[l]) /\ work.off[l] <= Len(file[l])
      BY DEF IInv, TypeOK
    <3>3. reading # "none" => reading \in Kinds /\ upto \in Nat /\ upto <= Len(file[reading])
      BY MergeAssumption DEF IInv, TypeOK
    <3> QED  BY <2>1, <2>2, <3>1, <3>2, <3>3
  <2>4. TypeOK'
    BY <2>1, <2>2, <2>3 DEF IInv, TypeOK
  <2>5. Consistent(db)' /\ Consistent(work)'
    BY <2>2 DEF IInv, Consistent
  <2> QED  BY <2>4, <2>5 DEF IInv
<1>2. CASE BeginPass
  <2>1. work' = db' /\ db' = db /\ UNCHANGED <<file, disk>> /\ Open("likes")
    BY <1>2 DEF BeginPass, IInv, TypeOK
  <2> QED  BY <2>1, OpenIInv DEF IInv, TypeOK, Kinds, Consistent
<1>3. CASE ReadLine
  <2> DEFINE k == reading
             e == file[k][work.off[k] + 1]
             w == Handle(k, work, e)
  <2>1. k \in Kinds /\ work \in Database /\ work.off \in [Kinds -> 0..MaxLines]
    BY <1>3 DEF ReadLine, IInv, TypeOK, Database
  <2>2. work.off[k] < upto /\ upto <= Len(file[k]) /\ upto \in 0..MaxLines
    BY <1>3 DEF ReadLine, IInv, TypeOK
  <2>3. e \in Event
    <3>1. work.off[k] + 1 \in 1..Len(file[k]) /\ file[k] \in Seq(Event)
      BY <2>1, <2>2, MergeAssumption DEF IInv, TypeOK
    <3> QED  BY <3>1
  <2>4. w \in Database /\ w.off = work.off
    BY <2>1, <2>3, HandleType
  <2>5. Consistent(w)
    BY <2>1, <2>3, HandleConsistent DEF IInv
  <2> HIDE DEF w, e, k
  <2>6. work' = [w EXCEPT !.off[k] = @ + 1]
    BY <1>3 DEF ReadLine, w, e, k
  <2>7. work.off[k] + 1 \in 0..MaxLines /\ work.off[k] + 1 <= upto
    BY <2>1, <2>2, MergeAssumption
  <2>8. /\ work' \in Database /\ work'.off[k] <= upto
        /\ work'.override = w.override /\ work'.pins = w.pins
        /\ \A l \in Kinds : l # k => work'.off[l] = work.off[l]
    BY <2>1, <2>4, <2>6, <2>7 DEF Database
  <2>9. UNCHANGED <<file, db, reading, upto>> /\ disk' \subseteq Tracks
    BY <1>3 DEF ReadLine, IInv, TypeOK
  <2>12. \A l \in Kinds : work'.off[l] <= Len(file'[l])
    <3>1. work'.off[k] \in Nat /\ upto \in Nat /\ Len(file[k]) \in Nat
      BY <2>1, <2>2, <2>8, MergeAssumption DEF Database, IInv, TypeOK
    <3>2. work'.off[k] <= Len(file'[k])
      BY <3>1, <2>2, <2>8, <2>9
    <3>3. \A l \in Kinds : l # k => work'.off[l] <= Len(file'[l])
      BY <2>8, <2>9 DEF IInv, TypeOK
    <3> QED  BY <3>2, <3>3
  <2>10. TypeOK'
    BY <2>12, <2>1, <2>8, <2>9 DEF IInv, TypeOK, k, Kinds
  <2>11. Consistent(work)' /\ Consistent(db)'
    BY <2>5, <2>8, <2>9 DEF IInv, Consistent
  <2> QED  BY <2>10, <2>11 DEF IInv
<1>4. CASE CommitFile
  <2>1. /\ db' = work /\ work' = work /\ UNCHANGED <<file, disk>>
        /\ Open(After(reading)) /\ reading \in Kinds
    BY <1>4 DEF CommitFile, IInv, TypeOK
  <2>2. After(reading) \in Kinds \cup {"none"}
    BY <2>1, AfterType
  <2>3. \A k \in Kinds : work.off[k] <= Len(file[k])
    BY <1>4 DEF CommitFile, IInv, TypeOK
  <2> QED  BY <2>1, <2>2, <2>3, OpenIInv DEF IInv, TypeOK, Consistent
<1>5. CASE RollbackFile
  <2>1. /\ db' = db /\ work' = db /\ UNCHANGED <<file, disk>>
        /\ Open(After(reading)) /\ reading \in Kinds
    BY <1>5 DEF RollbackFile, IInv, TypeOK
  <2>2. After(reading) \in Kinds \cup {"none"}
    BY <2>1, AfterType
  <2> QED  BY <2>1, <2>2, OpenIInv DEF IInv, TypeOK, Consistent
<1>6. CASE Crash
  <2>1. /\ db' = db /\ work' = db /\ UNCHANGED <<file, disk>> /\ Open("none")
    BY <1>6 DEF Crash
  <2> QED  BY <2>1, OpenIInv DEF IInv, TypeOK, Consistent
<1>7. CASE UNCHANGED vars
  BY <1>7 DEF vars, IInv, TypeOK, Consistent
<1> QED  BY <1>1, <1>2, <1>3, <1>4, <1>5, <1>6, <1>7 DEF Next, Ingest

\* The invariant of the merge, types included.
THEOREM Invariance == Spec => []IInv
BY InitIInv, NextIInv, PTL DEF Spec

\* A track with an unsync override is never pinned in the committed database
\* (handle_pin, unsync_track): the two tables cannot disagree, for any number
\* of tracks and lines and whatever fails.
THEOREM NeverPinnedAndUnsyncedHolds == Spec => []NeverPinnedAndUnsynced
<1>1. IInv => NeverPinnedAndUnsynced
  BY DEF IInv, NeverPinnedAndUnsynced
<1> QED  BY <1>1, Invariance, PTL
-----------------------------------------------------------------------------
(* What the rows say about the lines absorbed, one track at a time: S, P and *)
(* A are the like, pin and action lines absorbed, r the row, O the overrides. *)

LikeOK(S, r) ==
  /\ \A e \in S : e.ts <= r.ts
  /\ r.ts > 0 => \E e \in S : r = [ts |-> e.ts, val |-> e.val]

PinOK(t, P, A, r, O) ==
  /\ \A e \in P : e.ts <= r.ts
  /\ r.ts > 0 => \E e \in P : e.ts = r.ts
  /\ r.val => \E e \in P : e.ts = r.ts /\ e.val
  /\ \A e \in P : (e.ts = r.ts /\ e.val /\ (\A f \in P : f = e \/ f.ts < e.ts)
                            /\ \A a \in A : a.ts < e.ts)
                 => r.val /\ t \notin O

RowOK(d, t) ==
  /\ LikeOK(Applied(d, "likes", t), d.likes[t])
  /\ PinOK(t, Applied(d, "pins", t), Applied(d, "actions", t),
           d.pins[t], d.override)

Rows(d) == \A t \in Tracks \ d.blacklist : RowOK(d, t)

\* The upsert of a like (SQL_UPSERT_LIKE).
LEMMA LikeUpsert ==
  ASSUME NEW S \in SUBSET Event, NEW r \in Row, NEW e \in Event, LikeOK(S, r)
  PROVE  LikeOK(S \cup {e}, Newer(r, e))
<1>1. r.ts \in Nat /\ e.ts \in Nat /\ \A f \in S : f.ts \in Nat
  BY MergeAssumption DEF Row, Event
<1>2. CASE e.ts >= r.ts
  <2>1. Newer(r, e) = [ts |-> e.ts, val |-> e.val]
    BY <1>2 DEF Newer
  <2> QED  BY <1>1, <1>2, <2>1 DEF LikeOK
<1>3. CASE ~(e.ts >= r.ts)
  <2>1. Newer(r, e) = r
    BY <1>3 DEF Newer
  <2> QED  BY <1>1, <1>3, <2>1 DEF LikeOK
<1> QED  BY <1>2, <1>3

\* The upsert of a pin (SQL_UPSERT_PIN) and the DELETE of the override.
LEMMA PinUpsert ==
  ASSUME NEW t \in Tracks, NEW P \in SUBSET Event, NEW A \in SUBSET Event,
         NEW r \in Row, NEW O \in SUBSET Tracks, NEW e \in Event,
         PinOK(t, P, A, r, O),
         NEW O2, O2 = IF e.val THEN O \ {t} ELSE O
  PROVE  PinOK(t, P \cup {e}, A, Newer(r, e), O2)
<1>1. /\ r.ts \in Nat /\ e.ts \in Nat /\ e.ts > 0 /\ e.val \in BOOLEAN
      /\ \A f \in P : f.ts \in Nat
  BY MergeAssumption DEF Row, Event
<1>2. CASE e.ts >= r.ts
  <2>1. Newer(r, e).ts = e.ts /\ Newer(r, e).val = e.val
    BY <1>2 DEF Newer
  <2> QED  BY <1>1, <1>2, <2>1 DEF PinOK
<1>3. CASE ~(e.ts >= r.ts)
  <2>1. Newer(r, e) = r
    BY <1>3 DEF Newer
  <2> QED  BY <1>1, <1>3, <2>1 DEF PinOK
<1> QED  BY <1>2, <1>3

\* unsync_track behind the gate.
LEMMA UnsyncRow ==
  ASSUME NEW t \in Tracks, NEW P \in SUBSET Event, NEW A \in SUBSET Event,
         NEW r \in Row, NEW O \in SUBSET Tracks, NEW e \in Event,
         PinOK(t, P, A, r, O), NEW r2, NEW O2,
         r.ts > e.ts => r2 = r /\ O2 = O,
         ~(r.ts > e.ts) => r2 = [r EXCEPT !.val = FALSE] /\ O2 = O \cup {t}
  PROVE  PinOK(t, P, A \cup {e}, r2, O2)
<1>1. /\ r.ts \in Nat /\ e.ts \in Nat /\ \A f \in P : f.ts \in Nat
      /\ [r EXCEPT !.val = FALSE].ts = r.ts /\ [r EXCEPT !.val = FALSE].val = FALSE
  BY MergeAssumption DEF Row, Event
<1>2. CASE r.ts > e.ts
  BY <1>1, <1>2 DEF PinOK
<1>3. CASE ~(r.ts > e.ts)
  BY <1>1, <1>3 DEF PinOK
<1> QED  BY <1>2, <1>3

\* d2 has absorbed one line more than d: the line e of kind k.
Absorbs(d2, d, k, e) == /\ d2.off = [d.off EXCEPT ![k] = @ + 1]
                        /\ e = file[k][d.off[k] + 1]

\* It is added to the lines of its kind and track, and to no others.
LEMMA AbsorbOne ==
  ASSUME NEW k \in Kinds, NEW w \in Database, NEW w2, NEW e, Absorbs(w2, w, k, e),
         NEW l \in Kinds, NEW t \in Tracks
  PROVE  Applied(w2, l, t) = IF l = k /\ e.id = t THEN Applied(w, l, t) \cup {e}
                             ELSE Applied(w, l, t)
<1> DEFINE n == w.off[k]
           Mine(m) == {j \in 1..m : file[k][j].id = t}
<1>1. w.off \in [Kinds -> 0..MaxLines]
  BY DEF Database
<1>2. n \in Nat /\ w2.off[k] = n + 1 /\ 1..(n + 1) = 1..n \cup {n + 1}
      /\ e = file[k][n + 1]
  BY <1>1, MergeAssumption DEF Absorbs
<1>3. CASE l = k
  <2>1. Applied(w2, k, t) = {file[k][i] : i \in Mine(n + 1)}
    BY <1>2 DEF Applied
  <2>2. Applied(w, k, t) = {file[k][i] : i \in Mine(n)}
    BY DEF Applied
  <2>3. Mine(n + 1) = IF e.id = t THEN Mine(n) \cup {n + 1} ELSE Mine(n)
    BY <1>2
  <2> HIDE DEF n, Mine
  <2>4. CASE e.id = t
    BY <1>2, <1>3, <2>1, <2>2, <2>3, <2>4
  <2>5. CASE e.id # t
    BY <1>3, <2>1, <2>2, <2>3, <2>5
  <2> QED  BY <2>4, <2>5
<1>4. CASE l # k
  <2>1. w2.off[l] = w.off[l]
    BY <1>1, <1>4 DEF Absorbs
  <2> QED  BY <1>4, <2>1 DEF Applied
<1> QED  BY <1>3, <1>4

\* A handler changes the rows of the track it is about only, and never takes
\* a track off the blacklist.
LEMMA HandleOthers ==
  ASSUME NEW k \in Kinds, NEW w \in Database, NEW e \in Event, NEW t \in Tracks
  PROVE  /\ t \in w.blacklist => t \in Handle(k, w, e).blacklist
         /\ t # e.id => /\ Handle(k, w, e).likes[t] = w.likes[t]
                        /\ Handle(k, w, e).pins[t] = w.pins[t]
                        /\ t \in Handle(k, w, e).override <=> t \in w.override
<1> DEFINE Keeps(v) == /\ t \in w.blacklist => t \in v.blacklist
                       /\ t # e.id => /\ v.likes[t] = w.likes[t]
                                      /\ v.pins[t] = w.pins[t]
                                      /\ t \in v.override <=> t \in w.override
<1> USE DEF Database
<1>1. Keeps(HandleLike(w, e))
  BY DEF HandleLike
<1>2. Keeps(HandlePin(w, e))
  BY DEF HandlePin
<1>3. Keeps(UnsyncTrack(w, e))
  BY DEF UnsyncTrack
<1>4. Keeps(DeleteTrack(w, e))
  BY DEF DeleteTrack
<1>5. Keeps(Handle(k, w, e))
  <2> HIDE DEF Keeps
  <2> QED  BY <1>1, <1>2, <1>3, <1>4 DEF Handle
<1> QED  BY <1>5

\* What each handler writes for its own track.
LEMMA LikeOwn ==
  ASSUME NEW w \in Database, NEW e \in Event, NEW h, h = HandleLike(w, e)
  PROVE  /\ h.likes[e.id] = Newer(w.likes[e.id], e)
         /\ h.pins = w.pins /\ h.override = w.override
BY DEF HandleLike, Database, Event

LEMMA PinOwn ==
  ASSUME NEW w \in Database, NEW e \in Event, e.id \notin w.blacklist,
         NEW h, h = HandlePin(w, e)
  PROVE  /\ h.likes = w.likes
         /\ h.pins[e.id] = Newer(w.pins[e.id], e)
         /\ h.override = IF e.val THEN w.override \ {e.id} ELSE w.override
BY DEF HandlePin, Database, Event

LEMMA UnsyncOwn ==
  ASSUME NEW w \in Database, NEW e \in Event, NEW h, h = UnsyncTrack(w, e)
  PROVE  /\ h.likes = w.likes
         /\ w.pins[e.id].ts > e.ts => h = w
         /\ ~(w.pins[e.id].ts > e.ts) =>
              /\ h.pins[e.id] = [w.pins[e.id] EXCEPT !.val = FALSE]
              /\ h.override = w.override \cup {e.id}
BY DEF UnsyncTrack, Database, Event

LEMMA DeleteOwn ==
  ASSUME NEW w \in Database, NEW e \in Event, NEW h, h = DeleteTrack(w, e)
  PROVE  e.id \in h.blacklist
BY DEF DeleteTrack, Database, Event

\* What was absorbed came from the file.
LEMMA AppliedType ==
  ASSUME file \in [Kinds -> Seq(Event)], NEW w \in Database, NEW k \in Kinds,
         w.off[k] <= Len(file[k]), NEW t \in Tracks
  PROVE  Applied(w, k, t) \in SUBSET Event
<1>1. file[k] \in Seq(Event) /\ w.off[k] \in Nat
  BY MergeAssumption DEF Database
<1>2. \A j \in 1..w.off[k] : file[k][j] \in Event
  BY <1>1
<1> QED  BY <1>2 DEF Applied

\* A row of another track stays right: neither it nor its lines change.
LEMMA RowOther ==
  ASSUME NEW w, NEW w2, NEW t, RowOK(w, t),
         w2.likes[t] = w.likes[t], w2.pins[t] = w.pins[t],
         t \in w2.override <=> t \in w.override,
         Applied(w2, "likes", t) = Applied(w, "likes", t),
         Applied(w2, "pins", t) = Applied(w, "pins", t),
         Applied(w2, "actions", t) = Applied(w, "actions", t)
  PROVE  RowOK(w2, t)
BY DEF RowOK, PinOK

\* Absorbing one line keeps every row right, whatever its kind.
LEMMA HandleRows ==
  ASSUME file \in [Kinds -> Seq(Event)],
         NEW k \in Kinds, NEW w \in Database, Rows(w),
         \A l \in Kinds : w.off[l] <= Len(file[l]),
         NEW e \in Event, NEW h, h = Handle(k, w, e),
         NEW w2, Absorbs(w2, w, k, e),
         w2.likes = h.likes, w2.pins = h.pins,
         w2.override = h.override, w2.blacklist = h.blacklist
  PROVE  Rows(w2)
<1> SUFFICES ASSUME NEW t \in Tracks \ w2.blacklist
             PROVE  RowOK(w2, t)
  BY DEF Rows
<1> DEFINE L == Applied(w, "likes", t)
           P == Applied(w, "pins", t)
           A == Applied(w, "actions", t)
<1>1. /\ t \in Tracks /\ t \notin w2.blacklist /\ t \notin w.blacklist
      /\ t # e.id => /\ w2.likes[t] = w.likes[t] /\ w2.pins[t] = w.pins[t]
                     /\ t \in w2.override <=> t \in w.override
  BY HandleOthers
<1>2. RowOK(w, t) /\ LikeOK(L, w.likes[t]) /\ PinOK(t, P, A, w.pins[t], w.override)
  BY <1>1 DEF Rows, RowOK
<1>3. /\ L \in SUBSET Event /\ P \in SUBSET Event /\ A \in SUBSET Event
      /\ w.likes[t] \in Row /\ w.pins[t] \in Row /\ w.override \in SUBSET Tracks
  <2>1. L \in SUBSET Event /\ P \in SUBSET Event /\ A \in SUBSET Event
    BY <1>1, AppliedType DEF Kinds
  <2> QED  BY <1>1, <2>1 DEF Database
<1>4. \A l \in Kinds : Applied(w2, l, t) =
        IF l = k /\ e.id = t THEN Applied(w, l, t) \cup {e} ELSE Applied(w, l, t)
  BY <1>1, AbsorbOne
<1>5. /\ "likes" \in Kinds /\ "pins" \in Kinds /\ "actions" \in Kinds
      /\ k \in {"likes", "pins", "actions"}
  BY DEF Kinds
<1>6. CASE t # e.id
  BY <1>1, <1>2, <1>4, <1>5, <1>6, RowOther
<1> HIDE DEF L, P, A
<1>7. CASE t = e.id /\ k = "likes"
  <2>1. h = HandleLike(w, e)
    BY <1>7 DEF Handle
  <2>2. /\ w2.likes[t] = Newer(w.likes[t], e)
        /\ w2.pins = w.pins /\ w2.override = w.override
    BY <1>7, <2>1, LikeOwn
  <2>3. LikeOK(L \cup {e}, w2.likes[t]) /\ PinOK(t, P, A, w2.pins[t], w2.override)
    BY <1>2, <1>3, <2>2, LikeUpsert
  <2> QED  BY <1>4, <1>5, <1>7, <2>3 DEF RowOK, L, P, A
<1>8. CASE t = e.id /\ k = "pins"
  <2>1. h = HandlePin(w, e)
    BY <1>8 DEF Handle
  <2>2. /\ w2.likes = w.likes /\ w2.pins[t] = Newer(w.pins[t], e)
        /\ w2.override = IF e.val THEN w.override \ {t} ELSE w.override
    <3>1. e.id \notin w.blacklist
      BY <1>1, <1>8
    <3>2. /\ h.likes = w.likes /\ h.pins[e.id] = Newer(w.pins[e.id], e)
          /\ h.override = IF e.val THEN w.override \ {e.id} ELSE w.override
      BY <2>1, <3>1, PinOwn
    <3> QED  BY <1>8, <3>2
  <2>3. PinOK(t, P \cup {e}, A, Newer(w.pins[t], e), w2.override)
    BY <1>1, <1>2, <1>3, <2>2, PinUpsert
  <2>4. LikeOK(L, w2.likes[t])
    BY <1>2, <2>2
  <2> QED  BY <1>4, <1>5, <1>8, <2>2, <2>3, <2>4 DEF RowOK, L, P, A
<1>9. CASE t = e.id /\ k = "actions"
  <2>1. CASE e.val
    <3>1. h = DeleteTrack(w, e)
      BY <1>9, <2>1 DEF Handle
    <3> QED  BY <1>1, <1>9, <3>1, DeleteOwn
  <2>2. CASE ~e.val
    <3>1. h = UnsyncTrack(w, e)
      BY <1>9, <2>2 DEF Handle
    <3>2. /\ w2.likes = w.likes
          /\ w.pins[t].ts > e.ts => w2.pins = w.pins /\ w2.override = w.override
          /\ ~(w.pins[t].ts > e.ts) =>
               /\ w2.pins[t] = [w.pins[t] EXCEPT !.val = FALSE]
               /\ w2.override = w.override \cup {t}
      BY <1>9, <3>1, UnsyncOwn
    <3>3. /\ w.pins[t].ts > e.ts =>
               w2.pins[t] = w.pins[t] /\ w2.override = w.override
          /\ ~(w.pins[t].ts > e.ts) =>
               /\ w2.pins[t] = [w.pins[t] EXCEPT !.val = FALSE]
               /\ w2.override = w.override \cup {t}
      BY <3>2
    <3>4. PinOK(t, P, A \cup {e}, w2.pins[t], w2.override)
      BY <1>1, <1>2, <1>3, <3>3, UnsyncRow
    <3>5. LikeOK(L, w2.likes[t])
      BY <1>2, <3>2
    <3> QED  BY <1>4, <1>5, <1>9, <3>4, <3>5 DEF RowOK, L, P, A
  <2> QED  BY <2>1, <2>2
<1> QED  BY <1>5, <1>6, <1>7, <1>8, <1>9
-----------------------------------------------------------------------------
\* Every row of both databases is right about the lines absorbed.
RInv == IInv /\ Rows(db) /\ Rows(work)

\* Nothing has been absorbed in a library that was only scanned.
THEOREM InitRInv == Init => RInv
<1> SUFFICES ASSUME Init PROVE RInv
  OBVIOUS
<1>1. IInv
  BY InitIInv
<1>2. /\ work = db /\ db.off = [k \in Kinds |-> 0]
      /\ db.likes = [t \in Tracks |-> NoRow] /\ db.pins = [t \in Tracks |-> NoRow]
  BY DEF Init
<1>3. ASSUME NEW t \in Tracks
      PROVE  RowOK(db, t)
  <2>1. \A k \in Kinds : Applied(db, k, t) = {}
    BY <1>2 DEF Applied
  <2>2. "likes" \in Kinds /\ "pins" \in Kinds /\ "actions" \in Kinds
    BY DEF Kinds
  <2> QED  BY <1>2, <2>1, <2>2 DEF RowOK, LikeOK, PinOK, NoRow
<1> QED  BY <1>1, <1>2, <1>3 DEF RInv, Rows

\* Lines that arrive change nothing of what was absorbed before.
LEMMA ArriveRows ==
  ASSUME TypeOK, NEW k \in Kinds, NEW e \in Event, Arrive(k, e),
         NEW d \in Database, \A l \in Kinds : d.off[l] <= Len(file[l])
  PROVE  \A l \in Kinds, t \in Tracks : Applied(d, l, t)' = Applied(d, l, t)
<1> SUFFICES ASSUME NEW l \in Kinds, NEW t \in Tracks
             PROVE  Applied(d, l, t)' = Applied(d, l, t)
  OBVIOUS
<1>1. file \in [Kinds -> Seq(Event)] /\ file' = [file EXCEPT ![k] = Append(@, e)]
  BY DEF TypeOK, Arrive
<1>2. d.off[l] \in Nat /\ d.off[l] <= Len(file[l]) /\ Len(file[l]) \in Nat
  BY <1>1, MergeAssumption DEF Database
<1>3. \A j \in 1..d.off[l] : file'[l][j] = file[l][j]
  <2>1. CASE l = k
    <3>1. file'[l] = Append(file[l], e) /\ file[l] \in Seq(Event)
      BY <1>1, <2>1
    <3>2. \A j \in 1..Len(file[l]) : Append(file[l], e)[j] = file[l][j]
      BY <3>1
    <3> QED  BY <1>2, <3>1, <3>2
  <2>2. CASE l # k
    BY <1>1, <2>2
  <2> QED  BY <2>1, <2>2
<1> QED  BY <1>3 DEF Applied

\* Every step keeps the rows right: an arriving line is not absorbed yet, a
\* line read is absorbed with its handler's writes, and a commit, a rollback
\* or a crash replaces one of the databases by the other.
THEOREM NextRInv == RInv /\ [Next]_vars => RInv'
<1> SUFFICES ASSUME RInv, [Next]_vars PROVE RInv'
  OBVIOUS
<1>1. IInv'
  BY NextIInv DEF RInv
<1> SUFFICES Rows(db)' /\ Rows(work)'
  BY <1>1 DEF RInv
<1>2. ASSUME NEW k \in Kinds, NEW e \in Event, Arrive(k, e)
      PROVE  Rows(db)' /\ Rows(work)'
  <2>1. db' = db /\ work' = work
    BY <1>2 DEF Arrive
  <2>2. "likes" \in Kinds /\ "pins" \in Kinds /\ "actions" \in Kinds
    BY DEF Kinds
  <2>3. TypeOK /\ db \in Database /\ work \in Database
        /\ \A l \in Kinds : db.off[l] <= Len(file[l]) /\ work.off[l] <= Len(file[l])
    BY DEF RInv, IInv, TypeOK
  <2>4. \A l \in Kinds, t \in Tracks : Applied(db, l, t)' = Applied(db, l, t)
    BY <1>2, <2>1, <2>3, ArriveRows DEF Applied
  <2>5. \A l \in Kinds, t \in Tracks : Applied(work, l, t)' = Applied(work, l, t)
    BY <1>2, <2>1, <2>3, ArriveRows DEF Applied
  <2> QED  BY <2>1, <2>2, <2>4, <2>5 DEF RInv, Rows, RowOK
<1>3. CASE ReadLine
  <2> DEFINE k == reading
             e == file[k][work.off[k] + 1]
             h == Handle(k, work, e)
  <2>1. /\ k \in Kinds /\ work \in Database /\ file \in [Kinds -> Seq(Event)]
        /\ work.off[k] < upto /\ upto <= Len(file[k]) /\ upto \in 0..MaxLines
        /\ \A l \in Kinds : work.off[l] <= Len(file[l])
    BY <1>3 DEF ReadLine, RInv, IInv, TypeOK
  <2>2. e \in Event
    <3>1. work.off[k] + 1 \in 1..Len(file[k]) /\ file[k] \in Seq(Event)
      BY <2>1, MergeAssumption DEF Database
    <3> QED  BY <3>1
  <2>3. h \in Database /\ h.off = work.off
    BY <2>1, <2>2, HandleType
  <2>4. work' = [h EXCEPT !.off[k] = @ + 1] /\ UNCHANGED <<file, db>>
    BY <1>3 DEF ReadLine
  <2>5. h = Handle(k, work, e) /\ e = file[k][work.off[k] + 1]
    OBVIOUS
  <2> HIDE DEF h, e, k
  <2>6. /\ work'.likes = h.likes /\ work'.pins = h.pins
        /\ work'.override = h.override /\ work'.blacklist = h.blacklist
        /\ Absorbs(work', work, k, e)
    BY <2>3, <2>4, <2>5 DEF Database, Absorbs
  <2>7. \A w2 : w2 = work' => Rows(w2)
    BY <2>1, <2>2, <2>5, <2>6, HandleRows DEF RInv
  <2>8. Rows(work)'
    BY <2>4, <2>7 DEF Rows, RowOK, Applied
  <2>9. Rows(db)'
    BY <2>4 DEF RInv, Rows, RowOK, Applied
  <2> QED  BY <2>8, <2>9
<1>4. ASSUME UNCHANGED file, db' \in {db, work}, work' \in {db, work}
      PROVE  Rows(db)' /\ Rows(work)'
  BY <1>4 DEF RInv, Rows, RowOK, Applied
<1>5. CASE BeginPass
  BY <1>4, <1>5 DEF BeginPass
<1>6. CASE CommitFile
  BY <1>4, <1>6 DEF CommitFile
<1>7. CASE RollbackFile
  BY <1>4, <1>7 DEF RollbackFile
<1>8. CASE Crash
  BY <1>4, <1>8 DEF Crash
<1>9. CASE UNCHANGED vars
  BY <1>4, <1>9 DEF vars
<1> QED
  BY <1>2, <1>3, <1>5, <1>6, <1>7, <1>8, <1>9 DEF Next, Ingest

\* Rows that are right say what the properties state.
LEMMA RowsSay ==
  ASSUME NEW d \in Database, Rows(d), file \in [Kinds -> Seq(Event)],
         \A k \in Kinds : d.off[k] <= Len(file[k])
  PROVE  NewestWins(d) /\ PinHolds(d)
<1>1. ASSUME NEW t \in Tracks, t \notin d.blacklist
      PROVE  /\ LikeOK(Applied(d, "likes", t), d.likes[t])
             /\ PinOK(t, Applied(d, "pins", t), Applied(d, "actions", t),
                      d.pins[t], d.override)
             /\ Applied(d, "pins", t) \in SUBSET Event
             /\ Applied(d, "actions", t) \in SUBSET Event
             /\ d.pins[t] \in Row
  BY <1>1, AppliedType DEF Rows, RowOK, Kinds, Database
<1>2. NewestWins(d)
  BY <1>1 DEF NewestWins, LikeOK, PinOK
<1>3. ASSUME NEW t \in Tracks, t \notin d.blacklist,
             NEW e \in Applied(d, "pins", t),
             \A f \in Applied(d, "pins", t) : f = e \/ f.ts < e.ts,
             e.val, \A a \in Applied(d, "actions", t) : a.ts < e.ts
      PROVE  d.pins[t].val /\ t \notin d.override
  <2> DEFINE P == Applied(d, "pins", t)
             r == d.pins[t]
  <2>1. /\ P \in SUBSET Event /\ r \in Row
        /\ PinOK(t, P, Applied(d, "actions", t), r, d.override)
    BY <1>1, <1>3
  <2> HIDE DEF P, r
  <2>2. e \in P /\ \A f \in P : f = e \/ f.ts < e.ts
    BY <1>3 DEF P
  <2>3. e.ts \in Nat /\ e.ts > 0 /\ r.ts \in Nat /\ \A f \in P : f.ts \in Nat
    BY <2>1, <2>2, MergeAssumption DEF Event, Row
  <2>4. e.ts <= r.ts
    BY <2>1, <2>2 DEF PinOK
  <2>5. PICK f \in P : f.ts = r.ts
    BY <2>1, <2>3, <2>4 DEF PinOK
  <2>6. e.ts = r.ts
    BY <2>2, <2>3, <2>4, <2>5
  <2> QED  BY <1>3, <2>1, <2>2, <2>6 DEF PinOK, r
<1>4. PinHolds(d)
  BY <1>3 DEF PinHolds
<1> QED  BY <1>2, <1>4

\* The rows are right in every state of a pass.
LEMMA RowsInvariant == Spec => []RInv
BY InitRInv, NextRInv, PTL DEF Spec

\* Last writer wins whatever the order of arrival, and whatever rolls back or
\* crashes in between: the committed row of a like or a pin carries the newest
\* ts among the lines absorbed (SQL_UPSERT_LIKE, SQL_UPSERT_PIN, INGEST-03).
THEOREM NewestLineWinsHolds == Spec => []NewestLineWins
<1>1. RInv => NewestLineWins
  BY RowsSay DEF RInv, IInv, TypeOK, NewestLineWins
<1> QED  BY <1>1, RowsInvariant, PTL

\* The gate of handle_action works for every order of arrival: a pin that is
\* newer than every unsync absorbed stays pinned and is not overridden.
THEOREM PinOutlivesStaleUnsyncHolds == Spec => []PinOutlivesStaleUnsync
<1>1. RInv => PinOutlivesStaleUnsync
  BY RowsSay DEF RInv, IInv, TypeOK, PinOutlivesStaleUnsync
<1> QED  BY <1>1, RowsInvariant, PTL
-----------------------------------------------------------------------------
\* The transaction has lost no track of the committed blacklist, and pinned
\* none of them.
Final(d, d2) == \A t \in d.blacklist :
                  t \in d2.blacklist /\ (d2.pins[t].val => d.pins[t].val)
BInv == IInv /\ Final(db, work)

\* No handler pins a track that is on the blacklist, or takes it off.
LEMMA HandleFinal ==
  ASSUME NEW k \in Kinds, NEW w \in Database, NEW e \in Event, NEW d \in Database,
         Final(d, w)
  PROVE  Final(d, Handle(k, w, e))
<1> USE DEF Final, Database
<1>1. Final(d, HandleLike(w, e))
  BY DEF HandleLike
<1>2. Final(d, HandlePin(w, e))
  BY DEF HandlePin
<1>3. Final(d, UnsyncTrack(w, e))
  BY DEF UnsyncTrack
<1>4. Final(d, DeleteTrack(w, e))
  BY DEF DeleteTrack, NoRow
<1> HIDE DEF Final, Database
<1> QED  BY <1>1, <1>2, <1>3, <1>4 DEF Handle

\* A deleted track stays deleted and is never pinned again, whatever lines
\* come later and whatever fails (delete_track_everywhere, handle_pin).
THEOREM NeverRepinnedHolds == Spec => NeverRepinned
<1>1. Init => BInv
  BY InitIInv DEF BInv, Final, Init
<1>2. BInv /\ [Next]_vars => BInv' /\ [Final(db, db')]_vars
  <2> SUFFICES ASSUME BInv, [Next]_vars PROVE BInv' /\ Final(db, db')
    OBVIOUS
  <2>1. IInv'
    BY NextIInv DEF BInv
  <2>2. CASE ReadLine
    <3> DEFINE k == reading
               e == file[k][work.off[k] + 1]
               h == Handle(k, work, e)
    <3>1. /\ k \in Kinds /\ work \in Database /\ db \in Database
          /\ file \in [Kinds -> Seq(Event)] /\ work.off[k] \in Nat
          /\ work.off[k] < upto /\ upto <= Len(file[k]) /\ upto \in Nat
      BY <2>2, MergeAssumption DEF ReadLine, BInv, IInv, TypeOK, Database
    <3>2. e \in Event
      <4>1. work.off[k] + 1 \in 1..Len(file[k]) /\ file[k] \in Seq(Event)
        BY <3>1
      <4> QED  BY <4>1
    <3>3. Final(db, h) /\ h \in Database
      BY <3>1, <3>2, HandleFinal, HandleType DEF BInv
    <3>4. work' = [h EXCEPT !.off[k] = @ + 1] /\ db' = db
      BY <2>2 DEF ReadLine
    <3> HIDE DEF h, e, k
    <3>5. work'.blacklist = h.blacklist /\ work'.pins = h.pins
      BY <3>3, <3>4 DEF Database
    <3> QED  BY <2>1, <3>3, <3>4, <3>5 DEF BInv, Final
  <2>3. ASSUME db' = db, work' \in {db, work}
        PROVE  BInv' /\ Final(db, db')
    BY <2>1, <2>3 DEF BInv, Final
  <2>4. CASE \E k \in Kinds, e \in Event : Arrive(k, e)
    BY <2>3, <2>4 DEF Arrive
  <2>5. CASE BeginPass
    BY <2>3, <2>5 DEF BeginPass
  <2>6. CASE CommitFile
    BY <2>1, <2>6 DEF CommitFile, BInv, Final
  <2>7. CASE RollbackFile
    BY <2>3, <2>7 DEF RollbackFile
  <2>8. CASE Crash
    BY <2>3, <2>8 DEF Crash
  <2>9. CASE UNCHANGED vars
    BY <2>3, <2>9 DEF vars
  <2> QED  BY <2>2, <2>4, <2>5, <2>6, <2>7, <2>8, <2>9 DEF Next, Ingest
<1>3. [Final(db, db')]_vars =>
        [\A t \in db.blacklist :
           t \in db'.blacklist /\ (db'.pins[t].val => db.pins[t].val)]_vars
  BY DEF Final
<1> QED  BY <1>1, <1>2, <1>3, PTL DEF Spec, NeverRepinned
-----------------------------------------------------------------------------
\* Database d has yet to read a line that asks for the delete of the track.
Asked(i, t) == file["actions"][i].id = t /\ file["actions"][i].val
Pending(d, t) == \E i \in (d.off["actions"] + 1)..Len(file["actions"]) : Asked(i, t)

\* A row whose file is gone has its delete ahead of it, both in what is
\* committed and in what the transaction sees; and the transaction is never
\* behind what is committed, so the line it has acted upon is ahead of that.
Sticks(d) == \A t \in Tracks \ disk : t \in d.tracks => Pending(d, t)
SInv == Sticks(db) /\ Sticks(work) /\ db.off["actions"] <= work.off["actions"]

\* A handler drops the row of a track only when it deletes it.
LEMMA HandleTracks ==
  ASSUME NEW k \in Kinds, NEW w \in Database, NEW e \in Event
  PROVE  Handle(k, w, e).tracks = IF k = "actions" /\ e.val THEN w.tracks \ {e.id} ELSE w.tracks
BY DEF Handle, HandleLike, HandlePin, UnsyncTrack, DeleteTrack, Database, Kinds

\* A line read by the transaction, the unlink of a delete included, leaves
\* behind no row without a file and without a delete ahead of it.
LEMMA ReadSticks ==
  ASSUME IInv, SInv, ReadLine
  PROVE  SInv'
<1> DEFINE k == reading
           e == file[k][work.off[k] + 1]
           h == Handle(k, work, e)
<1>1. /\ k \in Kinds /\ work \in Database /\ db \in Database
      /\ file \in [Kinds -> Seq(Event)] /\ work.off[k] < upto /\ upto <= Len(file[k])
      /\ upto \in Nat /\ "actions" \in Kinds
  BY MergeAssumption DEF ReadLine, IInv, TypeOK, Database, Kinds
<1>2. /\ work.off \in [Kinds -> Nat] /\ db.off["actions"] \in Nat /\ Len(file["actions"]) \in Nat
  BY <1>1, MergeAssumption DEF Database
<1>3. e \in Event
  <2>1. work.off[k] + 1 \in 1..Len(file[k]) /\ file[k] \in Seq(Event)
    BY <1>1, <1>2
  <2> QED  BY <2>1
<1>4. h \in Database /\ h.off = work.off
      /\ h.tracks = IF k = "actions" /\ e.val THEN work.tracks \ {e.id} ELSE work.tracks
  BY <1>1, <1>3, HandleType, HandleTracks
<1>5. /\ work' = [h EXCEPT !.off[k] = @ + 1] /\ db' = db /\ file' = file
      /\ \/ disk' = disk
         \/ disk' = disk \ {e.id} /\ k = "actions" /\ e.val
  BY DEF ReadLine
<1> HIDE DEF h
<1>6. work'.tracks = h.tracks /\ work'.off = [work.off EXCEPT ![k] = @ + 1]
  BY <1>4, <1>5 DEF Database
<1>7. /\ work'.off["actions"] =
           IF k = "actions" THEN work.off["actions"] + 1 ELSE work.off["actions"]
      /\ work.off["actions"] \in Nat
  BY <1>1, <1>2, <1>6
<1>8. db'.off["actions"] <= work'.off["actions"]
  BY <1>2, <1>5, <1>7 DEF SInv
<1>9. Sticks(work)'
  <2> SUFFICES ASSUME NEW t \in Tracks \ disk', t \in work'.tracks
               PROVE  Pending(work, t)'
    BY DEF Sticks
  <2>1. t \in work.tracks /\ ~(k = "actions" /\ e.val /\ t = e.id)
    BY <1>4, <1>6
  <2>2. t \notin disk
    BY <1>5, <2>1
  <2>3. PICK i \in (work.off["actions"] + 1)..Len(file["actions"]) : Asked(i, t)
    BY <2>1, <2>2 DEF SInv, Sticks, Pending
  <2>4. k = "actions" => i # work.off["actions"] + 1
    BY <2>1, <2>3 DEF Asked
  <2>5. i \in (work'.off["actions"] + 1)..Len(file'["actions"])
    BY <1>2, <1>5, <1>7, <2>3, <2>4
  <2>6. Asked(i, t)'
    BY <1>5, <2>3 DEF Asked
  <2> QED  BY <2>5, <2>6 DEF Pending
<1>10. Sticks(db)'
  <2> SUFFICES ASSUME NEW t \in Tracks \ disk', t \in db.tracks
               PROVE  Pending(db, t)
    BY <1>5 DEF Sticks, Pending, Asked
  <2>1. CASE t \notin disk
    BY <2>1 DEF SInv, Sticks
  <2>2. CASE t \in disk
    <3> DEFINE n == work.off["actions"] + 1
    <3>1. k = "actions" /\ e.val /\ t = e.id
      BY <1>5, <2>2
    <3>2. Asked(n, t)
      BY <3>1 DEF Asked
    <3>3. n \in (db.off["actions"] + 1)..Len(file["actions"])
      BY <1>1, <1>2, <3>1 DEF SInv
    <3> QED  BY <3>2, <3>3 DEF Pending
  <2> QED  BY <2>1, <2>2
<1> QED  BY <1>8, <1>9, <1>10 DEF SInv

\* A file is removed only for a delete that sticks, whatever rolls back or
\* crashes between the unlink and the commit: the row goes with it, or the line
\* that asked for it will be read again (delete_track_everywhere).
THEOREM DeleteSticksHolds == Spec => []DeleteSticks
<1>1. Init => SInv
  BY MergeAssumption DEF Init, SInv, Sticks, Kinds
<1>2. IInv /\ SInv /\ [Next]_vars => SInv'
  <2> SUFFICES ASSUME IInv, SInv, [Next]_vars PROVE SInv'
    OBVIOUS
  <2>1. db.off["actions"] \in 0..MaxLines /\ work.off["actions"] \in 0..MaxLines
    BY MergeAssumption DEF IInv, TypeOK, Database, Kinds
  <2>2. ASSUME NEW k \in Kinds, NEW e \in Event, Arrive(k, e)
        PROVE  SInv'
    <3>1. /\ db' = db /\ work' = work /\ disk' = disk
          /\ file' = [file EXCEPT ![k] = Append(@, e)] /\ file \in [Kinds -> Seq(Event)]
      BY <2>2 DEF Arrive, IInv, TypeOK
    <3>2. /\ Len(file["actions"]) \in Nat /\ Len(file["actions"]) <= Len(file'["actions"])
          /\ Len(file'["actions"]) \in Nat
          /\ \A i \in 1..Len(file["actions"]) : file'["actions"][i] = file["actions"][i]
      <4>1. file["actions"] \in Seq(Event) /\ file'["actions"] =
              IF k = "actions" THEN Append(file["actions"], e) ELSE file["actions"]
        BY <3>1 DEF Kinds
      <4> QED  BY <4>1
    <3>3. ASSUME NEW d \in {db, work}, NEW t \in Tracks, Pending(d, t)
          PROVE  \E i \in (d.off["actions"] + 1)..Len(file'["actions"]) : Asked(i, t)'
      <4>1. PICK i \in (d.off["actions"] + 1)..Len(file["actions"]) : Asked(i, t)
        BY <3>3 DEF Pending
      <4>2. i \in 1..Len(file["actions"])
            /\ i \in (d.off["actions"] + 1)..Len(file'["actions"])
        BY <2>1, <3>2, <4>1, MergeAssumption
      <4> QED  BY <3>2, <4>1, <4>2 DEF Asked
    <3> QED  BY <3>1, <3>3 DEF SInv, Sticks, Pending
  <2>3. CASE ReadLine
    BY <2>3, ReadSticks
  <2>4. ASSUME UNCHANGED <<file, disk>>, db' \in {db, work}, work' \in {db', work},
               db' = db \/ work' = db'
        PROVE  SInv'
    BY <2>1, <2>4, MergeAssumption DEF SInv, Sticks, Pending, Asked
  <2>5. CASE BeginPass
    BY <2>4, <2>5 DEF BeginPass
  <2>6. CASE CommitFile
    BY <2>4, <2>6 DEF CommitFile
  <2>7. CASE RollbackFile
    BY <2>4, <2>7 DEF RollbackFile
  <2>8. CASE Crash
    BY <2>4, <2>8 DEF Crash
  <2>9. CASE UNCHANGED vars
    BY <2>4, <2>9 DEF vars
  <2> QED  BY <2>2, <2>3, <2>5, <2>6, <2>7, <2>8, <2>9 DEF Next, Ingest
<1>3. SInv => DeleteSticks
  BY DEF SInv, Sticks, Pending, Asked, DeleteSticks
<1> QED  BY <1>1, <1>2, <1>3, Invariance, PTL DEF Spec
-----------------------------------------------------------------------------
\* A delete that a database has absorbed is on its blacklist.
Deleted(d) == \A t \in Tracks : \A e \in Applied(d, "actions", t) :
                e.val => t \in d.blacklist
DInv == IInv /\ Deleted(db) /\ Deleted(work)

\* A line read keeps to that: the handler of a delete blacklists its track, and
\* none takes a track off the blacklist.
LEMMA ReadDeleted ==
  ASSUME DInv, ReadLine
  PROVE  Deleted(work)'
<1> DEFINE k == reading
           e == file[k][work.off[k] + 1]
           h == Handle(k, work, e)
<1>1. /\ k \in Kinds /\ work \in Database /\ file \in [Kinds -> Seq(Event)]
      /\ work.off[k] < upto /\ upto <= Len(file[k]) /\ upto \in 0..MaxLines
      /\ "actions" \in Kinds
  BY DEF ReadLine, DInv, IInv, TypeOK, Kinds
<1>2. e \in Event
  <2>1. work.off[k] + 1 \in 1..Len(file[k]) /\ file[k] \in Seq(Event)
    BY <1>1, MergeAssumption DEF Database
  <2> QED  BY <2>1
<1>3. h \in Database /\ h.off = work.off
  BY <1>1, <1>2, HandleType
<1>4. work' = [h EXCEPT !.off[k] = @ + 1] /\ UNCHANGED file
  BY DEF ReadLine
<1>5. /\ \A t \in work.blacklist : t \in h.blacklist
      /\ k = "actions" /\ e.val => e.id \in h.blacklist
  <2>1. \A t \in work.blacklist : t \in h.blacklist
    BY <1>1, <1>2, HandleFinal DEF Final
  <2>2. k = "actions" /\ e.val => h = DeleteTrack(work, e)
    BY DEF Handle
  <2> QED  BY <1>1, <1>2, <2>1, <2>2, DeleteOwn
<1> HIDE DEF h
<1>6. work'.blacklist = h.blacklist /\ work'.off = [work.off EXCEPT ![k] = @ + 1]
  BY <1>3, <1>4 DEF Database
<1>7. Absorbs(work', work, k, e)
  BY <1>6 DEF Absorbs
<1> SUFFICES ASSUME NEW t \in Tracks, NEW f \in Applied(work, "actions", t)', f.val
             PROVE  t \in work'.blacklist
  BY DEF Deleted
<1>8. \A w2 : w2 = work' => f \in Applied(w2, "actions", t)
  BY <1>4 DEF Applied
<1>9. \/ f \in Applied(work, "actions", t)
      \/ f = e /\ k = "actions" /\ e.id = t
  <2> HIDE DEF e, k
  <2> QED  BY <1>1, <1>7, <1>8, AbsorbOne
<1> QED  BY <1>5, <1>6, <1>9 DEF DInv, Deleted

\* Every step keeps absorbed deletes on the blacklist (delete_track_everywhere).
LEMMA DeletesAbsorbed == Spec => []DInv
<1>1. Init => DInv
  <2> SUFFICES ASSUME Init PROVE Deleted(db) /\ Deleted(work)
    BY InitIInv DEF DInv
  <2>1. work = db /\ db.off = [k \in Kinds |-> 0]
    BY DEF Init
  <2>2. \A t : Applied(db, "actions", t) = {}
    BY <2>1 DEF Applied, Kinds
  <2> QED  BY <2>1, <2>2 DEF Deleted
<1>2. DInv /\ [Next]_vars => DInv'
  <2> SUFFICES ASSUME DInv, [Next]_vars PROVE Deleted(db)' /\ Deleted(work)'
    BY NextIInv DEF DInv
  <2>1. ASSUME NEW k \in Kinds, NEW e \in Event, Arrive(k, e)
        PROVE  Deleted(db)' /\ Deleted(work)'
    <3>1. db' = db /\ work' = work /\ "actions" \in Kinds
      BY <2>1 DEF Arrive, Kinds
    <3>2. TypeOK /\ db \in Database /\ work \in Database
          /\ \A l \in Kinds : db.off[l] <= Len(file[l]) /\ work.off[l] <= Len(file[l])
      BY DEF DInv, IInv, TypeOK
    <3>3. \A t \in Tracks : Applied(db, "actions", t)' = Applied(db, "actions", t)
      BY <2>1, <3>1, <3>2, ArriveRows DEF Applied
    <3>4. \A t \in Tracks : Applied(work, "actions", t)' = Applied(work, "actions", t)
      BY <2>1, <3>1, <3>2, ArriveRows DEF Applied
    <3> QED  BY <3>1, <3>3, <3>4 DEF DInv, Deleted
  <2>2. CASE ReadLine
    <3>1. UNCHANGED <<file, db>>
      BY <2>2 DEF ReadLine
    <3>2. Deleted(db)'
      BY <3>1 DEF DInv, Deleted, Applied
    <3> QED  BY <2>2, <3>2, ReadDeleted
  <2>3. ASSUME UNCHANGED file, db' \in {db, work}, work' \in {db, work}
        PROVE  Deleted(db)' /\ Deleted(work)'
    BY <2>3 DEF DInv, Deleted, Applied
  <2>4. CASE BeginPass
    BY <2>3, <2>4 DEF BeginPass
  <2>5. CASE CommitFile
    BY <2>3, <2>5 DEF CommitFile
  <2>6. CASE RollbackFile
    BY <2>3, <2>6 DEF RollbackFile
  <2>7. CASE Crash
    BY <2>3, <2>7 DEF Crash
  <2>8. CASE UNCHANGED vars
    BY <2>3, <2>8 DEF vars
  <2> QED  BY <2>1, <2>2, <2>4, <2>5, <2>6, <2>7, <2>8 DEF Next, Ingest
<1> QED  BY <1>1, <1>2, PTL DEF Spec
-----------------------------------------------------------------------------
(* The phone's types.                                                      *)

\* A coroutine is at work only after the first event, and one that is going to
\* write a row has taken its time.
Underway ==
  \A c \in Coroutines : /\ at[c] # "idle" => clock > 0
                        /\ at[c] \in {"read", "write", "unpin"} => ts[c] > 0

\* No time lies ahead of the clock, a row that was written has one, and only
\* finitely many rows wait for a drain, so that its snapshot is a sequence.
Timely ==
  /\ Underway
  /\ \A t \in Tracks : row[t].ts <= clock /\ (row[t].synced \/ row[t].ts > 0)
  /\ \A c \in Coroutines : ts[c] <= clock
  /\ IsFiniteSet(Phone!Unsynced)

PhoneTypes == Phone!TypeOK /\ Timely

\* A row written adds at most its own track to those that wait.
LEMMA WriteFinite ==
  ASSUME row \in [Tracks -> Phone!PinRow], IsFiniteSet(Phone!Unsynced),
         NEW t \in Tracks, NEW r \in Phone!PinRow, row' = [row EXCEPT ![t] = r]
  PROVE  IsFiniteSet(Phone!Unsynced')
<1>1. Phone!Unsynced' \subseteq Phone!Unsynced \cup {t}
  BY DEF Phone!Unsynced, Phone!PinRow
<1>2. IsFiniteSet(Phone!Unsynced \cup {t})
  BY FS_AddElement
<1> QED  BY <1>1, <1>2, FS_Subset

\* A coroutine writes a row of its own time.
LEMMA WriteTypes ==
  ASSUME PhoneTypes, NEW c \in Coroutines, NEW v \in BOOLEAN, ts[c] > 0,
         Phone!Write(id[c], v, ts[c])
  PROVE  /\ row' \in [Tracks -> Phone!PinRow]
         /\ \A t \in Tracks : row'[t].ts <= clock /\ (row'[t].synced \/ row'[t].ts > 0)
         /\ IsFiniteSet(Phone!Unsynced')
<1> DEFINE r == [ts |-> ts[c], val |-> v, synced |-> FALSE]
<1>1. /\ row \in [Tracks -> Phone!PinRow] /\ id[c] \in Tracks
      /\ ts[c] \in 0..MaxTs /\ ts[c] <= clock
      /\ \A t \in Tracks : row[t].ts <= clock /\ (row[t].synced \/ row[t].ts > 0)
  BY DEF PhoneTypes, Timely, Phone!TypeOK
<1>2. r \in Phone!PinRow
  BY <1>1 DEF Phone!PinRow
<1>3. row' = [row EXCEPT ![id[c]] = r]
  BY DEF Phone!Write
<1>4. r.ts <= clock /\ r.ts > 0
  BY <1>1
<1> HIDE DEF r
<1>5. IsFiniteSet(Phone!Unsynced')
  BY <1>1, <1>2, <1>3, WriteFinite DEF PhoneTypes, Timely
<1>6. /\ row' \in [Tracks -> Phone!PinRow]
      /\ \A t \in Tracks : row'[t].ts <= clock /\ (row'[t].synced \/ row'[t].ts > 0)
  BY <1>1, <1>2, <1>3, <1>4
<1> QED  BY <1>5, <1>6

\* The phone counts as the library does.
LEMMA SameCardinality == \A S : Phone!Cardinality(S) = Cardinality(S)
BY DEF Phone!Cardinality, Cardinality

\* What a drain takes from the table are lines of past events, as many as wait.
LEMMA SnapshotTypes ==
  ASSUME PhoneTypes, NEW c \in Coroutines, Phone!Snapshot(c)
  PROVE  /\ todo' \in [Coroutines -> Seq(Phone!Line)]
         /\ \A d \in Coroutines : \A i \in 1..Len(todo'[d]) : todo'[d][i].ts <= clock
<1> DEFINE U == Phone!Unsynced
           n == Cardinality(U)
           lines(s) == [i \in DOMAIN s |-> Phone!LineOf(s[i])]
<1>1. PICK s \in [1..n -> U] :
        todo' = [todo EXCEPT ![c] = [i \in DOMAIN s |-> Phone!LineOf(s[i])]]
  BY SameCardinality DEF Phone!Snapshot
<1>2. n \in Nat
  BY FS_CardinalityType DEF PhoneTypes, Timely
<1>3. /\ row \in [Tracks -> Phone!PinRow] /\ clock \in Nat
      /\ todo \in [Coroutines -> Seq(Phone!Line)]
      /\ \A d \in Coroutines : \A i \in 1..Len(todo[d]) : todo[d][i].ts <= clock
      /\ \A t \in Tracks : row[t].ts <= clock
  BY MergeAssumption DEF PhoneTypes, Timely, Phone!TypeOK
<1>4. \A t \in U : /\ row[t].ts > 0 /\ row[t] \in Phone!PinRow /\ t \in Tracks
                   /\ row[t].ts <= clock
  BY <1>3 DEF Phone!Unsynced
<1>9. \A t \in U : Phone!LineOf(t) \in Phone!Line /\ Phone!LineOf(t).ts <= clock
  <2> SUFFICES ASSUME NEW t \in U
               PROVE  Phone!LineOf(t) \in Phone!Line
    BY <1>4 DEF Phone!LineOf
  <2> QED  BY <1>4, MergeAssumption DEF Phone!PinRow, Phone!Line, Phone!LineOf
<1> HIDE DEF U, n
<1>5. /\ lines(s) \in [1..n -> Phone!Line]
      /\ \A i \in 1..n : lines(s)[i].ts <= clock
  BY <1>9
<1>10. todo' = [todo EXCEPT ![c] = lines(s)]
  BY <1>1
<1> HIDE DEF lines
<1>6. lines(s) \in Seq(Phone!Line) /\ Len(lines(s)) = n
  BY <1>2, <1>5
<1> QED  BY <1>3, <1>5, <1>6, <1>10

\* The lines of a file are lines.
LEMMA SentType ==
  ASSUME PhoneTypes, NEW l \in Phone!Logs
  PROVE  Phone!Sent(l) \subseteq Phone!Line
<1>1. out[l] \in Seq(Phone!Line)
  BY DEF PhoneTypes, Phone!TypeOK
<1> QED  BY <1>1 DEF Phone!Sent

\* The bytes of a line add it to its file, or complete a fragment.
LEMMA WriteLineTypes ==
  ASSUME PhoneTypes, NEW l \in Phone!Logs, NEW e \in Phone!Line, Phone!WriteLine(l, e)
  PROVE  /\ out' \in [Phone!Logs -> Seq(Phone!Line)]
         /\ torn' \subseteq Phone!Logs
         /\ \A k \in Phone!Logs \ {l} : Phone!Sent(k)' = Phone!Sent(k)
         /\ \/ out' = out
            \/ Phone!Sent(l)' = Phone!Sent(l) \cup {e}
<1>1. out \in [Phone!Logs -> Seq(Phone!Line)] /\ torn \subseteq Phone!Logs
  BY DEF PhoneTypes, Phone!TypeOK
<1>2. CASE l \in torn
  <2>1. out' = out /\ torn' = torn \ {l}
    BY <1>2 DEF Phone!WriteLine
  <2> QED  BY <1>1, <2>1 DEF Phone!Sent
<1>3. CASE l \notin torn
  <2>1. out' = [out EXCEPT ![l] = Append(@, e)] /\ torn' = torn
    BY <1>3 DEF Phone!WriteLine
  <2>2. /\ out' \in [Phone!Logs -> Seq(Phone!Line)]
        /\ out'[l] = Append(out[l], e) /\ \A k \in Phone!Logs \ {l} : out'[k] = out[k]
    BY <1>1, <2>1
  <2> DEFINE s == out[l]
             s2 == out'[l]
  <2>3. s \in Seq(Phone!Line) /\ s2 = Append(s, e)
    BY <1>1, <2>2
  <2> HIDE DEF s, s2
  <2>4. /\ Len(s) \in Nat /\ Len(s2) = Len(s) + 1 /\ s2[Len(s) + 1] = e
        /\ \A i \in 1..Len(s) : s2[i] = s[i]
    BY <2>3
  <2>5. {s2[i] : i \in 1..Len(s2)} = {s[i] : i \in 1..Len(s)} \cup {e}
    <3>1. 1..Len(s2) = (1..Len(s)) \cup {Len(s) + 1}
      BY <2>4
    <3> QED  BY <2>4, <3>1
  <2>6. Phone!Sent(l)' = Phone!Sent(l) \cup {e}
    BY <2>5 DEF Phone!Sent, s, s2
  <2> QED  BY <1>1, <2>1, <2>2, <2>6 DEF Phone!Sent
<1> QED  BY <1>2, <1>3

\* An append, whether it is reported as done or as failed, adds its line or
\* nothing; and a line of pins that is reported is in the file or lost.
LEMMA AppendTypes ==
  ASSUME PhoneTypes, NEW l \in Phone!Logs, NEW e \in Phone!Line,
         Phone!Appended(l, e) \/ Phone!AppendFails(l, e)
  PROVE  /\ out' \in [Phone!Logs -> Seq(Phone!Line)]
         /\ torn' \subseteq Phone!Logs
         /\ faults' \in 0..MaxFaults
         /\ lost' \subseteq Phone!Line /\ lost \subseteq lost'
         /\ \A k \in Phone!Logs \ {l} : Phone!Sent(k)' = Phone!Sent(k)
         /\ Phone!Sent(l)' = Phone!Sent(l) \/ Phone!Sent(l)' = Phone!Sent(l) \cup {e}
         /\ l = "pins" /\ Phone!Appended(l, e) => e \in Phone!Sent(l)' \cup lost'
<1>1. /\ out \in [Phone!Logs -> Seq(Phone!Line)] /\ torn \subseteq Phone!Logs
      /\ faults \in 0..MaxFaults /\ lost \subseteq Phone!Line
  BY DEF PhoneTypes, Phone!TypeOK
<1>2. faults' \in 0..MaxFaults
  BY <1>1, SyncAssumption DEF Phone!Appended, Phone!AppendFails, Phone!Fault
<1>3. lost' \subseteq Phone!Line /\ lost \subseteq lost'
  BY <1>1 DEF Phone!Appended, Phone!AppendFails
<1>4. \A k : out' = out => Phone!Sent(k)' = Phone!Sent(k)
  BY DEF Phone!Sent
<1>5. \/ Phone!WriteLine(l, e)
      \/ out' = out /\ (torn' = torn \/ torn' = torn \cup {l})
  BY DEF Phone!Appended, Phone!AppendFails
<1>6. /\ out' \in [Phone!Logs -> Seq(Phone!Line)]
      /\ torn' \subseteq Phone!Logs
      /\ \A k \in Phone!Logs \ {l} : Phone!Sent(k)' = Phone!Sent(k)
      /\ out' = out \/ Phone!Sent(l)' = Phone!Sent(l) \cup {e}
  <2>1. CASE Phone!WriteLine(l, e)
    BY <2>1, WriteLineTypes
  <2>2. CASE out' = out /\ (torn' = torn \/ torn' = torn \cup {l})
    BY <1>1, <1>4, <2>2
  <2> QED  BY <1>5, <2>1, <2>2
<1>7. l = "pins" /\ Phone!Appended(l, e) /\ out' = out => e \in lost'
  BY DEF Phone!Appended
<1> QED  BY <1>2, <1>3, <1>4, <1>6, <1>7

\* A tap takes the next time and starts its coroutine.
LEMMA TapUnderway ==
  ASSUME PhoneTypes, NEW c \in Coroutines, NEW t, NEW p, Phone!Tap(c, t, p)
  PROVE  Underway'
BY DEF PhoneTypes, Timely, Underway, Phone!TypeOK, Phone!Tap, Phone!Goto

\* Every step of the phone leaves the coroutines at work with the time they
\* took at their start.
LEMMA UnderwayNext ==
  ASSUME PhoneTypes, [Phone!Next]_phone
  PROVE  Underway'
<1>1. /\ at \in [Coroutines -> Phone!Points] /\ clock \in Nat
      /\ row \in [Tracks -> Phone!PinRow]
      /\ \A t \in Tracks : row[t].ts <= clock /\ (row[t].synced \/ row[t].ts > 0)
      /\ Underway
  BY MergeAssumption DEF PhoneTypes, Timely, Phone!TypeOK
<1>2. ASSUME NEW c \in Coroutines, NEW p, Phone!Goto(c, p),
             clock' = clock \/ clock' = clock + 1,
             \A d \in Coroutines : ts'[d] = ts[d] \/ (d = c /\ p = "idle"),
             p # "idle" => clock > 0,
             p \notin {"read", "unpin"}, p = "write" => at[c] = "read"
      PROVE  Underway'
  <2>1. /\ at'[c] = p /\ \A d \in Coroutines \ {c} : at'[d] = at[d]
        /\ clock > 0 => clock' > 0
    BY <1>1, <1>2 DEF Phone!Goto
  <2> QED  BY <1>1, <1>2, <2>1 DEF Underway
<1>12. ASSUME NEW c \in Coroutines, Phone!End(c)
       PROVE  /\ Phone!Goto(c, "idle")
              /\ \A d \in Coroutines \ {c} : ts'[d] = ts[d]
  <2>1. ts \in [Coroutines -> 0..MaxTs]
    BY DEF PhoneTypes, Phone!TypeOK
  <2> QED  BY <1>12, <2>1 DEF Phone!End
<1>3. \A c \in Coroutines : at[c] # "idle" => clock > 0
  BY <1>1 DEF Underway
<1>4. ASSUME NEW c \in Coroutines, NEW t \in Tracks,
             \/ Phone!TogglePin(c, t)
             \/ Phone!UnsyncTap(c, t)
             \/ Phone!DeleteTap(c, t)
      PROVE  Underway'
  BY <1>4, TapUnderway
  DEF Phone!TogglePin, Phone!UnsyncTap, Phone!DeleteTap
<1>5. ASSUME NEW c \in Coroutines, Phone!ServiceStart(c)
      PROVE  Underway'
  <2>1. clock > 0
    BY <1>1, <1>5 DEF Phone!ServiceStart, Phone!PinRow
  <2> QED  BY <1>2, <1>5, <2>1 DEF Phone!ServiceStart
<1>6. ASSUME NEW c \in Coroutines,
             \/ Phone!ReadExisting(c)
             \/ Phone!WritePin(c)
             \/ Phone!Unpin(c)
             \/ Phone!Snapshot(c)
             \/ Phone!AppendPin(c)
             \/ Phone!MarkSynced(c)
      PROVE  Underway'
  BY <1>2, <1>3, <1>6
  DEF Phone!ReadExisting, Phone!WritePin, Phone!Unpin,
      Phone!Snapshot, Phone!AppendPin, Phone!MarkSynced
<1>7. ASSUME NEW c \in Coroutines, Phone!DrainDone(c)
      PROVE  Underway'
  <2>1. clock' = clock /\ clock > 0
    BY <1>3, <1>7 DEF Phone!DrainDone
  <2>2. CASE val[c]
    <3>1. Phone!End(c)
      BY <1>7, <2>2 DEF Phone!DrainDone
    <3> QED  BY <1>2, <1>12, <2>1, <3>1
  <2>3. CASE ~val[c]
    <3>1. Phone!Goto(c, "emit") /\ ts' = ts
      BY <1>7, <2>3 DEF Phone!DrainDone
    <3> QED  BY <1>2, <2>1, <3>1
  <2> QED  BY <2>2, <2>3
<1>8. ASSUME NEW c \in Coroutines, Phone!EmitAction(c)
      PROVE  Underway'
  <2>1. Phone!End(c)
    BY <1>8 DEF Phone!EmitAction
  <2>2. clock' = clock \/ clock' = clock + 1
    BY <1>8 DEF Phone!EmitAction
  <2> QED  BY <1>2, <1>12, <2>1, <2>2
<1>9. ASSUME NEW c \in Coroutines, Phone!AppendPinFails(c)
      PROVE  Underway'
  BY <1>1, <1>9 DEF Phone!AppendPinFails, Underway
<1>10. CASE Phone!Killed
  BY <1>10 DEF Phone!Killed, Underway
<1>11. CASE UNCHANGED phone
  BY <1>1, <1>11 DEF phone, Underway
<1> QED
  BY <1>4, <1>5, <1>6, <1>7, <1>8, <1>9, <1>10, <1>11 DEF Phone!Next

\* The faults and the fragments so far, and what is remembered of the past.
Remembered == /\ faults \in 0..MaxFaults
              /\ torn \subseteq Phone!Logs /\ lost \subseteq Phone!Line
              /\ overtaken \subseteq Tracks /\ crossed \subseteq Tracks

\* The two lines that an append may be about are lines: the head of what a
\* drain holds, and an action of this time.
LEMMA HeadType ==
  ASSUME PhoneTypes, NEW c \in Coroutines, todo[c] # <<>>
  PROVE  /\ Head(todo[c]) \in Phone!Line /\ Head(todo[c]) = todo[c][1]
         /\ 1 \in 1..Len(todo[c])
         /\ Head(todo[c]).ts <= clock
         /\ Tail(todo[c]) \in Seq(Phone!Line)
         /\ \A i \in 1..Len(Tail(todo[c])) :
              /\ i + 1 \in 1..Len(todo[c])
              /\ Tail(todo[c])[i] = todo[c][i + 1]
              /\ Tail(todo[c])[i].ts <= clock
<1> DEFINE q == todo[c]
<1>1. q \in Seq(Phone!Line) /\ q # <<>> /\ \A i \in 1..Len(q) : q[i].ts <= clock
  BY DEF PhoneTypes, Phone!TypeOK
<1> HIDE DEF q
<1>2. /\ Head(q) \in Phone!Line /\ Head(q) = q[1] /\ 1 \in 1..Len(q)
      /\ Tail(q) \in Seq(Phone!Line) /\ Len(Tail(q)) = Len(q) - 1
      /\ Len(q) \in Nat /\ \A i \in 1..Len(Tail(q)) : Tail(q)[i] = q[i + 1]
  BY <1>1
<1>3. \A i \in 1..Len(Tail(q)) : i + 1 \in 1..Len(q)
  BY <1>2
<1> QED  BY <1>1, <1>2, <1>3 DEF q

LEMMA ActionType ==
  ASSUME PhoneTypes, NEW c \in Coroutines, NEW now \in 1..MaxTs
  PROVE  Phone!Action(c, now) \in Phone!Line
<1>1. id[c] \in Tracks
  BY DEF PhoneTypes, Phone!TypeOK
<1> QED  BY <1>1 DEF Phone!Action, Phone!Line

LEMMA RememberedNext ==
  ASSUME PhoneTypes, [Phone!Next]_phone
  PROVE  Remembered'
<1>1. Remembered /\ id \in [Coroutines -> Tracks]
  BY DEF PhoneTypes, Phone!TypeOK, Remembered
<1>2. UNCHANGED <<faults, torn, lost>> /\ overtaken' \subseteq Tracks
        /\ crossed' \subseteq Tracks => Remembered'
  BY <1>1 DEF Remembered
<1>3. ASSUME NEW c \in Coroutines, NEW t \in Tracks,
             \/ Phone!TogglePin(c, t) \/ Phone!UnsyncTap(c, t) \/ Phone!DeleteTap(c, t)
      PROVE  Remembered'
  <2>1. /\ UNCHANGED <<faults, torn, lost, overtaken>>
        /\ crossed' = crossed \/ crossed' = crossed \cup {t}
    BY <1>3 DEF Phone!TogglePin, Phone!UnsyncTap, Phone!DeleteTap, Phone!Tap, Phone!files
  <2> QED  BY <1>1, <1>2, <2>1 DEF Remembered
<1>4. ASSUME NEW c \in Coroutines,
             \/ Phone!ServiceStart(c) \/ Phone!ReadExisting(c)
             \/ Phone!Snapshot(c) \/ Phone!DrainDone(c)
      PROVE  Remembered'
  BY <1>1, <1>2, <1>4
  DEF Remembered, Phone!ServiceStart, Phone!ReadExisting, Phone!Snapshot,
      Phone!DrainDone, Phone!files
<1>5. ASSUME NEW c \in Coroutines, Phone!WritePin(c) \/ Phone!Unpin(c)
      PROVE  Remembered'
  <2>1. /\ UNCHANGED <<faults, torn, lost, crossed>>
        /\ overtaken' = overtaken \/ overtaken' = overtaken \ {id[c]}
    BY <1>5 DEF Phone!WritePin, Phone!Unpin, Phone!Write, Phone!files
  <2> QED  BY <1>1, <1>2, <2>1 DEF Remembered
<1>6. ASSUME NEW c \in Coroutines, Phone!MarkSynced(c)
      PROVE  Remembered'
  <2>1. todo[c] # <<>>
    BY <1>6 DEF PhoneTypes, Phone!TypeOK, Phone!MarkSynced
  <2>2. Head(todo[c]).id \in Tracks
    BY <2>1, HeadType DEF Phone!Line
  <2>3. /\ UNCHANGED <<faults, torn, lost, crossed>>
        /\ overtaken' = overtaken \/ overtaken' = overtaken \cup {Head(todo[c]).id}
    BY <1>6 DEF Phone!MarkSynced, Phone!files
  <2> QED  BY <1>1, <1>2, <2>2, <2>3 DEF Remembered
<1>7. ASSUME NEW c \in Coroutines, Phone!AppendPin(c) \/ Phone!AppendPinFails(c)
      PROVE  Remembered'
  <2>1. /\ todo[c] # <<>> /\ UNCHANGED <<overtaken, crossed>>
        /\ \/ Phone!Appended("pins", Head(todo[c]))
           \/ Phone!AppendFails("pins", Head(todo[c]))
    BY <1>7 DEF Phone!AppendPin, Phone!AppendPinFails
  <2>2. Head(todo[c]) \in Phone!Line /\ "pins" \in Phone!Logs
    BY <2>1, HeadType DEF Phone!Logs
  <2> QED  BY <1>1, <2>1, <2>2, AppendTypes DEF Remembered
<1>8. ASSUME NEW c \in Coroutines, Phone!EmitAction(c)
      PROVE  Remembered'
  <2>1. PICK now \in 1..MaxTs : \/ Phone!Appended("actions", Phone!Action(c, now))
                                \/ Phone!AppendFails("actions", Phone!Action(c, now))
    BY <1>8 DEF Phone!EmitAction
  <2>2. Phone!Action(c, now) \in Phone!Line /\ "actions" \in Phone!Logs
    BY ActionType DEF Phone!Logs
  <2>3. UNCHANGED <<overtaken, crossed>>
    BY <1>8 DEF Phone!EmitAction
  <2> QED  BY <1>1, <2>1, <2>2, <2>3, AppendTypes DEF Remembered
<1>9. CASE Phone!Killed
  <2>1. UNCHANGED <<torn, lost, overtaken, crossed>> /\ faults' \in 0..MaxFaults
    BY <1>1, <1>9, SyncAssumption DEF Phone!Killed, Phone!Fault, Phone!files, Remembered
  <2> QED  BY <1>1, <2>1 DEF Remembered
<1>10. CASE UNCHANGED phone
  BY <1>1, <1>2, <1>10 DEF phone, Remembered
<1> QED
  BY <1>3, <1>4, <1>5, <1>6, <1>7, <1>8, <1>9, <1>10 DEF Phone!Next

\* Every step of the phone keeps its types, and the clock never falls behind:
\* the taps, the drain and the two appends, failed or killed.
LEMMA PhoneNext ==
  ASSUME PhoneTypes, [Phone!Next]_phone
  PROVE  PhoneTypes'
<1> DEFINE Lines == Seq(Phone!Line)
<1>1. /\ clock \in 0..MaxTs /\ clock \in Nat /\ MaxTs \in Nat
      /\ row \in [Tracks -> Phone!PinRow]
      /\ out \in [Phone!Logs -> Lines]
      /\ at \in [Coroutines -> Phone!Points]
      /\ id \in [Coroutines -> Tracks]
      /\ ts \in [Coroutines -> 0..MaxTs]
      /\ val \in [Coroutines -> BOOLEAN]
      /\ todo \in [Coroutines -> Lines]
  BY MergeAssumption DEF PhoneTypes, Phone!TypeOK
<1>2. /\ \A c \in Coroutines : \A i \in 1..Len(todo[c]) : todo[c][i].ts <= clock
      /\ \A c \in Coroutines : at[c] = "mark" => todo[c] # <<>>
      /\ \A t \in Tracks : row[t].ts <= clock /\ (row[t].synced \/ row[t].ts > 0)
      /\ \A c \in Coroutines : ts[c] <= clock
      /\ IsFiniteSet(Phone!Unsynced) /\ Underway
  BY DEF PhoneTypes, Timely, Phone!TypeOK
<1>3. \A c \in Coroutines, i \in Nat \ {0} : i <= Len(todo[c]) =>
        todo[c][i] \in Phone!Line /\ todo[c][i].ts <= clock
  BY <1>1, <1>2
<1>4. \A c \in Coroutines : todo[c] # <<>> =>
        /\ Head(todo[c]) \in Phone!Line
        /\ Tail(todo[c]) \in Lines
        /\ \A i \in 1..Len(Tail(todo[c])) : Tail(todo[c])[i].ts <= clock
  BY HeadType
<1>0. Underway' /\ Remembered'
  BY UnderwayNext, RememberedNext
<1> HIDE DEF Lines
<1>5. ASSUME UNCHANGED <<row, todo>>, clock' \in 0..MaxTs, clock <= clock',
             out' \in [Phone!Logs -> Lines],
             at' \in [Coroutines -> Phone!Points],
             \A c \in Coroutines : at'[c] = "mark" => at[c] = "mark",
             id' \in [Coroutines -> Tracks],
             ts' \in [Coroutines -> 0..MaxTs],
             \A c \in Coroutines : ts'[c] <= clock',
             val' \in [Coroutines -> BOOLEAN]
      PROVE  PhoneTypes'
  <2>1. clock' \in Nat
    BY <1>1, <1>5
  <2>2. Phone!TypeOK'
    <3>1. \A c \in Coroutines : \A i \in 1..Len(todo[c]) : todo[c][i].ts <= clock'
      <4> SUFFICES ASSUME NEW c \in Coroutines, NEW i \in 1..Len(todo[c])
                   PROVE  todo[c][i].ts <= clock'
        OBVIOUS
      <4>1. todo[c][i].ts \in Nat /\ todo[c][i].ts <= clock
        <5>1. todo[c] \in Seq(Phone!Line)
          BY <1>1 DEF Lines
        <5>2. todo[c][i] \in Phone!Line
          BY <5>1
        <5> QED  BY <1>1, <1>2, <5>2 DEF Phone!Line
      <4> QED  BY <1>1, <1>5, <1>0, <2>1, <4>1
    <3> QED  BY <1>1, <1>2, <1>5, <1>0, <3>1 DEF Phone!TypeOK, Lines, Remembered
  <2>3. Timely'
    <3>1. \A t \in Tracks : row[t].ts <= clock' /\ (row[t].synced \/ row[t].ts > 0)
      BY <1>1, <1>2, <1>5, <1>0, <2>1 DEF Phone!PinRow
    <3>2. Phone!Unsynced' = Phone!Unsynced
      BY <1>5 DEF Phone!Unsynced
    <3> QED  BY <1>0, <1>2, <1>5, <3>1, <3>2 DEF Timely
  <2> QED  BY <2>2, <2>3 DEF PhoneTypes
<1>6. ASSUME UNCHANGED <<clock, id>>,
             ts' \in [Coroutines -> 0..MaxTs], val' \in [Coroutines -> BOOLEAN],
             \A c \in Coroutines : ts'[c] <= clock,
             out' \in [Phone!Logs -> Lines],
             at' \in [Coroutines -> Phone!Points],
             todo' \in [Coroutines -> Lines],
             \A c \in Coroutines : \A i \in 1..Len(todo'[c]) : todo'[c][i].ts <= clock,
             \A c \in Coroutines : at'[c] = "mark" => todo'[c] # <<>>,
             row' \in [Tracks -> Phone!PinRow],
             \A t \in Tracks : row'[t].ts <= clock /\ (row'[t].synced \/ row'[t].ts > 0),
             IsFiniteSet(Phone!Unsynced')
      PROVE  PhoneTypes'
  <2>1. Phone!TypeOK'
    BY <1>0, <1>1, <1>6 DEF Phone!TypeOK, Lines, Remembered
  <2>2. Timely'
    BY <1>0, <1>2, <1>6 DEF Timely
  <2> QED  BY <2>1, <2>2 DEF PhoneTypes
<1>7. \A c \in Coroutines, p \in Phone!Points :
        Phone!Goto(c, p) => /\ at' \in [Coroutines -> Phone!Points]
                                 /\ at'[c] = p
                                 /\ \A d \in Coroutines \ {c} : at'[d] = at[d]
  BY <1>1 DEF Phone!Goto
<1>21. ASSUME NEW c \in Coroutines, Phone!End(c)
       PROVE  /\ at' \in [Coroutines -> Phone!Points]
              /\ \A d \in Coroutines : at'[d] = "mark" => at[d] = "mark"
              /\ ts' \in [Coroutines -> 0..MaxTs] /\ val' \in [Coroutines -> BOOLEAN]
              /\ \A d \in Coroutines : ts'[d] \in Nat /\ ts'[d] <= clock
  <2>1. Phone!Goto(c, "idle") /\ "idle" \in Phone!Points
    BY <1>21 DEF Phone!End, Phone!Points
  <2>2. /\ at' \in [Coroutines -> Phone!Points]
        /\ \A d \in Coroutines : at'[d] = "mark" => at[d] = "mark"
    BY <1>7, <2>1
  <2>3. ts' = [ts EXCEPT ![c] = 0] /\ val' = [val EXCEPT ![c] = TRUE]
    BY <1>21 DEF Phone!End
  <2>4. 0 \in 0..MaxTs /\ 0 <= clock
    BY <1>1
  <2>5. ts' \in [Coroutines -> 0..MaxTs] /\ val' \in [Coroutines -> BOOLEAN]
    BY <1>1, <2>3, <2>4
  <2>6. \A d \in Coroutines : ts'[d] \in Nat /\ ts'[d] <= clock
    BY <1>1, <1>2, <2>3, <2>4, <2>5
  <2> QED  BY <2>2, <2>5, <2>6
<1>8. row' = row => /\ row' \in [Tracks -> Phone!PinRow]
                    /\ \A t \in Tracks :
                         row'[t].ts <= clock /\ (row'[t].synced \/ row'[t].ts > 0)
                    /\ IsFiniteSet(Phone!Unsynced')
  <2>1. row' = row => Phone!Unsynced' = Phone!Unsynced
    BY DEF Phone!Unsynced
  <2> QED  BY <1>1, <1>2, <2>1
<1>9. ASSUME NEW c \in Coroutines, NEW t \in Tracks, NEW p \in {"read", "unpin", "delete"},
             Phone!Tap(c, t, p)
      PROVE  PhoneTypes'
  <2>1. /\ clock' = clock + 1 /\ clock' \in 0..MaxTs /\ clock <= clock'
        /\ id' \in [Coroutines -> Tracks] /\ ts' \in [Coroutines -> 0..MaxTs]
        /\ \A d \in Coroutines : ts'[d] <= clock'
    BY <1>1, <1>2, <1>9 DEF Phone!Tap, Phone!files
  <2>2. /\ at' \in [Coroutines -> Phone!Points]
        /\ \A d \in Coroutines : at'[d] = "mark" => at[d] = "mark"
    BY <1>7, <1>9 DEF Phone!Tap, Phone!Points
  <2> QED  BY <1>1, <1>5, <1>0, <1>9, <2>1, <2>2 DEF Phone!Tap, Phone!files
<1>10. ASSUME NEW c \in Coroutines,
              Phone!ServiceStart(c) \/ Phone!ReadExisting(c)
       PROVE  PhoneTypes'
  <2>1. /\ at' \in [Coroutines -> Phone!Points]
        /\ \A d \in Coroutines : at'[d] = "mark" => at[d] = "mark"
    BY <1>7, <1>10 DEF Phone!ServiceStart, Phone!ReadExisting, Phone!Points
  <2>2. val' \in [Coroutines -> BOOLEAN]
    BY <1>1, <1>10 DEF Phone!ServiceStart, Phone!ReadExisting
  <2>3. UNCHANGED <<row, todo, clock, out, id, ts>>
    BY <1>10 DEF Phone!ServiceStart, Phone!ReadExisting, Phone!files
  <2> QED  BY <1>1, <1>2, <1>5, <1>0, <2>1, <2>2, <2>3
<1>11. ASSUME NEW c \in Coroutines, Phone!WritePin(c) \/ Phone!Unpin(c)
       PROVE  PhoneTypes'
  <2>1. /\ at' \in [Coroutines -> Phone!Points]
        /\ \A d \in Coroutines : at'[d] = "mark" => at[d] = "mark"
    BY <1>7, <1>11 DEF Phone!WritePin, Phone!Unpin, Phone!Points
  <2>2. UNCHANGED <<clock, out, id, ts, val, todo>>
    BY <1>11 DEF Phone!WritePin, Phone!Unpin, Phone!files
  <2>3. row' = row \/ \E v \in BOOLEAN : Phone!Write(id[c], v, ts[c])
    BY <1>1, <1>11 DEF Phone!WritePin, Phone!Unpin
  <2>4. /\ row' \in [Tracks -> Phone!PinRow]
        /\ \A t \in Tracks : row'[t].ts <= clock /\ (row'[t].synced \/ row'[t].ts > 0)
        /\ IsFiniteSet(Phone!Unsynced')
    <3>1. ts[c] > 0
      BY <1>2, <1>11 DEF Underway, Phone!WritePin, Phone!Unpin
    <3> QED  BY <1>8, <2>3, <3>1, WriteTypes
  <2> QED  BY <1>1, <1>2, <1>6, <1>0, <2>1, <2>2, <2>4
<1>12. ASSUME NEW c \in Coroutines, Phone!Snapshot(c)
       PROVE  PhoneTypes'
  <2>1. /\ at' \in [Coroutines -> Phone!Points]
        /\ \A d \in Coroutines : at'[d] = "mark" => at[d] = "mark" /\ d # c
    BY <1>7, <1>12 DEF Phone!Snapshot, Phone!Points
  <2>2. /\ UNCHANGED <<clock, row, out, id, ts, val>>
        /\ \A d \in Coroutines \ {c} : todo'[d] = todo[d]
    BY <1>1, <1>12 DEF Phone!Snapshot, Phone!files
  <2>3. /\ todo' \in [Coroutines -> Lines]
        /\ \A d \in Coroutines : \A i \in 1..Len(todo'[d]) : todo'[d][i].ts <= clock
    BY <1>12, SnapshotTypes DEF Lines
  <2> QED  BY <1>1, <1>2, <1>6, <1>0, <1>8, <2>1, <2>2, <2>3
<1>13. ASSUME NEW c \in Coroutines, Phone!AppendPin(c)
       PROVE  PhoneTypes'
  <2>1. /\ at' \in [Coroutines -> Phone!Points]
        /\ \A d \in Coroutines : at'[d] = "mark" => at[d] = "mark" \/ d = c
    BY <1>7, <1>13 DEF Phone!AppendPin, Phone!Points
  <2>2. /\ UNCHANGED <<clock, row, id, ts, val, todo>> /\ todo[c] # <<>>
        /\ Phone!Appended("pins", Head(todo[c]))
    BY <1>13 DEF Phone!AppendPin
  <2>3. out' \in [Phone!Logs -> Lines]
    <3>1. Head(todo[c]) \in Phone!Line /\ "pins" \in Phone!Logs
      BY <1>4, <2>2 DEF Phone!Logs
    <3> QED  BY <2>2, <3>1, AppendTypes DEF Lines
  <2> QED  BY <1>1, <1>2, <1>6, <1>0, <1>8, <2>1, <2>2, <2>3
<1>14. ASSUME NEW c \in Coroutines, todo[c] # <<>>, todo' = [todo EXCEPT ![c] = Tail(@)],
              \A d \in Coroutines : at'[d] = "mark" => at[d] = "mark" /\ d # c
       PROVE  /\ todo' \in [Coroutines -> Lines]
              /\ \A d \in Coroutines : \A i \in 1..Len(todo'[d]) : todo'[d][i].ts <= clock
              /\ \A d \in Coroutines : at'[d] = "mark" => todo'[d] # <<>>
  BY <1>1, <1>2, <1>4, <1>14
<1>15. ASSUME NEW c \in Coroutines, Phone!AppendPinFails(c)
       PROVE  PhoneTypes'
  <2>1. /\ UNCHANGED <<clock, row, at, id, ts, val>> /\ todo[c] # <<>>
        /\ todo' = [todo EXCEPT ![c] = Tail(@)] /\ at[c] = "append"
        /\ Phone!AppendFails("pins", Head(todo[c]))
    BY <1>15 DEF Phone!AppendPinFails
  <2>4. out' \in [Phone!Logs -> Lines]
    <3>1. Head(todo[c]) \in Phone!Line /\ "pins" \in Phone!Logs
      BY <1>4, <2>1 DEF Phone!Logs
    <3> QED  BY <2>1, <3>1, AppendTypes DEF Lines
  <2>2. \A d \in Coroutines : at'[d] = "mark" => at[d] = "mark" /\ d # c
    BY <2>1
  <2>3. /\ todo' \in [Coroutines -> Lines]
        /\ \A d \in Coroutines : \A i \in 1..Len(todo'[d]) : todo'[d][i].ts <= clock
        /\ \A d \in Coroutines : at'[d] = "mark" => todo'[d] # <<>>
    BY <1>14, <2>1, <2>2
  <2> QED  BY <1>1, <1>2, <1>6, <1>8, <1>0, <2>1, <2>3, <2>4
<1>16. ASSUME NEW c \in Coroutines, Phone!MarkSynced(c)
       PROVE  PhoneTypes'
  <2> DEFINE t == Head(todo[c]).id
             r == [row[t] EXCEPT !.synced = TRUE]
  <2>1. /\ UNCHANGED <<clock, out, id, ts, val>> /\ todo[c] # <<>>
        /\ todo' = [todo EXCEPT ![c] = Tail(@)]
        /\ row' = [row EXCEPT ![t] = r]
    BY <1>2, <1>16 DEF Phone!MarkSynced, Phone!files
  <2>2. /\ at' \in [Coroutines -> Phone!Points]
        /\ \A d \in Coroutines : at'[d] = "mark" => at[d] = "mark" /\ d # c
    BY <1>7, <1>16 DEF Phone!MarkSynced, Phone!Points
  <2>3. /\ todo' \in [Coroutines -> Lines]
        /\ \A d \in Coroutines : \A i \in 1..Len(todo'[d]) : todo'[d][i].ts <= clock
        /\ \A d \in Coroutines : at'[d] = "mark" => todo'[d] # <<>>
    BY <1>14, <2>1, <2>2
  <2>4. t \in Tracks /\ r \in Phone!PinRow /\ r.ts <= clock /\ r.synced
    <3>1. t \in Tracks
      BY <1>4, <2>1 DEF Phone!Line
    <3> QED  BY <1>1, <1>2, <3>1 DEF Phone!PinRow
  <2> HIDE DEF r, t
  <2>5. IsFiniteSet(Phone!Unsynced')
    BY <1>1, <1>2, <2>1, <2>4, WriteFinite
  <2>6. /\ row' \in [Tracks -> Phone!PinRow]
        /\ \A u \in Tracks : row'[u].ts <= clock /\ (row'[u].synced \/ row'[u].ts > 0)
    BY <1>1, <1>2, <2>1, <2>4
  <2> QED  BY <1>1, <1>2, <1>6, <1>0, <2>1, <2>2, <2>3, <2>5, <2>6
<1>17. ASSUME NEW c \in Coroutines, Phone!DrainDone(c)
       PROVE  PhoneTypes'
  <2>1. UNCHANGED <<clock, row, out, id, todo>>
    BY <1>17 DEF Phone!DrainDone, Phone!files
  <2>2. /\ at' \in [Coroutines -> Phone!Points]
        /\ \A d \in Coroutines : at'[d] = "mark" => at[d] = "mark"
        /\ ts' \in [Coroutines -> 0..MaxTs] /\ val' \in [Coroutines -> BOOLEAN]
        /\ \A d \in Coroutines : ts'[d] <= clock
    <3>1. CASE val[c]
      <4>1. Phone!End(c)
        BY <1>17, <3>1 DEF Phone!DrainDone
      <4> QED  BY <1>21, <4>1
    <3>2. CASE ~val[c]
      <4>1. Phone!Goto(c, "emit") /\ UNCHANGED <<ts, val>> /\ "emit" \in Phone!Points
        BY <1>17, <3>2 DEF Phone!DrainDone, Phone!Points
      <4> QED  BY <1>1, <1>2, <1>7, <4>1
    <3> QED  BY <3>1, <3>2
  <2> QED  BY <1>1, <1>2, <1>5, <1>0, <2>1, <2>2
<1>18. ASSUME NEW c \in Coroutines, Phone!EmitAction(c)
       PROVE  PhoneTypes'
  <2>1. PICK now \in {clock, clock + 1} :
          /\ now \in 1..MaxTs /\ clock' = now
          /\ \/ Phone!Appended("actions", Phone!Action(c, now))
             \/ Phone!AppendFails("actions", Phone!Action(c, now))
    BY <1>18 DEF Phone!EmitAction
  <2>2. UNCHANGED <<row, id, todo>> /\ Phone!End(c)
    BY <1>18 DEF Phone!EmitAction
  <2>4. out' \in [Phone!Logs -> Lines]
    <3>1. Phone!Action(c, now) \in Phone!Line /\ "actions" \in Phone!Logs
      BY <2>1, ActionType DEF Phone!Logs
    <3> QED  BY <2>1, <3>1, AppendTypes DEF Lines
  <2>5. /\ at' \in [Coroutines -> Phone!Points]
        /\ \A d \in Coroutines : at'[d] = "mark" => at[d] = "mark"
        /\ ts' \in [Coroutines -> 0..MaxTs] /\ val' \in [Coroutines -> BOOLEAN]
        /\ \A d \in Coroutines : ts'[d] \in Nat /\ ts'[d] <= clock
    BY <1>21, <2>2
  <2>6. clock' \in 0..MaxTs /\ clock <= clock' /\ clock' \in Nat
    BY <1>1, <2>1
  <2>7. \A d \in Coroutines : ts'[d] <= clock'
    BY <1>1, <2>5, <2>6
  <2> QED  BY <1>1, <1>5, <1>0, <2>2, <2>4, <2>5, <2>6, <2>7
<1>19. CASE Phone!Killed
  <2>1. /\ UNCHANGED <<clock, row, out, id>>
        /\ at' = [c \in Coroutines |-> "idle"] /\ todo' = [c \in Coroutines |-> <<>>]
        /\ ts' = [c \in Coroutines |-> 0] /\ val' = [c \in Coroutines |-> TRUE]
    BY <1>19 DEF Phone!Killed, Phone!files
  <2>2. /\ at' \in [Coroutines -> Phone!Points] /\ todo' \in [Coroutines -> Lines]
        /\ \A c \in Coroutines : at'[c] = "idle" /\ Len(todo'[c]) = 0
    BY <2>1 DEF Lines, Phone!Points
  <2>3. /\ ts' \in [Coroutines -> 0..MaxTs] /\ val' \in [Coroutines -> BOOLEAN]
        /\ \A c \in Coroutines : ts'[c] <= clock
    BY <1>1, <2>1
  <2> QED  BY <1>1, <1>6, <1>8, <1>0, <2>1, <2>2, <2>3
<1>20. CASE UNCHANGED phone
  BY <1>1, <1>2, <1>5, <1>0, <1>20 DEF phone
<1> QED
  BY <1>9, <1>10, <1>11, <1>12, <1>13, <1>15, <1>16, <1>17, <1>18, <1>19, <1>20
  DEF Phone!Next, Phone!TogglePin, Phone!UnsyncTap, Phone!DeleteTap

\* A phone with no pins, and no one at work.
LEMMA PhoneInit == Phone!Init => PhoneTypes
<1> SUFFICES ASSUME Phone!Init PROVE PhoneTypes
  OBVIOUS
<1>1. /\ clock = 0 /\ row = [t \in Tracks |-> Phone!NoPin]
      /\ out = [l \in Phone!Logs |-> <<>>]
      /\ at = [c \in Coroutines |-> "idle"]
      /\ id \in [Coroutines -> Tracks]
      /\ ts = [c \in Coroutines |-> 0] /\ val = [c \in Coroutines |-> TRUE]
      /\ todo = [c \in Coroutines |-> <<>>]
      /\ faults = 0 /\ torn = {} /\ lost = {} /\ overtaken = {} /\ crossed = {}
  BY DEF Phone!Init
<1>2. /\ Phone!NoPin \in Phone!PinRow /\ 0 \in 0..MaxTs
      /\ Phone!NoPin.ts = 0 /\ Phone!NoPin.synced
  BY MergeAssumption DEF Phone!NoPin, Phone!PinRow
<1>3. Phone!TypeOK
  BY <1>1, <1>2, SyncAssumption DEF Phone!TypeOK, Phone!Points
<1>4. Phone!Unsynced = {}
  BY <1>1, <1>2 DEF Phone!Unsynced
<1>5. Timely
  BY <1>1, <1>2, <1>4, FS_EmptySet DEF Timely, Underway
<1> QED  BY <1>3, <1>5 DEF PhoneTypes

\* The steps of the composition, as the phone's.
LEMMA PhoneMoves ==
  ASSUME [SyncNext]_syncvars
  PROVE  [Phone!Next]_phone
BY DEF SyncNext, PhoneStep, Deliver, DesktopStep, syncvars

LEMMA PhoneInvariant == SyncSpec => []PhoneTypes
<1>1. SyncInit => PhoneTypes
  BY PhoneInit DEF SyncInit
<1>2. PhoneTypes /\ [SyncNext]_syncvars => PhoneTypes'
  BY PhoneNext, PhoneMoves
<1> QED  BY <1>1, <1>2, PTL DEF SyncSpec
-----------------------------------------------------------------------------
(* The composition implements the merge.                                   *)

\* Whatever the phone writes is an event of the merge, so each delivery is one
\* of its arrivals; the phone's own steps leave the desktop alone.
LEMMA DesktopMoves ==
  ASSUME PhoneTypes, [SyncNext]_syncvars, file \in [Kinds -> Seq(Event)]
  PROVE  [Next]_vars
<1>1. CASE PhoneStep
  BY <1>1 DEF PhoneStep, vars
<1>2. ASSUME NEW l \in Phone!Logs, Deliver(l)
      PROVE  Next
  <2> DEFINE e == out[l][Len(file[l]) + 1]
  <2>1. l \in Kinds
    BY DEF Phone!Logs, Kinds
  <2>2. e \in Event
    <3>1. out[l] \in Seq(Event)
      BY DEF PhoneTypes, Phone!TypeOK, Phone!Line, Event
    <3>2. file[l] \in Seq(Event) /\ Len(file[l]) < Len(out[l])
      BY <1>2, <2>1 DEF Deliver
    <3>3. Len(file[l]) + 1 \in 1..Len(out[l])
      BY <3>1, <3>2
    <3> QED  BY <3>1, <3>3
  <2>3. Arrive(l, e)
    BY <1>2 DEF Deliver
  <2> HIDE DEF e
  <2> QED  BY <2>1, <2>2, <2>3 DEF Next
<1>3. CASE DesktopStep
  <2>1. Ingest
    BY <1>3 DEF DesktopStep
  <2> QED  BY <2>1 DEF Next
<1>4. CASE UNCHANGED syncvars
  BY <1>4 DEF syncvars, vars
<1> QED  BY <1>1, <1>2, <1>3, <1>4 DEF SyncNext

\* The types of both sides hold throughout: every coroutine's step and every
\* step of a pass keeps its own side's, and a delivery hands over a line.
LEMMA BothTypes == SyncSpec => [](PhoneTypes /\ IInv)
<1>1. SyncInit => PhoneTypes /\ IInv
  BY PhoneInit, InitIInv DEF SyncInit
<1>2. PhoneTypes /\ IInv /\ [SyncNext]_syncvars => PhoneTypes' /\ IInv'
  <2> SUFFICES ASSUME PhoneTypes, IInv, [SyncNext]_syncvars
               PROVE  PhoneTypes' /\ IInv'
    OBVIOUS
  <2>1. PhoneTypes'
    BY PhoneNext, PhoneMoves
  <2>2. file \in [Kinds -> Seq(Event)]
    BY DEF IInv, TypeOK
  <2>3. [Next]_vars
    BY <2>2, DesktopMoves
  <2> QED  BY <2>1, <2>3, NextIInv
<1> QED  BY <1>1, <1>2, PTL DEF SyncSpec

\* Phone, delivery and ingest together refine the merge, whose events are then
\* those the phone writes and nothing else (PinsWriter, ActionsWriter; Syncthing
\* between them and ingest_run).
LEMMA MergeHolds == SyncSpec => Spec
<1>1. SyncInit => Init
  BY DEF SyncInit
<1>2. PhoneTypes /\ IInv /\ [SyncNext]_syncvars => [Next]_vars
  <2>1. IInv => file \in [Kinds -> Seq(Event)]
    BY DEF IInv, TypeOK
  <2> QED  BY <2>1, DesktopMoves
<1> QED  BY <1>1, <1>2, BothTypes, PTL DEF SyncSpec, Spec
-----------------------------------------------------------------------------
(* What is marked as synced was written.                                   *)

\* A row marked as synced has its line in the file, unless the line was lost or
\* overtaken; and so has what a drain is about to mark.
Marked == \A t \in Tracks \ overtaken :
            row[t].ts > 0 /\ row[t].synced =>
              Phone!LineOf(t) \in Phone!Sent("pins") \cup lost
Appends(c) == at[c] = "mark" => Head(todo[c]) \in Phone!Sent("pins") \cup lost
MInv == PhoneTypes /\ Marked /\ \A c \in Coroutines : Appends(c)

\* What was written stays written, and what was lost stays remembered; a step
\* appends the head of what a drain holds, an action, or nothing.
LEMMA Written ==
  ASSUME PhoneTypes, [Phone!Next]_phone
  PROVE  /\ Phone!Sent("pins") \subseteq Phone!Sent("pins")' /\ lost \subseteq lost'
         /\ \A l \in Phone!Logs :
              \/ Phone!Sent(l)' = Phone!Sent(l)
              \/ \E c \in Coroutines :
                   \/ /\ l = "pins" /\ at[c] = "append" /\ todo[c] # <<>>
                      /\ Phone!AppendPin(c) \/ Phone!AppendPinFails(c)
                      /\ Phone!Sent(l)' = Phone!Sent(l) \cup {Head(todo[c])}
                   \/ /\ l = "actions" /\ Phone!EmitAction(c)
                      /\ Phone!Sent(l)' = Phone!Sent(l) \cup {Phone!Action(c, clock')}
<1>1. out' = out => \A l : Phone!Sent(l)' = Phone!Sent(l)
  BY DEF Phone!Sent
<1>2. "pins" \in Phone!Logs /\ "actions" \in Phone!Logs /\ Phone!Logs = {"pins", "actions"}
  BY DEF Phone!Logs
<1>3. ASSUME NEW c \in Coroutines, Phone!AppendPin(c) \/ Phone!AppendPinFails(c)
      PROVE  /\ at[c] = "append" /\ todo[c] # <<>>
             /\ lost \subseteq lost' /\ Phone!Sent("actions")' = Phone!Sent("actions")
             /\ \/ Phone!Sent("pins")' = Phone!Sent("pins")
                \/ Phone!Sent("pins")' = Phone!Sent("pins") \cup {Head(todo[c])}
  <2>1. /\ todo[c] # <<>> /\ at[c] = "append"
        /\ \/ Phone!Appended("pins", Head(todo[c]))
           \/ Phone!AppendFails("pins", Head(todo[c]))
    BY <1>3 DEF Phone!AppendPin, Phone!AppendPinFails
  <2>2. Head(todo[c]) \in Phone!Line
    BY <2>1, HeadType
  <2> QED  BY <1>2, <2>1, <2>2, AppendTypes
<1>4. ASSUME NEW c \in Coroutines, Phone!EmitAction(c)
      PROVE  /\ lost \subseteq lost' /\ Phone!Sent("pins")' = Phone!Sent("pins")
             /\ \/ Phone!Sent("actions")' = Phone!Sent("actions")
                \/ Phone!Sent("actions")' =
                     Phone!Sent("actions") \cup {Phone!Action(c, clock')}
  <2>1. PICK now \in 1..MaxTs :
          /\ clock' = now
          /\ \/ Phone!Appended("actions", Phone!Action(c, now))
             \/ Phone!AppendFails("actions", Phone!Action(c, now))
    BY <1>4 DEF Phone!EmitAction
  <2>2. Phone!Action(c, now) \in Phone!Line
    BY ActionType
  <2> QED  BY <1>2, <2>1, <2>2, AppendTypes
<1>5. ASSUME UNCHANGED <<out, lost>>
      PROVE  /\ lost \subseteq lost'
             /\ \A l \in Phone!Logs : Phone!Sent(l)' = Phone!Sent(l)
  BY <1>1, <1>5
<1>6. \/ UNCHANGED <<out, lost>>
      \/ \E c \in Coroutines : \/ Phone!AppendPin(c) \/ Phone!AppendPinFails(c)
                               \/ Phone!EmitAction(c)
  BY DEF Phone!Next, Phone!TogglePin, Phone!UnsyncTap, Phone!DeleteTap, Phone!Tap,
         Phone!ServiceStart, Phone!ReadExisting, Phone!WritePin, Phone!Unpin,
         Phone!Snapshot, Phone!MarkSynced, Phone!DrainDone, Phone!Killed,
         Phone!files, phone
<1>7. CASE UNCHANGED <<out, lost>>
  BY <1>2, <1>5, <1>7
<1>8. CASE \E c \in Coroutines : Phone!AppendPin(c) \/ Phone!AppendPinFails(c)
  BY <1>2, <1>3, <1>8
<1>9. CASE \E c \in Coroutines : Phone!EmitAction(c)
  BY <1>2, <1>4, <1>9
<1> QED  BY <1>6, <1>7, <1>8, <1>9

\* A row changes when it is written, and is then no longer synced, or when it
\* is marked: with the line of its own state, or it is overtaken.
LEMMA MInvNext ==
  ASSUME MInv, [Phone!Next]_phone
  PROVE  MInv'
<1>1. PhoneTypes /\ PhoneTypes'
  BY PhoneNext DEF MInv
<1>2. /\ at \in [Coroutines -> Phone!Points] /\ todo \in [Coroutines -> Seq(Phone!Line)]
      /\ row \in [Tracks -> Phone!PinRow] /\ id \in [Coroutines -> Tracks]
      /\ \A c \in Coroutines : at[c] = "mark" => todo[c] # <<>>
  BY <1>1 DEF PhoneTypes, Phone!TypeOK
<1> DEFINE W == Phone!Sent("pins") \cup lost
<1>3. W \subseteq W'
  BY <1>1, Written
<1> HIDE DEF W
<1>4. Marked /\ \A c \in Coroutines : Appends(c)
  BY DEF MInv
<1>5. ASSUME UNCHANGED <<row, overtaken>>
      PROVE  Marked'
  <2>1. \A t : Phone!LineOf(t)' = Phone!LineOf(t)
    BY <1>5 DEF Phone!LineOf
  <2> QED  BY <1>3, <1>4, <1>5, <2>1 DEF Marked, W
<1>6. ASSUME UNCHANGED todo, \A c \in Coroutines : at'[c] = "mark" => at[c] = "mark"
      PROVE  \A c \in Coroutines : Appends(c)'
  BY <1>3, <1>4, <1>6 DEF Appends, W
<1>7. \A c \in Coroutines : \A p : Phone!Goto(c, p) =>
        at'[c] = p /\ \A d \in Coroutines \ {c} : at'[d] = at[d]
  BY <1>2 DEF Phone!Goto
<1>8. ASSUME NEW c \in Coroutines, NEW t \in Tracks,
             \/ Phone!TogglePin(c, t) \/ Phone!UnsyncTap(c, t) \/ Phone!DeleteTap(c, t)
      PROVE  MInv'
  <2>1. /\ UNCHANGED <<row, overtaken, todo>>
        /\ \E p \in {"read", "unpin", "delete"} : Phone!Goto(c, p)
    BY <1>8 DEF Phone!TogglePin, Phone!UnsyncTap, Phone!DeleteTap, Phone!Tap
  <2> QED  BY <1>1, <1>5, <1>6, <1>7, <2>1 DEF MInv
<1>9. ASSUME NEW c \in Coroutines,
             \/ Phone!ServiceStart(c) \/ Phone!ReadExisting(c)
             \/ Phone!DrainDone(c) \/ Phone!EmitAction(c)
      PROVE  MInv'
  <2>1. /\ UNCHANGED <<row, overtaken, todo>>
        /\ \E p \in {"drain", "write", "idle", "emit"} : Phone!Goto(c, p)
    BY <1>9
    DEF Phone!ServiceStart, Phone!ReadExisting, Phone!DrainDone, Phone!EmitAction,
        Phone!End
  <2> QED  BY <1>1, <1>5, <1>6, <1>7, <2>1 DEF MInv
<1>10. ASSUME NEW c \in Coroutines, Phone!WritePin(c) \/ Phone!Unpin(c)
       PROVE  MInv'
  <2>1. /\ UNCHANGED todo /\ (Phone!Goto(c, "drain") \/ Phone!Goto(c, "emit"))
        /\ \/ UNCHANGED <<row, overtaken>>
           \/ \E v \in {val[c], FALSE} : Phone!Write(id[c], v, ts[c])
    BY <1>10 DEF Phone!WritePin, Phone!Unpin
  <2>2. ASSUME NEW v, Phone!Write(id[c], v, ts[c])
        PROVE  Marked'
    <3>1. /\ ~row'[id[c]].synced
          /\ \A t \in Tracks \ {id[c]} : row'[t] = row[t]
          /\ overtaken' = overtaken \ {id[c]}
      BY <1>2, <2>2 DEF Phone!Write
    <3>2. \A t \in Tracks \ {id[c]} : Phone!LineOf(t)' = Phone!LineOf(t)
      BY <3>1 DEF Phone!LineOf
    <3> QED  BY <1>3, <1>4, <3>1, <3>2 DEF Marked, W
  <2> QED  BY <1>1, <1>5, <1>6, <1>7, <2>1, <2>2 DEF MInv
<1>11. ASSUME NEW c \in Coroutines, Phone!Snapshot(c)
       PROVE  MInv'
  <2>1. /\ UNCHANGED <<row, overtaken>> /\ Phone!Goto(c, "append")
        /\ \A d \in Coroutines \ {c} : todo'[d] = todo[d]
    BY <1>2, <1>11 DEF Phone!Snapshot
  <2>2. \A d \in Coroutines : Appends(d)'
    BY <1>3, <1>4, <1>7, <2>1 DEF Appends, W
  <2> QED  BY <1>1, <1>5, <2>1, <2>2 DEF MInv
<1>12. ASSUME NEW c \in Coroutines, Phone!AppendPin(c)
       PROVE  MInv'
  <2>1. /\ UNCHANGED <<row, overtaken, todo>> /\ Phone!Goto(c, "mark")
        /\ todo[c] # <<>> /\ Phone!Appended("pins", Head(todo[c]))
    BY <1>12 DEF Phone!AppendPin
  <2>2. Head(todo[c]) \in W'
    <3>1. Head(todo[c]) \in Phone!Line /\ "pins" \in Phone!Logs
      BY <1>1, <2>1, HeadType DEF Phone!Logs
    <3> QED  BY <1>1, <2>1, <3>1, AppendTypes DEF W
  <2>3. \A d \in Coroutines : Appends(d)'
    BY <1>3, <1>4, <1>7, <2>1, <2>2 DEF Appends, W
  <2> QED  BY <1>1, <1>5, <2>1, <2>3 DEF MInv
<1>13. ASSUME NEW c \in Coroutines, Phone!AppendPinFails(c)
       PROVE  MInv'
  <2>1. /\ UNCHANGED <<row, overtaken, at>> /\ at[c] = "append"
        /\ \A d \in Coroutines \ {c} : todo'[d] = todo[d]
    BY <1>2, <1>13 DEF Phone!AppendPinFails
  <2>2. \A d \in Coroutines : Appends(d)'
    BY <1>3, <1>4, <2>1 DEF Appends, W
  <2> QED  BY <1>1, <1>5, <2>1, <2>2 DEF MInv
<1>14. ASSUME NEW c \in Coroutines, Phone!MarkSynced(c)
       PROVE  MInv'
  <2> DEFINE line == Head(todo[c])
  <2>1. /\ at[c] = "mark" /\ Phone!Goto(c, "append")
        /\ \A d \in Coroutines \ {c} : todo'[d] = todo[d]
        /\ row' = [row EXCEPT ![line.id].synced = TRUE]
        /\ overtaken' = IF line = Phone!LineOf(line.id) THEN overtaken
                        ELSE overtaken \cup {line.id}
    BY <1>2, <1>14 DEF Phone!MarkSynced
  <2>2. \A d \in Coroutines : Appends(d)'
    BY <1>3, <1>4, <1>7, <2>1 DEF Appends, W
  <2>3. line \in W /\ line.id \in Tracks
    BY <1>1, <1>2, <1>4, <2>1, HeadType DEF Appends, W, Phone!Line
  <2> HIDE DEF line
  <2>4. /\ \A t \in Tracks : row'[t].ts = row[t].ts /\ row'[t].val = row[t].val
        /\ \A t \in Tracks \ {line.id} : row'[t] = row[t]
    BY <1>2, <2>1 DEF Phone!PinRow
  <2>5. \A t \in Tracks : Phone!LineOf(t)' = Phone!LineOf(t)
    BY <2>4 DEF Phone!LineOf
  <2>6. \A t \in Tracks \ overtaken' :
          row'[t].ts > 0 /\ row'[t].synced => Phone!LineOf(t) \in W
    BY <1>4, <2>1, <2>3, <2>4 DEF Marked, W
  <2>7. Marked'
    BY <1>3, <2>5, <2>6 DEF Marked, W
  <2> QED  BY <1>1, <2>2, <2>7 DEF MInv
<1>15. CASE Phone!Killed
  <2>1. UNCHANGED <<row, overtaken>> /\ \A c \in Coroutines : at'[c] = "idle"
    BY <1>15 DEF Phone!Killed
  <2>2. \A c \in Coroutines : Appends(c)'
    BY <2>1 DEF Appends
  <2> QED  BY <1>1, <1>5, <2>1, <2>2 DEF MInv
<1>16. CASE UNCHANGED phone
  BY <1>1, <1>5, <1>6, <1>16 DEF phone, MInv
<1> QED
  BY <1>8, <1>9, <1>10, <1>11, <1>12, <1>13, <1>14, <1>15, <1>16 DEF Phone!Next

\* Nothing is written yet, and no row is there.
LEMMA MInvInit == Phone!Init => MInv
<1> SUFFICES ASSUME Phone!Init PROVE MInv
  OBVIOUS
<1>1. /\ \A t \in Tracks : row[t].ts = 0
      /\ \A c \in Coroutines : at[c] = "idle"
  BY DEF Phone!Init, Phone!NoPin
<1> QED  BY <1>1, PhoneInit DEF MInv, Marked, Appends

LEMMA MarkInvariant == SyncSpec => []MInv
<1>1. SyncInit => MInv
  BY MInvInit DEF SyncInit
<1>2. MInv /\ [SyncNext]_syncvars => MInv'
  BY MInvNext, PhoneMoves
<1> QED  BY <1>1, <1>2, PTL DEF SyncSpec

\* A pin row marked as synced has its line in the file, however many coroutines
\* interleave, whatever append fails and whenever the app is killed: but for a
\* line that appendLine lost while it reported it, and a row that was changed
\* between a drain's snapshot and its mark (PinsWriter.drain, appendLine).
THEOREM SyncedMeansWrittenHolds == SyncSpec => []SyncedMeansWritten
<1>1. MInv => SyncedMeansWritten
  BY DEF MInv, Marked, SyncedMeansWritten, Phone!SyncedMeansWritten
<1> QED  BY <1>1, MarkInvariant, PTL
-----------------------------------------------------------------------------
(* A row is newer than what was said before.                               *)

\* A line of pins that is in the file, or that some drain has still to append.
Said(e) == \/ e \in Phone!Sent("pins")
           \/ \E c \in Coroutines : \E i \in 1..Len(todo[c]) : todo[c][i] = e

Early(c) == at[c] \in {"read", "write", "unpin"}
Later(c) == at[c] \in {"drain", "append", "mark", "emit"}

\* At most one operation on the track is under way.  One that has still to write
\* took its time after the row and after every action; one that has written
\* and goes on to emit an unsync has turned the row off.
Own(t) == \A c, d \in Coroutines : Phone!Pending(c, t) /\ Phone!Pending(d, t) => c = d
Takes(t) == \A c \in Coroutines : Phone!Pending(c, t) /\ Early(c) =>
              /\ row[t].ts < ts[c]
              /\ \A a \in Phone!Sent("actions") : a.id = t => a.ts < ts[c]
Off(t) == \A c \in Coroutines : Phone!Pending(c, t) /\ Later(c) => ~row[t].val

\* No line is newer than its row; a row that is on is newer than every unsync.
Newest(t) == \A e \in Phone!Line : Said(e) /\ e.id = t =>
               /\ e.ts <= row[t].ts
               /\ e.ts = row[t].ts => e = Phone!LineOf(t)
OnIsNewer(t) == row[t].val =>
                  /\ row[t].ts > 0
                  /\ \A a \in Phone!Sent("actions") :
                       a.id = t => a.val \/ a.ts < row[t].ts
Track(t) == Own(t) /\ Takes(t) /\ Off(t) /\ Newest(t) /\ OnIsNewer(t)

Past == \A l \in Phone!Logs : \A e \in Phone!Sent(l) : e.ts <= clock
Rest == \A c \in Coroutines : at[c] = "idle" => val[c]
OInv == PhoneTypes /\ Past /\ Rest /\ \A t \in Tracks \ crossed : Track(t)

\* Nothing is sent ahead of its time: a drain holds lines of past events, and an
\* action takes the time it is written.
LEMMA PastNext ==
  ASSUME OInv, [Phone!Next]_phone
  PROVE  Past'
<1>1. PhoneTypes /\ PhoneTypes' /\ clock \in Nat /\ clock' \in Nat
  BY PhoneNext, MergeAssumption DEF OInv, PhoneTypes, Phone!TypeOK
<1>2. clock <= clock'
  <2>1. clock' = clock \/ clock' = clock + 1
    <3>1. ASSUME NEW c \in Coroutines, NEW t \in Tracks,
                 \/ Phone!TogglePin(c, t) \/ Phone!UnsyncTap(c, t) \/ Phone!DeleteTap(c, t)
          PROVE  clock' = clock + 1
      BY <3>1 DEF Phone!TogglePin, Phone!UnsyncTap, Phone!DeleteTap, Phone!Tap
    <3>2. ASSUME NEW c \in Coroutines, Phone!EmitAction(c)
          PROVE  clock' = clock \/ clock' = clock + 1
      BY <3>2 DEF Phone!EmitAction
    <3>3. ASSUME NEW c \in Coroutines,
                 \/ Phone!ServiceStart(c) \/ Phone!ReadExisting(c)
                 \/ Phone!WritePin(c) \/ Phone!Unpin(c) \/ Phone!Snapshot(c)
                 \/ Phone!AppendPin(c) \/ Phone!AppendPinFails(c)
                 \/ Phone!MarkSynced(c) \/ Phone!DrainDone(c)
          PROVE  clock' = clock
      BY <3>3
      DEF Phone!ServiceStart, Phone!ReadExisting, Phone!WritePin, Phone!Unpin,
          Phone!Snapshot, Phone!AppendPin, Phone!AppendPinFails, Phone!MarkSynced,
          Phone!DrainDone
    <3>4. Phone!Killed \/ UNCHANGED phone => clock' = clock
      BY DEF Phone!Killed, phone
    <3> QED  BY <3>1, <3>2, <3>3, <3>4 DEF Phone!Next
  <2> QED  BY <1>1, <2>1
<1> SUFFICES ASSUME NEW l \in Phone!Logs, NEW e \in Phone!Sent(l)'
             PROVE  e.ts <= clock'
  BY DEF Past
<1>3. CASE e \in Phone!Sent(l)
  <2>1. e.ts \in Nat
    BY <1>1, <1>3, SentType, MergeAssumption DEF Phone!Line
  <2>2. e.ts <= clock
    BY <1>3 DEF OInv, Past
  <2> QED  BY <1>1, <1>2, <2>1, <2>2
<1>4. CASE \E c \in Coroutines : todo[c] # <<>> /\ e = Head(todo[c])
  <2>1. e.ts <= clock /\ e.ts \in Nat
    BY <1>1, <1>4, HeadType, MergeAssumption DEF Phone!Line
  <2> QED  BY <1>1, <1>2, <2>1
<1>5. CASE \E c \in Coroutines : e = Phone!Action(c, clock')
  <2>1. e.ts = clock'
    BY <1>5 DEF Phone!Action
  <2> QED  BY <1>1, <2>1
<1>6. \/ Phone!Sent(l)' = Phone!Sent(l)
      \/ \E c \in Coroutines :
           \/ todo[c] # <<>> /\ Phone!Sent(l)' = Phone!Sent(l) \cup {Head(todo[c])}
           \/ Phone!Sent(l)' = Phone!Sent(l) \cup {Phone!Action(c, clock')}
  BY <1>1, Written
<1> QED  BY <1>3, <1>4, <1>5, <1>6

\* A step that leaves the state of every row, appends no action, adds to the
\* lines said no more than rows as they are, and starts no operation.
LEMMA TrackKept ==
  ASSUME OInv, NEW t \in Tracks \ crossed,
         row'[t].ts = row[t].ts, row'[t].val = row[t].val,
         Phone!Sent("actions")' = Phone!Sent("actions"),
         \A e \in Phone!Line : Said(e)' /\ e.id = t => Said(e) \/ e = Phone!LineOf(t),
         \A c \in Coroutines :
           Phone!Pending(c, t)' => /\ Phone!Pending(c, t)
                                   /\ Early(c)' => Early(c) /\ ts'[c] = ts[c]
                                   /\ Later(c)' => Later(c)
  PROVE  Track(t)'
<1>1. Track(t) /\ Phone!LineOf(t)' = Phone!LineOf(t)
  BY DEF OInv, Phone!LineOf
<1>2. Own(t)' /\ Takes(t)' /\ Off(t)'
  BY <1>1 DEF Track, Own, Takes, Off
<1>3. Newest(t)'
  <2>1. row[t].ts \in Nat /\ Phone!LineOf(t).ts = row[t].ts
    BY MergeAssumption DEF OInv, PhoneTypes, Phone!TypeOK, Phone!PinRow, Phone!LineOf
  <2>2. ASSUME NEW e \in Phone!Line, Said(e)', e.id = t
        PROVE  e.ts <= row[t].ts /\ (e.ts = row[t].ts => e = Phone!LineOf(t))
    <3>1. CASE Said(e)
      BY <1>1, <2>2, <3>1 DEF Track, Newest
    <3>2. CASE e = Phone!LineOf(t)
      BY <2>1, <3>2
    <3> QED  BY <2>2, <3>1, <3>2
  <2> QED  BY <1>1, <2>2 DEF Newest, Phone!Line
<1>4. OnIsNewer(t)'
  BY <1>1 DEF Track, OnIsNewer
<1> QED  BY <1>2, <1>3, <1>4 DEF Track

\* A tap on a track on which nothing is pending takes a time after everything.
LEMMA TrackTap ==
  ASSUME OInv, NEW c \in Coroutines, NEW u \in Tracks,
         NEW p \in {"read", "unpin", "delete"}, Phone!Tap(c, u, p),
         NEW t \in Tracks \ crossed'
  PROVE  Track(t)'
<1>1. /\ at[c] = "idle" /\ clock' = clock + 1 /\ UNCHANGED <<row, out, val, todo>>
      /\ id' = [id EXCEPT ![c] = u] /\ ts' = [ts EXCEPT ![c] = clock + 1]
      /\ at' = [at EXCEPT ![c] = p]
      /\ crossed' = IF \E d \in Coroutines : Phone!Pending(d, u) THEN crossed \cup {u}
                    ELSE crossed
  BY DEF Phone!Tap, Phone!Goto, Phone!files
<1>2. t \in Tracks \ crossed
  BY <1>1
<1>3. /\ at'[c] = p /\ id'[c] = u /\ ts'[c] = clock + 1
      /\ \A d \in Coroutines \ {c} : at'[d] = at[d] /\ id'[d] = id[d] /\ ts'[d] = ts[d]
      /\ clock \in Nat
  BY <1>1, MergeAssumption DEF OInv, PhoneTypes, Phone!TypeOK
<1>4. \A l \in Phone!Logs : Phone!Sent(l)' = Phone!Sent(l)
  BY <1>1 DEF Phone!Sent
<1>5. "pins" \in Phone!Logs /\ "actions" \in Phone!Logs
  BY DEF Phone!Logs
<1>6. \A e : Said(e)' <=> Said(e)
  BY <1>1, <1>4, <1>5 DEF Said
<1>7. \A d \in Coroutines \ {c} :
        (Phone!Pending(d, t)' <=> Phone!Pending(d, t)) /\ (Early(d)' <=> Early(d))
        /\ (Later(d)' <=> Later(d))
  BY <1>1, <1>3 DEF Phone!Pending, Early, Later
<1>8. CASE t # u
  <2>1. ~Phone!Pending(c, t)'
    BY <1>3, <1>8 DEF Phone!Pending
  <2> QED  BY <1>1, <1>2, <1>3, <1>4, <1>5, <1>6, <1>7, <2>1, TrackKept
<1>9. CASE t = u
  <2>1. \A d \in Coroutines : ~Phone!Pending(d, t)
    BY <1>1, <1>9
  <2>2. Own(t)' /\ Off(t)'
    BY <1>3, <1>7, <2>1 DEF Own, Off, Later
  <2>3. row[t].ts <= clock /\ row[t].ts \in Nat
    BY MergeAssumption
    DEF OInv, PhoneTypes, Timely, Phone!TypeOK, Phone!PinRow
  <2>4. \A a \in Phone!Sent("actions") : a.ts <= clock /\ a.ts \in Nat
    BY <1>5, SentType, MergeAssumption DEF OInv, Past, Phone!Line
  <2>5. Takes(t)'
    BY <1>1, <1>3, <1>4, <1>5, <1>7, <2>1, <2>3, <2>4 DEF Takes
  <2>6. Newest(t) /\ OnIsNewer(t) /\ Phone!LineOf(t)' = Phone!LineOf(t)
    BY <1>1, <1>2 DEF OInv, Track, Phone!LineOf
  <2>7. Newest(t)'
    BY <1>1, <1>6, <2>6 DEF Newest, Phone!Line
  <2>8. OnIsNewer(t)'
    BY <1>1, <1>4, <1>5, <2>6 DEF OnIsNewer
  <2> QED  BY <2>2, <2>5, <2>7, <2>8 DEF Track
<1> QED  BY <1>8, <1>9

\* A row written with a time after the row, every line and every action.
LEMMA TrackWrite ==
  ASSUME OInv, NEW c \in Coroutines, NEW v \in BOOLEAN,
         Phone!Pending(c, id[c]), Early(c), Phone!Write(id[c], v, ts[c]),
         UNCHANGED <<out, id, ts, val, todo>>,
         NEW p \in {"drain", "emit"}, Phone!Goto(c, p),
         p = "emit" => ~v, p = "drain" => val[c] = v,
         NEW t \in Tracks \ crossed
  PROVE  Track(t)'
<1>1. /\ row \in [Tracks -> Phone!PinRow] /\ id[c] \in Tracks
      /\ at \in [Coroutines -> Phone!Points] /\ ts[c] \in Nat
  BY MergeAssumption DEF OInv, PhoneTypes, Phone!TypeOK
<1>2. /\ row'[id[c]] = [ts |-> ts[c], val |-> v, synced |-> FALSE]
      /\ \A u \in Tracks \ {id[c]} : row'[u] = row[u]
      /\ at'[c] = p /\ \A d \in Coroutines \ {c} : at'[d] = at[d]
  BY <1>1 DEF Phone!Write, Phone!Goto
<1>3. \A l : Phone!Sent(l)' = Phone!Sent(l)
  BY DEF Phone!Sent
<1>4. \A e : Said(e)' <=> Said(e)
  BY <1>3 DEF Said
<1>5. \A d \in Coroutines \ {c} :
        (Phone!Pending(d, t)' <=> Phone!Pending(d, t)) /\ (Early(d)' <=> Early(d))
        /\ (Later(d)' <=> Later(d))
  BY <1>2 DEF Phone!Pending, Early, Later
<1>6. CASE t # id[c]
  <2>1. ~Phone!Pending(c, t)'
    BY <1>6 DEF Phone!Pending
  <2> QED  BY <1>2, <1>3, <1>4, <1>5, <1>6, <2>1, TrackKept
<1>7. CASE t = id[c]
  <2>1. Track(t) /\ Phone!Pending(c, t)
    BY <1>7 DEF OInv
  <2>2. /\ \A d \in Coroutines \ {c} : ~Phone!Pending(d, t)
        /\ row[t].ts < ts[c]
        /\ \A a \in Phone!Sent("actions") : a.id = t => a.ts < ts[c]
    BY <2>1 DEF Track, Own, Takes
  <2>3. row'[t].ts = ts[c] /\ row'[t].val = v /\ row[t].ts \in Nat
    BY <1>1, <1>2, <1>7, MergeAssumption DEF Phone!PinRow
  <2>4. Own(t)' /\ Takes(t)'
    BY <1>2, <1>5, <2>2 DEF Own, Takes, Early
  <2>5. Off(t)'
    BY <1>2, <1>5, <2>2, <2>3 DEF Off, Phone!Pending
  <2>6. Newest(t)'
    <3> SUFFICES ASSUME NEW e \in Phone!Line, Said(e), e.id = t
                 PROVE  e.ts < row'[t].ts
      <4>1. \A e \in Phone!Line : e.ts \in Nat
        BY MergeAssumption DEF Phone!Line
      <4>2. row'[t].ts \in Nat /\ Phone!Line' = Phone!Line
        BY <1>1, <2>3 DEF Phone!Line
      <4> QED  BY <1>4, <4>1, <4>2 DEF Newest
    <3>1. e.ts <= row[t].ts /\ e.ts \in Nat
      BY <2>1, MergeAssumption DEF Track, Newest, Phone!Line
    <3> QED  BY <1>1, <2>2, <2>3, <3>1
  <2>7. OnIsNewer(t)'
    BY <1>1, <1>3, <2>2, <2>3 DEF OnIsNewer
  <2> QED  BY <2>4, <2>5, <2>6, <2>7 DEF Track
<1> QED  BY <1>6, <1>7

\* Every step keeps what is known of a track on which no two operations overlap.
LEMMA TrackNext ==
  ASSUME OInv, [Phone!Next]_phone, NEW t \in Tracks \ crossed'
  PROVE  Track(t)'
<1>1. /\ at \in [Coroutines -> Phone!Points] /\ id \in [Coroutines -> Tracks]
      /\ row \in [Tracks -> Phone!PinRow] /\ val \in [Coroutines -> BOOLEAN]
      /\ ts \in [Coroutines -> 0..MaxTs] /\ todo \in [Coroutines -> Seq(Phone!Line)]
      /\ \A c \in Coroutines : at[c] = "mark" => todo[c] # <<>>
      /\ PhoneTypes
  BY DEF OInv, PhoneTypes, Phone!TypeOK
<1>2. "pins" \in Phone!Logs /\ "actions" \in Phone!Logs
  BY DEF Phone!Logs
<1>3. \A c \in Coroutines : \A p : Phone!Goto(c, p) =>
        at'[c] = p /\ \A d \in Coroutines \ {c} : at'[d] = at[d]
  BY <1>1 DEF Phone!Goto
<1>4. out' = out => \A l : Phone!Sent(l)' = Phone!Sent(l)
  BY DEF Phone!Sent
<1>5. out' = out /\ todo' = todo => \A e : Said(e)' <=> Said(e)
  BY <1>4 DEF Said
<1>6. ASSUME NEW c \in Coroutines, NEW u \in Tracks,
             \/ Phone!TogglePin(c, u) \/ Phone!UnsyncTap(c, u) \/ Phone!DeleteTap(c, u)
      PROVE  Track(t)'
  BY <1>6, TrackTap DEF Phone!TogglePin, Phone!UnsyncTap, Phone!DeleteTap
<1>7. ASSUME NEW c \in Coroutines, t \notin crossed,
             \/ Phone!ServiceStart(c) \/ Phone!ReadExisting(c) \/ Phone!DrainDone(c)
      PROVE  Track(t)'
  <2>1. UNCHANGED <<row, out, id, todo>> /\ \A d \in Coroutines \ {c} : val'[d] = val[d]
    BY <1>1, <1>7
    DEF Phone!ServiceStart, Phone!ReadExisting, Phone!DrainDone, Phone!End, Phone!files
  <2>2. \A d \in Coroutines \ {c} : at'[d] = at[d] /\ ts'[d] = ts[d]
    BY <1>1, <1>3, <1>7
    DEF Phone!ServiceStart, Phone!ReadExisting, Phone!DrainDone, Phone!End
  <2>3. Phone!Pending(c, t)' => /\ Phone!Pending(c, t)
                                /\ Early(c)' => Early(c) /\ ts'[c] = ts[c]
                                /\ Later(c)' => Later(c)
    <3>1. CASE Phone!ServiceStart(c)
      <4>1. at'[c] = "drain" /\ val'[c] /\ id'[c] = id[c]
        BY <1>3, <3>1 DEF Phone!ServiceStart, OInv, Rest
      <4> QED  BY <4>1 DEF Phone!Pending
    <3>2. CASE Phone!ReadExisting(c)
      <4>1. at[c] = "read" /\ at'[c] = "write" /\ id'[c] = id[c] /\ ts'[c] = ts[c]
        BY <1>3, <3>2 DEF Phone!ReadExisting
      <4> QED  BY <4>1 DEF Phone!Pending, Early, Later
    <3>3. CASE Phone!DrainDone(c)
      <4>1. /\ at[c] = "append" /\ id'[c] = id[c]
            /\ at'[c] = "idle" \/ (at'[c] = "emit" /\ ~val[c])
        BY <1>3, <3>3 DEF Phone!DrainDone, Phone!End
      <4> QED  BY <4>1 DEF Phone!Pending, Early, Later
    <3> QED  BY <1>7, <3>1, <3>2, <3>3
  <2>4. \A d \in Coroutines \ {c} :
          (Phone!Pending(d, t)' <=> Phone!Pending(d, t)) /\ (Early(d)' <=> Early(d))
          /\ (Later(d)' <=> Later(d))
    BY <2>1, <2>2 DEF Phone!Pending, Early, Later
  <2> QED  BY <1>2, <1>4, <1>5, <1>7, <2>1, <2>2, <2>3, <2>4, TrackKept
<1>8. ASSUME NEW c \in Coroutines, t \notin crossed, Phone!WritePin(c)
      PROVE  Track(t)'
  <2>1. /\ at[c] = "write" /\ Phone!Write(id[c], val[c], ts[c]) /\ Phone!Goto(c, "drain")
        /\ UNCHANGED <<out, id, ts, val, todo>>
    BY <1>8 DEF Phone!WritePin, Phone!files
  <2>2. Phone!Pending(c, id[c]) /\ Early(c) /\ val[c] \in BOOLEAN
    BY <1>1, <2>1 DEF Phone!Pending, Early
  <2> QED  BY <1>8, <2>1, <2>2, TrackWrite
<1>9. ASSUME NEW c \in Coroutines, t \notin crossed, Phone!Unpin(c)
      PROVE  Track(t)'
  <2>1. /\ at[c] = "unpin" /\ Phone!Goto(c, "emit")
        /\ UNCHANGED <<out, id, ts, val, todo>>
        /\ IF row[id[c]].ts > 0 THEN Phone!Write(id[c], FALSE, ts[c]) ELSE row' = row
    BY <1>9 DEF Phone!Unpin, Phone!files
  <2>2. Phone!Pending(c, id[c]) /\ Early(c)
    BY <2>1 DEF Phone!Pending, Early
  <2>3. CASE row[id[c]].ts > 0
    <3>1. Phone!Write(id[c], FALSE, ts[c])
      BY <2>1, <2>3
    <3> QED  BY <1>9, <2>1, <2>2, <3>1, TrackWrite
  <2>4. CASE ~(row[id[c]].ts > 0)
    <3>1. /\ row' = row /\ at'[c] = "emit"
          /\ \A d \in Coroutines \ {c} : at'[d] = at[d]
      BY <1>3, <2>1, <2>4
    <3>2. Track(t) /\ Phone!LineOf(t)' = Phone!LineOf(t)
      BY <1>9, <3>1 DEF OInv, Phone!LineOf
    <3>3. /\ \A d \in Coroutines : Phone!Pending(d, t)' => Phone!Pending(d, t)
          /\ \A d \in Coroutines : Early(d)' => Early(d)
          /\ \A d \in Coroutines \ {c} : Later(d)' => Later(d)
      BY <2>1, <3>1 DEF Phone!Pending, Early, Later
    <3>4. id[c] = t => ~row[t].val
      BY <2>4, <3>2 DEF Track, OnIsNewer
    <3>5. Own(t)' /\ Takes(t)'
      BY <1>2, <1>4, <2>1, <3>1, <3>2, <3>3 DEF Track, Own, Takes
    <3>6. Off(t)'
      <4>1. Phone!Pending(c, t)' => id[c] = t
        BY <2>1 DEF Phone!Pending
      <4> QED  BY <3>1, <3>2, <3>3, <3>4, <4>1 DEF Track, Off
    <3>7. Newest(t)' /\ OnIsNewer(t)'
      BY <1>2, <1>4, <1>5, <2>1, <3>1, <3>2 DEF Track, Newest, OnIsNewer, Phone!Line
    <3> QED  BY <3>5, <3>6, <3>7 DEF Track
  <2> QED  BY <2>3, <2>4
<1>10. ASSUME NEW c \in Coroutines, UNCHANGED <<id, ts, val>>,
              \A d \in Coroutines \ {c} : at'[d] = at[d],
              at[c] \in {"drain", "append", "mark"},
              at'[c] \in {"drain", "append", "mark"}
       PROVE  \A d \in Coroutines :
                Phone!Pending(d, t)' => /\ Phone!Pending(d, t)
                                        /\ Early(d)' => Early(d) /\ ts'[d] = ts[d]
                                        /\ Later(d)' => Later(d)
  BY <1>10 DEF Phone!Pending, Early, Later
<1>11. ASSUME NEW c \in Coroutines, t \notin crossed, Phone!Snapshot(c)
       PROVE  Track(t)'
  <2>1. /\ at[c] = "drain" /\ at'[c] = "append" /\ UNCHANGED <<row, out, id, ts, val>>
        /\ \A d \in Coroutines \ {c} : at'[d] = at[d] /\ todo'[d] = todo[d]
    BY <1>1, <1>3, <1>11 DEF Phone!Snapshot, Phone!files
  <2>2. \A i \in 1..Len(todo'[c]) : \E u \in Tracks : todo'[c][i] = Phone!LineOf(u)
    <3> DEFINE n == Phone!Cardinality(Phone!Unsynced)
    <3>1. PICK s \in [1..n -> Phone!Unsynced] :
            todo' = [todo EXCEPT ![c] = [i \in DOMAIN s |-> Phone!LineOf(s[i])]]
      BY <1>11 DEF Phone!Snapshot
    <3>2. n \in Nat
      BY <1>1, SameCardinality, FS_CardinalityType DEF PhoneTypes, Timely
    <3> HIDE DEF n
    <3>3. todo'[c] = [i \in 1..n |-> Phone!LineOf(s[i])]
      BY <1>1, <3>1
    <3>4. Len(todo'[c]) = n
      BY <3>2, <3>3
    <3>5. \A i \in 1..n : s[i] \in Tracks
      BY <3>1 DEF Phone!Unsynced
    <3> QED  BY <3>3, <3>4, <3>5
  <2>3. \A e \in Phone!Line : Said(e)' /\ e.id = t => Said(e) \/ e = Phone!LineOf(t)
    <3> SUFFICES ASSUME NEW e \in Phone!Line, Said(e)', e.id = t, ~Said(e)
                 PROVE  e = Phone!LineOf(t)
      OBVIOUS
    <3>1. PICK i \in 1..Len(todo'[c]) : todo'[c][i] = e
      BY <1>2, <1>4, <2>1 DEF Said
    <3>2. PICK u \in Tracks : todo'[c][i] = Phone!LineOf(u)
      BY <2>2
    <3>3. e = Phone!LineOf(u)
      BY <3>1, <3>2
    <3>4. Phone!LineOf(u).id = u
      BY DEF Phone!LineOf
    <3> QED  BY <3>3, <3>4
  <2> QED  BY <1>2, <1>4, <1>10, <1>11, <2>1, <2>3, TrackKept
<1>12. ASSUME NEW c \in Coroutines, t \notin crossed,
              Phone!AppendPin(c) \/ Phone!AppendPinFails(c)
       PROVE  Track(t)'
  <2>1. /\ UNCHANGED <<row, id, ts, val>> /\ at[c] = "append" /\ todo[c] # <<>>
        /\ at'[c] \in {"append", "mark"} /\ \A d \in Coroutines \ {c} : at'[d] = at[d]
        /\ \A d \in Coroutines \ {c} : todo'[d] = todo[d]
        /\ todo'[c] = todo[c] \/ todo'[c] = Tail(todo[c])
        /\ \/ Phone!Appended("pins", Head(todo[c]))
           \/ Phone!AppendFails("pins", Head(todo[c]))
    BY <1>1, <1>3, <1>12 DEF Phone!AppendPin, Phone!AppendPinFails
  <2>2. /\ Head(todo[c]) \in Phone!Line /\ Head(todo[c]) = todo[c][1]
        /\ 1 \in 1..Len(todo[c])
        /\ \A i \in 1..Len(Tail(todo[c])) :
             i + 1 \in 1..Len(todo[c]) /\ Tail(todo[c])[i] = todo[c][i + 1]
    BY <1>1, <2>1, HeadType
  <2>3. /\ Phone!Sent("actions")' = Phone!Sent("actions")
        /\ Phone!Sent("pins")' \subseteq Phone!Sent("pins") \cup {Head(todo[c])}
    BY <1>1, <1>2, <2>1, <2>2, AppendTypes
  <2>4. Said(Head(todo[c]))
    BY <2>2 DEF Said
  <2>5. \A d \in Coroutines : \A i \in 1..Len(todo'[d]) :
          \E j \in 1..Len(todo[d]) : todo'[d][i] = todo[d][j]
    <3> SUFFICES ASSUME NEW d \in Coroutines, NEW i \in 1..Len(todo'[d])
                 PROVE  \E j \in 1..Len(todo[d]) : todo'[d][i] = todo[d][j]
      OBVIOUS
    <3>1. CASE todo'[d] = todo[d]
      BY <3>1
    <3>2. CASE d = c /\ todo'[c] = Tail(todo[c])
      <4>1. i \in 1..Len(Tail(todo[c])) /\ todo'[d][i] = Tail(todo[c])[i]
        BY <3>2
      <4>2. i + 1 \in 1..Len(todo[c]) /\ Tail(todo[c])[i] = todo[c][i + 1]
        BY <2>2, <4>1
      <4>3. todo'[d][i] = todo[d][i + 1] /\ i + 1 \in 1..Len(todo[d])
        BY <3>2, <4>1, <4>2
      <4> QED  BY <4>3
    <3>3. d # c => todo'[d] = todo[d]
      BY <2>1
    <3> QED  BY <2>1, <3>1, <3>2, <3>3
  <2>6. \A e : Said(e)' => Said(e)
    BY <2>3, <2>4, <2>5 DEF Said
  <2> QED  BY <1>10, <1>12, <2>1, <2>3, <2>6, TrackKept
<1>13. ASSUME NEW c \in Coroutines, t \notin crossed, Phone!MarkSynced(c)
       PROVE  Track(t)'
  <2>1. /\ UNCHANGED <<out, id, ts, val>> /\ at[c] = "mark" /\ at'[c] = "append"
        /\ \A d \in Coroutines \ {c} : at'[d] = at[d] /\ todo'[d] = todo[d]
        /\ todo'[c] = Tail(todo[c]) /\ todo[c] # <<>>
        /\ row' = [row EXCEPT ![Head(todo[c]).id].synced = TRUE]
    BY <1>1, <1>3, <1>13 DEF Phone!MarkSynced, Phone!files
  <2>2. \A i \in 1..Len(Tail(todo[c])) :
          i + 1 \in 1..Len(todo[c]) /\ Tail(todo[c])[i] = todo[c][i + 1]
    BY <1>1, <2>1, HeadType
  <2>3. row'[t].ts = row[t].ts /\ row'[t].val = row[t].val
    BY <1>1, <2>1 DEF Phone!PinRow
  <2>4. \A d \in Coroutines : \A i \in 1..Len(todo'[d]) :
          \E j \in 1..Len(todo[d]) : todo'[d][i] = todo[d][j]
    <3> SUFFICES ASSUME NEW d \in Coroutines, NEW i \in 1..Len(todo'[d])
                 PROVE  \E j \in 1..Len(todo[d]) : todo'[d][i] = todo[d][j]
      OBVIOUS
    <3>1. CASE todo'[d] = todo[d]
      BY <3>1
    <3>2. CASE d = c /\ todo'[c] = Tail(todo[c])
      <4>1. i \in 1..Len(Tail(todo[c])) /\ todo'[d][i] = Tail(todo[c])[i]
        BY <3>2
      <4>2. i + 1 \in 1..Len(todo[c]) /\ Tail(todo[c])[i] = todo[c][i + 1]
        BY <2>2, <4>1
      <4>3. todo'[d][i] = todo[d][i + 1] /\ i + 1 \in 1..Len(todo[d])
        BY <3>2, <4>1, <4>2
      <4> QED  BY <4>3
    <3>3. d # c => todo'[d] = todo[d]
      BY <2>1
    <3> QED  BY <2>1, <3>1, <3>2, <3>3
  <2>5. \A e : Said(e)' => Said(e)
    BY <1>4, <2>1, <2>4 DEF Said
  <2> QED  BY <1>2, <1>4, <1>10, <1>13, <2>1, <2>3, <2>5, TrackKept
<1>14. ASSUME NEW c \in Coroutines, t \notin crossed, Phone!EmitAction(c)
       PROVE  Track(t)'
  <2> DEFINE a == Phone!Action(c, clock')
  <2>1. /\ at[c] \in {"emit", "delete"} /\ at'[c] = "idle" /\ UNCHANGED <<row, id, todo>>
        /\ \A d \in Coroutines \ {c} : at'[d] = at[d] /\ ts'[d] = ts[d] /\ val'[d] = val[d]
    BY <1>1, <1>3, <1>14 DEF Phone!EmitAction, Phone!End
  <2>2. /\ Phone!Sent("pins")' = Phone!Sent("pins")
        /\ Phone!Sent("actions")' \subseteq Phone!Sent("actions") \cup {a}
    <3>1. PICK now \in 1..MaxTs :
            /\ clock' = now
            /\ \/ Phone!Appended("actions", Phone!Action(c, now))
               \/ Phone!AppendFails("actions", Phone!Action(c, now))
      BY <1>14 DEF Phone!EmitAction
    <3>2. Phone!Action(c, now) \in Phone!Line
      BY <1>1, ActionType
    <3> QED  BY <1>1, <1>2, <3>1, <3>2, AppendTypes
  <2>3. a.id = id[c] /\ (a.val <=> at[c] = "delete")
    BY DEF Phone!Action
  <2> HIDE DEF a
  <2>4. /\ ~Phone!Pending(c, t)'
        /\ \A d \in Coroutines \ {c} :
             (Phone!Pending(d, t)' <=> Phone!Pending(d, t)) /\ (Early(d)' <=> Early(d))
             /\ (Later(d)' <=> Later(d))
    BY <2>1 DEF Phone!Pending, Early, Later
  <2>5. Track(t) /\ Phone!LineOf(t)' = Phone!LineOf(t)
    BY <1>14, <2>1 DEF OInv, Phone!LineOf
  <2>6. id[c] = t => /\ \A d \in Coroutines \ {c} : ~Phone!Pending(d, t)
                     /\ a.val \/ ~row[t].val
    <3>1. id[c] = t => Phone!Pending(c, t)
      BY <2>1 DEF Phone!Pending
    <3>2. at[c] = "emit" => Later(c)
      BY DEF Later
    <3> QED  BY <2>1, <2>3, <2>5, <3>1, <3>2 DEF Track, Own, Off
  <2>7. Own(t)' /\ Off(t)'
    BY <2>1, <2>4, <2>5 DEF Track, Own, Off
  <2>8. Takes(t)'
    <3> SUFFICES ASSUME NEW d \in Coroutines, Phone!Pending(d, t)', Early(d)'
                 PROVE  /\ row'[t].ts < ts'[d]
                        /\ \A b \in Phone!Sent("actions")' : b.id = t => b.ts < ts'[d]
      BY DEF Takes
    <3>1. d # c /\ Phone!Pending(d, t) /\ Early(d) /\ id[c] # t
      BY <2>4, <2>6
    <3> QED  BY <2>1, <2>2, <2>3, <2>5, <3>1 DEF Track, Takes
  <2>9. Newest(t)'
    <3>1. \A e : Said(e)' <=> Said(e)
      BY <2>1, <2>2 DEF Said
    <3> QED  BY <2>1, <2>5, <3>1 DEF Track, Newest, Phone!Line
  <2>10. OnIsNewer(t)'
    BY <2>1, <2>2, <2>3, <2>5, <2>6 DEF Track, OnIsNewer
  <2> QED  BY <2>7, <2>8, <2>9, <2>10 DEF Track
<1>15. ASSUME t \notin crossed, Phone!Killed \/ UNCHANGED phone
       PROVE  Track(t)'
  <2>1. /\ UNCHANGED <<row, out, id>>
        /\ \/ UNCHANGED <<at, ts, val, todo>>
           \/ \A d \in Coroutines : at'[d] = "idle" /\ todo'[d] = <<>>
    BY <1>15 DEF Phone!Killed, Phone!files, phone
  <2>2. \A e : Said(e)' => Said(e)
    BY <1>4, <2>1 DEF Said
  <2>3. \A d \in Coroutines :
          Phone!Pending(d, t)' => /\ Phone!Pending(d, t)
                                  /\ Early(d)' => Early(d) /\ ts'[d] = ts[d]
                                  /\ Later(d)' => Later(d)
    BY <2>1 DEF Phone!Pending, Early, Later
  <2> QED  BY <1>2, <1>4, <1>15, <2>1, <2>2, <2>3, TrackKept
<1>16. ASSUME UNCHANGED crossed
       PROVE  t \notin crossed
  BY <1>16
<1>17. ASSUME NEW c \in Coroutines,
              \/ Phone!ServiceStart(c) \/ Phone!ReadExisting(c)
              \/ Phone!WritePin(c) \/ Phone!Unpin(c) \/ Phone!Snapshot(c)
              \/ Phone!AppendPin(c) \/ Phone!AppendPinFails(c)
              \/ Phone!MarkSynced(c) \/ Phone!DrainDone(c) \/ Phone!EmitAction(c)
       PROVE  t \notin crossed
  BY <1>16, <1>17
  DEF Phone!ServiceStart, Phone!ReadExisting, Phone!WritePin, Phone!Unpin,
      Phone!Snapshot, Phone!AppendPin, Phone!AppendPinFails, Phone!MarkSynced,
      Phone!DrainDone, Phone!EmitAction
<1>18. Phone!Killed \/ UNCHANGED phone => t \notin crossed
  BY <1>16 DEF Phone!Killed, phone
<1> QED
  BY <1>6, <1>7, <1>8, <1>9, <1>11, <1>12, <1>13, <1>14, <1>15, <1>17, <1>18
  DEF Phone!Next

LEMMA OInvNext ==
  ASSUME OInv, [Phone!Next]_phone
  PROVE  OInv'
<1>1. PhoneTypes' /\ Past' /\ \A t \in Tracks \ crossed' : Track(t)'
  BY PhoneNext, PastNext, TrackNext DEF OInv
<1>2. /\ at \in [Coroutines -> Phone!Points] /\ val \in [Coroutines -> BOOLEAN]
      /\ Rest
  BY DEF OInv, PhoneTypes, Phone!TypeOK
<1>3. \A c \in Coroutines : \A p : Phone!Goto(c, p) =>
        at'[c] = p /\ \A d \in Coroutines \ {c} : at'[d] = at[d]
  BY <1>2 DEF Phone!Goto
<1>4. ASSUME NEW c \in Coroutines, at'[c] # "idle",
             \A d \in Coroutines \ {c} : at'[d] = at[d] /\ val'[d] = val[d]
      PROVE  Rest'
  BY <1>2, <1>4 DEF Rest
<1>5. ASSUME NEW c \in Coroutines, NEW t \in Tracks,
             \/ Phone!TogglePin(c, t) \/ Phone!UnsyncTap(c, t) \/ Phone!DeleteTap(c, t)
      PROVE  Rest'
  <2>1. UNCHANGED val /\ \E p \in {"read", "unpin", "delete"} : Phone!Goto(c, p)
    BY <1>5 DEF Phone!TogglePin, Phone!UnsyncTap, Phone!DeleteTap, Phone!Tap
  <2> QED  BY <1>3, <1>4, <2>1
<1>6. ASSUME NEW c \in Coroutines,
             \/ Phone!ServiceStart(c) \/ Phone!ReadExisting(c)
             \/ Phone!WritePin(c) \/ Phone!Unpin(c) \/ Phone!Snapshot(c)
             \/ Phone!AppendPin(c) \/ Phone!MarkSynced(c)
      PROVE  Rest'
  <2>1. /\ \A d \in Coroutines \ {c} : val'[d] = val[d]
        /\ \E p \in {"drain", "write", "emit", "append", "mark"} : Phone!Goto(c, p)
    BY <1>2, <1>6
    DEF Phone!ServiceStart, Phone!ReadExisting, Phone!WritePin, Phone!Unpin,
        Phone!Snapshot, Phone!AppendPin, Phone!MarkSynced
  <2> QED  BY <1>3, <1>4, <2>1
<1>7. ASSUME NEW c \in Coroutines, Phone!End(c)
      PROVE  Rest'
  <2>1. Phone!Goto(c, "idle") /\ val' = [val EXCEPT ![c] = TRUE]
    BY <1>7 DEF Phone!End
  <2>2. val'[c] /\ \A d \in Coroutines \ {c} : val'[d] = val[d]
    BY <1>2, <2>1
  <2> QED  BY <1>2, <1>3, <2>1, <2>2 DEF Rest
<1>8. ASSUME NEW c \in Coroutines, Phone!DrainDone(c)
      PROVE  Rest'
  <2>1. CASE val[c]
    <3>1. Phone!End(c)
      BY <1>8, <2>1 DEF Phone!DrainDone
    <3> QED  BY <1>7, <3>1
  <2>2. CASE ~val[c]
    <3>1. Phone!Goto(c, "emit") /\ UNCHANGED val
      BY <1>8, <2>2 DEF Phone!DrainDone
    <3> QED  BY <1>3, <1>4, <3>1
  <2> QED  BY <2>1, <2>2
<1>9. ASSUME NEW c \in Coroutines, Phone!EmitAction(c)
      PROVE  Rest'
  BY <1>7, <1>9 DEF Phone!EmitAction
<1>10. ASSUME NEW c \in Coroutines, Phone!AppendPinFails(c)
       PROVE  Rest'
  BY <1>2, <1>10 DEF Phone!AppendPinFails, Rest
<1>11. Phone!Killed => Rest'
  BY DEF Phone!Killed, Rest
<1>12. UNCHANGED phone => Rest'
  BY <1>2 DEF phone, Rest
<1>13. Rest'
  BY <1>5, <1>6, <1>8, <1>9, <1>10, <1>11, <1>12 DEF Phone!Next
<1> QED  BY <1>1, <1>13 DEF OInv

\* Nothing is said yet, and nothing is pending.
LEMMA OInvInit == Phone!Init => OInv
<1> SUFFICES ASSUME Phone!Init PROVE OInv
  OBVIOUS
<1>1. /\ \A t \in Tracks : ~row[t].val
      /\ \A l \in Phone!Logs : Len(out[l]) = 0
      /\ \A c \in Coroutines : at[c] = "idle" /\ val[c] /\ Len(todo[c]) = 0
  BY DEF Phone!Init, Phone!NoPin
<1>2. \A l \in Phone!Logs : Phone!Sent(l) = {}
  BY <1>1 DEF Phone!Sent
<1>3. \A e : ~Said(e)
  BY <1>1, <1>2 DEF Said, Phone!Logs
<1>4. \A t \in Tracks : Own(t) /\ Takes(t) /\ Off(t)
  BY <1>1 DEF Own, Takes, Off, Phone!Pending
<1>5. \A t \in Tracks : Newest(t) /\ OnIsNewer(t)
  BY <1>1, <1>3 DEF Newest, OnIsNewer
<1>6. Past /\ Rest
  BY <1>1, <1>2 DEF Past, Rest
<1> QED  BY <1>4, <1>5, <1>6, PhoneInit DEF OInv, Track

LEMMA OrderInvariant == SyncSpec => []OInv
<1>1. SyncInit => OInv
  BY OInvInit DEF SyncInit
<1>2. OInv /\ [SyncNext]_syncvars => OInv'
  BY OInvNext, PhoneMoves
<1> QED  BY <1>1, <1>2, PTL DEF SyncSpec

\* The row of a track is newer than every line that was written of it, and, if it
\* is on, than every unsync, whatever failed or was killed, unless two
\* operations on the track overlapped (togglePin, unsyncTrack, emit).
THEOREM RowIsNewestHolds == SyncSpec => []RowIsNewest
<1>1. OInv => RowIsNewest
  <2> SUFFICES ASSUME OInv, NEW t \in Tracks \ crossed
               PROVE  /\ \A e \in Phone!Sent("pins") : e.id = t => e.ts <= row[t].ts
                      /\ \A a \in Phone!Sent("actions") :
                           a.id = t /\ ~a.val /\ row[t].val => a.ts < row[t].ts
    BY DEF RowIsNewest, Phone!RowIsNewest
  <2>1. Phone!Sent("pins") \subseteq Phone!Line
    BY SentType DEF OInv, Phone!Logs
  <2> QED  BY <2>1 DEF OInv, Track, Newest, OnIsNewer, Said
<1> QED  BY <1>1, OrderInvariant, PTL
-----------------------------------------------------------------------------
(* The desktop ends up agreeing with the phone.                            *)

\* When all has settled, what the desktop has absorbed about a track is what
\* the phone wrote about it.
LEMMA QuietApplied ==
  ASSUME Quiet, NEW l \in Phone!Logs, NEW t \in Tracks
  PROVE  Applied(db, l, t) = {e \in Phone!Sent(l) : e.id = t}
<1>1. file[l] = out[l] /\ db.off[l] = Len(out[l])
  BY DEF Quiet
<1> QED  BY <1>1 DEF Applied, Phone!Sent

\* The line of a row that is marked is the newest of its track.  If it is on it
\* is newer than every unsync; a delete would have blacklisted the track.
LEMMA QuietPin ==
  ASSUME MInv, OInv, RInv, DInv
  PROVE  PinReachesDesktop
<1> SUFFICES ASSUME NEW t \in Tracks \ (db.blacklist \cup overtaken \cup crossed),
                    Quiet, row[t].ts > 0, row[t].synced, Phone!LineOf(t) \notin lost
             PROVE  IF row[t].val THEN db.pins[t].val /\ t \notin db.override
                    ELSE ~db.pins[t].val
  BY DEF PinReachesDesktop
<1> DEFINE e == Phone!LineOf(t)
<1>1. "pins" \in Phone!Logs /\ "actions" \in Phone!Logs
  BY DEF Phone!Logs
<1>2. /\ Track(t) /\ PhoneTypes /\ row \in [Tracks -> Phone!PinRow]
      /\ Phone!Sent("pins") \subseteq Phone!Line
  BY <1>1, SentType DEF OInv, PhoneTypes, Phone!TypeOK
<1>3. /\ Applied(db, "pins", t) = {f \in Phone!Sent("pins") : f.id = t}
      /\ Applied(db, "actions", t) = {f \in Phone!Sent("actions") : f.id = t}
  BY <1>1, QuietApplied
<1>4. /\ e \in Applied(db, "pins", t) /\ e.val = row[t].val /\ e.ts = row[t].ts
      /\ e.id = t
  BY <1>3 DEF MInv, Marked, Phone!LineOf
<1>5. \A f \in Applied(db, "pins", t) : f = e \/ f.ts < e.ts
  <2> SUFFICES ASSUME NEW f \in Phone!Sent("pins"), f.id = t
               PROVE  f = e \/ f.ts < e.ts
    BY <1>3
  <2>1. f.ts \in Nat /\ row[t].ts \in Nat /\ f \in Phone!Line
    BY <1>2, MergeAssumption DEF Phone!Line, Phone!PinRow
  <2>2. f.ts <= row[t].ts /\ (f.ts = row[t].ts => f = e)
    BY <1>2, <2>1 DEF Track, Newest, Said
  <2> QED  BY <1>4, <2>1, <2>2
<1>6. PinHolds(db) /\ NewestWins(db)
  BY RowsSay DEF RInv, IInv, TypeOK
<1> HIDE DEF e
<1>7. CASE row[t].val
  <2>1. \A a \in Applied(db, "actions", t) : a.ts < e.ts
    <3> SUFFICES ASSUME NEW a \in Applied(db, "actions", t)
                 PROVE  a.ts < e.ts
      OBVIOUS
    <3>1. ~a.val
      BY DEF DInv, Deleted
    <3> QED  BY <1>2, <1>3, <1>4, <1>7, <3>1 DEF Track, OnIsNewer
  <2> QED  BY <1>4, <1>5, <1>6, <1>7, <2>1 DEF PinHolds
<1>8. CASE ~row[t].val
  <2> SUFFICES ASSUME db.pins[t].val
               PROVE  FALSE
    BY <1>8
  <2>1. PICK f \in Applied(db, "pins", t) : f.ts = db.pins[t].ts /\ f.val
    BY <1>6 DEF NewestWins
  <2>2. e.ts <= f.ts
    BY <1>4, <1>6, <2>1 DEF NewestWins
  <2>3. f.ts \in Nat /\ e.ts \in Nat
    BY <1>2, <1>3, <1>4, <2>1, MergeAssumption DEF Phone!Line
  <2>4. f = e
    BY <1>5, <2>1, <2>2, <2>3
  <2> QED  BY <1>4, <1>8, <2>1, <2>4
<1> QED  BY <1>7, <1>8

\* Once all has settled, the desktop pins what the phone shows as pinned and
\* synced and does not pin what it shows as unpinned and synced, however many
\* coroutines interleave and whatever failed, was killed, rolled back or arrived
\* late; except for a line that was lost or overtaken, and for overlapping
\* operations on the track (togglePin, drain; handle_pin, handle_action).
THEOREM PinReachesDesktopHolds == SyncSpec => []PinReachesDesktop
<1>1. MInv /\ OInv /\ RInv /\ DInv => PinReachesDesktop
  BY QuietPin
<1> QED  BY <1>1, MarkInvariant, OrderInvariant, MergeHolds, RowsInvariant,
         DeletesAbsorbed, PTL
=============================================================================
