--------------------------- MODULE MigrateProofs ---------------------------
(***************************************************************************)
(* Proofs about Migrate, for any tracks, names and number of faults: its   *)
(* inductive invariant, that a namesake under archive/ is the one way in   *)
(* which a migration loses the last whole copy of a track, and that what   *)
(* is delivered is whole.                                                  *)
(***************************************************************************)
EXTENDS Migrate, TLAPS

\* The paths a step touches, and which of them can coincide.
LEMMA PathFacts ==
  ASSUME TypeOK, NEW t \in Tracks
  PROVE  /\ Arch(t) \in Paths /\ Sent(t) \in Paths /\ Arch(t) # Sent(t)
         /\ row[t] # None => /\ row[t] \in Row /\ Src(t) \in Paths
                             /\ row[t].at # "archive" => Src(t) # Arch(t)
<1>1. name[t] \in Rels /\ Opus[name[t]] \in Rels
  BY OpusAssumption DEF TypeOK
<1>2. Arch(t) \in Paths /\ Sent(t) \in Paths /\ Arch(t) # Sent(t)
  BY <1>1 DEF Arch, Sent, Paths, Places
<1>3. ASSUME row[t] # None
      PROVE  row[t] \in Row /\ Src(t) \in Paths /\ (row[t].at # "archive" => Src(t) # Arch(t))
  <2>1. row[t] \in Row
    BY <1>3 DEF TypeOK
  <2> QED  BY <2>1, <1>1 DEF Row, Src, Arch, Paths
<1> QED  BY <1>2, <1>3

\* One file changes.
LEMMA SetFile ==
  ASSUME TypeOK, NEW p \in Paths, NEW f \in File \cup {None}, fs' = [fs EXCEPT ![p] = f]
  PROVE  /\ fs' \in [Paths -> File \cup {None}] /\ fs'[p] = f
         /\ \A q \in Paths \ {p} : fs'[q] = fs[q]
BY DEF TypeOK

\* The track under the cursor.
LEMMA CursorFacts ==
  ASSUME TypeOK, WalkOK, cur # None
  PROVE  /\ cur \in Tracks /\ cur \in todo /\ cmd \in {"migrate", "transcode"}
         /\ row[cur] # None /\ row[cur] \in Row
         /\ step # "residency" => row[cur].at = From(cmd) /\ row[cur].at # "archive"
<1>1. cur \in Tracks /\ cur \in todo /\ cmd \in {"migrate", "transcode"} /\ row[cur] # None
  BY DEF TypeOK, WalkOK
<1>2. row[cur] \in Row
  BY <1>1 DEF TypeOK
<1>3. step # "residency" => row[cur].at = From(cmd)
  BY <1>1 DEF WalkOK
<1> QED  BY <1>1, <1>2, <1>3 DEF From

\* The track a command comes to next.
LEMMA NextFacts ==
  ASSUME TypeOK, WalkOK, NEW t \in Tracks, NEW c \in {"migrate", "transcode"}, At(t, c)
  PROVE  /\ row[t] # None /\ row[t] \in Row /\ row[t].at = From(c) /\ row[t].at # "archive"
         /\ t # None /\ step = "none"
<1>1. t # None /\ t \in todo /\ cur = None /\ cmd = c
  BY NoneAssumption DEF At
<1>2. row[t] # None /\ row[t].at = From(c) /\ step = "none"
  BY <1>1 DEF WalkOK
<1>3. row[t] \in Row
  BY <1>2 DEF TypeOK
<1> QED  BY <1>1, <1>2, <1>3 DEF From

LEMMA InvInit == Init => IInv
<1> SUFFICES ASSUME Init PROVE IInv
  OBVIOUS
<1>1. PICK at \in [Tracks -> Places] :
        /\ \A t, u \in Tracks : t # u => <<at[t], name[t]>> # <<at[u], name[u]>>
        /\ row = [t \in Tracks |-> [at |-> at[t], sent |-> FALSE]]
        /\ fs = [p \in Paths |->
                   IF \E t \in Tracks : p = <<at[t], name[t]>>
                     THEN [of |-> CHOOSE t \in Tracks : p = <<at[t], name[t]>>,
                           ino |-> "orig", whole |-> TRUE]
                     ELSE None]
  BY DEF Init
<1>2. \A t \in Tracks : row[t] \in Row /\ row[t].at = at[t]
  BY <1>1 DEF Row
<1>3. fs \in [Paths -> File \cup {None}]
  <2>1. ASSUME NEW p \in Paths, \E t \in Tracks : p = <<at[t], name[t]>>
        PROVE  (CHOOSE t \in Tracks : p = <<at[t], name[t]>>) \in Tracks
    BY <2>1
  <2> QED  BY <2>1, <1>1 DEF File
<1>4. TypeOK
  BY <1>1, <1>2, <1>3, FaultsAssumption DEF Init, TypeOK
<1>5. \A t \in Tracks : Src(t) \in Paths /\ fs[Src(t)] # None => fs[Src(t)].of = t
  <2> SUFFICES ASSUME NEW t \in Tracks, Src(t) \in Paths PROVE fs[Src(t)].of = t
    OBVIOUS
  <2>1. Src(t) = <<at[t], name[t]>>
    BY <1>2 DEF Src
  <2>2. \A u \in Tracks : Src(t) = <<at[u], name[u]>> => u = t
    BY <2>1, <1>1
  <2>3. (CHOOSE u \in Tracks : Src(t) = <<at[u], name[u]>>) = t
    BY <2>1, <2>2
  <2> QED  BY <2>1, <2>3, <1>1
<1>6. \A p \in Paths : fs[p] # None => fs[p].ino = "orig" /\ fs[p].whole
  BY <1>1
<1>7. ResidentIsOwn
  BY <1>4, <1>5, <1>6, PathFacts DEF ResidentIsOwn, Paths, Places
<1>8. SentOK
  BY <1>1, NoneAssumption DEF Init, SentOK
<1> QED  BY <1>4, <1>7, <1>8 DEF Init, IInv, WalkOK, SourceIsCovered, ArchiveIsPresent

\* The steps of a command by what they do to the files: nothing, a file is
\* made, completed or removed.
Quiet(t) == MigrateRefused(t) \/ MigrateRow(t) \/ Already(t) \/ ArchiveRefused(t) \/ Adopt(t)
            \/ PathRow(t) \/ ResidencyRow(t) \/ TranscodeFails(t)

Acts(t) == Migrate(t) \/ TranscodeOne(t) \/ EncodeFails(t) \/ MigrateFails(t) \/ TranscodeFails(t)

Outer == Begin("migrate") \/ Begin("transcode") \/ End \/ Kill \/ Scan

LEMMA NextCases == Next <=> Outer \/ \E t \in Tracks : Acts(t)
BY DEF Next, Step, Fails, Outer, Acts

LEMMA MakeFile ==
  ASSUME TypeOK, NEW t \in Tracks, NEW f, f \in File,
         NEW i \in {"copy", "opus"}
  PROVE  [of |-> f.of, ino |-> i, whole |-> FALSE] \in File
BY DEF File

LEMMA CompleteFile ==
  ASSUME NEW f \in File
  PROVE  [f EXCEPT !.whole = TRUE] \in File
BY DEF File

\* What each step of a command does to the files, in one sentence.
LEMMA FileStep ==
  ASSUME TypeOK, WalkOK, SourceIsCovered, ArchiveIsPresent, NEW t \in Tracks, Acts(t)
  PROVE  \/ fs' = fs
         \/ \E p \in Paths, f \in File \cup {None} : fs' = [fs EXCEPT ![p] = f]
<1>1. Arch(t) \in Paths /\ Sent(t) \in Paths
  BY PathFacts
<1>2. None \in File \cup {None}
  OBVIOUS
<1>3. CASE MigrateLinks(t)
  <2>1. row[t] # None
    BY <1>3, NextFacts DEF MigrateLinks
  <2>2. Src(t) \in Paths
    BY <2>1, PathFacts
  <2>3. fs[Src(t)] \in File \cup {None}
    BY <2>2 DEF TypeOK
  <2> QED  BY <1>1, <1>3, <2>3 DEF MigrateLinks
<1>4. CASE MigrateCopies(t)
  <2>1. row[t] # None
    BY <1>4, NextFacts DEF MigrateCopies
  <2>2. Src(t) \in Paths
    BY <2>1, PathFacts
  <2>3. fs[Src(t)] \in File
    BY <1>4, <2>2 DEF TypeOK, MigrateCopies
  <2>4. [of |-> fs[Src(t)].of, ino |-> "copy", whole |-> FALSE] \in File
    BY <2>3, MakeFile
  <2> QED  BY <1>1, <1>4, <2>4 DEF MigrateCopies
<1>5. CASE CopyDone(t)
  <2>1. cur = t /\ cur # None /\ cmd = "migrate" /\ step = "copy"
    BY <1>5, NoneAssumption DEF CopyDone, In
  <2>2. fs[Arch(t)] \in File
    BY <2>1, <1>1 DEF TypeOK, SourceIsCovered
  <2>3. fs' = [fs EXCEPT ![Arch(t)] = [fs[Arch(t)] EXCEPT !.whole = TRUE]]
    BY <1>5, <1>1, <2>2 DEF CopyDone, TypeOK
  <2> QED  BY <1>1, <2>2, <2>3, CompleteFile
<1>6. CASE UnlinkFlat(t)
  <2>1. Src(t) \in Paths
    BY <1>6, CursorFacts, PathFacts, NoneAssumption DEF UnlinkFlat, In
  <2> QED  BY <1>6, <2>1 DEF UnlinkFlat
<1>7. CASE MigrateFails(t)
  BY <1>7, <1>1 DEF MigrateFails
<1>8. CASE Archive(t)
  <2>1. row[t] # None
    BY <1>8, NextFacts DEF Archive
  <2>2. Src(t) \in Paths
    BY <2>1, PathFacts
  <2>3. fs[Src(t)] \in File \cup {None}
    BY <2>2 DEF TypeOK
  <2> QED  BY <1>1, <1>8, <2>3 DEF Archive
<1>9. CASE Encode(t)
  <2>1. Src(t) \in Paths
    BY <1>9, CursorFacts, PathFacts, NoneAssumption DEF Encode, In
  <2>2. fs[Src(t)] \in File
    BY <1>9, <2>1 DEF TypeOK, Encode
  <2>3. [of |-> fs[Src(t)].of, ino |-> "opus", whole |-> FALSE] \in File
    BY <2>2, MakeFile
  <2> QED  BY <1>1, <1>9, <2>3 DEF Encode
<1>10. CASE EncodeDone(t)
  <2>1. cur = t /\ cur # None /\ cmd = "transcode" /\ step = "encoding"
    BY <1>10, NoneAssumption DEF EncodeDone, In
  <2>2. fs[Sent(t)] \in File
    BY <2>1, <1>1 DEF TypeOK, ArchiveIsPresent
  <2>3. fs' = [fs EXCEPT ![Sent(t)] = [fs[Sent(t)] EXCEPT !.whole = TRUE]]
    BY <1>10, <1>1, <2>2 DEF EncodeDone, TypeOK
  <2> QED  BY <1>1, <2>2, <2>3, CompleteFile
<1>11. CASE EncodeFails(t)
  BY <1>11, <1>1 DEF EncodeFails
<1>12. CASE UnlinkResident(t)
  <2>1. Src(t) \in Paths
    BY <1>12, CursorFacts, PathFacts, NoneAssumption DEF UnlinkResident, In
  <2> QED  BY <1>12, <2>1 DEF UnlinkResident
<1>13. CASE Quiet(t)
  BY <1>13 DEF Quiet, MigrateRefused, MigrateRow, Already, ArchiveRefused, Adopt, PathRow,
               ResidencyRow, TranscodeFails
<1> QED  BY <1>3, <1>4, <1>5, <1>6, <1>7, <1>8, <1>9, <1>10, <1>11, <1>12, <1>13
         DEF Acts, Migrate, TranscodeOne, Quiet

\* What each step of a command does to the rows and the walk.
LEMMA WalkStep ==
  ASSUME TypeOK, WalkOK, NEW t \in Tracks, Acts(t)
  PROVE  /\ row' = row \/ (cur = t /\ row[t] # None
                             /\ (row' = [row EXCEPT ![t].at = "archive"] \/ row' = [row EXCEPT ![t].sent = TRUE]))
         /\ UNCHANGED <<world, cmd>> /\ cmd # "idle" /\ t \in todo /\ t # None
         /\ cur \in {None, t}
         /\ faults' = faults \/ (faults < MaxFaults /\ faults' = faults + 1)
         /\ \/ /\ cur' = t /\ todo' = todo
               /\ step' \in {"copy", "encode", "encoding", "unlink", "row", "residency"}
               /\ IF step' = "residency" THEN row' = [row EXCEPT ![t].at = "archive"]
                                         ELSE row' = row /\ step # "residency"
            \/ cur' = None /\ todo' = todo \ {t} /\ step' = "none"
<1>1. t # None
  BY NoneAssumption
<1>2. ASSUME cur = t PROVE t \in todo /\ row[t] # None /\ cmd # "idle"
  BY <1>1, <1>2, CursorFacts
<1>3. cur = None => step = "none"
  BY DEF WalkOK
<1>4. CASE Migrate(t)
  BY <1>1, <1>2, <1>3, <1>4 DEF Migrate, MigrateRefused, MigrateLinks, MigrateCopies, CopyDone,
     UnlinkFlat, MigrateRow, At, In, GoOn, Leave
<1>5. CASE TranscodeOne(t)
  BY <1>1, <1>2, <1>3, <1>5 DEF TranscodeOne, Already, Archive, ArchiveRefused, Adopt, Encode,
     EncodeDone, UnlinkResident, PathRow, ResidencyRow, At, In, GoOn, Leave
<1>6. CASE EncodeFails(t)
  BY <1>1, <1>2, <1>3, <1>6 DEF EncodeFails, At, In, GoOn, Leave, Fault
<1>7. CASE MigrateFails(t)
  BY <1>1, <1>2, <1>3, <1>7 DEF MigrateFails, At, In, GoOn, Leave, Fault
<1>8. CASE TranscodeFails(t)
  BY <1>1, <1>2, <1>3, <1>8 DEF TranscodeFails, At, In, GoOn, Leave, Fault
<1> QED  BY <1>4, <1>5, <1>6, <1>7, <1>8 DEF Acts

LEMMA TypeActs ==
  ASSUME TypeOK, WalkOK, SourceIsCovered, ArchiveIsPresent, NEW t \in Tracks, Acts(t)
  PROVE  TypeOK' /\ WalkOK'
<1>1. fs' \in [Paths -> File \cup {None}]
  BY FileStep DEF TypeOK
<1>2. ASSUME row[t] # None, NEW b \in BOOLEAN
      PROVE  [row[t] EXCEPT !.at = "archive"] \in Row /\ [row[t] EXCEPT !.sent = TRUE] \in Row
  BY <1>2 DEF TypeOK, Row, Places
<1>3. row' \in [Tracks -> Row \cup {None}]
  BY <1>2, WalkStep DEF TypeOK
<1>4. faults' \in 0..MaxFaults
  BY WalkStep, FaultsAssumption DEF TypeOK
<1>5. TypeOK'
  BY <1>1, <1>3, <1>4, WalkStep DEF TypeOK, world
<1>6. \A u \in Tracks \ {t} : row'[u] = row[u]
  BY WalkStep DEF TypeOK
<1>7. cmd' # "idle" /\ cmd' = cmd
  BY WalkStep
<1>8. CASE cur' = t
  <2>1. /\ todo' = todo /\ t \in todo /\ t # None /\ cur' = t /\ step' # "none"
        /\ IF step' = "residency" THEN row' = [row EXCEPT ![t].at = "archive"]
                                  ELSE row' = row /\ step # "residency"
    BY <1>8, WalkStep
  <2>2. row[t] # None /\ row[t] \in Row
    BY <2>1 DEF WalkOK, TypeOK
  <2>3. step' = "residency" => row'[t] = [row[t] EXCEPT !.at = "archive"]
    BY <2>1 DEF TypeOK
  <2>4. [row[t] EXCEPT !.at = "archive"] \in Row /\ [row[t] EXCEPT !.at = "archive"].at = "archive"
    BY <2>2 DEF Row, Places
  <2>5. row'[t] # None /\ row'[t].at = IF step' = "residency" THEN "archive" ELSE From(cmd')
    BY <2>1, <2>2, <2>3, <2>4, <1>7, NoneAssumption DEF WalkOK
  <2>6. \A u \in todo' \ {t} : row'[u] # None /\ row'[u].at = From(cmd')
    <3> SUFFICES ASSUME NEW u \in todo' \ {t} PROVE row'[u] # None /\ row'[u].at = From(cmd')
      OBVIOUS
    <3>1. u \in Tracks \ {t} /\ u \in todo /\ u # cur
      BY <2>1, WalkStep, NoneAssumption DEF TypeOK
    <3> QED  BY <3>1, <1>6, <1>7 DEF WalkOK
  <2> QED  BY <1>5, <1>7, <2>1, <2>5, <2>6 DEF WalkOK
<1>9. CASE cur' = None
  <2>1. cur' = None /\ todo' = todo \ {t} /\ step' = "none"
    BY <1>9, WalkStep
  <2>2. \A u \in todo' : row'[u] # None /\ row'[u].at = From(cmd') /\ u # cur'
    <3> SUFFICES ASSUME NEW u \in todo' PROVE row'[u] # None /\ row'[u].at = From(cmd') /\ u # cur'
      OBVIOUS
    <3>1. u \in Tracks \ {t} /\ u \in todo /\ u # cur
      BY <2>1, WalkStep, NoneAssumption DEF TypeOK
    <3> QED  BY <3>1, <2>1, <1>6, <1>7, NoneAssumption DEF WalkOK
  <2> QED  BY <1>5, <1>7, <2>1, <2>2 DEF WalkOK
<1> QED  BY <1>8, <1>9, WalkStep

\* Begin, End, Kill and Scan leave nothing under the cursor.
LEMMA TypeOuter ==
  ASSUME TypeOK, WalkOK, Outer
  PROVE  TypeOK' /\ WalkOK' /\ cur' = None
<1>1. ASSUME NEW c \in {"migrate", "transcode"}, Begin(c)
      PROVE  TypeOK' /\ WalkOK' /\ cur' = None
  BY <1>1, NoneAssumption DEF Begin, TypeOK, WalkOK, world
<1>2. CASE End
  BY <1>2 DEF End, Idle, TypeOK, WalkOK, world
<1>3. CASE Kill
  BY <1>3, FaultsAssumption DEF Kill, Idle, Fault, TypeOK, WalkOK, world
<1>4. CASE Scan
  <2>1. PICK at \in [Tracks -> Places] :
          row' = [t \in Tracks |-> IF Found(t) = {} THEN None
                                   ELSE [at |-> at[t], sent |-> row[t] # None /\ row[t].sent]]
    BY <1>4 DEF Scan
  <2>2. \A t \in Tracks : (row[t] # None /\ row[t].sent) \in BOOLEAN
    BY DEF TypeOK, Row
  <2>3. row' \in [Tracks -> Row \cup {None}]
    BY <2>1, <2>2 DEF Row
  <2>4. fs' \in [Paths -> File \cup {None}]
    BY <1>4 DEF Scan, TypeOK
  <2> QED  BY <1>4, <2>3, <2>4 DEF Scan, TypeOK, WalkOK, world, walk
<1> QED  BY <1>1, <1>2, <1>3, <1>4 DEF Outer

LEMMA CoveredKept ==
  ASSUME IInv, NEW t \in Tracks, Acts(t)
  PROVE  SourceIsCovered'
<1> USE DEF IInv
<1>1. Arch(t) \in Paths /\ t # None /\ UNCHANGED <<name, cmd>>
  BY PathFacts, WalkStep, NoneAssumption DEF world
<1> SUFFICES ASSUME cmd = "migrate", cur' = t, step' \in {"copy", "unlink"}
             PROVE  SourceIsCovered'
  BY <1>1, WalkStep DEF SourceIsCovered
<1>2. row' = row /\ t \in todo
  BY WalkStep
<1>3. step # "residency"
  BY WalkStep
<1>4. row[t] # None /\ row[t] \in Row /\ row[t].at = "flat"
  BY <1>2, <1>3 DEF WalkOK, TypeOK, From
<1>5. Src(t) \in Paths /\ Src(t) # Arch(t)
  BY <1>4, PathFacts
<1>6. Src(t)' = Src(t) /\ Arch(t)' = Arch(t)
  BY <1>1, <1>2 DEF Src, Arch
<1>7. MigrateLinks(t) \/ MigrateCopies(t) \/ CopyDone(t)
  BY <1>1 DEF Acts, Migrate, TranscodeOne, MigrateRefused, UnlinkFlat, MigrateRow, MigrateFails,
     Already, Archive, ArchiveRefused, Adopt, Encode, EncodeDone, UnlinkResident, PathRow,
     ResidencyRow, EncodeFails, TranscodeFails, At, In, GoOn, Leave
<1>8. fs[Src(t)] \in File \cup {None} /\ fs[Arch(t)] \in File \cup {None}
  BY <1>1, <1>5 DEF TypeOK
<1>9. CASE MigrateLinks(t)
  <2>1. fs' = [fs EXCEPT ![Arch(t)] = fs[Src(t)]] /\ fs[Src(t)] # None /\ step' = "unlink"
    BY <1>9 DEF MigrateLinks, GoOn
  <2>2. fs'[Arch(t)] = fs[Src(t)] /\ fs'[Src(t)] = fs[Src(t)]
    BY <2>1, <1>1, <1>5 DEF TypeOK
  <2> QED  BY <2>1, <2>2, <1>6 DEF SourceIsCovered
<1>10. CASE MigrateCopies(t)
  <2>1. /\ fs' = [fs EXCEPT ![Arch(t)] = [of |-> fs[Src(t)].of, ino |-> "copy", whole |-> FALSE]]
        /\ fs[Src(t)] # None /\ step' = "copy"
    BY <1>10 DEF MigrateCopies, GoOn
  <2>2. [of |-> fs[Src(t)].of, ino |-> "copy", whole |-> FALSE] \in File
    BY <2>1, <1>8, MakeFile
  <2>3. /\ fs'[Arch(t)] = [of |-> fs[Src(t)].of, ino |-> "copy", whole |-> FALSE]
        /\ fs'[Src(t)] = fs[Src(t)]
    BY <2>1, <1>1, <1>5 DEF TypeOK
  <2>4. fs'[Arch(t)] # None /\ fs'[Src(t)] # None
    BY <2>1, <2>2, <2>3, NoneAssumption
  <2>5. fs'[Arch(t)].of = fs'[Src(t)].of /\ ~fs'[Arch(t)].whole /\ fs'[Arch(t)].ino # "opus"
    BY <2>3
  <2> QED  BY <2>1, <2>4, <2>5, <1>6 DEF SourceIsCovered
<1>11. CASE CopyDone(t)
  <2>1. fs' = [fs EXCEPT ![Arch(t)].whole = TRUE] /\ step' = "unlink" /\ cur = t /\ step = "copy"
    BY <1>11 DEF CopyDone, In, GoOn
  <2>2. /\ fs[Src(t)] # None /\ fs[Arch(t)] \in File /\ fs[Arch(t)].of = fs[Src(t)].of
        /\ fs[Arch(t)].ino # "opus"
    BY <2>1, <1>1, <1>8 DEF SourceIsCovered
  <2>3. fs'[Arch(t)] = [fs[Arch(t)] EXCEPT !.whole = TRUE] /\ fs'[Src(t)] = fs[Src(t)]
    BY <2>1, <1>1, <1>5 DEF TypeOK
  <2>4. /\ [fs[Arch(t)] EXCEPT !.whole = TRUE] \in File
        /\ [fs[Arch(t)] EXCEPT !.whole = TRUE].of = fs[Arch(t)].of
        /\ [fs[Arch(t)] EXCEPT !.whole = TRUE].ino = fs[Arch(t)].ino
        /\ [fs[Arch(t)] EXCEPT !.whole = TRUE].whole
    BY <2>2 DEF File
  <2> QED  BY <2>1, <2>2, <2>3, <2>4, <1>1, <1>6, NoneAssumption DEF SourceIsCovered
<1> QED  BY <1>7, <1>9, <1>10, <1>11

LEMMA ArchiveKept ==
  ASSUME IInv, NEW t \in Tracks, Acts(t)
  PROVE  ArchiveIsPresent'
<1> USE DEF IInv
<1>1. Arch(t) \in Paths /\ Sent(t) \in Paths /\ Arch(t) # Sent(t)
  BY PathFacts
<1>2. t # None /\ UNCHANGED <<name, cmd>>
  BY WalkStep, NoneAssumption DEF world
<1> SUFFICES ASSUME cmd = "transcode", cur' = t, step' \in {"encode", "encoding", "unlink"}
             PROVE  ArchiveIsPresent'
  BY <1>2, WalkStep DEF ArchiveIsPresent
<1>3. Arch(t)' = Arch(t) /\ Sent(t)' = Sent(t)
  BY <1>2 DEF Arch, Sent
<1>4. Archive(t) \/ Adopt(t) \/ Encode(t) \/ EncodeDone(t)
  BY <1>2 DEF Acts, Migrate, TranscodeOne, MigrateRefused, MigrateLinks, MigrateCopies, CopyDone,
     UnlinkFlat, MigrateRow, MigrateFails, Already, ArchiveRefused, UnlinkResident, PathRow,
     ResidencyRow, EncodeFails, TranscodeFails, At, In, GoOn, Leave
<1>5. CASE Archive(t)
  <2>1. step' = "encode" /\ row[t] # None
    BY <1>5, NextFacts DEF Archive, GoOn
  <2>2. fs'[Arch(t)] # None
    BY <1>1, <1>5 DEF Archive, TypeOK
  <2> QED  BY <2>1, <2>2, <1>3 DEF ArchiveIsPresent
<1>6. CASE Adopt(t)
  <2>1. fs' = fs /\ step' = "unlink" /\ cur = t /\ step = "encode"
    BY <1>6 DEF Adopt, In, GoOn
  <2> QED  BY <2>1, <1>2, <1>3 DEF ArchiveIsPresent
<1>7. CASE Encode(t)
  <2>1. /\ fs' = [fs EXCEPT ![Sent(t)] = [of |-> fs[Src(t)].of, ino |-> "opus", whole |-> FALSE]]
        /\ fs[Src(t)] # None /\ step' = "encoding" /\ cur = t /\ step = "encode"
    BY <1>7 DEF Encode, In, GoOn
  <2>2. Src(t) \in Paths /\ fs[Arch(t)] # None
    BY <2>1, <1>2, CursorFacts, PathFacts DEF ArchiveIsPresent
  <2>3. [of |-> fs[Src(t)].of, ino |-> "opus", whole |-> FALSE] \in File
    BY <2>1, <2>2, MakeFile DEF TypeOK
  <2>4. /\ fs'[Sent(t)] = [of |-> fs[Src(t)].of, ino |-> "opus", whole |-> FALSE]
        /\ fs'[Arch(t)] # None
    BY <2>1, <2>2, <1>1 DEF TypeOK
  <2>5. fs'[Sent(t)] # None
    BY <2>3, <2>4, NoneAssumption
  <2>6. fs'[Sent(t)].ino = "opus"
    BY <2>4
  <2> QED  BY <2>4, <2>5, <2>6, <1>3 DEF ArchiveIsPresent
<1>8. CASE EncodeDone(t)
  <2>1. fs' = [fs EXCEPT ![Sent(t)].whole = TRUE] /\ step' = "unlink" /\ cur = t /\ step = "encoding"
    BY <1>8 DEF EncodeDone, In, GoOn
  <2>2. fs[Arch(t)] # None
    BY <2>1, <1>2 DEF ArchiveIsPresent
  <2>3. fs'[Arch(t)] # None
    BY <2>1, <2>2, <1>1 DEF TypeOK
  <2> QED  BY <2>1, <2>3, <1>3 DEF ArchiveIsPresent
<1> QED  BY <1>4, <1>5, <1>6, <1>7, <1>8

\* Under resident/ files are only completed, removed, or made by ffmpeg.
LEMMA ResidentFiles ==
  ASSUME IInv, NEW t \in Tracks, Acts(t), NEW n \in Rels, fs'[<<"resident", n>>] # None
  PROVE  \/ fs'[<<"resident", n>>].ino = "opus" /\ Lossy(n)
         \/ fs'[<<"resident", n>>] = fs[<<"resident", n>>]
<1> DEFINE p == <<"resident", n>>
<1> USE DEF IInv
<1>1. Arch(t) \in Paths /\ Sent(t) \in Paths /\ p \in Paths /\ Arch(t) # p
  BY PathFacts DEF Paths, Places, Arch
<1>2. t # None /\ (p = Sent(t) => Lossy(n))
  BY NoneAssumption, OpusAssumption DEF TypeOK, Sent, Lossy
<1>3. CASE fs' = fs \/ \E f \in File \cup {None} : fs' = [fs EXCEPT ![Arch(t)] = f]
  BY <1>1, <1>3 DEF TypeOK
<1>4. CASE \E q \in Paths : fs' = [fs EXCEPT ![q] = None]
  BY <1>1, <1>4 DEF TypeOK
<1>5. CASE MigrateLinks(t)
  <2>1. Src(t) \in Paths
    BY <1>5, NextFacts, PathFacts DEF MigrateLinks
  <2> QED  BY <1>1, <1>5, <2>1 DEF MigrateLinks, TypeOK
<1>6. CASE MigrateCopies(t)
  BY <1>1, <1>6 DEF MigrateCopies, TypeOK
<1>7. CASE CopyDone(t)
  BY <1>1, <1>7 DEF CopyDone, TypeOK
<1>8. CASE UnlinkFlat(t) \/ UnlinkResident(t)
  <2>1. Src(t) \in Paths
    BY <1>2, <1>8, CursorFacts, PathFacts DEF UnlinkFlat, UnlinkResident, In
  <2> QED  BY <2>1, <1>4, <1>8 DEF UnlinkFlat, UnlinkResident
<1>9. CASE Archive(t)
  BY <1>1, <1>9 DEF Archive, TypeOK
<1>10. CASE Encode(t)
  <2>1. fs' = [fs EXCEPT ![Sent(t)] = [of |-> fs[Src(t)].of, ino |-> "opus", whole |-> FALSE]]
    BY <1>10 DEF Encode
  <2> QED  BY <1>1, <1>2, <2>1 DEF TypeOK
<1>11. CASE EncodeDone(t)
  <2>1. fs' = [fs EXCEPT ![Sent(t)].whole = TRUE] /\ cur = t /\ cmd = "transcode" /\ step = "encoding"
    BY <1>11 DEF EncodeDone, In
  <2>2. fs[Sent(t)] \in File /\ fs[Sent(t)].ino = "opus"
    BY <2>1, <1>1, <1>2 DEF ArchiveIsPresent, TypeOK
  <2>3. fs'[Sent(t)].ino = "opus" /\ \A q \in Paths \ {Sent(t)} : fs'[q] = fs[q]
    BY <2>1, <2>2, <1>1 DEF TypeOK, File
  <2> QED  BY <2>3, <1>1, <1>2
<1>12. CASE EncodeFails(t)
  BY <1>1, <1>4, <1>12 DEF EncodeFails
<1>13. CASE MigrateFails(t)
  BY <1>1, <1>3, <1>4, <1>13 DEF MigrateFails
<1>14. CASE Quiet(t)
  BY <1>3, <1>14 DEF Quiet, MigrateRefused, MigrateRow, Already, ArchiveRefused, Adopt, PathRow,
     ResidencyRow, TranscodeFails
<1> QED  BY <1>5, <1>6, <1>7, <1>8, <1>9, <1>10, <1>11, <1>12, <1>13, <1>14
         DEF Acts, Migrate, TranscodeOne, Quiet

LEMMA OwnKept ==
  ASSUME IInv, NEW t \in Tracks, Acts(t)
  PROVE  ResidentIsOwn'
<1> USE DEF IInv
<1>1. ASSUME NEW n \in Rels, fs'[<<"resident", n>>] # None
      PROVE  IF fs'[<<"resident", n>>].ino = "opus" THEN Lossy(n)
             ELSE fs'[<<"resident", n>>].ino = "orig" /\ fs'[<<"resident", n>>].whole
  BY <1>1, ResidentFiles DEF ResidentIsOwn
<1>2. ASSUME NEW u \in Tracks, row'[u] # None, row'[u].at = "resident",
             fs'[<<"resident", name'[u]>>] # None
      PROVE  \/ fs'[<<"resident", name'[u]>>].of = u
             \/ fs'[<<"resident", name'[u]>>].ino = "opus"
  <2>1. name' = name /\ name[u] \in Rels
    BY WalkStep DEF world, TypeOK
  <2>2. row[u] # None /\ row[u].at = "resident"
    <3>1. CASE row' = row
      BY <3>1, <1>2
    <3>2. CASE row[t] # None /\ row' = [row EXCEPT ![t].at = "archive"]
      <4>1. row[t] \in Row /\ row'[t] = [row[t] EXCEPT !.at = "archive"]
        BY <3>2 DEF TypeOK
      <4>2. row'[t].at = "archive"
        BY <4>1 DEF Row
      <4> QED  BY <1>2, <3>2, <4>2 DEF TypeOK
    <3>3. CASE row[t] # None /\ row' = [row EXCEPT ![t].sent = TRUE]
      <4>1. row[t] \in Row /\ row'[t] = [row[t] EXCEPT !.sent = TRUE]
        BY <3>3 DEF TypeOK
      <4>2. row'[t].at = row[t].at
        BY <4>1 DEF Row
      <4> QED  BY <1>2, <3>3, <4>2 DEF TypeOK
    <3> QED  BY <3>1, <3>2, <3>3, WalkStep
  <2>3. fs[<<"resident", name[u]>>] # None =>
          fs[<<"resident", name[u]>>].of = u \/ fs[<<"resident", name[u]>>].ino = "opus"
    BY <2>2 DEF ResidentIsOwn, Src
  <2> QED  BY <1>2, <2>1, <2>3, ResidentFiles
<1> QED  BY <1>1, <1>2 DEF ResidentIsOwn, Src, Lossy

\* What a step does to a whole file of a track: it stays, or it is the source
\* of migrate with its equal in archive/, or the source of transcode-migrate.
LEMMA CopyStep ==
  ASSUME IInv, NEW t \in Tracks, Acts(t), NEW u \in Tracks, NEW p \in Paths, Copies(u, p)
  PROVE  \/ Copies(u, p)'
         \/ p = Src(t) /\ p # Arch(t) /\ UnlinkFlat(t) /\ Copies(u, Arch(t))'
         \/ p = Src(t) /\ p # Arch(t) /\ UnlinkResident(t)
<1> USE DEF IInv
<1>1. Arch(t) \in Paths /\ Sent(t) \in Paths /\ t # None
  BY PathFacts, NoneAssumption
<1>2. fs[p] # None /\ fs[p].of = u /\ fs[p].ino # "opus" /\ fs[p].whole
  BY DEF Copies
<1>3. CASE fs'[p] = fs[p]
  BY <1>2, <1>3 DEF Copies
<1>4. CASE MigrateLinks(t)
  <2>1. Src(t) \in Paths
    BY <1>4, NextFacts, PathFacts DEF MigrateLinks
  <2>2. fs'[p] = fs[p]
    BY <1>1, <1>2, <1>4, <2>1 DEF MigrateLinks, SameFile, TypeOK
  <2> QED  BY <2>2, <1>3
<1>5. CASE MigrateCopies(t)
  BY <1>1, <1>2, <1>3, <1>5 DEF MigrateCopies, TypeOK
<1>6. CASE CopyDone(t)
  <2>1. ~fs[Arch(t)].whole
    BY <1>1, <1>6 DEF CopyDone, In, SourceIsCovered
  <2> QED  BY <1>1, <1>2, <1>3, <1>6, <2>1 DEF CopyDone, TypeOK
<1>7. CASE UnlinkFlat(t)
  <2>1. cur = t /\ cmd = "migrate" /\ step = "unlink" /\ fs' = [fs EXCEPT ![Src(t)] = None]
    BY <1>7 DEF UnlinkFlat, In
  <2>2. Src(t) \in Paths /\ Src(t) # Arch(t)
    BY <1>1, <2>1, CursorFacts, PathFacts
  <2>3. CASE p # Src(t)
    BY <2>1, <2>2, <2>3, <1>3 DEF TypeOK
  <2>4. CASE p = Src(t)
    <3>1. /\ fs[Arch(t)] # None /\ fs[Arch(t)].of = u
          /\ fs[Arch(t)].whole /\ fs[Arch(t)].ino # "opus"
      BY <1>1, <1>2, <2>1, <2>4 DEF SourceIsCovered
    <3>2. fs'[Arch(t)] = fs[Arch(t)] /\ name' = name
      BY <1>1, <1>7, <2>1, <2>2 DEF TypeOK, UnlinkFlat, world
    <3>3. Copies(u, Arch(t))'
      BY <3>1, <3>2 DEF Copies, Arch
    <3> QED  BY <1>7, <2>2, <2>4, <3>3
  <2> QED  BY <2>3, <2>4
<1>8. CASE MigrateFails(t)
  <2>1. CASE In(t, "migrate", "copy") /\ fs' = [fs EXCEPT ![Arch(t)] = None]
    <3>1. ~fs[Arch(t)].whole
      BY <1>1, <2>1 DEF In, SourceIsCovered
    <3> QED  BY <1>1, <1>2, <1>3, <2>1, <3>1 DEF TypeOK
  <2>2. CASE fs' = fs
    BY <1>3, <2>2
  <2> QED  BY <1>8, <2>1, <2>2 DEF MigrateFails
<1>9. CASE Archive(t)
  BY <1>1, <1>2, <1>3, <1>9 DEF Archive, TypeOK
<1>10. CASE Encode(t)
  BY <1>1, <1>2, <1>3, <1>10 DEF Encode, TypeOK
<1>11. CASE EncodeDone(t)
  <2>1. fs[Sent(t)].ino = "opus"
    BY <1>1, <1>11 DEF EncodeDone, In, ArchiveIsPresent
  <2> QED  BY <1>1, <1>2, <1>3, <1>11, <2>1 DEF EncodeDone, TypeOK
<1>12. CASE EncodeFails(t)
  <2>1. fs[Sent(t)] = None \/ fs[Sent(t)].ino = "opus"
    BY <1>1, <1>12 DEF EncodeFails, In, ArchiveIsPresent
  <2> QED  BY <1>1, <1>2, <1>3, <1>12, <2>1 DEF EncodeFails, TypeOK
<1>13. CASE UnlinkResident(t)
  <2>1. Src(t) \in Paths /\ Src(t) # Arch(t)
    BY <1>1, <1>13, CursorFacts, PathFacts DEF UnlinkResident, In
  <2>2. CASE p # Src(t)
    BY <2>1, <2>2, <1>3, <1>13 DEF UnlinkResident, TypeOK
  <2> QED  BY <1>13, <2>1, <2>2
<1>14. CASE Quiet(t)
  BY <1>3, <1>14 DEF Quiet, MigrateRefused, MigrateRow, Already, ArchiveRefused, Adopt, PathRow,
     ResidencyRow, TranscodeFails
<1> QED  BY <1>4, <1>5, <1>6, <1>7, <1>8, <1>9, <1>10, <1>11, <1>12, <1>13, <1>14
         DEF Acts, Migrate, TranscodeOne, Quiet

LEMMA SentKept ==
  ASSUME IInv, NEW t \in Tracks, Acts(t)
  PROVE  SentOK'
<1> USE DEF IInv
<1>1. TypeOK' /\ UNCHANGED <<name, cmd>> /\ t # None
  BY TypeActs, WalkStep, NoneAssumption DEF world
<1>2. \A u \in Tracks : Arch(u) \in Paths /\ Sent(u) \in Paths /\ Arch(u)' = Arch(u) /\ Sent(u)' = Sent(u)
  BY <1>1, PathFacts DEF Arch, Sent
<1>3. ASSUME NEW u \in Tracks, SentIsSafe(u) PROVE SentIsSafe(u)'
  <2>1. CASE Copies(u, Arch(u))
    <3>1. Src(t) = Arch(u) => row[t].at = "archive"
      BY DEF Src, Arch
    <3>2. UnlinkFlat(t) \/ UnlinkResident(t) => row[t].at # "archive"
      BY <1>1, CursorFacts DEF UnlinkFlat, UnlinkResident, In
    <3>3. Copies(u, Arch(u))'
      BY <2>1, <3>1, <3>2, <1>2, CopyStep DEF Copies
    <3> QED  BY <3>3 DEF SentIsSafe
  <2>2. CASE fs[Sent(u)] = None \/ fs[Sent(u)].ino = "opus"
    <3>1. Sent(u) = <<"resident", Opus[name[u]]>> /\ Opus[name[u]] \in Rels
      BY OpusAssumption DEF Sent, TypeOK
    <3>2. fs'[Sent(u)] = None \/ fs'[Sent(u)].ino = "opus"
      BY <2>2, <3>1, ResidentFiles
    <3> QED  BY <3>2, <1>2 DEF SentIsSafe
  <2> QED  BY <1>3, <2>1, <2>2 DEF SentIsSafe
\* A row that has just been recorded is the one under the cursor.
<1>4. ASSUME NEW u \in Tracks, row'[u] # None, row'[u].sent
      PROVE  (row[u] # None /\ row[u].sent) \/ (cmd = "transcode" /\ cur = u)
  <2>1. CASE row' = row
    BY <1>4, <2>1
  <2>2. CASE row[t] # None /\ row' = [row EXCEPT ![t].at = "archive"]
    <3>1. row[t] \in Row /\ row'[t] = [row[t] EXCEPT !.at = "archive"]
      BY <2>2 DEF TypeOK
    <3>2. row'[t].sent = row[t].sent
      BY <3>1 DEF Row
    <3> QED  BY <1>4, <2>2, <3>2 DEF TypeOK
  <2>3. CASE cur = t /\ row[t] # None /\ row' = [row EXCEPT ![t].sent = TRUE]
    <3>1. CASE ResidencyRow(t)
      BY <1>4, <2>3, <3>1 DEF ResidencyRow, In, TypeOK
    <3>2. CASE MigrateRow(t) \/ PathRow(t)
      <4>1. row' = row \/ row' = [row EXCEPT ![t].at = "archive"]
        BY <3>2 DEF MigrateRow, PathRow
      <4> QED  BY <4>1, <2>1, <2>2, <2>3
    <3>3. CASE UNCHANGED row
      BY <2>1, <3>3
    <3> QED  BY <3>1, <3>2, <3>3 DEF Acts, Migrate, TranscodeOne, MigrateRefused, MigrateLinks,
             MigrateCopies, CopyDone, UnlinkFlat, MigrateFails, Already, Archive, ArchiveRefused,
             Adopt, Encode, EncodeDone, UnlinkResident, EncodeFails, TranscodeFails
  <2> QED  BY <2>1, <2>2, <2>3, WalkStep
<1>5. ASSUME cmd = "transcode", cur' = t, cur # t PROVE SentIsSafe(t)'
  <2>1. Archive(t)
    BY <1>1, <1>5 DEF Acts, Migrate, TranscodeOne, MigrateRefused, MigrateLinks, MigrateCopies,
       CopyDone, UnlinkFlat, MigrateRow, MigrateFails, Already, ArchiveRefused, Adopt, Encode,
       EncodeDone, UnlinkResident, PathRow, ResidencyRow, EncodeFails, TranscodeFails, At, In, GoOn, Leave
  <2>2. row[t] # None /\ row[t] \in Row /\ row[t].at = "resident"
    BY <2>1, NextFacts DEF Archive, From
  <2>3. Src(t) = <<"resident", name[t]>> /\ Src(t) \in Paths /\ name[t] \in Rels /\ Src(t) # Arch(t)
    BY <2>2, PathFacts DEF Src, TypeOK
  <2>4. Arch(t) # Sent(t)
    BY PathFacts
  <2>5. CASE fs[Sent(t)] = None
    <3>1. fs'[Sent(t)] = None
      BY <2>1, <2>4, <2>5, <1>2 DEF Archive, TypeOK
    <3> QED  BY <3>1, <1>2 DEF SentIsSafe
  <2>6. CASE fs[Sent(t)] # None
    <3>1. fs' = [fs EXCEPT ![Arch(t)] = fs[Src(t)]] /\ fs[Src(t)] # None
      BY <2>1, <2>6 DEF Archive
    <3>2. fs'[Arch(t)] = fs[Src(t)] /\ fs'[Src(t)] = fs[Src(t)]
      BY <3>1, <2>3, <1>2 DEF TypeOK
    <3>3. CASE fs[Src(t)].ino = "opus"
      <4>1. Sent(t) = Src(t)
        BY <3>1, <3>3, <2>3 DEF ResidentIsOwn, Lossy, Sent
      <4> QED  BY <3>2, <3>3, <4>1, <1>2 DEF SentIsSafe
    <3>4. CASE fs[Src(t)].ino # "opus"
      <4>1. fs[Src(t)].of = t /\ fs[Src(t)].whole
        BY <3>1, <3>4, <2>2, <2>3 DEF ResidentIsOwn
      <4>2. Copies(t, Arch(t))'
        BY <3>1, <3>2, <3>4, <4>1, <1>2 DEF Copies
      <4> QED  BY <4>2 DEF SentIsSafe
    <3> QED  BY <3>3, <3>4
  <2> QED  BY <2>5, <2>6
<1> SUFFICES ASSUME NEW u \in Tracks,
                    (row'[u] # None /\ row'[u].sent) \/ (cmd' = "transcode" /\ cur' = u)
             PROVE  SentIsSafe(u)'
  BY DEF SentOK
<1>6. CASE (row[u] # None /\ row[u].sent) \/ (cmd = "transcode" /\ cur = u)
  BY <1>3, <1>6 DEF SentOK
<1>7. CASE cmd' = "transcode" /\ cur' = u /\ cur # u
  <2>1. u = t
    BY <1>7, WalkStep, NoneAssumption
  <2> QED  BY <1>1, <1>5, <1>7, <2>1
<1> QED  BY <1>1, <1>4, <1>6, <1>7

LEMMA OuterKept ==
  ASSUME IInv, Outer
  PROVE  IInv'
<1> USE DEF IInv
<1>1. TypeOK' /\ WalkOK' /\ cur' = None
  BY TypeOuter
<1>2. SourceIsCovered' /\ ArchiveIsPresent'
  BY <1>1 DEF SourceIsCovered, ArchiveIsPresent
<1>3. CASE Begin("migrate") \/ Begin("transcode") \/ End \/ Kill
  <2>1. UNCHANGED <<fs, row, name>>
    BY <1>3 DEF Begin, End, Kill, world
  <2>2. ResidentIsOwn'
    BY <2>1 DEF ResidentIsOwn, Src, Lossy
  <2>3. \A t \in Tracks : SentIsSafe(t) => SentIsSafe(t)'
    BY <2>1 DEF SentIsSafe, Copies, Arch, Sent
  <2>4. SentOK'
    BY <1>1, <2>1, <2>3, NoneAssumption DEF SentOK
  <2> QED  BY <1>1, <1>2, <2>2, <2>4
<1>4. CASE Scan
  <2>1. name' = name /\ \A p \in Paths : fs'[p] = fs[p] \/ (fs'[p] = None /\ \E t \in Tracks : p = Sent(t))
    BY <1>4 DEF Scan, world
  <2>2. PICK at \in [Tracks -> Places] :
          /\ \A t \in Tracks : Found(t) # {} => at[t] \in Found(t)
          /\ row' = [t \in Tracks |-> IF Found(t) = {} THEN None
                                      ELSE [at |-> at[t], sent |-> row[t] # None /\ row[t].sent]]
    BY <1>4 DEF Scan
  <2>3. \A n \in Rels : <<"resident", n>> \in Paths /\ <<"archive", n>> \in Paths
    BY DEF Paths, Places
  <2>4. ASSUME NEW n \in Rels, fs'[<<"resident", n>>] # None
        PROVE  IF fs'[<<"resident", n>>].ino = "opus" THEN Lossy(n)
               ELSE fs'[<<"resident", n>>].ino = "orig" /\ fs'[<<"resident", n>>].whole
    BY <2>1, <2>3, <2>4 DEF ResidentIsOwn
  <2>5. ASSUME NEW t \in Tracks, row'[t] # None, row'[t].at = "resident",
               fs'[<<"resident", name[t]>>] # None
        PROVE  fs'[<<"resident", name[t]>>].of = t
    <3>1. Found(t) # {} /\ row'[t].at = at[t]
      BY <2>2, <2>5
    <3>2. Copies(t, <<"resident", name[t]>>)
      BY <2>2, <2>5, <3>1 DEF Found
    <3>3. fs'[<<"resident", name[t]>>] = fs[<<"resident", name[t]>>]
      BY <2>1, <2>3, <2>5 DEF TypeOK
    <3> QED  BY <3>2, <3>3 DEF Copies
  <2>6. ResidentIsOwn'
    BY <2>1, <2>4, <2>5 DEF ResidentIsOwn, Src, Lossy
  <2>7. \A t \in Tracks : name[t] \in Rels /\ Opus[name[t]] \in Rels
    BY OpusAssumption DEF TypeOK
  <2>8. ASSUME NEW t \in Tracks, SentIsSafe(t) PROVE SentIsSafe(t)'
    <3>1. \A u \in Tracks : Arch(t) # Sent(u)
      BY DEF Arch, Sent
    <3>2. fs'[Arch(t)] = fs[Arch(t)] /\ (fs'[Sent(t)] = fs[Sent(t)] \/ fs'[Sent(t)] = None)
      BY <2>1, <2>3, <2>7, <3>1 DEF Arch, Sent
    <3> QED  BY <2>1, <2>8, <3>2 DEF SentIsSafe, Copies, Arch, Sent
  <2>9. ASSUME NEW t \in Tracks, row'[t] # None, row'[t].sent
        PROVE  row[t] # None /\ row[t].sent
    BY <2>2, <2>9
  <2>10. SentOK'
    BY <1>1, <2>8, <2>9, NoneAssumption DEF SentOK
  <2> QED  BY <1>1, <1>2, <2>6, <2>10
<1> QED  BY <1>3, <1>4 DEF Outer

LEMMA InvNext == IInv /\ [Next]_vars => IInv'
<1> SUFFICES ASSUME IInv, [Next]_vars PROVE IInv'
  OBVIOUS
<1>1. CASE Outer
  BY <1>1, OuterKept
<1>2. CASE \E t \in Tracks : Acts(t)
  <2>1. PICK t \in Tracks : Acts(t)
    BY <1>2
  <2>2. TypeOK' /\ WalkOK'
    BY <2>1, TypeActs DEF IInv
  <2> QED  BY <2>1, <2>2, CoveredKept, ArchiveKept, OwnKept, SentKept DEF IInv
<1>3. CASE UNCHANGED vars
  BY <1>3 DEF vars, world, walk, IInv, TypeOK, WalkOK, SourceIsCovered, ArchiveIsPresent,
     ResidentIsOwn, SentOK, SentIsSafe, Copies, Src, Arch, Sent, From, Lossy
<1> QED  BY <1>1, <1>2, <1>3, NextCases

\* The inductive invariant of the two migrations (migrate_run, migrate_one):
\* what may be removed is covered in archive/.
THEOREM MigrateInvariant == Spec => []IInv
BY InvInit, InvNext, PTL DEF Spec

\* A step that takes the last whole copy of a track is transcode-migrate's
\* unlink, at a track whose archive path another file has.
LEMMA LossStep ==
  ASSUME IInv, [Next]_vars, NEW u \in Tracks, Held(u), ~Held(u)'
  PROVE  cmd = "transcode" /\ cur = u /\ Foreign(u)
<1> USE DEF IInv
<1>1. PICK p \in Paths : Copies(u, p)
  BY DEF Held
<1>2. ~Copies(u, p)'
  BY DEF Held
<1>3. ~UNCHANGED vars /\ ~(Begin("migrate") \/ Begin("transcode") \/ End \/ Kill)
  BY <1>1, <1>2 DEF vars, Begin, End, Kill, Copies
<1>4. ~Scan
  <2> SUFFICES ASSUME Scan PROVE FALSE
    OBVIOUS
  <2>1. PICK t \in Tracks : row[t] # None /\ Found(t) = {} /\ row[t].sent /\ p = Sent(t)
    BY <1>1, <1>2 DEF Scan, Copies
  <2>2. ~Copies(t, Arch(t))
    BY <2>1 DEF Found, Places, Arch
  <2>3. fs[Sent(t)] = None \/ fs[Sent(t)].ino = "opus"
    BY <2>1, <2>2 DEF SentOK, SentIsSafe
  <2> QED  BY <1>1, <2>1, <2>3 DEF Copies
<1>5. PICK t \in Tracks : Acts(t)
  BY <1>3, <1>4, NextCases DEF Outer
<1>6. Arch(t) \in Paths /\ Arch(t)' = Arch(t) /\ t # None
  BY <1>5, PathFacts, WalkStep, NoneAssumption DEF Arch, world
<1>7. ~Copies(u, Arch(t))'
  BY <1>6 DEF Held
<1>8. p = Src(t) /\ p # Arch(t) /\ UnlinkResident(t)
  BY <1>1, <1>2, <1>5, <1>7, CopyStep
<1>9. cmd = "transcode" /\ cur = t /\ cur # None /\ step = "unlink"
  BY <1>6, <1>8 DEF UnlinkResident, In
<1>10. row[t] # None /\ row[t].at = "resident"
  BY <1>9, CursorFacts DEF From
<1>11. u = t
  BY <1>1, <1>8, <1>10 DEF ResidentIsOwn, Copies
<1>12. fs[Arch(t)] # None
  BY <1>9 DEF ArchiveIsPresent
<1>13. fs'[Arch(t)] = fs[Arch(t)]
  BY <1>1, <1>6, <1>8 DEF UnlinkResident, TypeOK
<1>14. ~Copies(t, Arch(t))
  BY <1>6, <1>7, <1>11, <1>13 DEF Copies
<1> QED  BY <1>9, <1>11, <1>12, <1>14 DEF Foreign

\* For any library and any failures, transcode-migrate's look at the archive
\* path by stat(2) alone is the one way to lose a track (transcode_migrate.c).
THEOREM LostOnlyToANamesakeHolds == Spec => LostOnlyToANamesake
<1>1. IInv /\ [Next]_vars =>
        [\A t \in Tracks : Held(t) /\ ~Held(t)' => cmd = "transcode" /\ cur = t /\ Foreign(t)]_vars
  BY LossStep
<1> QED  BY <1>1, MigrateInvariant, PTL DEF Spec, LostOnlyToANamesake
-----------------------------------------------------------------------------
(* What makes a recorded transcode whole.  A file at the transcode's name was *)
(* made from this track, behind the track's file in archive/; it is partial   *)
(* only while no row says that it is delivered, and the encoder never meets   *)
(* one that an earlier run has left.                                          *)

Delivery(t) ==
  LET f == fs[Sent(t)]
  IN  /\ f # None => /\ f.of = t /\ f.ino = "opus" /\ fs[Arch(t)] # None
                     /\ ~(cmd = "migrate" /\ cur = t /\ step = "copy")
      /\ row[t] # None /\ row[t].sent => f # None /\ f.whole
      /\ cmd = "transcode" /\ cur = t /\ step = "encode" => f = None
      /\ cmd = "transcode" /\ cur = t /\ step = "encoding" => f # None /\ ~f.whole
      /\ cmd = "transcode" /\ cur = t /\ step \in {"unlink", "row", "residency"} =>
           f # None /\ f.whole

DeliveryOK == \A t \in Tracks : OwnName(t) => Delivery(t)

\* With a transcode's name of its own, a track shares no path with another one,
\* and its original is not taken for the transcode.
LEMMA OwnPaths ==
  ASSUME TypeOK, NEW t \in Tracks, OwnName(t)
  PROVE  /\ Src(t) # Sent(t)
         /\ \A u \in Tracks \ {t} : /\ Src(u) \notin {Arch(t), Sent(t)}
                                    /\ Arch(u) \notin {Arch(t), Sent(t)}
                                    /\ Sent(u) \notin {Arch(t), Sent(t)}
<1>1. \A u \in Tracks : name[u] \in Rels /\ Opus[Opus[name[u]]] = Opus[name[u]]
  BY OpusAssumption DEF TypeOK
<1>2. Opus[name[t]] # name[t] /\ \A u \in Tracks \ {t} : Opus[name[u]] # Opus[name[t]]
  BY DEF OwnName, Lossy
<1>3. ASSUME NEW u \in Tracks \ {t}
      PROVE  name[u] # name[t] /\ name[u] # Opus[name[t]]
  BY <1>1, <1>2
<1> QED  BY <1>1, <1>2, <1>3 DEF Src, Arch, Sent

\* A step of a command touches the three paths of its track only.
LEMMA OtherFiles ==
  ASSUME TypeOK, NEW t \in Tracks, Acts(t), NEW p \in Paths, p \notin {Src(t), Arch(t), Sent(t)}
  PROVE  fs'[p] = fs[p]
<1> USE DEF TypeOK
<1>1. CASE Migrate(t)
  BY <1>1 DEF Migrate, MigrateRefused, MigrateLinks, MigrateCopies, CopyDone, UnlinkFlat, MigrateRow
<1>2. CASE TranscodeOne(t)
  BY <1>2 DEF TranscodeOne, Already, Archive, ArchiveRefused, Adopt, Encode, EncodeDone,
     UnlinkResident, PathRow, ResidencyRow
<1>3. CASE EncodeFails(t) \/ MigrateFails(t) \/ TranscodeFails(t)
  BY <1>3 DEF EncodeFails, MigrateFails, TranscodeFails
<1> QED  BY <1>1, <1>2, <1>3 DEF Acts

\* A step at another track.
LEMMA DeliveryElsewhere ==
  ASSUME IInv, NEW t \in Tracks, OwnName(t), Delivery(t), NEW u \in Tracks \ {t}, Acts(u)
  PROVE  Delivery(t)'
<1> USE DEF IInv
<1>1. Arch(t) \in Paths /\ Sent(t) \in Paths
  BY PathFacts
<1>2. fs'[Arch(t)] = fs[Arch(t)] /\ fs'[Sent(t)] = fs[Sent(t)]
  BY <1>1, OwnPaths, OtherFiles
<1>3. row'[t] = row[t] /\ UNCHANGED <<name, cmd>> /\ cur' # t
  BY WalkStep, NoneAssumption DEF world, TypeOK
<1> QED  BY <1>2, <1>3 DEF Delivery, Arch, Sent

\* A step of `migrate` at the track.
LEMMA DeliveryMigrate ==
  ASSUME IInv, NEW t \in Tracks, OwnName(t), Delivery(t), Migrate(t) \/ MigrateFails(t)
  PROVE  Delivery(t)'
<1> USE DEF IInv
<1>1. /\ Arch(t) \in Paths /\ Sent(t) \in Paths /\ Arch(t) # Sent(t) /\ Src(t) # Sent(t)
      /\ UNCHANGED <<name, cmd>> /\ cmd = "migrate" /\ t # None /\ fs \in [Paths -> File \cup {None}]
      /\ cur \in {None, t}
  <2>1. Acts(t)
    BY DEF Acts
  <2>2. cmd = "migrate"
    BY DEF Migrate, MigrateRefused, MigrateLinks, MigrateCopies, CopyDone, UnlinkFlat, MigrateRow,
       MigrateFails, At, In
  <2> QED  BY <2>1, <2>2, PathFacts, OwnPaths, WalkStep DEF world, TypeOK
<1>2. Arch(t)' = Arch(t) /\ Sent(t)' = Sent(t)
  BY <1>1 DEF Arch, Sent
\* It is enough that the row keeps `sent`, and that the transcode stays as it is.
<1>3. ASSUME fs'[Sent(t)] = fs[Sent(t)],
             fs[Sent(t)] # None => fs'[Arch(t)] # None /\ step' # "copy",
             row'[t] # None => row[t] # None /\ row'[t].sent = row[t].sent
      PROVE  Delivery(t)'
  BY <1>1, <1>2, <1>3 DEF Delivery
<1>4. CASE MigrateRefused(t)
  BY <1>1, <1>3, <1>4 DEF MigrateRefused, Leave, Delivery
<1>5. CASE MigrateLinks(t)
  <2>1. fs'[Sent(t)] = fs[Sent(t)] /\ fs'[Arch(t)] = fs[Src(t)] /\ fs[Src(t)] # None
        /\ step' = "unlink" /\ row' = row
    BY <1>1, <1>5 DEF MigrateLinks, GoOn
  <2> QED  BY <1>3, <2>1
<1>6. CASE MigrateCopies(t)
  <2>1. fs'[Sent(t)] = fs[Sent(t)] /\ fs[Arch(t)] = None /\ row' = row
    BY <1>1, <1>6 DEF MigrateCopies
  <2>2. fs[Sent(t)] = None
    BY <2>1 DEF Delivery
  <2> QED  BY <1>3, <2>1, <2>2
<1>7. ASSUME In(t, "migrate", "copy"), fs'[Sent(t)] = fs[Sent(t)], row' = row
      PROVE  Delivery(t)'
  <2>1. fs[Sent(t)] = None
    BY <1>7 DEF In, Delivery
  <2> QED  BY <1>3, <1>7, <2>1
<1>8. CASE CopyDone(t)
  BY <1>1, <1>7, <1>8 DEF CopyDone
<1>9. CASE UnlinkFlat(t)
  <2>1. cur = t /\ cur # None
    BY <1>1, <1>9 DEF UnlinkFlat, In
  <2>2. row[t] # None /\ row[t].at = "flat"
    BY <1>1, <1>9, <2>1, CursorFacts DEF UnlinkFlat, In, From
  <2>3. Src(t) # Arch(t) /\ Src(t) \in Paths
    BY <2>2, PathFacts
  <2>4. fs'[Sent(t)] = fs[Sent(t)] /\ fs'[Arch(t)] = fs[Arch(t)] /\ row' = row /\ step' = "row"
    BY <1>1, <1>9, <2>3 DEF UnlinkFlat, GoOn
  <2> QED  BY <1>3, <2>4 DEF Delivery
<1>10. CASE MigrateRow(t)
  <2>1. row[t] # None /\ row[t] \in Row
    BY <1>1, <1>10, CursorFacts DEF MigrateRow, In
  <2>2. row'[t] # None => row'[t].sent = row[t].sent
    BY <1>10, <2>1 DEF MigrateRow, Row, TypeOK
  <2>3. fs' = fs /\ step' = "none"
    BY <1>10 DEF MigrateRow, Leave
  <2> QED  BY <1>3, <2>1, <2>2, <2>3 DEF Delivery
<1>11. CASE MigrateFails(t)
  <2>1. CASE fs' = fs /\ step' # "copy" /\ row' = row
    BY <1>3, <2>1 DEF Delivery
  <2>2. CASE In(t, "migrate", "copy") /\ fs' = [fs EXCEPT ![Arch(t)] = None]
    BY <1>1, <1>7, <1>11, <2>2 DEF MigrateFails
  <2> QED  BY <1>11, <2>1, <2>2 DEF MigrateFails, Leave, GoOn
<1> QED  BY <1>4, <1>5, <1>6, <1>8, <1>9, <1>10, <1>11 DEF Migrate

\* A step of `transcode-migrate` at the track.
LEMMA DeliveryTranscode ==
  ASSUME IInv, NEW t \in Tracks, OwnName(t), Delivery(t),
         TranscodeOne(t) \/ EncodeFails(t) \/ TranscodeFails(t)
  PROVE  Delivery(t)'
<1> USE DEF IInv
<1>1. /\ Arch(t) \in Paths /\ Sent(t) \in Paths /\ Arch(t) # Sent(t) /\ Src(t) # Sent(t)
      /\ UNCHANGED <<name, cmd>> /\ cmd = "transcode" /\ t # None
      /\ fs \in [Paths -> File \cup {None}] /\ cur \in {None, t}
      /\ row \in [Tracks -> Row \cup {None}]
  <2>1. Acts(t)
    BY DEF Acts
  <2>2. cmd = "transcode"
    BY DEF TranscodeOne, Already, Archive, ArchiveRefused, Adopt, Encode, EncodeDone, UnlinkResident,
       PathRow, ResidencyRow, EncodeFails, TranscodeFails, At, In
  <2> QED  BY <2>1, <2>2, PathFacts, OwnPaths, WalkStep DEF world, TypeOK
<1>2. Arch(t)' = Arch(t) /\ Sent(t)' = Sent(t)
  BY <1>1 DEF Arch, Sent
\* The track is left, or its row or its original changes: the transcode stays.
<1>3. ASSUME fs'[Sent(t)] = fs[Sent(t)],
             fs[Sent(t)] # None => fs'[Arch(t)] # None,
             row'[t] # None => row[t] # None /\ row'[t].sent = row[t].sent,
             \/ cur' # t
             \/ step \in {"unlink", "row", "residency"} /\ step' \in {"row", "residency"} /\ cur = t
      PROVE  Delivery(t)'
  BY <1>1, <1>2, <1>3 DEF Delivery
<1>4. CASE Already(t) \/ ArchiveRefused(t) \/ TranscodeFails(t)
  <2>1. fs' = fs /\ row' = row /\ cur' # t
    BY <1>1, <1>4 DEF Already, ArchiveRefused, TranscodeFails, Leave
  <2> QED  BY <1>3, <2>1 DEF Delivery
<1>5. CASE Archive(t)
  <2>1. fs[Sent(t)] = None
    BY <1>5 DEF Archive, Delivery
  <2>2. fs'[Sent(t)] = None /\ row' = row /\ step' = "encode"
    BY <1>1, <1>5, <2>1 DEF Archive, GoOn
  <2> QED  BY <1>1, <1>2, <2>1, <2>2 DEF Delivery
<1>6. CASE Adopt(t)
  BY <1>6 DEF Adopt, In, Delivery
<1>7. CASE Encode(t)
  <2>1. cur = t /\ cur # None /\ step = "encode" /\ fs[Src(t)] # None /\ fs[Sent(t)] = None
    BY <1>1, <1>7 DEF Encode, In
  <2>2. row[t] # None /\ row[t].at = "resident" /\ fs[Arch(t)] # None
    BY <1>1, <2>1, CursorFacts DEF From, ArchiveIsPresent
  <2>3. name[t] \in Rels /\ ~Lossy(name[t]) /\ Src(t) = <<"resident", name[t]>>
    BY <2>2 DEF TypeOK, OwnName, Src
  <2>4. fs[Src(t)].of = t
    BY <2>1, <2>2, <2>3 DEF ResidentIsOwn
  <2>5. ~row[t].sent
    BY <2>1, <2>2 DEF Delivery
  <2>6. /\ fs'[Sent(t)] = [of |-> t, ino |-> "opus", whole |-> FALSE]
        /\ fs'[Arch(t)] = fs[Arch(t)] /\ row' = row /\ step' = "encoding"
    BY <1>1, <1>7, <2>4 DEF Encode, GoOn
  <2>7. fs'[Sent(t)] # None
    <3>1. fs'[Sent(t)] \in File
      BY <2>6 DEF File
    <3> QED  BY <3>1, NoneAssumption
  <2> QED  BY <1>1, <1>2, <2>2, <2>5, <2>6, <2>7 DEF Delivery
<1>8. CASE EncodeDone(t)
  <2>1. cur = t /\ step = "encoding" /\ fs[Sent(t)] # None /\ fs[Sent(t)] \in File
    BY <1>1, <1>8 DEF EncodeDone, In, Delivery
  <2>2. /\ fs'[Sent(t)] = [fs[Sent(t)] EXCEPT !.whole = TRUE]
        /\ fs'[Arch(t)] = fs[Arch(t)] /\ row' = row /\ step' = "unlink"
    BY <1>1, <1>8 DEF EncodeDone, GoOn
  <2>3. /\ fs'[Sent(t)].of = fs[Sent(t)].of /\ fs'[Sent(t)].ino = fs[Sent(t)].ino
        /\ fs'[Sent(t)].whole /\ fs'[Sent(t)] # None
    <3>1. fs'[Sent(t)] \in File
      BY <2>1, <2>2, CompleteFile
    <3> QED  BY <2>1, <2>2, <3>1, NoneAssumption DEF File
  <2> QED  BY <1>1, <1>2, <2>1, <2>2, <2>3 DEF Delivery
<1>9. CASE EncodeFails(t)
  <2>1. ~(row[t] # None /\ row[t].sent)
    BY <1>1, <1>9 DEF EncodeFails, In, At, Delivery
  <2>2. fs'[Sent(t)] = None /\ row' = row /\ cur' # t
    BY <1>1, <1>9 DEF EncodeFails, Leave
  <2> QED  BY <1>1, <1>2, <2>1, <2>2 DEF Delivery
<1>10. CASE UnlinkResident(t)
  <2>1. cur = t /\ cur # None /\ step = "unlink"
    BY <1>1, <1>10 DEF UnlinkResident, In
  <2>2. row[t] # None /\ row[t].at # "archive"
    BY <2>1, CursorFacts
  <2>3. Src(t) # Arch(t) /\ Src(t) \in Paths
    BY <2>2, PathFacts
  <2>4. fs'[Sent(t)] = fs[Sent(t)] /\ fs'[Arch(t)] = fs[Arch(t)] /\ row' = row /\ step' = "row"
    BY <1>1, <1>10, <2>3 DEF UnlinkResident, GoOn
  <2> QED  BY <1>3, <2>1, <2>4 DEF Delivery
<1>11. CASE PathRow(t)
  <2>1. cur = t /\ cur # None /\ step = "row"
    BY <1>1, <1>11 DEF PathRow, In
  <2>2. row[t] # None /\ row[t] \in Row
    BY <2>1, CursorFacts
  <2>3. row'[t].sent = row[t].sent
    BY <1>1, <1>11, <2>2 DEF PathRow, Row
  <2>4. fs' = fs /\ (cur' # t \/ step' = "residency")
    BY <1>1, <1>11 DEF PathRow, Leave, GoOn
  <2> QED  BY <1>3, <2>1, <2>2, <2>3, <2>4 DEF Delivery
<1>12. CASE ResidencyRow(t)
  <2>1. fs[Sent(t)] # None /\ fs[Sent(t)].whole
    BY <1>12 DEF ResidencyRow, In, Delivery
  <2>2. fs' = fs /\ cur' # t
    BY <1>1, <1>12 DEF ResidencyRow, Leave
  <2> QED  BY <1>1, <1>2, <2>1, <2>2 DEF Delivery
<1> QED  BY <1>4, <1>5, <1>6, <1>7, <1>8, <1>9, <1>10, <1>11, <1>12 DEF TranscodeOne

\* Begin, end, kill and scan: a scan removes the transcodes of the rows that
\* it drops, and no others.
LEMMA DeliveryOuter ==
  ASSUME IInv, NEW t \in Tracks, OwnName(t), Delivery(t), Outer
  PROVE  Delivery(t)'
<1> USE DEF IInv
<1>1. name' = name /\ cur' = None /\ t # None
  BY TypeOuter, NoneAssumption DEF Outer, Begin, End, Kill, Scan, world
<1>2. Arch(t)' = Arch(t) /\ Sent(t)' = Sent(t) /\ Arch(t) \in Paths /\ Sent(t) \in Paths
  BY <1>1, PathFacts DEF Arch, Sent
<1>3. CASE Begin("migrate") \/ Begin("transcode") \/ End \/ Kill
  <2>1. fs' = fs /\ row' = row
    BY <1>3 DEF Begin, End, Kill
  <2> QED  BY <1>1, <1>2, <2>1 DEF Delivery
<1>4. CASE Scan
  <2> DEFINE gone == {u \in Tracks : row[u] # None /\ Found(u) = {} /\ row[u].sent}
  <2>1. fs' = [p \in Paths |-> IF \E u \in gone : p = Sent(u) THEN None ELSE fs[p]]
    BY <1>4 DEF Scan
  <2>2. \A u \in gone : u # t => Sent(u) \notin {Arch(t), Sent(t)}
    BY OwnPaths
  <2>3. Sent(t) # Arch(t)
    BY PathFacts
  <2>4. fs'[Arch(t)] = fs[Arch(t)]
    BY <1>2, <2>1, <2>2, <2>3
  <2>5. fs'[Sent(t)] = IF t \in gone THEN None ELSE fs[Sent(t)]
    BY <1>2, <2>1, <2>2
  <2>6. row'[t] # None /\ row'[t].sent => t \notin gone /\ row[t] # None /\ row[t].sent
    <3>1. PICK at \in [Tracks -> Places] :
            row'[t] = IF Found(t) = {} THEN None
                      ELSE [at |-> at[t], sent |-> row[t] # None /\ row[t].sent]
      BY <1>4 DEF Scan
    <3>2. CASE Found(t) # {}
      <4>1. row'[t].sent = (row[t] # None /\ row[t].sent)
        BY <3>1, <3>2
      <4> QED  BY <3>2, <4>1
    <3> QED  BY <3>1, <3>2
  <2> QED  BY <1>1, <1>2, <2>4, <2>5, <2>6 DEF Delivery
<1> QED  BY <1>3, <1>4 DEF Outer

\* Whatever was killed or failed in the encoder, what a row says to be
\* delivered is a complete transcode of its own track, when no other track has
\* the same name for its transcode (transcode_migrate.c: migrate_one).
THEOREM DeliveredIsWholeHolds == Spec => []DeliveredIsWhole
<1>1. Init => DeliveryOK
  <2> SUFFICES ASSUME Init, NEW t \in Tracks, OwnName(t) PROVE Delivery(t)
    BY DEF DeliveryOK
  <2>1. IInv
    BY InvInit
  <2>2. Sent(t) \in Paths /\ Opus[Opus[name[t]]] = Opus[name[t]]
    BY <2>1, PathFacts, OpusAssumption DEF IInv, TypeOK
  <2>3. \A u \in Tracks : name[u] # Opus[name[t]]
    BY <2>2 DEF OwnName, Lossy
  <2>4. fs[Sent(t)] = None
    BY <2>2, <2>3 DEF Init, Sent
  <2>5. ~row[t].sent
    BY DEF Init
  <2> QED  BY <2>4, <2>5 DEF Init, Delivery
<1>2. IInv /\ DeliveryOK /\ [Next]_vars => DeliveryOK'
  <2> SUFFICES ASSUME IInv, DeliveryOK, [Next]_vars, NEW t \in Tracks, OwnName(t)'
               PROVE  Delivery(t)'
    BY DEF DeliveryOK
  <2>1. CASE UNCHANGED vars
    BY <2>1 DEF vars, world, walk, DeliveryOK, Delivery, OwnName, Lossy, Arch, Sent
  <2>2. CASE Outer
    <3>1. name' = name
      BY <2>2 DEF Outer, Begin, End, Kill, Scan, world
    <3>2. OwnName(t)
      BY <3>1 DEF OwnName, Lossy
    <3> QED  BY <2>2, <3>2, DeliveryOuter DEF DeliveryOK
  <2>3. ASSUME NEW u \in Tracks, Acts(u) PROVE Delivery(t)'
    <3>1. name' = name
      BY <2>3, WalkStep DEF world, IInv
    <3>2. OwnName(t) /\ Delivery(t)
      BY <3>1 DEF OwnName, Lossy, DeliveryOK
    <3>3. CASE u # t
      BY <2>3, <3>2, <3>3, DeliveryElsewhere
    <3>4. CASE u = t
      BY <2>3, <3>2, <3>4, DeliveryMigrate, DeliveryTranscode DEF Acts
    <3> QED  BY <3>3, <3>4
  <2> QED  BY <2>1, <2>2, <2>3, NextCases
<1>3. IInv /\ DeliveryOK => DeliveredIsWhole
  <2> SUFFICES ASSUME IInv, DeliveryOK, NEW t \in Tracks, row[t] # None, row[t].sent, OwnName(t)
               PROVE  fs[Sent(t)] = [of |-> t, ino |-> "opus", whole |-> TRUE]
    BY DEF DeliveredIsWhole
  <2>1. Delivery(t) /\ Sent(t) \in Paths
    BY PathFacts DEF DeliveryOK, IInv
  <2>2. fs[Sent(t)] \in File /\ fs[Sent(t)].of = t /\ fs[Sent(t)].ino = "opus" /\ fs[Sent(t)].whole
    BY <2>1 DEF Delivery, IInv, TypeOK
  <2> QED  BY <2>2 DEF File
<1> QED  BY <1>1, <1>2, <1>3, MigrateInvariant, PTL DEF Spec
=============================================================================
