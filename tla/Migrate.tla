------------------------------ MODULE Migrate ------------------------------
(***************************************************************************)
(* The two migrations of a library, each a command that walks the rows one *)
(* by one under the pid lockfile:                                          *)
(*   - `nocturned migrate --apply` (migrate.c) moves the flat layout under *)
(*     archive/, by link and unlink or by a copy across file systems;      *)
(*   - `nocturned transcode-migrate --apply` (transcode_migrate.c) leaves  *)
(*     the original of a resident track in archive/ and what ffmpeg made   *)
(*     of it in resident/.                                                 *)
(* Between commands the library is scanned (Scan.tla takes the scan apart). *)
(* System calls fail and a command may be killed at any step.              *)
(***************************************************************************)
EXTENDS Integers

CONSTANTS Tracks,       \* contents, told apart by their hash
          Rels,         \* names below flat, archive/ and resident/
          Opus,         \* the name of the transcode, for each name
          None,
          MaxFaults     \* bound: failing calls and kills

ASSUME OpusAssumption ==
  Opus \in [Rels -> Rels] /\ \A r \in Rels : Opus[Opus[r]] = Opus[r]
ASSUME FaultsAssumption == MaxFaults \in Nat

Places == {"flat", "archive", "resident"}
Paths == Places \X Rels

\* ino tells the original inode from a copy and from ffmpeg's output: two
\* paths with equal originals are hard links of each other.
File == [of : Tracks, ino : {"orig", "copy", "opus"}, whole : BOOLEAN]

\* A row's path is its place and the track's name; sent says that its
\* residency_state has the transcode.
Row == [at : Places, sent : BOOLEAN]

ASSUME NoneAssumption == None \notin Tracks /\ None \notin File /\ None \notin Row

VARIABLES
  fs,       \* [Paths -> File \cup {None}]
  row,      \* [Tracks -> Row \cup {None}]
  name,     \* [Tracks -> Rels]: neither command renames
  xdev,     \* do the three places lie on different file systems?
  cmd,      \* "idle", "migrate" or "transcode"
  todo,     \* the rows the command has yet to walk
  cur, step,\* the row it is at, and what it does next
  faults

world == <<name, xdev>>
walk == <<cmd, todo, cur, step>>
vars == <<fs, row, world, walk, faults>>

Src(t) == <<row[t].at, name[t]>>
Arch(t) == <<"archive", name[t]>>
Sent(t) == <<"resident", Opus[name[t]]>>

\* is_transcode_artifact: under resident/ this name is never scanned.
Lossy(r) == Opus[r] = r

Copies(t, p) == fs[p] # None /\ fs[p].of = t /\ fs[p].ino # "opus" /\ fs[p].whole
Held(t) == \E p \in Paths : Copies(t, p)

\* stat(2) of both: one inode.
SameFile(p, q) == fs[p] # None /\ fs[p] = fs[q]

\* tracks.path is UNIQUE.
Taken(t, place) ==
  \E u \in Tracks \ {t} : row[u] # None /\ row[u].at = place /\ name[u] = name[t]

Idle == cmd' = "idle" /\ todo' = {} /\ cur' = None /\ step' = "none"

\* A scanned library: each track is in one place, and no transcodes yet.
Init ==
  /\ name \in [Tracks -> Rels]
  /\ \E at \in [Tracks -> Places] :
       /\ \A t, u \in Tracks : t # u => <<at[t], name[t]>> # <<at[u], name[u]>>
       /\ row = [t \in Tracks |-> [at |-> at[t], sent |-> FALSE]]
       /\ fs = [p \in Paths |->
                  IF \E t \in Tracks : p = <<at[t], name[t]>>
                    THEN [of |-> CHOOSE t \in Tracks : p = <<at[t], name[t]>>,
                          ino |-> "orig", whole |-> TRUE]
                    ELSE None]
  /\ xdev \in BOOLEAN
  /\ cmd = "idle" /\ todo = {} /\ cur = None /\ step = "none" /\ faults = 0
-----------------------------------------------------------------------------
(* The walk over the rows, shared by the two commands                      *)

From(c) == IF c = "migrate" THEN "flat" ELSE "resident"

\* migrate skips what is archived, resident or outside of the root;
\* transcode-migrate selects the rows under resident/.
Begin(c) ==
  /\ cmd = "idle" /\ cmd' = c
  /\ todo' = {t \in Tracks : row[t] # None /\ row[t].at = From(c)}
  /\ UNCHANGED <<fs, row, world, cur, step, faults>>

End ==
  /\ cmd # "idle" /\ todo = {} /\ cur = None
  /\ Idle
  /\ UNCHANGED <<fs, row, world, faults>>

At(t, c) == cmd = c /\ cur = None /\ t \in todo
In(t, c, s) == cmd = c /\ cur = t /\ step = s
GoOn(t, s) == cur' = t /\ step' = s /\ UNCHANGED <<cmd, todo>>
Leave(t) == cur' = None /\ step' = "none" /\ todo' = todo \ {t} /\ UNCHANGED cmd
Fault == faults < MaxFaults /\ faults' = faults + 1

\* SQLite loses only the statement it was in; the file system loses nothing.
Kill ==
  /\ cmd # "idle" /\ Fault
  /\ Idle
  /\ UNCHANGED <<fs, row, world>>
-----------------------------------------------------------------------------
(* migrate_run                                                             *)

\* Mutant: a link that an earlier run left behind is refused too.
MigrateRefusesLinks(t) ==
  /\ At(t, "migrate")
  /\ fs[Src(t)] = None \/ fs[Arch(t)] # None
  /\ Leave(t)
  /\ UNCHANGED <<fs, row, world, faults>>

\* ENOENT, or EEXIST with another inode: "manual intervention required".
MigrateRefused(t) ==
  /\ At(t, "migrate")
  /\ fs[Src(t)] = None \/ (fs[Arch(t)] # None /\ ~SameFile(Src(t), Arch(t)))
  /\ Leave(t)
  /\ UNCHANGED <<fs, row, world, faults>>

\* link(2) succeeds, or the link is already there.
MigrateLinks(t) ==
  /\ At(t, "migrate") /\ fs[Src(t)] # None
  /\ (fs[Arch(t)] = None /\ ~xdev) \/ SameFile(Src(t), Arch(t))
  /\ fs' = [fs EXCEPT ![Arch(t)] = fs[Src(t)]]
  /\ GoOn(t, "unlink")
  /\ UNCHANGED <<row, world, faults>>

\* EXDEV: copy_and_unlink creates the destination with O_EXCL and fills it.
MigrateCopies(t) ==
  /\ At(t, "migrate") /\ fs[Src(t)] # None /\ fs[Arch(t)] = None /\ xdev
  /\ fs' = [fs EXCEPT ![Arch(t)] = [of |-> fs[Src(t)].of, ino |-> "copy", whole |-> FALSE]]
  /\ GoOn(t, "copy")
  /\ UNCHANGED <<row, world, faults>>

CopyDone(t) ==
  /\ In(t, "migrate", "copy")
  /\ fs' = [fs EXCEPT ![Arch(t)].whole = TRUE]
  /\ GoOn(t, "unlink")
  /\ UNCHANGED <<row, world, faults>>

\* Mutant: the source goes away before the copy has reached the disk.
UnlinkFlatEarly(t) ==
  /\ cmd = "migrate" /\ cur = t /\ step \in {"copy", "unlink"}
  /\ fs' = [fs EXCEPT ![Src(t)] = None]
  /\ GoOn(t, "row")
  /\ UNCHANGED <<row, world, faults>>

UnlinkFlat(t) ==
  /\ In(t, "migrate", "unlink")
  /\ fs' = [fs EXCEPT ![Src(t)] = None]
  /\ GoOn(t, "row")
  /\ UNCHANGED <<row, world, faults>>

MigrateRow(t) ==
  /\ In(t, "migrate", "row")
  /\ row' = IF Taken(t, "archive") THEN row ELSE [row EXCEPT ![t].at = "archive"]
  /\ Leave(t)
  /\ UNCHANGED <<fs, world, faults>>

\* mkdir or the first calls fail; a copy that fails is removed; after a failed
\* unlink of a link the row is updated all the same, of a copy it is not.
MigrateFails(t) ==
  /\ Fault
  /\ \/ At(t, "migrate") /\ Leave(t) /\ UNCHANGED fs
     \/ In(t, "migrate", "copy") /\ Leave(t) /\ fs' = [fs EXCEPT ![Arch(t)] = None]
     \/ In(t, "migrate", "unlink") /\ UNCHANGED fs /\ IF xdev THEN Leave(t) ELSE GoOn(t, "row")
     \/ In(t, "migrate", "row") /\ Leave(t) /\ UNCHANGED fs
  /\ UNCHANGED <<row, world>>

Migrate(t) == \/ MigrateRefused(t) \/ MigrateLinks(t) \/ MigrateCopies(t)
              \/ CopyDone(t) \/ UnlinkFlat(t) \/ MigrateRow(t)
-----------------------------------------------------------------------------
(* migrate_one of transcode_migrate.c                                      *)

\* Both files exist, whatever is in them: nothing is done.
Already(t) ==
  /\ At(t, "transcode") /\ fs[Arch(t)] # None /\ fs[Sent(t)] # None
  /\ Leave(t)
  /\ UNCHANGED <<fs, row, world, faults>>

\* The archive file is linked, unless one of that name is present.
Archive(t) ==
  /\ At(t, "transcode")
  /\ \/ fs[Arch(t)] # None /\ fs[Sent(t)] = None /\ UNCHANGED fs
     \/ /\ fs[Arch(t)] = None /\ fs[Src(t)] # None /\ ~xdev
        /\ fs' = [fs EXCEPT ![Arch(t)] = fs[Src(t)]]
  /\ GoOn(t, "encode")
  /\ UNCHANGED <<row, world, faults>>

\* ENOENT or EXDEV.
ArchiveRefused(t) ==
  /\ At(t, "transcode") /\ fs[Arch(t)] = None /\ (fs[Src(t)] = None \/ xdev)
  /\ Leave(t)
  /\ UNCHANGED <<fs, row, world, faults>>

\* A file of the transcode's name is taken for the transcode.
Adopt(t) ==
  /\ In(t, "transcode", "encode") /\ fs[Sent(t)] # None
  /\ GoOn(t, "unlink")
  /\ UNCHANGED <<fs, row, world, faults>>

\* ffmpeg writes to the final name.
Encode(t) ==
  /\ In(t, "transcode", "encode") /\ fs[Sent(t)] = None /\ fs[Src(t)] # None
  /\ fs' = [fs EXCEPT ![Sent(t)] = [of |-> fs[Src(t)].of, ino |-> "opus", whole |-> FALSE]]
  /\ GoOn(t, "encoding")
  /\ UNCHANGED <<row, world, faults>>

EncodeDone(t) ==
  /\ In(t, "transcode", "encoding")
  /\ fs' = [fs EXCEPT ![Sent(t)].whole = TRUE]
  /\ GoOn(t, "unlink")
  /\ UNCHANGED <<row, world, faults>>

\* Mutant: the output of an ffmpeg that failed stays and is recorded.
EncodeFailsUnnoticed(t) ==
  /\ In(t, "transcode", "encoding") /\ Fault
  /\ GoOn(t, "unlink")
  /\ UNCHANGED <<fs, row, world>>

\* No input, or ffmpeg ends with an error: the output is removed.
EncodeFails(t) ==
  /\ \/ In(t, "transcode", "encoding") /\ Fault
     \/ In(t, "transcode", "encode") /\ fs[Sent(t)] = None /\ fs[Src(t)] = None /\ UNCHANGED faults
  /\ fs' = [fs EXCEPT ![Sent(t)] = None]
  /\ Leave(t)
  /\ UNCHANGED <<row, world>>

\* "drop the resident FLAC hardlink (archive copy still present)"
UnlinkResident(t) ==
  /\ In(t, "transcode", "unlink")
  /\ fs' = [fs EXCEPT ![Src(t)] = None]
  /\ GoOn(t, "row")
  /\ UNCHANGED <<row, world, faults>>

PathRow(t) ==
  /\ In(t, "transcode", "row")
  /\ IF Taken(t, "archive")
       THEN UNCHANGED row /\ Leave(t)
       ELSE row' = [row EXCEPT ![t].at = "archive"] /\ GoOn(t, "residency")
  /\ UNCHANGED <<fs, world, faults>>

\* upsert_residency_with_transcode
ResidencyRow(t) ==
  /\ In(t, "transcode", "residency")
  /\ row' = [row EXCEPT ![t].sent = TRUE]
  /\ Leave(t)
  /\ UNCHANGED <<fs, world, faults>>

\* mkdir, link, unlink or one of the two updates fails: the row is left there.
TranscodeFails(t) ==
  /\ Fault
  /\ \/ At(t, "transcode") /\ (fs[Arch(t)] = None \/ fs[Sent(t)] = None)
     \/ cmd = "transcode" /\ cur = t /\ step \in {"unlink", "row", "residency"}
  /\ Leave(t)
  /\ UNCHANGED <<fs, row, world>>

TranscodeOne(t) == \/ Already(t) \/ Archive(t) \/ ArchiveRefused(t) \/ Adopt(t) \/ Encode(t)
                   \/ EncodeDone(t) \/ UnlinkResident(t) \/ PathRow(t) \/ ResidencyRow(t)
-----------------------------------------------------------------------------
(* A scan between two commands                                             *)

Found(t) == {p \in Places : /\ Copies(t, <<p, name[t]>>)
                            /\ ~(p = "resident" /\ Lossy(name[t]))}

\* A known track has been found where another track's row still is: the UPDATE
\* violates UNIQUE and the scan is rolled back.
Conflict ==
  \E t \in Tracks : /\ row[t] # None
                    /\ \E p \in Found(t) : Taken(t, p)

\* A row follows the file the walk saw last; a content without a row gets one;
\* a row whose file was not seen goes, and its transcode is removed.
Scan ==
  /\ cmd = "idle" /\ ~Conflict
  /\ \E at \in [Tracks -> Places] :
       /\ \A t \in Tracks : Found(t) # {} => at[t] \in Found(t)
       /\ row' = [t \in Tracks |->
                    IF Found(t) = {} THEN None
                    ELSE [at |-> at[t], sent |-> row[t] # None /\ row[t].sent]]
  /\ LET gone == {t \in Tracks : row[t] # None /\ Found(t) = {} /\ row[t].sent}
     IN  fs' = [p \in Paths |-> IF \E t \in gone : p = Sent(t) THEN None ELSE fs[p]]
  /\ UNCHANGED <<world, walk, faults>>

Step == End \/ (\E t \in Tracks : Migrate(t) \/ TranscodeOne(t) \/ EncodeFails(t))
Fails == Kill \/ (\E t \in Tracks : MigrateFails(t) \/ TranscodeFails(t))
Next == Begin("migrate") \/ Begin("transcode") \/ Scan \/ Step \/ Fails

Spec == Init /\ [][Next]_vars

\* A command that runs goes on; the operator reruns both commands and the scan
\* ("rerunnable", migrate_cmd.c).
FairSpec == /\ Spec /\ WF_vars(Step) /\ SF_vars(Scan)
            /\ \A c \in {"migrate", "transcode"} : SF_vars(Begin(c))
-----------------------------------------------------------------------------
(* Correctness                                                             *)

\* The types of files, rows and the walk (migrate_run, migrate_one).
TypeOK ==
  /\ fs \in [Paths -> File \cup {None}]
  /\ row \in [Tracks -> Row \cup {None}]
  /\ name \in [Tracks -> Rels] /\ xdev \in BOOLEAN
  /\ cmd \in {"idle", "migrate", "transcode"}
  /\ todo \in SUBSET Tracks /\ cur \in Tracks \cup {None}
  /\ step \in {"none", "copy", "encode", "encoding", "unlink", "row", "residency"}
  /\ faults \in 0..MaxFaults

\* The row under the cursor is where the command found it, until its path is
\* updated.
WalkOK ==
  /\ cmd = "idle" => cur = None /\ todo = {}
  /\ (cur = None <=> step = "none")
  /\ cur # None => cur \in todo
  /\ \A t \in todo : /\ row[t] # None
                     /\ row[t].at = IF t = cur /\ step = "residency" THEN "archive" ELSE From(cmd)

\* migrate removes a source only when what is in archive/ is as good.
SourceIsCovered ==
  cmd = "migrate" /\ cur # None /\ step \in {"copy", "unlink"} =>
    LET src == fs[Src(cur)]  dst == fs[Arch(cur)]
    IN  /\ src # None /\ dst # None /\ dst.of = src.of
        /\ step = "copy" => ~dst.whole /\ dst.ino # "opus"
        /\ step = "unlink" => dst = src \/ (dst.whole /\ dst.ino # "opus")

\* transcode-migrate encodes and unlinks only with a file in archive/, and
\* ffmpeg's output is never mistaken for an original.
ArchiveIsPresent ==
  cmd = "transcode" /\ cur # None /\ step \in {"encode", "encoding", "unlink"} =>
    /\ fs[Arch(cur)] # None
    /\ step = "encoding" => fs[Sent(cur)] # None /\ fs[Sent(cur)].ino = "opus"

\* Under resident/ lie originals and transcodes; a row there names its own
\* content or a transcode.
ResidentIsOwn ==
  /\ \A n \in Rels : LET f == fs[<<"resident", n>>]
                     IN  f # None => IF f.ino = "opus" THEN Lossy(n) ELSE f.ino = "orig" /\ f.whole
  /\ \A t \in Tracks : row[t] # None /\ row[t].at = "resident" /\ fs[Src(t)] # None =>
                         fs[Src(t)].of = t \/ fs[Src(t)].ino = "opus"

\* A track whose recorded transcode is an original (of its name) is archived,
\* so that no scan takes the transcode for a left-over.
SentIsSafe(t) == Copies(t, Arch(t)) \/ fs[Sent(t)] = None \/ fs[Sent(t)].ino = "opus"

SentOK == \A t \in Tracks :
            (row[t] # None /\ row[t].sent) \/ (cmd = "transcode" /\ cur = t) => SentIsSafe(t)

\* The inductive invariant behind LostOnlyToANamesake (migrate_run,
\* migrate_one): what each step of a command may rely on when it removes a file.
IInv == TypeOK /\ WalkOK /\ SourceIsCovered /\ ArchiveIsPresent /\ ResidentIsOwn /\ SentOK

\* The archive path of a track is taken by a file that is not its content.
Foreign(t) == fs[Arch(t)] # None /\ ~Copies(t, Arch(t))

\* The one way to lose a track, whatever fails or is killed: it is resident
\* when transcode-migrate runs and another file has its name under archive/
\* (only stat(2) is asked, transcode_migrate.c).
LostOnlyToANamesake ==
  [][\A t \in Tracks : Held(t) /\ ~Held(t)' => cmd = "transcode" /\ cur = t /\ Foreign(t)]_vars

\* Does the transcode's name belong to this track's original alone?
OwnName(t) == ~Lossy(name[t]) /\ \A u \in Tracks \ {t} : Opus[name[u]] # Opus[name[t]]

\* A row that says its transcode is delivered names a complete transcode of
\* its own track, whatever was killed or failed in the encoder before.
DeliveredIsWhole ==
  \A t \in Tracks : row[t] # None /\ row[t].sent /\ OwnName(t) =>
    fs[Sent(t)] = [of |-> t, ino |-> "opus", whole |-> TRUE]

\* The walk of a scan does not see the only files of this track.
Hidden(t) == \A p \in Paths : Copies(t, p) => p[1] = "resident" /\ Lossy(name[t])

\* A copy that could not remove its source leaves both; migrate refuses the pair.
LeftCopy(t) == LET flat == <<"flat", name[t]>>
               IN  fs[flat] # None /\ Copies(t, Arch(t)) /\ ~SameFile(flat, Arch(t))

\* A namesake that lost its content was given this track's archive path: from
\* then on every scan is rolled back.
Usurped(t) == \E u \in Tracks \ {t} : /\ row[u] # None /\ row[u].at = "archive"
                                      /\ name[u] = name[t] /\ ~Held(u)

\* Rerunning the commands after a failure or a kill ends with the track's row
\* off the flat layout, unless another inode or another row has its archive path
\* (Foreign, LeftCopy, Usurped), or the row was swept for a file that no scan
\* sees (Hidden).
Settles ==
  \A t \in Tracks :
    []<>(\/ row[t] # None /\ row[t].at # "flat"
         \/ Hidden(t) \/ Foreign(t)
         \/ LeftCopy(t) \/ Usurped(t))
=============================================================================
