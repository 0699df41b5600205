------------------------------ MODULE Catalog ------------------------------
(***************************************************************************)
(* Publication of catalog.json and manifest.json (publish.c, catalog.c,    *)
(* atomic_io.c), their delivery, and what the phone makes of them:         *)
(* CatalogImporter, CatalogReconciler, ManifestReconciler and their        *)
(* callers.  Three things cross on Syncthing, each on its own: the         *)
(* catalog, the manifest, and the audio.  Transcode mode: a track's entry  *)
(* names its transcode and that file's size, or (size 0 here) its archive  *)
(* file, which the phone never has.                                        *)
(***************************************************************************)
EXTENDS Naturals

CONSTANTS Tracks,
          First,      \* the tracks of the first publication
          Roots,      \* coroutines of AppRoot: cold start, resume and poll
          Refreshers, \* coroutines of SyncScreen's "refresh now"
          MaxSize,    \* bound: sizes of a transcode
          MaxCommits, \* bound: files published, each with an mtime of its own
          MaxChanges, \* bound: times the desktop's database changes
          MaxFaults   \* bound: kills, failures, coroutines cut, and refreshes

Coroutines == Roots \cup Refreshers

ASSUME CatalogAssumption == /\ First \in SUBSET Tracks \ {{}}
                            /\ MaxSize \in Nat \ {0} /\ MaxCommits \in Nat \ {0}
                            /\ MaxChanges \in Nat /\ MaxFaults \in Nat

Sizes    == 0..MaxSize
Mtimes   == 0..MaxCommits
TrackSet == SUBSET Tracks
Rows     == UNION {[R -> Sizes] : R \in TrackSet}
Forms    == {"whole", "short", "torn"}  \* of a file: complete, without some rows, cut off

VARIABLES
  lib,       \* the tracks the desktop knows, and the size of their transcode
  current,   \* manifest_current
  pc,        \* publish: idle, or the file it is going to commit
  clock,     \* mtime of the youngest published file
  catalog,   \* catalog.json in the meta directory
  manifest,  \* manifest.json
  catP,      \* the phone's copies
  manP,
  disk,      \* bytes of each transcode in the phone's music tree
  rows,      \* the Room table `tracks`: its ids and their sizeBytes
  resident,  \* the ids whose isResident is set
  declared,  \* ManifestReconciler.declaredIds
  applied,   \* ManifestReconciler.appliedIds: {} is null, {S} is the set S
  lastCat,   \* AppRoot's lastReconciledCatalogMtime
  lastMan,   \* and lastReconciledMtime
  music,     \* AppRoot knows the music folder
  at,        \* where a coroutine is suspended
  job,       \* its locals: an mtime, the catalog's tracks, a set of ids
  changes,
  faults,
  blurred,   \* ghost: why the cache may not describe the table (Causes)
  stale      \* ghost: the catalog in the table is older than lastCat says
desktop == <<lib, current, pc, clock, catalog, manifest, changes>>
sync    == <<catP, manP, disk>>
process == <<declared, applied, lastCat, lastMan, music>>
ghosts  == <<blurred, stale>>
vars    == <<desktop, sync, rows, resident, process, at, job, faults, ghosts>>

\* Two coroutines wrote at the same time; one imported and did not drop the
\* cache; one ended between its first statement and the cache.
Causes == {"overlap", "import", "write"}

NoJob == [mtime |-> 0, tracks |-> [t \in {} |-> 0], ids |-> {}]

\* A library that was published and imported before anything was rotated.
Init ==
  /\ lib = [t \in First |-> 0] /\ current = First /\ resident = First
  /\ catalog = [at |-> 1, form |-> "whole", tracks |-> lib]
  /\ manifest = [at |-> 1, form |-> "whole", ids |-> First]
  /\ pc = "idle" /\ clock = 1 /\ changes = 0
  /\ catP = catalog /\ manP = manifest /\ disk = [t \in Tracks |-> 0]
  /\ rows = lib
  /\ declared = {} /\ applied = {} /\ lastCat = 0 /\ lastMan = 0 /\ music = FALSE
  /\ at = [c \in Coroutines |-> "idle"] /\ job = [c \in Coroutines |-> NoJob]
  /\ faults = 0 /\ blurred = {} /\ stale = FALSE

Fault == faults < MaxFaults /\ faults' = faults + 1
-----------------------------------------------------------------------------
(* The desktop.  Commands hold the writer lock: none runs during a publish. *)

\* scan, resolve and rotate, in any order and as often as it takes to the next
\* publish: rows come and go, their rows of manifest_current cascade, transcodes of
\* any size (the bitrate is configured) are made for it, or not yet.
Cycle ==
  /\ pc = "idle" /\ changes < MaxChanges /\ changes' = changes + 1
  /\ \E R \in TrackSet : /\ current' \in SUBSET R
                         /\ lib' \in {f \in [R -> Sizes] : \A t \in R : f[t] > 0 => t \in current'}
  /\ UNCHANGED <<pc, clock, catalog, manifest, sync, rows, resident, process, at, job, faults,
                 ghosts>>

\* An empty manifest_current ends the command before anything is written.
PublishStart ==
  /\ pc = "idle" /\ current # {} /\ clock < MaxCommits
  /\ pc' = "catalog"
  /\ UNCHANGED <<lib, current, clock, catalog, manifest, changes, sync, rows, resident,
                 process, at, job, faults, ghosts>>

\* What a file comes to list of all it should: the loop over the rows takes an
\* error for their end; and atomic_writer_commit ignores what fflush returns, so
\* that on a full disk the file loses its tail, does not parse, and is renamed
\* into place all the same.
Emits(form, listed, all) ==
  \/ form = "whole" /\ listed = all /\ UNCHANGED faults
  \/ form = "short" /\ listed # all /\ Fault
  \/ form = "torn" /\ listed = {} /\ Fault

\* catalog_emit lists every track, resident or not; the manifest is manifest_current.
CatalogFile(form, R)  == [at |-> clock + 1, form |-> form, tracks |-> [t \in R |-> lib[t]]]
ManifestFile(form, S) == [at |-> clock + 1, form |-> form, ids |-> S]

\* Mutant: the manifest is committed first.
ManifestFirst ==
  /\ pc = "catalog" /\ clock < MaxCommits
  /\ manifest' = ManifestFile("whole", current)
  /\ clock' = clock + 1 /\ pc' = "manifest"
  /\ UNCHANGED <<lib, current, catalog, faults, changes, sync, rows, resident, process, at,
                 job, ghosts>>

CommitCatalog ==
  /\ pc = "catalog" /\ clock < MaxCommits
  /\ \E form \in Forms, R \in SUBSET DOMAIN lib :
       Emits(form, R, DOMAIN lib) /\ catalog' = CatalogFile(form, R)
  /\ clock' = clock + 1 /\ pc' = "manifest"
  /\ UNCHANGED <<lib, current, manifest, changes, sync, rows, resident, process, at, job,
                 ghosts>>

\* A manifest without a row would have ended the command at once.
CommitManifest ==
  /\ pc = "manifest" /\ clock < MaxCommits
  /\ \E form \in Forms, S \in SUBSET current :
       /\ Emits(form, S, current) /\ manifest' = ManifestFile(form, S)
       /\ form = "short" => S # {}
  /\ clock' = clock + 1 /\ pc' = "idle"
  /\ UNCHANGED <<lib, current, catalog, changes, sync, rows, resident, process, at, job,
                 ghosts>>

\* A step fails, or the process is killed: what was not renamed is not seen.
PublishCut ==
  /\ pc # "idle" /\ pc' = "idle" /\ Fault
  /\ UNCHANGED <<lib, current, clock, catalog, manifest, changes, sync, rows, resident,
                 process, at, job, ghosts>>
-----------------------------------------------------------------------------
(* Syncthing                                                               *)

DeliverCatalog ==
  /\ catP # catalog /\ catP' = catalog
  /\ UNCHANGED <<desktop, manP, disk, rows, resident, process, at, job, faults, ghosts>>

DeliverManifest ==
  /\ manP # manifest /\ manP' = manifest
  /\ UNCHANGED <<desktop, catP, disk, rows, resident, process, at, job, faults, ghosts>>

Served(t) == IF t \in DOMAIN lib THEN lib[t] ELSE 0

\* A file is removed, replaced, or grows until it is complete.
DeliverAudio(t) ==
  /\ disk[t] # Served(t)
  /\ \E n \in 0..Served(t) : /\ n = Served(t) \/ n > disk[t]
                             /\ disk' = [disk EXCEPT ![t] = n]
  /\ UNCHANGED <<desktop, catP, manP, rows, resident, process, at, job, faults, ghosts>>
Deliver == DeliverCatalog \/ DeliverManifest \/ \E t \in Tracks : DeliverAudio(t)
-----------------------------------------------------------------------------
(* The phone                                                               *)

Goto(c, p) == at' = [at EXCEPT ![c] = p]

\* The table is being rewritten and the cache does not describe it.
Midway(c) == at[c] \in {"mark", "set", "applied"}
OthersMidway(c) == \E d \in Coroutines \ {c} : Midway(d)

Overlap(c) == IF OthersMidway(c) THEN {"overlap"} ELSE {}
Because(cause) == IF applied # {} THEN {cause} ELSE {}

\* runReconcile: the catalog's leg if its mtime moved, and the manifest's.
Begin(c) ==
  /\ at[c] = "idle" /\ DOMAIN rows # {}
  /\ Goto(c, IF c \in Refreshers \/ catP.at # lastCat THEN "read" ELSE "manifest")
  /\ job' = [job EXCEPT ![c].mtime = catP.at]
  /\ IF c \in Refreshers THEN Fault ELSE UNCHANGED faults
  /\ UNCHANGED <<desktop, sync, rows, resident, process, ghosts>>

\* Mutant: the declared set is looked at again only when the manifest changed.
ReverifyOnChange(c) ==
  /\ at[c] = "idle" /\ DOMAIN rows # {}
  /\ catP.at = lastCat /\ manP.at # lastMan
  /\ declared # {} /\ music
  /\ Goto(c, "verify")
  /\ job' = [job EXCEPT ![c] = [NoJob EXCEPT !.mtime = lastMan, !.ids = declared]]
  /\ UNCHANGED <<desktop, sync, rows, resident, process, faults, ghosts>>

\* reverify: neither mtime moved, and the declared set is looked at again.
Reverify(c) ==
  /\ at[c] = "idle" /\ DOMAIN rows # {}
  /\ catP.at = lastCat /\ manP.at = lastMan
  /\ declared # {} /\ music
  /\ Goto(c, "verify")
  /\ job' = [job EXCEPT ![c] = [NoJob EXCEPT !.mtime = lastMan, !.ids = declared]]
  /\ UNCHANGED <<desktop, sync, rows, resident, process, faults, ghosts>>

PollTick(c) == \/ (catP.at # lastCat \/ manP.at # lastMan) /\ Begin(c)
               \/ Reverify(c)

Parses(file) == file.form # "torn"

\* Both files are read and parsed; one that does not parse ends the leg.
ReadFiles(c) ==
  /\ at[c] = "read"
  /\ IF Parses(catP) /\ Parses(manP)
       THEN /\ Goto(c, "import")
            /\ job' = [job EXCEPT ![c].tracks = catP.tracks, ![c].ids = manP.ids]
       ELSE Goto(c, "manifest") /\ job' = [job EXCEPT ![c] = NoJob]
  /\ UNCHANGED <<desktop, sync, rows, resident, process, faults, ghosts>>

\* One transaction; isResident is stamped from the manifest as it is.  The
\* saved queue, emptied next, belongs to the player.
Import(c) ==
  /\ at[c] = "import"
  /\ rows' = job[c].tracks
  /\ resident' = job[c].ids \cap DOMAIN job[c].tracks
  /\ blurred' = blurred \cup Overlap(c)
  /\ stale' = (job[c].mtime < lastCat)
  /\ Goto(c, "mark")
  /\ UNCHANGED <<desktop, sync, process, job, faults>>

\* It throws, and the transaction is rolled back.
ImportFails(c) ==
  /\ at[c] = "import" /\ Fault
  /\ Goto(c, "manifest") /\ job' = [job EXCEPT ![c] = NoJob]
  /\ UNCHANGED <<desktop, sync, rows, resident, process, ghosts>>

\* Mutant: the cache is not dropped after an import.
MarkKeepsCache(c) ==
  /\ at[c] = "mark"
  /\ lastCat' = IF c \in Roots THEN job[c].mtime ELSE lastCat
  /\ blurred' = IF OthersMidway(c) THEN blurred ELSE {}
  /\ stale' = (stale \/ (c \in Roots /\ rows # job[c].tracks))
  /\ Goto(c, "manifest") /\ job' = [job EXCEPT ![c] = NoJob]
  /\ UNCHANGED <<desktop, sync, rows, resident, declared, applied, lastMan, music, faults>>

Mark(c) ==
  /\ at[c] = "mark"
  /\ lastCat' = IF c \in Roots THEN job[c].mtime ELSE lastCat
  /\ applied' = {}
  /\ blurred' = IF OthersMidway(c) THEN blurred ELSE {}
  /\ stale' = (stale \/ (c \in Roots /\ rows # job[c].tracks))
  /\ Goto(c, "manifest") /\ job' = [job EXCEPT ![c] = NoJob]
  /\ UNCHANGED <<desktop, sync, rows, resident, declared, lastMan, music, faults>>

\* A call after the transaction throws (setLastImportAt): the import is done,
\* but reconcile returns null, and nobody drops the cache.
Unmarked(c) ==
  /\ at[c] = "mark" /\ Fault
  /\ blurred' = blurred \cup Because("import")
  /\ Goto(c, "manifest") /\ job' = [job EXCEPT ![c] = NoJob]
  /\ UNCHANGED <<desktop, sync, rows, resident, process, stale>>

ReadManifest(c) ==
  /\ at[c] = "manifest"
  /\ IF Parses(manP)
       THEN /\ declared' = manP.ids
            /\ job' = [job EXCEPT ![c] = [NoJob EXCEPT !.mtime = manP.at, !.ids = manP.ids]]
            /\ Goto(c, "verify")
       ELSE Goto(c, "idle") /\ job' = [job EXCEPT ![c] = NoJob] /\ UNCHANGED declared
  /\ UNCHANGED <<desktop, sync, rows, resident, applied, lastCat, lastMan, music, faults,
                 ghosts>>

\* ResidencyResolver.verify: the file is there, and no shorter than its row says.
Present(t) == t \in DOMAIN rows /\ rows[t] > 0 /\ disk[t] >= rows[t]

\* Without the music folder the manifest is trusted as it is.
Verified(c) == IF music \/ c \in Refreshers THEN {t \in job[c].ids : Present(t)} ELSE job[c].ids

\* The reconcile returns: AppRoot keeps the manifest's mtime.
Return(c) == /\ lastMan' = IF c \in Roots THEN job[c].mtime ELSE lastMan
             /\ Goto(c, "idle") /\ job' = [job EXCEPT ![c] = NoJob]

Verify(c) ==
  /\ at[c] = "verify"
  /\ IF applied = {Verified(c)}
       THEN Return(c)
       ELSE /\ Goto(c, "clear") /\ UNCHANGED lastMan
            /\ job' = [job EXCEPT ![c].ids = Verified(c)]
  /\ UNCHANGED <<desktop, sync, rows, resident, declared, applied, lastCat, music, faults,
                 ghosts>>

\* applyResidency: two statements of Room, and then the cache.
ClearAll(c) ==
  /\ at[c] = "clear"
  /\ resident' = {}
  /\ blurred' = Overlap(c)
  /\ Goto(c, "set")
  /\ UNCHANGED <<desktop, sync, rows, process, job, faults, stale>>

SetResident(c) ==
  /\ at[c] = "set"
  /\ resident' = resident \cup (job[c].ids \cap DOMAIN rows)
  /\ Goto(c, "applied")
  /\ UNCHANGED <<desktop, sync, rows, process, job, faults, ghosts>>

Apply(c) ==
  /\ at[c] = "applied"
  /\ applied' = {job[c].ids}
  /\ Return(c)
  /\ UNCHANGED <<desktop, sync, rows, resident, declared, lastCat, music, faults, ghosts>>

\* Room throws: no row is set, or the first batches only, and runCatching
\* swallows it.  The cache keeps what it has, and AppRoot the older mtime.
WriteFails(c) ==
  /\ at[c] \in {"verify", "clear", "set"} /\ Fault
  /\ resident' \in IF at[c] = "set" THEN {resident \cup R : R \in SUBSET (job[c].ids \cap DOMAIN rows)}
                   ELSE {resident}
  /\ blurred' = IF at[c] = "set" THEN blurred \cup Because("write") ELSE blurred
  /\ Goto(c, "idle") /\ job' = [job EXCEPT ![c] = NoJob]
  /\ UNCHANGED <<desktop, sync, rows, process, stale>>

Resume(c) == \/ ReadFiles(c) \/ Import(c) \/ Mark(c) \/ ReadManifest(c)
             \/ Verify(c) \/ ClearAll(c) \/ SetResident(c) \/ Apply(c)

LoadMusic ==
  /\ ~music /\ music' = TRUE
  /\ UNCHANGED <<desktop, sync, rows, resident, declared, applied, lastCat, lastMan, at, job,
                 faults, ghosts>>

\* A coroutine is cut where it is suspended.
CutAt(p) == IF p = "mark" THEN Because("import")
            ELSE IF p \in {"set", "applied"} THEN Because("write") ELSE {}

\* SyncScreen is left while it refreshes.
ScreenLeft(c) ==
  /\ at[c] # "idle"
  /\ blurred' = blurred \cup CutAt(at[c])
  /\ Goto(c, "idle") /\ job' = [job EXCEPT ![c] = NoJob]
  /\ UNCHANGED <<desktop, sync, rows, resident, process, faults, stale>>

\* The activity is made anew: what AppRoot remembers is lost, what the object
\* ManifestReconciler keeps is not.
Recreated ==
  /\ Fault
  /\ blurred' = blurred \cup UNION {CutAt(at[c]) : c \in Coroutines}
  /\ at' = [c \in Coroutines |-> "idle"] /\ job' = [c \in Coroutines |-> NoJob]
  /\ lastCat' = 0 /\ lastMan' = 0 /\ music' = FALSE
  /\ UNCHANGED <<desktop, sync, rows, resident, declared, applied, stale>>

AppKilled ==
  /\ Fault
  /\ at' = [c \in Coroutines |-> "idle"] /\ job' = [c \in Coroutines |-> NoJob]
  /\ lastCat' = 0 /\ lastMan' = 0 /\ music' = FALSE
  /\ declared' = {} /\ applied' = {} /\ blurred' = {}
  /\ UNCHANGED <<desktop, sync, rows, resident, stale>>
-----------------------------------------------------------------------------
Next ==
  \/ Cycle \/ PublishStart \/ CommitCatalog \/ CommitManifest \/ PublishCut
  \/ Deliver
  \/ \E c \in Coroutines : Begin(c) \/ Resume(c)
                             \/ ImportFails(c) \/ Unmarked(c) \/ WriteFails(c)
  \/ \E c \in Roots : Reverify(c)
  \/ \E c \in Refreshers : ScreenLeft(c)
  \/ LoadMusic \/ Recreated \/ AppKilled

\* The app is open and polls; started coroutines go on; files are delivered.  (Each
\* of these steps changes the variables it is fair in.)
Fairness == /\ \A c \in Coroutines : WF_at(Resume(c))
            /\ \A c \in Roots : WF_at(PollTick(c))
            /\ WF_music(LoadMusic)
            /\ WF_sync(Deliver)

Spec == Init /\ [][Next]_vars /\ Fairness
-----------------------------------------------------------------------------
(* Properties                                                              *)

Places == {"idle", "read", "import", "mark", "manifest", "verify", "clear", "set", "applied"}

TypeOK ==
  /\ lib \in Rows /\ current \subseteq DOMAIN lib /\ pc \in {"idle", "catalog", "manifest"}
  /\ clock \in Mtimes
  /\ \A f \in {catalog, catP} : f \in [at : Mtimes, form : Forms, tracks : Rows]
  /\ \A f \in {manifest, manP} : f \in [at : Mtimes, form : Forms, ids : TrackSet]
  /\ disk \in [Tracks -> Sizes]
  /\ rows \in Rows /\ resident \in TrackSet
  /\ declared \in TrackSet /\ applied \in SUBSET TrackSet
  /\ lastCat \in Mtimes /\ lastMan \in Mtimes /\ music \in BOOLEAN
  /\ at \in [Coroutines -> Places]
  /\ job \in [Coroutines -> [mtime : Mtimes, tracks : Rows, ids : TrackSet]]
  /\ changes \in 0..MaxChanges /\ faults \in 0..MaxFaults
  /\ blurred \subseteq Causes /\ stale \in BOOLEAN

\* appliedIds is what the table holds, so that a pass which skips its write
\* skips nothing -- unless, since the table was last rewritten undisturbed, one of
\* three things happened: two coroutines wrote at the same time; an import was not
\* followed by invalidateResidencyCache; a write was cut or threw between
\* clearAllResident and the cache (applyResidency under runCatching).
CacheIsTrue ==
  (blurred = {} /\ \A c \in Coroutines : ~Midway(c)) =>
    \A S \in applied : resident = S \cap DOMAIN rows

\* When the manifest is the younger file the catalog beside it lists every track
\* it declares, however publishes failed or were killed (publish_run) -- unless
\* that catalog was torn by a full disk (atomic_writer_commit) or an error of
\* sqlite3_step ended it early (catalog_emit), and the manifest followed it.
YoungManifestIsListed ==
  manifest.at > catalog.at /\ catalog.form = "whole" =>
    manifest.ids \subseteq DOMAIN catalog.tracks

\* Why the first holds: one coroutine rewrites at a time, and what it has written
\* is what it is going to remember.
CacheInv ==
  blurred = {} =>
    /\ \A c, d \in Coroutines : Midway(c) /\ Midway(d) => c = d
    /\ \A c \in Coroutines :
         /\ at[c] = "set" => resident = {}
         /\ at[c] = "applied" => resident = job[c].ids \cap DOMAIN rows
    /\ CacheIsTrue

\* Why the second holds: a publish commits its manifest beside its own catalog.
PublishInv ==
  /\ YoungManifestIsListed
  /\ catalog.at <= clock /\ manifest.at <= clock
  /\ pc = "manifest" => /\ catalog.at = clock
                        /\ catalog.form = "whole" => catalog.tracks = lib

IInv == TypeOK /\ CacheInv /\ PublishInv

Wanted == {t \in manP.ids : Present(t)}

\* Once the desktop is quiet the phone comes to list the catalog and to show what
\* the manifest declares and the disk has, no more and no less, whatever order the
\* catalog, the manifest and the audio arrived in, and whatever failed on the way
\* (runReconcile, reverify).  A torn manifest and a catalog without a track, for
\* which AppRoot does not poll, end it; a torn catalog, and an import that was
\* overtaken by an older one, only the list.  A disturbed write, as in CacheIsTrue,
\* may leave the table wrong, but never for want of trying: the cache still comes
\* to hold what should be shown, so that any later change of that set heals it.
Converges ==
  <>[](\/ ~Parses(manP) \/ DOMAIN rows = {}
       \/ /\ rows = catP.tracks \/ stale \/ ~Parses(catP)
          /\ applied = {Wanted}
          /\ resident = Wanted \/ blurred # {})
=============================================================================
