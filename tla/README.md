# Nocturne: TLA+ specifications

Nocturne keeps a phone's music folder filled from a desktop library.  The
desktop daemon `nocturned` (`src/nocturned`) scans the library into SQLite,
ingests what the phone logged, resolves which tracks should be resident, moves
or transcodes files into the folder that Syncthing carries to the phone, and
publishes a catalogue and a manifest.  The Android app (`phone/app`) plays the
files and writes JSONL logs (plays, likes, pins, actions) that Syncthing carries
back.  This directory holds TLA+ models of the parts whose behaviour is hard to
test: interleavings of processes and coroutines, crashes between two system
calls, partial delivery, and merge rules that must not depend on order.

Paths below are relative to the repository's root.  C files are those of
`src/nocturned/`, Kotlin files and packages those below
`phone/app/src/main/kotlin/io/nocturne/phone/`.

Contents: [Inventory](#inventory), [Interactions](#interactions),
[Plan](#plan), [Modules](#modules), [Runs and bounds](#runs-and-bounds),
[Fairness](#fairness), [Proofs](#proofs), [What the runs
found](#what-the-runs-found), [Limits of the models](#limits-of-the-models),
[How to run](#how-to-run).

## Inventory

### Desktop

| component | code | state | operations | what makes it correct | model |
|---|---|---|---|---|---|
| pid lockfile | `lock.c` | a path, the inode behind it, `flock`s | acquire, release; the holder may die | one writer; a dead holder blocks nobody | `PidLock` |
| JSONL reader and offsets | `jsonl.c`, `ingest.c` `ingest_one_file` | `ingest_offsets`, one transaction per file | open at the offset, read a line, drain an oversize line, commit or roll back | each event once, offset within the file | `JsonlStream`, `EventLog` |
| ingest handlers, phone actions | `ingest.c`, `actions.c` | `plays`, `likes`, `pins`, `unsync_overrides`, `track_blacklist`, the file of a deleted track | one handler per kind of line | last writer wins in every order of arrival; a delete is final | `PinMerge` |
| scan and the rows | `scan.c`, `track_repo.c` | `tracks` and what cascades from it | walk, hash, insert / update / move / skip, sweep | rows are files; pins follow a moved file | `Library`, `Scan` |
| rotate, move mode | `rotate.c` | `archive/`, `resident/`, `residency_state` | diff, link or copy, unlink, two row updates per track | no content lost; retries converge | `Rotate` |
| rotate, transcode mode | `rotate.c` | derived files in `resident/`, `transcode_path` | relocate, promote, demote, orphans | what is served under a name was made from that track | `RotateTranscode` |
| cycle | `cycle_cmd.c` | the order of the steps | scan, ingest, resolve, rotate, publish; stop at a failure, but for errors in single files of ingest | publishing resumes after any fault | `LibraryCycle` |
| watch | `watch.c` | inotify watches, path map, debounce queue, periodic mode | place watches, read events, drain due directories, tick | every change is scanned in the end | `WatchMap`, `Watch` |
| resolver | `resolver.c`, `resolve_cmd.c` | `manifest_current`, bucket configuration | seven buckets, cold start, admission under the cap | cap respected, pins win, residents settle | `Resolver` |
| resolve --diff, why | `resolve_cmd.c`, `diff.c`, `why_cmd.c` | none | read-only reports | | not modelled |
| publish, catalogue, atomic files | `publish.c`, `catalog.c`, `atomic_io.c` | `catalog.json`, then `manifest.json` | write to a temporary file and rename | a young manifest is listed by the catalogue beside it | `Catalog` |
| discover | `discover.c`, `discover_cmd.c` | `discovery_picks` | weekly quotas from four pools | spread over the albums, short only when nothing is left | `Discovery`, run by `Resolver` |
| download requests | `download.c`, `download_cmd.c`, the phone's `DownloadsWriter.kt`, `DownloadStatusReader.kt`, `DownloadDao.kt` | request and status files, Room table `downloads` | submit, share, drain, poll; start `flacget` once per request | what is shown was sent; what was sent is answered; fetched once | `Downloads` |
| transcode: encoder, levels, loudness | `transcode.c`, `transcode_cmd.c`, `transcode_level.c`, `loudness.c` | derived files | `ffmpeg` | | encoder as one step that may be killed, in `RotateTranscode` and `Migrate` |
| library migrations | `migrate.c`, `migrate_cmd.c`, `transcode_migrate.c` | library layout, rows, transcodes | one-off moves, rerun after a failure | no audio lost; reruns converge | `Migrate` |
| database, schema | `db.c`, `migrations.c`, `schema/*.sql` | the tables, `user_version` | open, apply what is missing of a list of migrations | the version is true; an opened database is complete | `Schema`; SQLite's transactions are taken as atomic |
| configuration, CLI, paths | `config.c`, `cli.c`, `paths.c`, `main.c` | none | parsing | | constants |
| doctor, diskcheck | `doctor.c`, `diskcheck.c` and their commands | none | reports | | not modelled |
| Syncthing configuration, REST client | `syncthing_api.c`, `sync_config.c` | an external service | setup calls, rescan requests | | not modelled |
| systemd units, wrappers | `config/systemd/user`, `config/bin` | timers, path units, the pin-cycle gate | start a cycle when something is new | every change gets a cycle | not modelled, but for `nocturne-download.path` in `Downloads` |
| gap log | `config/bin/nocturne-gap` | a log | append | | `JsonlStream`'s append |
| tagcheck | `src/tagcheck` | none | separate, run by hand | | not modelled |

### Phone

| component | code | state | operations | what makes it correct | model |
|---|---|---|---|---|---|
| JSONL writer | `data/stats/JsonlFileWriter.kt` | one file per kind | append under a mutex | whole lines, or a report that says otherwise | `JsonlStream`, `PinPhone`, `Downloads` |
| pins and actions | `BrowserViewModel.kt`, `PinsWriter.kt`, `ActionsWriter.kt`, `PinDao.kt` | Room table `pins` with `synced` | toggle, unsync, delete, drain | a row marked synced is in the file | `PinPhone` |
| both ends together | | two files, carried independently | | a synced pin is a pin on the desktop once all has settled | `PinSync` |
| catalogue and reconcilers | `data/catalog`, `AppRoot.kt`, `SyncScreen.kt` | Room database, residency flags, their cache | import and reconcile in any order of arrival | the database follows the folder; the cache is true | `Catalog` |
| plays, likes | `player`, `data/stats` | the running play | one play or skip per started track | | not modelled |
| player and queue | `player` | Media3 queue, saved session | | | not modelled |
| user interface, search, share, first run | `ui`, `share` | screens | | | not modelled, but for the toggles in `PinPhone` |

## Interactions

* **One database, many processes.**  Every write subcommand takes the pid lock
  first; the watcher takes it around each rescan; the wrapper scripts decide
  from the *text* of the pidfile whether somebody holds it.  `PidLock` is what
  the other desktop modules rest on: they let one writer run at a time.
* **Files carried by Syncthing.**  The phone appends; the desktop sees whole or
  cut prefixes, each file at its own pace, now and then a replaced file.
  `JsonlStream` has this byte by byte for one file, `PinMerge` and `PinSync`
  line by line for three files or two.
  `Downloads` has the two files of the download requests, `Catalog` the
  catalogue, the manifest and the audio, which arrive in any order.
* **The cycle.**  `scan -> ingest -> resolve -> rotate -> publish`, each step
  with transactions of its own and file operations outside them.
  `LibraryCycle` composes scan, a resolve whose choice is left open, rotate and
  publish; `PinMerge` is the ingest step, `Resolver` the resolve step,
  `Catalog` the publish step with what follows on the phone.
* **Opening the database.**  Every process migrates the schema when it opens the
  database.  Most hold the pid lock then; the watcher and `doctor` do not, which
  is what `Schema` is about.
* **Users.**  The archive is a directory on which beets and streamrip work
  while all this runs: `Library` and `Watch` let files and directories come,
  go and move between any two steps.

The behaviours that make the code hard, and the properties they are checked by,
are listed one by one in `PROJECT.json` under `hazards`, at the source lines
where they bite.

## Plan

Written and checked, in this order:

1. `PidLock`: the lock everything else assumes; proved in `SchemaProofs`.
2. `EventLog`, `JsonlStream`, `JsonlStreamProofs`: the abstract log and the byte
   stream that implements it.
3. `PinMerge`: the merge rules.
4. `PinPhone`, `PinSync`: the phone's coroutines, and the composition of both
   ends; `PinSyncProofs`: the merge and the whole, for all sizes.
5. `Library` <- `Scan`, `Rotate` <- `RotateTranscode` <- `LibraryCycle`;
   `LibraryProofs`.
6. `WatchMap` <- `Watch`.
7. `Discovery` <- `Resolver`, `ResolverProofs`.
8. `Downloads`, `DownloadsProofs`: requests and outcomes across both ends.
9. `Catalog`, `CatalogProofs`: publication and what the phone makes of it.
10. `Migrate`, `MigrateProofs`: the two migrations of the library's layout.
11. `PidLock` <- `Schema`, `SchemaProofs`: opening and migrating the database under
    the lock.

Next, in the order of what matters most:

1. *The pin-cycle gate*: `config/bin/nocturne-pin-cycle-runner` compares the
   change time of the JSONL files with that of the manifest; a file that lands
   between ingest and publish is older than the manifest (see below).
2. *Plays*: classification of a started track as a play or a skip across
   pauses, seeks and restarts, with `handle_play` behind it.
3. *tagcheck's quarantine*: the collision suffix and the rename before its log
   line.

Theorems worth proving next: `Covered` of `Watch`, under the hypothesis that the
table answers right (`LookupIsRight` rests on folds, see below).  No module
declares a `RECURSIVE` operator, so all of them can be proved about.

## Modules

**Conventions.**  One action per handler or system call, named after the code
where the code has a name.  Operators introduced by a comment that begins with
"Mutant" are deliberately wrong variants, not used by any specification: a run
must detect each of them when it takes the place of the right one.  Variables
that only count against a bound or remember history are marked as such where
they are declared.

### PidLock (`lock.c`)

`link` is the inode the path names, `owner` and `content` what is flocked and
written per inode, `fd` and `pc` where each process is in `lock_acquire` or
`lock_release`.  `OpenExisting` / `OpenCreate`, `Flock` / `FlockBusy`,
`WritePid`, `AcquireFails`, `Unlink`, `Close` are one system call each.  `Crash`
closes the descriptors, as the kernel does, and leaves the path.  An inode that
no path and no descriptor refers to may be handed out again, so that the state
space is finite without a counter.  `raced` records the one event that breaks
the protocol: the path is unlinked under a process that has opened it and not
yet called `flock`.

### JsonlStream and EventLog (`JsonlFileWriter.kt`, `jsonl.c`, `ingest.c`)

`src` is the phone's file, `dst` the desktop's version, `snap` the version the
pass has open; all are sequences of bytes `<<line, k>>`.  `AppendLine` may stop
short anywhere.  `Deliver` installs any longer prefix; `Reinstall` and `Shrink`
replace the file.  `CheckSize` is the `stat` with its comparison to the stored
offset, `OpenFile` the open (possibly of a newer version than was checked),
`ReadLine` and `SkipOversize` the two results of the line reader, `Commit` and
`Abort` the end of the transaction.  `EventLog` says that what is consumed is
always a prefix of what was produced, and only gets longer.  `JsonlStream`
implements it for as long as the file only grows and no write is torn: `Logged`
gives the events that end within the first bytes of a file, in the order of their
newlines, and the mapping takes those of the whole file for `produced`.  When
writes are torn, fragments may add up to an oversize line, and whether the event
behind it is read depends on where the versions were cut; `ProcessedOnce` covers
this case.

### PinMerge (`ingest.c`, `actions.c`, `schema/0008*.sql`)

`file[k]` are the lines of each kind that have arrived, `db` the committed rows
and offsets, `work` what the open transaction sees, `disk` which tracks still
have their file.  A pass reads likes, pins and actions one after the other, each
in a transaction (`BeginPass`, `ReadLine`, `CommitFile`, `RollbackFile`); a
failed file is rolled back and the pass goes on; `Crash` loses the open
transaction only.  `HandleLike`, `HandlePin`, `UnsyncTrack`, `DeleteTrack` are
the handlers, with the gate of `handle_action` that protects a fresher pin.
The delete unlinks the file *before* its transaction commits, as `actions.c`
does.

### PinPhone, PinSync (phone; both ends)

Each user operation is a coroutine that suspends at every query and every
append: `ReadExisting`, `WritePin`, `Unpin`, `Snapshot`, `AppendPin`,
`MarkSynced`, `EmitAction`.  `MarkSynced` sets `synced` on whatever the row
holds by then.  `Killed` drops all coroutines and keeps the rows and files.

An append (`JsonlFileWriter.appendLine`) has all the outcomes of the code.
`Appended` is a return of true: the line is written, or the provider gave no
descriptor, `writeAndFsync` returned, and nothing is written.  `AppendFails` is a
return of false: nothing was written, or a fragment (`torn`), or the whole line.
A line that is written behind a fragment completes what no reader can parse, and
is gone.  `out` are the lines that will parse.  Three variables are history: `lost`,
lines reported as written that are in no file; `overtaken`, tracks marked as synced
for an older line than their row; `crossed`, tracks on which two operations of
the user overlapped.

`PinSync` extends `PinMerge` with the phone by `INSTANCE`: a step is one of the
phone, the arrival of the next line of either file, or a step of an ingest pass.
The phone's lines are the environment that `PinMerge` leaves open.

### Library, Scan, Rotate, RotateTranscode, LibraryCycle (`scan.c`, `track_repo.c`, `rotate.c`, `cycle_cmd.c`)

A track is its content.  `fs` maps each of `{archive, resident} x names` to the
content there, `linked` names whose two files are one inode, `xfs` the derived
files of transcode mode, `db` the committed rows.  `Settings` gives the ways a
library is set up: `mode`, one file system or two (`xdev`), `out`, the name of the
transcode for each original's name, which need not be injective (`path_with_ext`
gives `01.flac` and `01.mp3` one `01.opus`), and `lossy`, the names with a
transcode's extension.

`Scan` walks the paths in any order, one file per step, inside one transaction
`work`, with the five cases of `on_file`, then the sweep.  A file under
`resident/` with a lossy name is passed by (`Artifact`, `VisitSkipped`), whatever
it is; one that vanished, is unreadable or changes under the hash is counted and
fails the scan at its end (`HashFails`); those of a directory that cannot be opened
are passed by without being counted (`Unreadable`); a path that another row holds
rolls everything back (`VisitConflict`).

`Rotate` works through the difference between manifest and residency one track at
a time and one system call or row update at a time: link, copy, unlink, path,
location.  `RotateTranscode` adds relocation, promotion by `ffmpeg` with a
partial output, demotion and removal of orphans.  `LibraryCycle` puts them in
order, with the aborts between them and a crash between any two steps.  The user's
actions are in `Library` and may come between any two steps, the walk's included.

Four variables are history.  `missed` are the tracks that the walk under way may
have passed by: their file was not read, or went from a place still to be visited
to one already visited, or another content lies at the path of their row.  `handled`
are those that the user touched during the walk.  `excused` says that the archive
changed under a running cycle, or a name was given to a file whose path another row
held; `clash`, that two tracks have had one name for their transcodes.

### Watch (`watch.c`: `wd_map`, the debounce queue, `watch_run`)

`at` is the tree: a directory is an inode at a path.  `wd` is the path under
which each watched inode is *remembered*, which a rename makes stale.  `map` is
the table in which the loop finds it (`WatchMap`): slots with linear probes,
doubled when half full, and `wdm_remove`, which puts the rest of the cluster back
in.  `LookupIsRight` relates the two; the loop reads `map` only.  `Start` compares
the directories with the configured limit (`watch_check_inotify_limit`), not with
what other programs leave of it (`limit`), so the watches can still run out.
`events` is the kernel's queue, which overflows at `MaxEvents`.  `dirty` are the
directories with new or changed files that no scan has read; `stale` says that
there are rows of removed files, which only a full scan sweeps (a scan of a
subtree never does); `lost` and `blind` are history: dirty directories whose event
is known to be gone, and directories that the loop cannot follow since they were
moved, lost an event, or were not reached by the walk.

`add_watches_recursive` is a step for each call: `OpenDir`, `WatchDir` (which looks
the path up again, so that the directory may be gone or be another one) and
`ListDir`, in the code's order, with `OpenFails` for an error of `opendir`.  A
directory that goes between the first two, or an `opendir` that fails for another
reason than a refusal or absence, makes it return -1 from any depth (`AbortWalk`): at the start this ends the watcher (`Exit`), in the loop
the result is ignored and what was still to come stays without a watch.  `Drain` is
`on_drain` when the scan commits and reads everything; `DrainMisses` when the lock
is busy, the scan rolls back, or some files cannot be hashed, and the entry is
dropped all the same.  `Tick` is the timer of the periodic mode after `ENOSPC`,
a full scan.

### Resolver (`resolver.c`, `resolve_cmd.c`)

The tables (`tracks`, `history`, `loved`, `pins`, `picks`, `unsynced`, `seed`)
change between resolves only, which is what the writer lock is for.  `Begin`
computes the buckets (`Selected`, one order and limit per bucket), cold start
and the union with the highest priority; `Admit` and `Skip` walk the candidates
one by one in the order `Before`, with the discount of residents (`Weight`);
`Commit` writes the manifest without the unsynced tracks.

`Discover` is `nocturned discover`, whose choice is `Picks` of `Discovery`: four
pools one after the other (not played or aged out, near a loved artist, and so
on), each with its quota of `DiscoverCount` rounded up, at most two of an album
over the whole batch, and a random fill.  Every outcome of the shuffles is
allowed, and any set of played tracks may have aged out (`AgedOut`).  `picks` is
the sequence of weeks; `Reseed` begins a week.

### Downloads (`download.c`, `download_cmd.c`, `nocturne-download.path`; `data/stats`, `data/sync`, `ui/system`, `share`)

`rows` is the phone's table, `out` the request file, `arrived` how much of it the
desktop has, `status` the desktop's lines and `seen` how many the phone has.  On
the phone a submit or a share inserts a row and drains: `Snapshot`,
`AppendRequest` (or `AppendFails`), `MarkQueued`, one suspension each, with the
outcomes of an append as in `PinPhone` (`cut` is the fragment, `lost` the requests
that were reported as written and are in no line); a poll
reads the status file from its first line and applies line after line
(`ApplyLine`, with the guard of the SQL update in `Applies`).  On the desktop
`Start` collects the ids with an outcome, `Skip` and `RunFlacget` walk the
version that was opened, `Finish` appends the outcome, `Exit` reacts to what the
path unit saw meanwhile (`wake`).  Faults are kills of either process, failed
appends (also as a fragment), failed starts and a clock set back.  `fetched`
counts the starts of `flacget` since an outcome was lost.

### Catalog (`publish.c`, `catalog.c`, `atomic_io.c`; `data/catalog`, `AppRoot.kt`, `SyncScreen.kt`)

`Cycle` changes the desktop's tables; `PublishStart`, `CommitCatalog`,
`CommitManifest` write one file each.  A kill or an error leaves the old file
(`PublishCut`).  A new one is whole, or `short`, when an error of `sqlite3_step`
ends the loop over the rows as if there were no more (`catalog.c:147`), or `torn`,
when the disk is full and the result of `fflush` is not looked at
(`atomic_io.c:159`); a torn file does not parse and lists nothing.  `DeliverCatalog`,
`DeliverManifest` and `DeliverAudio` are independent.  On the phone a coroutine
of `AppRoot` (cold start, resume, poll) or of the refresh button goes through
`ReadFiles`, `Import`, `Mark`, `ReadManifest`, `Verify`, `ClearAll`,
`SetResident`, `Apply`, a step per suspension point; `job` are its locals,
`declared`, `applied`, `lastCat` and `lastMan` the fields the code remembers.
`ScreenLeft`, `Recreated` and `AppKilled` cut coroutines; `WriteFails` is an
exception of Room in a reconcile, which `runCatching` swallows, with nothing or the
first batches written.  Two ghosts record when the table can disagree with what is
remembered: `blurred`, the causes for which the cache may not describe the table
(`overlap` of two coroutines' writes, an `import` that did not drop the cache, a
`write` that ended before the cache was set), and `stale`, an older catalogue was
imported after a newer one had been noted.

### Migrate (`migrate.c`, `transcode_migrate.c`, with `scan.c` between)

`fs` maps `{flat, archive, resident} x names` to files that know their content,
whether they are the original inode, a copy or ffmpeg's output, and whether they
are whole.  `migrate --apply` (`MigrateRefused`, `MigrateLinks`, `MigrateCopies`,
`CopyDone`, `UnlinkFlat`, `MigrateRow`) and `transcode-migrate --apply`
(`Already`, `Archive`, `ArchiveRefused`, `Adopt`, `Encode`, `EncodeDone`,
`UnlinkResident`, `PathRow`, `ResidencyRow`) walk the rows one system call at a
time; each call may fail and the command may be killed between any two.
`Scan` is the result of a whole scan: rows follow the files, content that no
walk sees loses its row, and a path that two rows want rolls everything back.

### Schema (`db.c`, `migrations.c`, `schema/*.sql`)

The module extends `PidLock`: each process goes through both.  `writers` are the
write subcommands, which take the pidfile (`Acquire`), open the database
(`OpenDb`), close it and release the lock (`Release`); the others open it without
the pidfile, as `watch`, `doctor` and a contended `resolve --diff` do, and take it
for each scan, as the watcher does (`Acquires`).  `db` is how far a process is.
`applied` are the migrations whose changes are in the schema, `version` is
`user_version`; both change in one transaction.  `Altering` are the migrations
with an `ALTER TABLE ADD COLUMN`, which fail the second time.  An opened process
reads the version (`Read`), waits for the write lock (`Begin`), applies one
migration (`Exec`, `ExecFails`), commits, and reads the version again for the next
(`Check`, `CheckFails`).  A process that fails rolls back and closes (`Leave`);
`Killed` closes its descriptors too.  `stale` records that a transaction was begun
on a version that was no longer the database's.

## Runs and bounds

Every property of a passing run has a mutant of a modelled definition that
breaks it under the same configuration, so none of them holds idly.  The runs
leave out `TypeOK`: where a component has proofs it is a conjunct of the invariant
`IInv` they establish, elsewhere it documents the variables, and a line
`INVARIANT TypeOK` in the configuration checks it.

| run | configuration | what it shows |
|---|---|---|
| `pidlock` | 3 processes, 4 inodes, symmetry | `SingleWriterUnlessRaced`; `PidfileNamesHolder`: the pidfile has the holder's pid or is still empty; both up to the event `raced` |
| `jsonl` | 3 lines of one or two bytes, limit 2, one rejected, 6 bytes, 1 reset, 1 failure | `ProcessedOnce` for a file that grows; `EventuallyProcessed`; `ImplementsLog` |
| `pinmerge` | 1 track, times 1 to 3, 3 lines in all | `NewestLineWins`, `NeverPinnedAndUnsynced`, `PinOutlivesStaleUnsync`, `DeleteSticks`, `NeverRepinned` in every order of arrival, with rollbacks and kills |
| `pinsync` | 2 coroutines (symmetric), 1 track, times 1 to 3, 3 lines per file, 1 fault | `SyncedMeansWritten`, `RowIsNewest`, `PinReachesDesktop` |
| `library` | 2 tracks, 2 names, 1 fault, 2 user actions, 1 change of the manifest; transcode mode with a name for each and with one shared name, move mode on one file system, and on two with a lossy name | `NoContentLost`, `PinsFollowFiles`, `RowsAreFiles`, `UndisturbedIsServed`, `PublishingResumes` |
| `relocate_wrong_audio` | transcode mode, 3 changes of the manifest | *violated*: `RightAudio` |
| `watch` | root and 3 directories (one nested), 3 inodes, 2 or 3 watches, 3 events, 3 changes, 1 stop, 1 directory that cannot be opened, a table of 4 slots, watch numbers that collide | `Covered`, `LookupIsRight`, `EventuallyScanned`, `PeriodicHeals` |
| `resolver` | 5 tracks of sizes 7, 12, 20, 14, 9, cap 44, hysteresis 20 %, two per bucket, 3 changes, 2 seeds; 3 on one album, 1 without, 1 on an excluded one, 3 picks a week | `CapWithinDiscount`, `LeftOutForSpace`, `PinsResident`, `Settles`, `ExplorationAtMargin`, `PicksSpread` |
| `downloads` | 2 requests, the second of which flacget refuses, one coroutine that submits and one that polls, 3 lines, 2 milliseconds, 1 fault | `ShownIsSent`, `RefetchedOnlyWhenLost`, `SentIsAnswered` |
| `catalog` | 2 tracks, one of them published first, one `AppRoot` coroutine and one refresh, sizes 0 and 1, 3 published files, 1 change, 1 fault | `CacheIsTrue`, `YoungManifestIsListed`, `Converges` |
| `migrate` | 2 tracks, 3 names (`a.flac`, the `a.opus` made of it, another lossy original), every layout a scan can have left, 2 faults | `DeliveredIsWhole`, `LostOnlyToANamesake`, `Settles` |
| `schema` | 2 processes, 2 inodes, the 9 migrations of `schema/` from any version, 1 fault | `OpenedIsCurrent`, `StuckOnlyWhenStale`, `Converges` |

Why the bounds are enough:

* `pidlock`: the race takes an opener, a holder and a third process that makes
  the new file, hence three; with three descriptors and one path at most four
  inodes are in use at a time.
* `jsonl`: a one-byte line, a line of exactly the limit and one over it are all
  there (a line of two bytes glued to a fragment of another is oversize); six
  bytes hold two whole lines and a fragment.  One reset and one failure each
  meet every point of a pass.  The proof covers any lines, limit and file.
* `pinmerge`: the rows of two tracks do not touch each other, so that one track
  suffices (and the proof covers any number); three lines give every order of a
  pin, an unsync and a third line, and three times give every comparison.
* `pinsync`: two coroutines interleave at every suspension, and three times
  cover pin, unsync, pin again with a fault of each kind in between.  The phone takes
  all its steps before the desktop's first (`PhoneFirst` in `MCPinSync`): no step of
  the phone reads what the desktop writes and its files only grow, so a step of the
  desktop that comes before one of the phone may as well come after it.  The proof
  covers any number of coroutines, tracks and lines, without that order.
* `library`: two tracks exchange names, clash, share a transcode's name or take
  each other's path, and two actions of the user are one that prepares such a
  meeting and one under the walk; one fault is enough for every disagreement a
  crash can leave, and the recovery after it is what the properties are about.
  The proof covers any number of tracks, names, faults and user's actions, and any
  settings.  `relocate_wrong_audio` needs three manifests, after one fault.
* `watch`: the smallest trees with a nested directory, a rename over a free
  path, and a limit met at start or later; one directory that cannot be opened ends
  a walk with others still to come.  The watch numbers 7, 15 and 23 share a
  slot of a table of 4 and of 8, so that with three watches the table grows, the
  cluster wraps round and an entry is removed from any place in it.
* `resolver`: the sizes let two residents exceed the cap with and without their
  discount, leave a gap that only a smaller, later candidate fits, and round the
  discount down.  Three tracks of one album meet the cap of two across pools.
* `downloads`: a second request makes the walk of the first go on, overlap with
  new lines and meet a fragment; three lines leave room for one duplicate; two
  milliseconds give "the same" and "later".  The proof covers any number.
* `catalog`: the second track is new, so that catalogue, manifest and audio can
  each be ahead or behind; three published files are the first pair and one
  more publish, whole, short, torn or cut; the two coroutines overlap anywhere,
  and one fault is any of these, an exception, or a kill.  The invariants are proved
  for any number.
* `migrate`: two tracks clash, shadow and usurp each other's path; two faults
  are one that leaves a partial result and one in the rerun that repairs it.
* `schema`: a version goes stale with two processes; two inodes are one that a
  descriptor holds and one that the path names.  One fault interrupts either
  process anywhere, and every later step is its recovery; the sequence that leaves
  a stuck database with writers alone (7. below) takes one, since the process that
  unlinks the pidfile must not have migrated.  The proof covers any number of each.

## Fairness

* `jsonl`: `WF(Ingest)` since the timer and path units start passes for ever,
  of which the model lets `MaxFails` fail, and `WF(Deliver)` since Syncthing
  catches up when both ends are online.  Nothing is assumed of the phone.
* `library`: `WF(Cycle)`, of the steps that move the program counter, the walk or
  the rotation: `nocturne-cycle.timer` starts cycle after cycle.  Nothing makes the
  user or a fault happen; faults are bounded, so that `PublishingResumes` speaks of
  what follows the last one.
* `watch`: `WF(Loop)`, the service is restarted by systemd and scheduled by the
  kernel; `WF(Tick)`, the timer finds the lock free some time, since writers are
  short commands, and its scan commits.  Weak fairness of `Loop` does not choose
  between `Drain` and `DrainMisses`: a scan that is due may always find the lock
  busy (see below).
* `downloads`: a coroutine that was started goes on, unless the app is killed;
  Syncthing delivers both files; the download section is opened again, so that
  the status file is polled; the dispatcher runs on when it was started; and
  something else writes to the watched directory again and again (every publish
  does), which is what a request needs that arrived while the service ran.
  Nothing is assumed of submits, shares or faults.
* `catalog`: coroutines go on, `AppRoot` polls while it is on the screen and
  comes to know its music folder, the three deliveries happen.  A publish need not.
* `migrate`: `WF(Step)`, a command that was started goes on; strong fairness of
  the start of both commands and of `Scan`: the operator reruns them, as their
  messages say, and each needs the others to have ended.
* `schema`: `SF(Runs(p))` for each process: the timers and the watcher's unit start
  the commands again and again, a command that runs goes on, and SQLite gives a
  waiting `BEGIN` its turn although the lock is taken by others in between.
* The other runs check safety only and assume no fairness.

## Proofs

Eight modules are checked by TLAPS, for every value of the constants that their
assumptions allow.

**JsonlStreamProofs** (assumption: `StreamAssumption`, a line has at least one
byte, the limits are naturals).  `ProcessedOnceHolds` needs, beside types:

* `Fresh`: no byte is in the phone's file twice.  It makes "the same event" and
  "the same place" one question.
* `Follows`: as long as the file only grows, the versions on the desktop are
  prefixes of it and of each other, and the offsets lie within them.  A pass
  reads `snap`, the property speaks of `src`; this is what relates the two.
* `Once`: the events committed have their newlines before the stored offset,
  those of the open transaction between it and the reader's offset.  So what a
  commit adds cannot be there already.
* `NoneMissed`: every event before an offset is among those processed.  It is
  not inductive without `Boundary`: an offset stands at the start of a line, or
  so far behind one that no accepted line can reach across it, which is where
  `jsonl_drain_oversize` stops when a newline has not arrived yet.

`NextEvent` is the core: between a boundary and the next newline there is room
for one event only, the one that the reader parses there.  `Least` (every
nonempty set of naturals has a least element, from the library's theorem on
well-founded relations) says that the newline the reader looks for exists.

`ImplementsLogHolds` is the refinement, for any lines and file.  It needs two more
parts of the invariant, which hold while the file only grows and the phone's
writes are whole:

* `Starts`: a line's first byte stands behind a newline, and the file ends at one.
  It is what makes a line that parses an event, since behind a fragment it would
  not be.
* `Matches`: what is committed is `Logged` up to the stored offset, and with the
  open transaction, up to the reader's.

`WholeBefore` carries the condition back over a step: what stands in the file now
and was tried before stood in it before (`OldStands`, since a line is written
once), and a line that is whole was appended in one piece (`NewStands`).
`EndsGrows` says that the events of the file stay what they are when it grows, so
what has been logged stays (`LoggedGrows`); `EndsParses` and `ParsesEnds`, that the
reader makes an event exactly at the newlines where one ends.  Then an append is a
`Produce` or, for a line that no handler accepts, a stutter (`AppendLogs`); a
commit is a `Consume`, because what is logged up to an offset is at the head of
what is logged later (`LoggedHeads`); and every other step is hidden.  `Logged` is
a recursive function: that it exists (`LogsExist`) and what it returns is proved
with `Least`, by the smallest position where it would go wrong.

**PinSyncProofs** (assumption: `MergeAssumption`, the bounds are naturals, at
least one time).  About `PinMerge` there are four invariants.  `IInv` is type
correctness with `Consistent` of the committed *and* of the open transaction's
rows: a commit copies `work` to `db`, so nothing about `db` alone is inductive.
`RInv` adds, for both databases, what the rows are in terms of the lines absorbed
so far: `NewestWins` and `PinHolds` hold of `d` with `d.off` lines read.  Each
handler has a lemma that says what one more line does to these; `Arrive` needs
the lemma that appending to a file leaves the absorbed lines as they are.
`SInv` says that a row whose file is gone has its delete ahead of it, in what is
committed and in what the transaction sees, and that the transaction is not
behind what is committed: the unlink comes before the commit, and a rollback may
come between them.  `DInv` says that a delete once absorbed is on the blacklist.
The theorems are `NeverPinnedAndUnsyncedHolds`, `NewestLineWinsHolds`,
`PinOutlivesStaleUnsyncHolds`, `DeleteSticksHolds` and the action property
`NeverRepinnedHolds`.

The composition `PinSync` is proved about for any number of coroutines, with the
assumption `SyncAssumption`.  `PhoneTypes` is the phone's type correctness; with it
each step of phone, delivery and ingest is a step of `PinMerge` or a stutter (lemma
`MergeHolds`), so that the theorems above are theorems of the whole.

`SyncedMeansWrittenHolds` needs `MInv`: beside the rows (`Marked`), a line that is
about to be marked is in the file or lost (`Appends`).  `RowIsNewestHolds` needs
`OInv`: nothing is sent ahead of its time (`Past`), and for each track that is not
`crossed` (`Track`): one operation at most is under way (`Own`), it took its time
later than the row and every action (`Takes`), one that goes on to emit an unsync has
turned the row off (`Off`), and no line in the file *or still held by any drain* is
newer than the row (`Newest`, `OnIsNewer`).  The drains are what the interleaving is
about: a coroutine of another track, or `ServiceStart`, may hold an old line of this
one and append it late.  `PinReachesDesktopHolds` combines both with `RInv` and
`DInv` of the desktop: a pin that is on, marked and delivered is a pin there, or its
track is blacklisted there.

**LibraryProofs** (assumptions: `LibraryAssumption`, `NoneAssumption`).  Four
invariants over all of scan, rotate, transcode mode and the user's actions, for
any settings.

* `IInv` has the types, what the rows of the committed and of the scan's transaction
  may be, and what the files are at each step of a move: before the unlink the copy
  is there (`FilesOK`).  `NoContentLostHolds` follows for every step but a removal by
  the user.
* `WInv` is about a walk, whatever the user does under it and whatever has failed: a
  row whose path another content has taken is that of a track in `missed`
  (`RowsOfMissed`); a file where the walk has been was seen, but for those in `missed`
  (`SeenBehind`); what was seen is still there, if the user has not touched it since
  (`SeenThere`); and the pins of all others are still in the transaction.  The action
  properties `RowsAreFilesHolds` and `PinsFollowFilesHolds` follow.
* `RInv` holds until something may have cost a row (`excused`): no other track's file
  lies where a row points to (`Follow`), also of the rows as the walk has changed
  them (`WalkOK`), and during a move a row is where the file is or where it came from
  (`MovedOK`).
* `UInv` holds while there was no fault, nothing is excused and no two tracks have
  had one name for their transcodes (`Quiet`): what the adds have done is still done
  when the cycle publishes (`Added`); in move mode a track that is said to be resident
  has its file there (`MoveHome`); in transcode mode what a row names is a whole
  transcode of its track, all others are the one in the making, and each has its
  original's name or takes it in this cycle, when no other transcode has it
  (`DerivedOK`, with `Apart`).  `UndisturbedIsServedHolds` follows.

**DownloadsProofs** (assumption: `BoundsAssumption`, the bounds are naturals, at
least one millisecond).  `IInv` is `TypeOK` with two parts.  `SentInv`: whatever
the desktop's status lines and the lines a poll has still to apply speak of was
sent, and a request about to be marked has just been appended, or is among those
reported as written that are in no line (`lost`); without the latter two, `ShownIsSent` is not inductive, since both `ApplyLine` and
`MarkQueued` change a row's state.  `FetchInv`: a start of flacget whose outcome
is not lost is either under way or has its line, and the pass that is running
knows it.  `ShownIsSentHolds` and `RefetchedOnlyWhenLostHolds` follow.

**CatalogProofs** (assumption: `CatalogAssumption`).  `CacheInv` says that, as
long as `blurred` has no cause, at most one coroutine is between its first and its
last write, and what the table holds at each of its suspension points; an exception
there, swallowed or not, is one of the causes.  `PublishInv` says that `publish`
writes the manifest beside its own catalogue, which lists every track if it is
whole.  `CacheIsTrueHolds` and `YoungManifestIsListedHolds` follow; the lemmas take
`Next` apart by part of the system.

**MigrateProofs** (assumptions: `OpusAssumption`, the transcode's name of a
transcode is itself; `NoneAssumption`; `FaultsAssumption`).  `IInv` says what
each step that removes a file may rely on: `SourceIsCovered` for migrate,
`ArchiveIsPresent` and `ResidentIsOwn` for transcode-migrate, `SentOK` for the
scan, which removes the transcode of a swept row; `WalkOK` ties them to the row
under the cursor.  `LostOnlyToANamesakeHolds` is an action property: from
`IInv`, every step that can remove a file is shown to leave a copy, but for
`UnlinkResident` with a foreign file at the archive path.  `DeliveredIsWholeHolds`
needs `Delivery`: a file at a track's transcode name was made from this track,
stands behind the track's file in `archive/`, is partial only while no row says it
is delivered, and is not there when the encoder starts.

**SchemaProofs** (assumptions: `PidLockAssumption`, the two "nobody" values are
not members of the sets; `SchemaAssumption`, the migrations are numbered).  First
`PidLock`:  `IInv` relates program counters, descriptors, owners
and contents: a process beyond `flock` owns the inode it has open; a locked
inode's owner has it open; until `raced`, whoever holds the lock holds the inode
the path names, and no other pid is in it.  Without the part on descriptors
`SingleWriterUnlessRaced` is not inductive: a process in `opened` could have an
inode that the path no longer names.  From `Invariance` (`Spec => []IInv`)
follow `ExclusivePerInodeHolds`, `NoStaleOwnerHolds`, `SingleWriterHolds` and
`PidfileHolds`, each by one non-temporal step.  The last says that no *other* pid is
in the pidfile of a holder; it may be empty, before `WritePid`.

Then `Schema`.  `ImplementsLock` (`SchemaSpec => Spec`) shows that the commands
and the watcher take and release the lock as `PidLock` says, so that the theorems
above hold of them.  `SchemaInv` is `IInv` together with `DbInv`: what a process
between `Read` and `Check` knows (`PhaseOK`), which phase of the database goes with
which of the lock (`LockedOK`), that `applied` is exactly `1..version` until a
stale version is used (`FreshOK`), and that none is used when every process takes
the pidfile and it was never unlinked under an opener (`AloneOK`).  The two
invariants meet in the lemma `Alone`: two processes that both have the database
open under the pidfile would contradict `SingleWriterUnlessRaced`.  So
`StuckOnlyWhenStaleHolds` proves both halves: a stuck database comes from a stale
version, and a stale version from a process without the pidfile or from that unlink.
`OpenedIsCurrentHolds` is the other theorem.

**ResolverProofs** (assumptions: `ResolverAssumption`, the library is a finite
set of naturals, sizes and limits are naturals, no two tracks have one rank and the
ratio lies between 0 and 1; `DiscoveryAssumption`).  Sums, `Max` and the
recursive function of `Without` are reached without induction: a smallest set,
or a least index, for which a fact failed would have a smaller one below it
(`MinimalSubset` and `Least`, from the library's theorems on well-founded
relations).  So `BytesRemove` shows that a sum does not depend on the order in
which the fold takes its terms, and `SumsExist` that it is defined at all.

`IInv` has two parts beside the types.  `WalkOK` is the walk's loop invariant: what
it is through with comes before what is left to it (`OrderFacts`, `FirstExists`:
`cmp_cand_priority` is a strict total order), `used` is the sum of what is
admitted, within the cap and one discount unless only pins are admitted, and each
candidate it is through with was admitted exactly when it was pinned or fitted
behind those *before it* (`Verdict`).  `SettledOK` is what makes `Settles`
inductive: the manifest is that of a set that a walk would admit both with the
weights before it and with those after it (`Fixpoint`), which holds since admission
only makes a track lighter and refusal leaves it as heavy as it can be; a
track that is unsynced *and* a candidate is the exception that costs the second
resolve.  `GreedyUnique` says that there is one such set: two would differ
first at some candidate, but behind the same earlier members.

`CapWithinDiscountHolds`, `LeftOutForSpaceHolds` and `PinsResidentHolds` follow, and
the action properties `SettlesHolds`, `ExplorationAtMarginHolds` and
`PicksSpreadHolds`.  The second rests on `TopMoves`: when one track leaves, what
comes in had exactly as many others before it as the bucket takes, and no two can;
here the ranks must be different.  The third rests on `PicksFacts`, about the four
pools together.

Only model-checked:

* Liveness under fairness, which TLAPS does not reach: `EventuallyProcessed`,
  `PublishingResumes`, `EventuallyScanned`, `PeriodicHeals`, `SentIsAnswered`,
  `Settles` of `Migrate`, both `Converges`.
* `LookupIsRight`, about a table that grows and closes up by folds, of which the
  library has no theorem that the provers can use, and `Covered`, where the loop
  finds the directory of each event through that table.

## What the runs found

One run ends in a violation of what a comment of the code says; it is described
with its lines in `PROJECT.json` under `findings`.

* `relocate_wrong_audio`: after a kill between the rename and the row update of
  a relocation, the stale name may become another track's transcode, which the
  next relocation renames under the first track's name (`rotate.c:713`).

Sequences that TLC gives for stronger properties than those of the runs; each
property below is the one a run checks, which says exactly what remains true:

1. `SingleWriter` (`SingleWriterUnlessRaced`): `lock_release` unlinks the path
   while another process is between `open` and `flock`; it then locks a dead
   inode, and a third process a new file (`lock.c:119`).  Between the `open` and
   the write of the pid the pidfile is empty, which `nocturne-cycle-run:46` takes for
   free: `PidfileNamesHolder` allows it, and a wrapper that starts then finds the lock
   busy.
2. A row marked as synced has its line in the file (`SyncedMeansWritten`): a toggle
   between another drain's snapshot and its `markSynced` is marked synced without
   ever being written (`PinsWriter.kt:48`; `overtaken`).  And `appendLine` returns
   true with nothing written when the provider gives no descriptor
   (`JsonlFileWriter.kt:93-94`, against line 46), or with a line that is glued to the
   fragment an earlier append left (`JsonlFileWriter.kt:83`, `99`; `lost`).  No later
   drain repairs either.  The same append loses a download request, whose row then
   shows "queued" for ever (`DownloadsWriter.kt:43-44`; `ShownIsSent`).
3. `PublishedIsServed` (`UndisturbedIsServed`): a demotion killed after its
   unlink leaves `location = 'resident'`; after the next scan that row looks
   present, and the track is never moved again (`rotate.c:1071`).  And two originals
   that differ in their extension only share the name of their transcode: the second
   adopts the first one's file (`rotate.c:546-550`), and the phone plays the wrong
   track (`clash`).
4. Every queued directory is scanned (`Covered`): when the lock is busy, the scan
   rolls back or a file cannot be hashed, the due entry is dropped, and outside the
   periodic mode nothing retries it (`watch.c:426-432`).  When the walk over a new
   directory is aborted, its siblings are left without a watch and nobody is told
   (`watch.c:354`, `598`).
5. No migration loses audio (`LostOnlyToANamesake`): `transcode-migrate` takes
   any regular file at `archive/<rel>`, a newer rip of the same name or a torn
   copy, for the archive copy, and unlinks the resident original
   (`transcode_migrate.c:190`; line 274 says "archive copy still present").
6. The database can always be opened (`StuckOnlyWhenStale`): `user_version` is
   read before `BEGIN IMMEDIATE` and not again (`migrations.c:92`).  When the
   watcher and a cycle open an old database together, both migrate: one at 4,
   say, the other sets 2, then 3, then fails at the `ALTER TABLE` of 0004, and so
   does every later command, against `docs/troubleshooting.md:289-291`.
7. It can always be opened when only write subcommands run (`StuckOnlyWhenStale`):
   the unlink of 1. leaves one process on a dead inode while another makes a new
   pidfile; both then hold "the" lock and migrate as in 6., when the first had failed
   before it migrated.
8. A file the scan can see keeps its row, with pins and likes (`PinsFollowFiles`,
   `RowsAreFiles`): not when the user moves it, under the walk, from a place still
   to be visited to one already visited; nor when it cannot be hashed (`scan.c:255`),
   its directory cannot be opened (`walker.c:217`), or another content has taken the
   path of its row (`missed`).  The row is deleted in all of these.
9. What the phone remembers of its table is true (`CacheIsTrue`): an exception of Room
   between `clearAllResident` and the assignment of `appliedIds` is swallowed by
   `runCatching`, and the table stays empty while the cache still holds the old set
   (`ManifestReconciler.kt:154-160`); so does a write that is cut there, an import that
   did not come to `invalidateResidencyCache`, or the overlap of two reconciles
   (`blurred`).  No later pass repairs it until the set to show changes, the catalogue
   is imported again, or the app is started anew.
10. The catalogue lists what a younger manifest declares (`YoungManifestIsListed`): a
   torn catalogue (`atomic_io.c:159`) or one that an error of `sqlite3_step` cut short
   (`catalog.c:147`) is committed, and the manifest after it.

Seen while reading, without a run; the models follow the code where they
contain the place at all:

* A new file that has already outgrown the old offset passes the size check and
  is read from the middle (`ingest.c:616-622`, compare `RACES.md:214-220`), and
  a replay from 0 inserts plays again.  Hence the condition `resets = 0` in the
  properties of `JsonlStream`.
* The drain of an oversize line without its newline stores an offset in the
  middle of the line (`jsonl.c:182`).
* `handle_pin` clears an override whatever the time of the pin
  (`ingest.c:571-574`): an older pin that arrives after a newer unsync undoes it.
  `PinOutlivesStaleUnsync` is the other direction, which holds.
* With equal times the line absorbed last wins (`ingest.c:20`, `171`), which
  `NewestLineWins` allows.
* Pin rows without a row in `tracks` survive a delete (`actions.c:165`).
* A chain of renames or a swap can hit the UNIQUE path and roll the scan back, cycle
  after cycle (`RowClash`).
* The header of `rotate.c` (21-24) says that a source which is gone is treated as
  already applied when the destination is there; `move_one` (1054-1061) counts an
  error and skips the row update.  The scan of the next cycle gives the row its path,
  so that `PublishingResumes` holds all the same.
* A partial output of a killed `ffmpeg` is adopted as done (`rotate.c:547`); a
  torn copy across file systems is an `EEXIST` error in every later cycle
  (`NameClash`).
* The result of the timer's scan is ignored (`watch.c:569`); the next tick tries again.
* Changes made while the watcher starts are not seen by it
  (`lost` in `Watch`); `ExecStartPost` does not restart the watcher after a
  failed cycle.
* The resolver's cap can be passed by one discount (`resolver.c:530`), against
  `config/nocturne.toml.example:29`; `Slack` is the exact amount.
* `window_days` compares text with a number and filters nothing
  (`resolver.c:193`, `201`); the weekly seed is or-ed with `0xDEADBEEF`, so that
  most weeks do not change it (`resolver.c:285`); unsynced tracks are charged to
  the cap before they are dropped (`resolve_cmd.c:42-51`).
* `nocturne-pin-cycle-runner` skips a JSONL file that landed between a cycle's
  ingest and its publish.
* `discover.c:12` says that running again on the same Monday is a no-op; plays
  and tracks ingested in between change the pools, and the second run adds picks
  beyond the count and beyond two of an album.  `PicksSpread` speaks of the
  first picks of a week.  The quotas are rounded up one by one, so that a count
  of 1 gives 3 picks.  The seed has no hash of the library's path as the header
  says; `monday_local` subtracts days of 86,400 seconds, so that a Sunday evening
  after the clocks went back yields a Tuesday.  Picks ignore unsync overrides.
* A download request whose append failed stays pending; sharing the link again
  is refused as already requested, against the comment at
  `ShareReceiverActivity.kt:49`, and no service start drains downloads.  Another
  request does.  A status line applied before `markQueued` leaves the row
  unsynced, and every later drain writes its line again.
* `publish` does not look at `fflush` (`atomic_io.c:159`): on a full disk a file
  without its tail is renamed into place and the command exits 0.  Files
  `.tmp.<pid>` of killed commands are never removed.
* An import of an older catalogue that ends last is not noticed (`stale`).  For an empty
  catalogue `AppRoot` does not poll.
* `migrate.c:336` expects `EEXIST` with the same inode from a rerun; after the
  unlink the source is gone and only a scan repairs the row.  A copy whose source
  cannot be unlinked is refused for ever (`migrate.c:153`, `LeftCopy`).
* `transcode_migrate.c:185` says the row is updated "regardless"; the branch for
  an existing transcode returns before it, and a rerun so counts a partial output as
  done (line 193), which `DeliveredIsWhole` does not see.  After a loss to a namesake the row
  takes the other's archive path, and every later scan hits UNIQUE and rolls back
  (`Usurped`).
* In move mode a lossy original (`.opus`, `.m4a`, `.aac`) under `resident/` looks
  like a transcode to the scan (`scan.c:191-210`): its row is swept with pins and
  likes (`Hidden` in `Migrate`, `Artifact` in `Library`).  A track that the rotation
  itself moves there goes the same way in the next cycle, and its file stays.

## Limits of the models

* **JsonlStream**: JSON is "accepted or rejected"; files are short; each line is
  written at most once.
* **PinMerge**: `plays` only insert and are left to `JsonlStream`; album actions
  do nothing in the code (there is no `album_id` column).  Lines are whole.
* **PinPhone**: one process; Room is atomic, and an append is one step with one of
  its outcomes; the clock gives distinct times.  The properties do not speak of rows
  that are `overtaken`, lines that are `lost`, or tracks on which operations `crossed`.
* **LibraryCycle**: two names; the user leaves a name alone while it is being
  moved, linked or encoded (`Busy`), and keeps the extension when renaming; the row
  of a torn copy is not modelled; all originals are in the archive in transcode mode,
  and its output is `opus` or `m4a` (with another format the scan would take
  transcodes for originals); cover sidecars, pruning of directories, tags, the mtime
  shortcut and `scan_run_subtree` are left out.  `PinsFollowFiles` and `RowsAreFiles`
  do not speak of the tracks in `missed`, `RowsAreFiles` not of those in `handled`
  either.  `PublishedIsServed` does not speak of runs in which the archive changed
  under a cycle or a name was given to another row's file (`excused`), and
  `UndisturbedIsServed` not of those with a fault or a shared transcode name
  (`clash`).  `PublishingResumes` excepts two files that block each other
  (`NameClash`, `RowClash`) and nothing else.
* **Watch**: files are not modelled one by one; no time, so a due entry may be
  drained at any moment; only leaf directories are renamed; the loss of the root is
  left out.  A failed allocation is too; tables start with 4 slots instead of 64, and
  an inode keeps its watch number over restarts.
* **Resolver**: fewer pins than the bucket's limit of 200; a `hysteresis_ratio`
  between 0 and 1, which the configuration does not enforce; a `LIMIT` without an
  order is not modelled; a blacklisted track has no row and needs no filter;
  `--explain`, the JSON output and a `random_seed` of the configuration are left
  out.
* **Discovery**: `LIMIT` without an order takes the tracks in the order of their
  hash; "aged out" is any set of played tracks.
* **Downloads**: one phone; `flacget` is a step that ends one way for each
  request; messages are left out.  A request in `lost` is never answered, and
  `SentIsAnswered` does not speak of it.
* **Catalog**: transcode mode; a track's data is the size of its file, tags and
  the tables of albums, artists and genres follow the tracks and are left out, as
  is the saved queue that an import empties; every published file has an `mtime`
  of its own.  A torn file lists nothing, since it does not parse; `catalog_import`
  and `atomic_write_file`, which only tests call, are left out.
* **Migrate**: one name per track, which neither command changes; a scan is one
  step; dry runs change nothing.  `DeliveredIsWhole` does not speak of tracks
  whose transcode has the name of another original (`OwnName`).
* **Schema**: the pragma for the WAL before `busy_timeout` is set fails like any
  other call (`OpenFails`); three processes are left to the proof; `doctor` and
  `resolve --diff` could take the pidfile for a scan in the model, like the watcher.
* What is not modelled at all, and why, is in the inventory above and in
  `PROJECT.json` under `components`.

## How to run

    tlc -workers 2 -config MCPidLock.cfg MCPidLock
    tlapm SchemaProofs.tla

Each `MC*.tla` gives its module's constants their values, and each `MC*.cfg` is
one run of the table above.  The longest, `MCLibrary` with 1.8 million states and
`MCCatalog` with 1.4 million, take three to four minutes.
