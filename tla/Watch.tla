------------------------------- MODULE Watch -------------------------------
(***************************************************************************)
(* `nocturned watch` (watch.c): inotify watches on every directory of the  *)
(* library, a debounce queue of directories, and a scan of a directory's   *)
(* subtree when its deadline has passed.  Directories are made, moved and  *)
(* removed while the loop runs; the writer lock may be busy when a scan is *)
(* due; the wrapper of the cycle stops the watcher and starts it again.    *)
(*                                                                         *)
(* A directory is an inode at a path.  Only the paths are modelled, not    *)
(* the files: an inode is dirty while files were written in it, or came    *)
(* with it, that no scan has read.  A file that was removed leaves its row *)
(* behind until a full scan sweeps (`stale`): the scan of a subtree never  *)
(* does.  Time is left out: a queued directory may come due any time.      *)
(***************************************************************************)
EXTENDS Integers, Sequences, FiniteSets, WatchMap

CONSTANTS Root, Dirs,    \* the paths of the directories below the root
          Parent,        \* [Dirs -> Dirs \cup {Root}]
          Inodes,
          Wd,            \* the kernel's number of the watch of each inode
          Others,        \* watches of the user's other programs
          Limits,        \* what they leave of fs.inotify.max_user_watches
          Headroom,      \* what must be free beyond the directories at start: 100
          MaxEvents,     \* bound: the kernel's event queue
          MaxChanges,    \* bound: what happens to the library
          MaxStops,      \* bound: restarts of the watcher
          MaxFaults      \* bound: directories that cannot be opened or watched

VARIABLES
  at,       \* at[p]: the inode of the directory at p, or None
  used,     \* inodes that are or were directories
  dirty,    \* inodes with new or changed files that no scan has read
  stale,    \* there are rows of files that were removed
  wd,       \* wd[i]: the path under which inode i was watched, or None
  map,      \* wd_map: the table in which the loop looks these paths up
  events,   \* the kernel's queue
  limit,    \* the number of watches there may be
  phase,    \* "off", "starting" (the first watches are placed) or "on"
  toWatch,  \* add_watches_recursive: paths still to open,
  opened,   \* the path and the inode just opened, or None,
  toList,   \* and those whose entries are still to be read
  queue,    \* the debounce queue
  periodic, \* periodic_mode: out of watches, the timer is armed
  changes, stops, faults,   \* against the bounds
  blind,    \* inodes that the loop cannot follow, see Covered
  lost      \* dirty inodes nobody will scan for, see Covered

tree    == <<at, used, limit>>
watches == <<wd, map>>
walk    == <<toWatch, opened, toList>>
bounds  == <<changes, stops, faults>>
files   == <<dirty, stale, lost>>
vars    == <<tree, files, watches, events, phase, walk, queue, periodic, bounds, blind>>

Paths == Dirs \cup {Root}

\* p and the directories it is in (Dirs nests two deep).
Up(p) == {p} \cup (IF p = Root THEN {} ELSE {Parent[p], Root})
Under(p) == {at[q] : q \in {r \in Paths : p \in Up(r)}} \ {None}
Children(p) == {q \in Dirs : Parent[q] = p}
Live == {at[p] : p \in Paths} \ {None}

Adding == toWatch \cup toList # {} \/ opened # None
Full == Cardinality({i \in Live : wd[i] # None}) >= limit

Init ==
  /\ LET top == CHOOSE i \in Inodes : TRUE
     IN  at = [p \in Paths |-> IF p = Root THEN top ELSE None] /\ used = {top}
  /\ limit \in Limits
  /\ dirty = {} /\ stale = FALSE /\ wd = [i \in Inodes |-> None] /\ events = <<>>
  /\ map = EmptyMap
  /\ phase = "off" /\ toWatch = {} /\ opened = None /\ toList = {}
  /\ queue = {} /\ periodic = FALSE
  /\ changes = 0 /\ stops = 0 /\ faults = 0 /\ blind = {} /\ lost = {}
-----------------------------------------------------------------------------
(* What happens to the library.                                            *)

Event(i, kind, name) == [on |-> i, kind |-> kind, name |-> name]

\* The events of es whose inode is watched are queued, while there is room: the
\* overflow event has no directory and is ignored.
Watched(es) == SelectSeq(es, LAMBDA e : wd[e.on] # None)
Fits(es) == Len(events) + Len(Watched(es)) <= MaxEvents
Emit(es) == events' = IF Fits(es) THEN events \o Watched(es) ELSE events

\* A change in the directory at p is heard of through inode i.
Followed(i, p) == i \notin blind /\ (wd[i] = p \/ (wd[i] = None /\ phase = "on"))

Happens == changes < MaxChanges /\ changes' = changes + 1
           /\ UNCHANGED <<limit, watches, phase, walk, queue, periodic, stops, faults>>

\* A file is written in the directory, or moved into it.
Touch(p) ==
  LET i == at[p]  es == <<Event(i, "change", None)>>
  IN  /\ i # None /\ Happens /\ Emit(es)
      /\ dirty' = dirty \cup {i}
      /\ lost' = IF Followed(i, p) /\ Fits(es) THEN lost ELSE lost \cup {i}
      /\ UNCHANGED <<at, used, stale, blind>>

RemoveFile(p) ==
  /\ at[p] # None /\ Happens /\ Emit(<<Event(at[p], "change", None)>>)
  /\ stale' = TRUE
  /\ UNCHANGED <<at, used, dirty, lost, blind>>

\* No walk that is still to reach the directory up will reach i.
Passed(i, up) == IF phase = "on" \/ wd[up] # None \/ up \in blind THEN {i} ELSE {}

NewInode == CHOOSE i \in Inodes : i \notin used

MakeDir(p) ==
  LET i == NewInode  up == at[Parent[p]]  es == <<Event(up, "mkdir", p)>>
  IN  /\ used # Inodes /\ at[p] = None /\ up # None /\ Happens /\ Emit(es)
      /\ at' = [at EXCEPT ![p] = i] /\ used' = used \cup {i}
      /\ blind' = IF Followed(up, Parent[p]) /\ Fits(es) THEN blind
                  ELSE blind \cup Passed(i, up)
      /\ UNCHANGED files

\* A directory with files is moved into the library: IN_MOVED_TO is an event
\* of its parent, and adds no watch.
MoveIn(p) ==
  LET i == NewInode  up == at[Parent[p]]  es == <<Event(up, "change", None)>>
  IN  /\ used # Inodes /\ at[p] = None /\ up # None /\ Happens /\ Emit(es)
      /\ at' = [at EXCEPT ![p] = i] /\ used' = used \cup {i}
      /\ dirty' = dirty \cup {i} /\ blind' = blind \cup Passed(i, up)
      /\ lost' = IF Followed(up, Parent[p]) /\ Fits(es) THEN lost ELSE lost \cup {i}
      /\ UNCHANGED stale

\* A directory without subdirectories is renamed: its watch stays, under the
\* old path.
Rename(p, q) ==
  LET i == at[p]  up == at[Parent[q]]
      es == <<Event(at[Parent[p]], "change", None), Event(up, "change", None),
              Event(i, "change", None)>>
  IN  /\ i # None /\ up \notin {None, i} /\ at[q] = None
      /\ \A c \in Children(p) : at[c] = None
      /\ Happens /\ Emit(es)
      /\ at' = [at EXCEPT ![p] = None, ![q] = i]
      /\ dirty' = dirty \cup {i}
      /\ blind' = blind \cup (IF wd[i] = None THEN Passed(i, up) ELSE {i})
      /\ lost' = IF Followed(up, Parent[q]) /\ Fits(es) THEN lost ELSE lost \cup {i}
      /\ UNCHANGED <<used, stale>>

\* A directory is removed with its files: what was not scanned of them never
\* will be, and the rows of the others stay.
RemoveDir(p) ==
  LET i == at[p]
      es == <<Event(at[Parent[p]], "change", None), Event(i, "change", None),
              Event(i, "ignored", None)>>
  IN  /\ i # None /\ \A c \in Children(p) : at[c] = None
      /\ Happens /\ Emit(es)
      /\ at' = [at EXCEPT ![p] = None]
      /\ dirty' = dirty \ {i} /\ lost' = lost \ {i} /\ stale' = TRUE
      /\ UNCHANGED <<used, blind>>

Library == \/ \E p \in Paths : Touch(p) \/ RemoveFile(p)
           \/ \E p \in Dirs : MakeDir(p) \/ MoveIn(p) \/ RemoveDir(p)
           \/ \E p, q \in Dirs : Rename(p, q)
-----------------------------------------------------------------------------
(* The loop.                                                               *)

\* watch_check_inotify_limit: too many directories for the configured number
\* end the start; other programs' watches are not looked at.
Start ==
  /\ phase = "off" /\ Cardinality(Live) + Headroom <= limit + Others
  /\ phase' = "starting"
  /\ toWatch' = {Root}
  /\ UNCHANGED <<tree, files, watches, events, opened, toList, queue, periodic, bounds, blind>>

\* Everything in memory is gone.
Exit ==
  /\ phase' = "off"
  /\ wd' = [i \in Inodes |-> None] /\ map' = EmptyMap /\ events' = <<>>
  /\ toWatch' = {} /\ opened' = None /\ toList' = {} /\ queue' = {} /\ periodic' = FALSE
  /\ blind' = {} /\ lost' = dirty

\* Directories at or below the paths that were not reached, and that no event
\* in the kernel's queue will have reached.
Unreached(roots) ==
  {at[q] : q \in {r \in Paths :
    /\ at[r] # None /\ wd[at[r]] = None
    /\ Up(r) \cap roots # {}
    /\ \A n \in DOMAIN events : events[n].kind = "mkdir" => events[n].name \notin Up(r)}}

\* The walk returns -1 from any depth, with p and all that was still to come
\* left without a watch.  That ends the start of the watcher; the loop ignores
\* it.
AbortWalk(p) ==
  IF phase = "starting" THEN Exit
  ELSE /\ blind' = blind \cup Unreached({p} \cup toWatch \cup {t[1] : t \in toList})
       /\ toWatch' = {} /\ opened' = None /\ toList' = {}
       /\ UNCHANGED <<watches, events, phase, queue, periodic, lost>>

OpenDir(p) ==
  /\ p \in toWatch /\ opened = None
  /\ toWatch' = toWatch \ {p}
  /\ opened' = IF at[p] = None THEN None ELSE <<p, at[p]>>
  /\ UNCHANGED <<watches, events, phase, toList, queue, periodic, faults, blind, lost>>

\* opendir is refused and the directory is skipped, or it fails for another
\* reason and the walk ends.
OpenFails(p) ==
  /\ p \in toWatch /\ opened = None /\ faults < MaxFaults /\ faults' = faults + 1
  /\ \/ /\ toWatch' = toWatch \ {p} /\ blind' = blind \cup Unreached({p})
        /\ UNCHANGED <<watches, events, phase, opened, toList, queue, periodic, lost>>
     \/ AbortWalk(p)

\* inotify_add_watch looks the path up again: the directory may be gone, which
\* ends the walk, or be another one.  Out of watches, it is skipped and the
\* timer takes over.
WatchDir ==
  /\ opened # None /\ UNCHANGED faults
  /\ LET p == opened[1]  i == at[p]
     IN  IF i = None THEN AbortWalk(p)
         ELSE /\ opened' = None
              /\ IF Full /\ wd[i] = None
                 THEN periodic' = TRUE /\ UNCHANGED <<watches, toList>>
                 ELSE /\ wd' = [wd EXCEPT ![i] = p]
                      /\ map' = wdm_set(map, Wd[i], p)
                      /\ toList' = toList \cup {opened}
                      /\ UNCHANGED periodic
              /\ UNCHANGED <<events, phase, toWatch, queue, blind, lost>>

\* The entries are those of the directory that was opened.
ListDir(p) ==
  \E i \in Inodes :
    /\ <<p, i>> \in toList /\ opened = None
    /\ toList' = toList \ {<<p, i>>}
    /\ toWatch' = toWatch \cup (IF at[p] = i THEN {c \in Children(p) : at[c] # None} ELSE {})
    /\ UNCHANGED <<watches, events, phase, opened, queue, periodic, faults, blind, lost>>

\* add_watches_recursive, in any order of the directories.
AddWatches ==
  /\ \/ WatchDir
     \/ \E p \in Paths : OpenDir(p) \/ OpenFails(p) \/ ListDir(p)
  /\ UNCHANGED <<tree, dirty, stale, changes, stops>>

Started ==
  /\ phase = "starting" /\ ~Adding
  /\ phase' = "on"
  /\ UNCHANGED <<tree, files, watches, events, walk, queue, periodic, bounds, blind>>

dq_push(dir) == queue' = queue \cup {dir}

\* The kernel has dropped the watch (IN_IGNORED).
Ignored(i) == /\ wd' = [wd EXCEPT ![i] = None]
              /\ map' = wdm_remove(map, Wd[i])

\* Mutant: the parent of a new directory is not queued.
ReadEventNoPush ==
  /\ phase = "on" /\ ~Adding /\ events # <<>>
  /\ events' = Tail(events)
  /\ LET e == Head(events)  dir == wdm_get(map, Wd[e.on])
     IN  IF dir = None THEN UNCHANGED <<watches, toWatch, queue>>
         ELSE IF e.kind = "ignored" THEN Ignored(e.on) /\ UNCHANGED <<toWatch, queue>>
         ELSE /\ toWatch' = IF e.kind = "mkdir" THEN {e.name} ELSE {}
              /\ IF e.kind = "mkdir" THEN UNCHANGED queue ELSE dq_push(dir)
              /\ UNCHANGED watches
  /\ UNCHANGED <<tree, files, phase, opened, toList, periodic, bounds, blind>>

\* A new directory is watched, with what is in it, before the next event; the
\* directory of the event is queued, unless its watch is gone.
ReadEvent ==
  /\ phase = "on" /\ ~Adding /\ events # <<>>
  /\ events' = Tail(events)
  /\ LET e == Head(events)  dir == wdm_get(map, Wd[e.on])
     IN  IF dir = None THEN UNCHANGED <<watches, toWatch, queue>>
         ELSE IF e.kind = "ignored" THEN Ignored(e.on) /\ UNCHANGED <<toWatch, queue>>
         ELSE /\ toWatch' = IF e.kind = "mkdir" THEN {e.name} ELSE {}
              /\ dq_push(dir)
              /\ UNCHANGED watches
  /\ UNCHANGED <<tree, files, phase, opened, toList, periodic, bounds, blind>>

Due(p) == phase = "on" /\ ~Adding /\ p \in queue /\ queue' = queue \ {p}
          /\ UNCHANGED <<tree, stale, watches, events, phase, walk, periodic, bounds, blind>>

\* Mutant: the directories below are not scanned.
DrainShallow(p) == Due(p) /\ dirty' = dirty \ {at[p]} /\ lost' = lost \ {at[p]}

\* scan_run_subtree: everything below the path as it is now.
Drain(p) == Due(p) /\ dirty' = dirty \ Under(p) /\ lost' = lost \ Under(p)

\* The writer lock is busy, the scan rolls back, or the files of some
\* directories cannot be hashed: the entry is dropped all the same.
DrainMisses(p) ==
  \E missed \in SUBSET (dirty \cap Under(p)) \ {{}} :
    /\ Due(p)
    /\ dirty' = (dirty \ Under(p)) \cup missed
    /\ lost' = (lost \ Under(p)) \cup missed

\* Mutant: the timer scans nothing.
TickIdle == phase = "on" /\ periodic /\ UNCHANGED vars

\* The timer of the periodic mode finds the lock free and its scan commits
\* (otherwise nothing happens until the next tick).
Tick ==
  /\ phase = "on" /\ ~Adding /\ periodic
  /\ dirty' = {} /\ stale' = FALSE /\ lost' = {}
  /\ UNCHANGED <<tree, watches, events, phase, walk, queue, periodic, bounds, blind>>

\* Stopped for a cycle, or killed.
Stop ==
  /\ phase # "off" /\ stops < MaxStops /\ stops' = stops + 1
  /\ Exit
  /\ UNCHANGED <<tree, dirty, stale, changes, faults>>

\* The full scan with which a cycle begins.
FullScan ==
  /\ phase = "off" /\ (dirty # {} \/ stale)
  /\ dirty' = {} /\ stale' = FALSE /\ lost' = {}
  /\ UNCHANGED <<tree, watches, events, phase, walk, queue, periodic, bounds, blind>>

Loop == \/ Start \/ Started
        \/ \E p \in Paths : Drain(p) \/ DrainMisses(p)
        \/ AddWatches \/ ReadEvent

Next == Loop \/ Tick \/ Library \/ Stop \/ FullScan

Spec == Init /\ [][Next]_vars

\* systemd restarts the service, the kernel schedules it, and some time the
\* timer finds the lock free, since writers are short commands
\* (writer_lock_acquire), and its scan reads every file.
FairSpec == Spec /\ WF_<<phase, walk, queue, events>>(Loop) /\ WF_files(Tick)
-----------------------------------------------------------------------------
\* The types of the tree, the watches, the queues and the history (wd_map,
\* debounce_queue, watch_state).
TypeOK ==
  /\ at \in [Paths -> Inodes \cup {None}] /\ used \subseteq Inodes
  /\ limit \in Limits
  /\ dirty \subseteq used /\ blind \subseteq used /\ lost \subseteq dirty
  /\ wd \in [Inodes -> Paths \cup {None}]
  /\ map \in [DOMAIN map -> [wd : {Wd[i] : i \in Inodes} \cup {-1}, path : Paths \cup {None}]]
  /\ \A n \in DOMAIN events :
       events[n] \in [on : Inodes, kind : {"change", "mkdir", "ignored"}, name : Dirs \cup {None}]
  /\ Len(events) <= MaxEvents
  /\ phase \in {"off", "starting", "on"} /\ periodic \in BOOLEAN
  /\ opened \in (Paths \X Inodes) \cup {None} /\ toList \subseteq Paths \X Inodes
  /\ stale \in BOOLEAN /\ toWatch \subseteq Paths /\ queue \subseteq Paths
  /\ changes \in 0..MaxChanges /\ stops \in 0..MaxStops /\ faults \in 0..MaxFaults

\* A scan of p is still to come: it is queued, or an event that names it is.
Pending(p) == p \in queue \/ \E n \in DOMAIN events :
                               events[n].kind # "ignored" /\ wd[events[n].on] = p

\* A file that was written or moved in is forgotten in known ways only: while
\* the watcher is down or starts up; in a directory that was moved, by an
\* overflow of the kernel's queue, or in one that the walk did not reach since
\* it, or another before it, could not be opened or was gone; or by a scan that
\* was skipped for the lock, rolled back or could not hash.  In particular not
\* in a directory that was made, filled and removed, or removed and made again,
\* while its watch was being placed (add_watches_recursive, the order of watch
\* and queue in watch_run).
Covered ==
  (phase = "on" /\ ~periodic) =>
    \A p \in Paths : at[p] \in dirty \ lost => \E q \in Up(p) : Pending(q)

\* The loop finds each watched directory, and only those, under the path it was
\* stored with, however watch numbers collided, entries were removed from the
\* middle of a cluster or the table grew; and a slot is left for the probe of
\* wdm_set, which has no other bound (wdm_set, wdm_get, wdm_remove, wdm_grow).
LookupIsRight ==
  /\ \A i \in Inodes : wdm_get(map, Wd[i]) = wd[i]
  /\ map # EmptyMap => Cardinality(Entries(map)) < Capacity(map)

\* A file that was written or moved in reaches the database in the end, unless
\* it was forgotten in one of the ways of Covered (dq_drain_due, on_drain).
EventuallyScanned ==
  \A i \in Inodes : i \in dirty ~> (i \notin dirty \/ i \in lost \/ phase # "on")

\* Without watches to spare, nothing is forgotten for good: the timer's scan
\* reads what was lost before, and sweeps what no scan of a subtree does (the
\* fallback of watch_run on ENOSPC, scan_run_subtree).
PeriodicHeals == periodic ~> (phase # "on" \/ (dirty = {} /\ ~stale))

=============================================================================
