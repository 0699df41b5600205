------------------------------ MODULE PidLock ------------------------------
(***************************************************************************)
(* The pid lockfile of nocturned (src/nocturned/lock.c): an flock(2) on a  *)
(* file that the holder creates, fills with its pid and unlinks when it    *)
(* releases.  Every write subcommand takes it around its database work,    *)
(* and the watcher takes it around each rescan.                            *)
(*                                                                         *)
(* What is locked is an inode, what processes agree on is a path: the      *)
(* model keeps the two apart.  An inode that no path and no descriptor     *)
(* refers to is free again, so no counter has to be bounded.               *)
(***************************************************************************)
CONSTANTS Procs,    \* the nocturned processes that use one lock path
          Inodes,   \* the inodes the file system can hand out
          NoProc,   \* nobody: an unlocked inode, or a file without a pid
          NoInode   \* no file: a path that does not exist, a closed fd

ASSUME PidLockAssumption == /\ NoProc \notin Procs
                            /\ NoInode \notin Inodes

VARIABLES link,     \* the inode the lock path names, or NoInode
          owner,    \* owner[i]: the process whose descriptor has i flocked
          content,  \* content[i]: the pid written in inode i
          fd,       \* fd[p]: the inode p has open, or NoInode
          pc,       \* pc[p]: how far p is in lock_acquire / lock_release
          raced     \* history: the path was unlinked under a process that
                    \* had opened it and not yet called flock
vars == <<link, owner, content, fd, pc, raced>>

\* "opened"   between open() and flock()
\* "locked"   flock succeeded, the pid is not written yet
\* "holding"  lock_acquire has returned the handle
\* "unlinked" lock_release has unlinked the path, the fd is still open
PCs == {"idle", "opened", "locked", "holding", "unlinked"}

TypeOK == /\ link \in Inodes \cup {NoInode}
          /\ owner \in [Inodes -> Procs \cup {NoProc}]
          /\ content \in [Inodes -> Procs \cup {NoProc}]
          /\ fd \in [Procs -> Inodes \cup {NoInode}]
          /\ pc \in [Procs -> PCs]
          /\ raced \in BOOLEAN

Init == /\ link = NoInode
        /\ owner = [i \in Inodes |-> NoProc]
        /\ content = [i \in Inodes |-> NoProc]
        /\ fd = [p \in Procs |-> NoInode]
        /\ pc = [p \in Procs |-> "idle"]
        /\ raced = FALSE
-----------------------------------------------------------------------------
Free(i) == /\ i # link
           /\ \A p \in Procs : fd[p] # i

\* close(fd): the kernel drops the flock with the last descriptor.
CloseFd(p) == /\ fd' = [fd EXCEPT ![p] = NoInode]
              /\ owner' = [i \in Inodes |->
                             IF owner[i] = p THEN NoProc ELSE owner[i]]

-----------------------------------------------------------------------------
(* Mutants: what plausible bugs would make of the steps below.             *)

\* The file is unlinked as soon as it is locked, to leave nothing behind.
UnlinkEarly(p) ==
  /\ pc[p] = "holding"
  /\ link' = NoInode
  /\ raced' = (raced \/ \E q \in Procs : pc[q] = "opened" /\ fd[q] = link)
  /\ UNCHANGED <<owner, content, fd, pc>>

\* The pid is written when the file is opened, before the lock is held.
OpenTruncateWrite(p) ==
  /\ pc[p] = "idle"
  /\ link # NoInode
  /\ fd' = [fd EXCEPT ![p] = link]
  /\ content' = [content EXCEPT ![link] = p]
  /\ pc' = [pc EXCEPT ![p] = "opened"]
  /\ UNCHANGED <<link, owner, raced>>
-----------------------------------------------------------------------------
\* open(path, O_RDWR | O_CREAT): the named inode, or a new and empty one.
OpenExisting(p) ==
  /\ pc[p] = "idle"
  /\ link # NoInode
  /\ fd' = [fd EXCEPT ![p] = link]
  /\ pc' = [pc EXCEPT ![p] = "opened"]
  /\ UNCHANGED <<link, owner, content, raced>>

OpenCreate(p) ==
  /\ pc[p] = "idle"
  /\ link = NoInode
  /\ \E i \in Inodes :
       /\ Free(i)
       /\ link' = i
       /\ fd' = [fd EXCEPT ![p] = i]
       /\ content' = [content EXCEPT ![i] = NoProc]
  /\ pc' = [pc EXCEPT ![p] = "opened"]
  /\ UNCHANGED <<owner, raced>>

\* flock(LOCK_EX | LOCK_NB) finds the inode unlocked.
Flock(p) ==
  /\ pc[p] = "opened"
  /\ owner[fd[p]] = NoProc
  /\ owner' = [owner EXCEPT ![fd[p]] = p]
  /\ pc' = [pc EXCEPT ![p] = "locked"]
  /\ UNCHANGED <<link, content, fd, raced>>

\* flock fails with EWOULDBLOCK: the caller reports the pid it reads in the
\* file and gives up (exit code 4).
FlockBusy(p) ==
  /\ pc[p] = "opened"
  /\ owner[fd[p]] # NoProc
  /\ CloseFd(p)
  /\ pc' = [pc EXCEPT ![p] = "idle"]
  /\ UNCHANGED <<link, content, raced>>

\* ftruncate, write of the pid (best effort: a failed write leaves the file
\* empty), fsync; lock_acquire returns the handle.
WritePid(p) ==
  /\ pc[p] = "locked"
  /\ \E pid \in {p, NoProc} : content' = [content EXCEPT ![fd[p]] = pid]
  /\ pc' = [pc EXCEPT ![p] = "holding"]
  /\ UNCHANGED <<link, owner, fd, raced>>

\* ftruncate, calloc or strdup fails: the descriptor is closed, the file stays.
AcquireFails(p) ==
  /\ pc[p] = "locked"
  /\ CloseFd(p)
  /\ \E pid \in {p, NoProc, content[fd[p]]} :
       content' = [content EXCEPT ![fd[p]] = pid]
  /\ pc' = [pc EXCEPT ![p] = "idle"]
  /\ UNCHANGED <<link, raced>>

\* lock_release, first half: unlink(path), whatever inode it names by now.
Unlink(p) ==
  /\ pc[p] = "holding"
  /\ link' = NoInode
  /\ raced' = (raced \/ \E q \in Procs : pc[q] = "opened" /\ fd[q] = link)
  /\ pc' = [pc EXCEPT ![p] = "unlinked"]
  /\ UNCHANGED <<owner, content, fd>>

\* lock_release, second half: close(fd).
Close(p) ==
  /\ pc[p] = "unlinked"
  /\ CloseFd(p)
  /\ pc' = [pc EXCEPT ![p] = "idle"]
  /\ UNCHANGED <<link, content, raced>>

\* The process dies anywhere (SIGKILL, power is not modelled): the kernel
\* closes its descriptors, the file it created stays.
Crash(p) ==
  /\ pc[p] # "idle"
  /\ CloseFd(p)
  /\ pc' = [pc EXCEPT ![p] = "idle"]
  /\ UNCHANGED <<link, content, raced>>

Step(p) == \/ OpenExisting(p) \/ OpenCreate(p)
           \/ Flock(p) \/ FlockBusy(p) \/ WritePid(p) \/ AcquireFails(p)
           \/ Unlink(p) \/ Close(p)

Next == \E p \in Procs : Step(p) \/ Crash(p)

Spec == Init /\ [][Next]_vars
-----------------------------------------------------------------------------
Holders == {p \in Procs : pc[p] = "holding"}

\* The single-writer discipline (lock.c:4): at most one process has a handle.
SingleWriter == \A p, q \in Holders : p = q

\* What lock.c does guarantee: two processes between flock and close never
\* share an inode, whatever was unlinked in between.
ExclusivePerInode ==
  \A p, q \in Procs :
    /\ pc[p] \in {"locked", "holding", "unlinked"}
    /\ pc[q] \in {"locked", "holding", "unlinked"}
    /\ fd[p] = fd[q]
    => p = q

\* Recovery (lock.c:10-13): the flock of an inode belongs to a live process
\* that will still release it; a crash leaves nothing locked.
NoStaleOwner ==
  \A i \in Inodes :
    owner[i] # NoProc =>
      /\ fd[owner[i]] = i
      /\ pc[owner[i]] \in {"locked", "holding", "unlinked"}

\* Unless a release unlinked the path under a process that had opened it, the
\* discipline holds: the unlink in lock_release is the only way to lose it.
SingleWriterUnlessRaced == ~raced => SingleWriter

\* Unless that happened, the pidfile of a holder exists and never shows another
\* process.  It may be empty, when the best-effort write failed: the poll of
\* wait_for_lock_free (config/bin/nocturne-cycle-run:46), for which a missing, an
\* empty and a dead process's pidfile all mean "free", then misses the holder,
\* and only the flock keeps the two apart.
PidfileNamesHolder ==
  ~raced => \A p \in Holders : link = fd[p] /\ content[link] \in {p, NoProc}
-----------------------------------------------------------------------------
\* The inductive strengthening of the two properties above.
HasFd(p) == pc[p] # "idle" <=> fd[p] \in Inodes

IInv == /\ TypeOK
        /\ \A p \in Procs : HasFd(p)
        /\ NoStaleOwner
        /\ \A p \in Procs : pc[p] \in {"locked", "holding", "unlinked"}
                              => owner[fd[p]] = p
        /\ \A p \in Procs : pc[p] \in {"holding"}
                              => content[fd[p]] \in {p, NoProc}
        /\ ~raced => \A p \in Procs :
                       pc[p] \in {"opened", "locked", "holding"}
                         => fd[p] = link
=============================================================================
