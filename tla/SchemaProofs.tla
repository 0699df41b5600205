---------------------------- MODULE SchemaProofs ----------------------------
(***************************************************************************)
(* Proofs about PidLock, for any number of processes and inodes: what the  *)
(* lock excludes and until when.  Then about Schema, for any migrations    *)
(* and faults: that it takes and releases the lock as PidLock says, that   *)
(* an opened database has every migration, and that only a migration on a  *)
(* stale version can leave one that nobody can open, which the pidfile     *)
(* excludes until it is unlinked under an opener.                          *)
(***************************************************************************)
EXTENDS Schema, TLAPS

-----------------------------------------------------------------------------
(* The lock.                                                               *)

\* The initial state satisfies the inductive invariant.
LEMMA InitIInv == Init => IInv
BY PidLockAssumption DEF Init, IInv, TypeOK, PCs, HasFd, NoStaleOwner

\* Every step of lock_acquire, lock_release or the kernel preserves it.
LEMMA NextIInv == IInv /\ [Next]_vars => IInv'
<1> SUFFICES ASSUME IInv, [Next]_vars PROVE IInv'
  OBVIOUS
<1> USE PidLockAssumption DEF IInv, TypeOK, PCs, HasFd, NoStaleOwner
<1>1. ASSUME NEW p \in Procs, OpenExisting(p) PROVE IInv'
  BY <1>1 DEF OpenExisting
<1>2. ASSUME NEW p \in Procs, OpenCreate(p) PROVE IInv'
  BY <1>2 DEF OpenCreate, Free
<1>3. ASSUME NEW p \in Procs, Flock(p) PROVE IInv'
  BY <1>3 DEF Flock
<1>4. ASSUME NEW p \in Procs, FlockBusy(p) PROVE IInv'
  BY <1>4 DEF FlockBusy, CloseFd
<1>5. ASSUME NEW p \in Procs, WritePid(p) PROVE IInv'
  BY <1>5 DEF WritePid
<1>6. ASSUME NEW p \in Procs, AcquireFails(p) PROVE IInv'
  BY <1>6 DEF AcquireFails, CloseFd
<1>7. ASSUME NEW p \in Procs, Unlink(p) PROVE IInv'
  <2>1. raced' \in BOOLEAN /\ (~raced' => ~raced)
    BY <1>7, Zenon DEF Unlink
  <2>2. ASSUME ~raced', NEW q \in Procs,
               pc'[q] \in {"opened", "locked", "holding"}
        PROVE  FALSE
    \* Had q the path's inode open, it would be p's: both would own its flock.
    <3>1. /\ ~raced
          /\ ~ \E r \in Procs : pc[r] = "opened" /\ fd[r] = link
      BY <1>7, <2>2, Zenon DEF Unlink
    <3>2. q # p /\ pc[q] \in {"opened", "locked", "holding"}
      BY <1>7, <2>2 DEF Unlink
    <3>3. fd[q] = link /\ fd[p] = link
      BY <1>7, <3>1, <3>2 DEF Unlink
    <3>4. owner[fd[q]] = q /\ owner[fd[p]] = p
      BY <1>7, <3>1, <3>2, <3>3 DEF Unlink
    <3>5. QED
      BY <3>2, <3>3, <3>4
  <2>3. /\ link' = NoInode
        /\ UNCHANGED <<owner, content, fd>>
        /\ pc' = [pc EXCEPT ![p] = "unlinked"]
        /\ pc[p] = "holding"
    BY <1>7 DEF Unlink
  <2>4. TypeOK'
    BY <2>1, <2>3
  <2>5. (\A q \in Procs : HasFd(q))' /\ NoStaleOwner'
    BY <2>3
  <2>6. QED
    BY <2>1, <2>2, <2>3, <2>4, <2>5
<1>8. ASSUME NEW p \in Procs, Close(p) PROVE IInv'
  BY <1>8 DEF Close, CloseFd
<1>9. ASSUME NEW p \in Procs, Crash(p) PROVE IInv'
  BY <1>9 DEF Crash, CloseFd
<1>10. CASE UNCHANGED vars
  BY <1>10 DEF vars
<1>11. QED
  BY <1>1, <1>2, <1>3, <1>4, <1>5, <1>6, <1>7, <1>8, <1>9, <1>10
  DEF Next, Step

\* What the inductive invariant gives.
LEMMA IInvImplies == IInv => /\ ExclusivePerInode
                             /\ NoStaleOwner
                             /\ SingleWriterUnlessRaced
                             /\ PidfileNamesHolder
BY DEF IInv, TypeOK, HasFd, ExclusivePerInode, SingleWriterUnlessRaced,
       SingleWriter, PidfileNamesHolder, Holders

\* In every behaviour of lock.c the inductive invariant, and with it type
\* correctness, always holds.
THEOREM Invariance == Spec => []IInv
BY InitIInv, NextIInv, PTL DEF Spec

\* Whatever was unlinked in between, no inode is held by two processes.
THEOREM ExclusivePerInodeHolds == Spec => []ExclusivePerInode
BY Invariance, IInvImplies, PTL

\* A crash leaves nothing locked: every flock belongs to a process that will
\* still release it.
THEOREM NoStaleOwnerHolds == Spec => []NoStaleOwner
BY Invariance, IInvImplies, PTL

\* The unlink of lock_release under a process between open and flock is the
\* only way in which the single-writer discipline can be lost.
THEOREM SingleWriterHolds == Spec => []SingleWriterUnlessRaced
BY Invariance, IInvImplies, PTL

\* Until then the pidfile of a holder exists and shows the holder's pid, or
\* nothing when the write of it failed; never the pid of another process.
THEOREM PidfileHolds == Spec => []PidfileNamesHolder
BY Invariance, IInvImplies, PTL
-----------------------------------------------------------------------------
(* The database under the lock.                                            *)

\* A step changes the phase of one process.
LEMMA GoFacts ==
  ASSUME SchemaTypeOK, NEW p \in Procs, NEW state \in States, Go(p, state)
  PROVE  /\ db' \in [Procs -> States] /\ db'[p] = state
         /\ \A q \in Procs \ {p} : db'[q] = db[q]
BY DEF SchemaTypeOK, Go

\* Where the loop goes on.
LEMMA PendingFacts ==
  ASSUME NEW v \in 0..Target
  PROVE  /\ Pending(v) \in {"begin", "open"} /\ Pending(v) \in States
         /\ Pending(v) = "begin" => v < Target
         /\ Pending(v) = "open" => v = Target
BY SchemaAssumption DEF Pending, States

\* What a process that migrates knows about its version.
LEMMA DoingFacts ==
  ASSUME DbInv, NEW p \in Procs, db[p] \in Migrating
  PROVE  /\ current[p] \in 0..Target /\ current[p] < Target
         /\ Doing(p) \in 1..Target
         /\ 1..Doing(p) = (1..current[p]) \cup {Doing(p)}
         /\ 1..current[p] \subseteq applied
<1>1. current[p] \in 0..Target /\ current[p] < Target /\ 1..current[p] \subseteq applied
  BY DEF DbInv, SchemaTypeOK, PhaseOK
<1> QED  BY <1>1, SchemaAssumption DEF Doing

\* When everyone takes the pidfile, and it was not unlinked under an opener, a
\* process that has opened the database is alone.
LEMMA Alone ==
  ASSUME SchemaInv, writers = Procs, ~raced,
         NEW p \in Procs, db[p] \in Opened, NEW q \in Procs, db[q] \in Opened
  PROVE  p = q
<1>1. pc[p] = "holding" /\ pc[q] = "holding"
  BY DEF SchemaInv, DbInv, LockedOK
<1>2. SingleWriter
  BY IInvImplies DEF SchemaInv, SingleWriterUnlessRaced
<1> QED  BY <1>1, <1>2 DEF SingleWriter, Holders

LEMMA InitDb == SchemaInit => SchemaInv
<1> SUFFICES ASSUME SchemaInit PROVE SchemaInv
  OBVIOUS
<1>1. SchemaTypeOK
  <2>1. version \in 0..Target /\ applied \subseteq 1..Target
    BY SchemaAssumption DEF SchemaInit
  <2>2. db \in [Procs -> States] /\ current \in [Procs -> 0..Target]
    BY SchemaAssumption DEF SchemaInit, States
  <2>3. faults \in 0..MaxFaults
    BY SchemaAssumption DEF SchemaInit
  <2>4. txn \in Procs \cup {NoProc} /\ writers \in SUBSET Procs /\ stale \in BOOLEAN
    BY DEF SchemaInit
  <2> QED  BY <2>1, <2>2, <2>3, <2>4 DEF SchemaTypeOK
<1>2. VersionIsTrue /\ OpenedIsCurrent
  BY DEF SchemaInit, VersionIsTrue, OpenedIsCurrent
<1>3. PhaseOK
  BY PidLockAssumption DEF SchemaInit, PhaseOK, InTxn, Migrating
<1>4. LockedOK
  BY DEF SchemaInit, Init, LockedOK, Opened, Migrating
<1>5. FreshOK /\ AloneOK
  BY DEF SchemaInit, FreshOK, AloneOK, InTxn
<1>6. IInv
  BY InitIInv DEF SchemaInit
<1> QED  BY <1>1, <1>2, <1>3, <1>4, <1>5, <1>6 DEF DbInv, SchemaInv
-----------------------------------------------------------------------------
(* Every step of a process takes the lock as lock.c does or leaves it.     *)

LEMMA LockStep ==
  ASSUME [SchemaNext]_schemaVars
  PROVE  [Next]_vars
<1>1. ASSUME NEW p \in Procs, Acquire(p) PROVE Next
  BY <1>1 DEF Acquire, Next, Step
<1>2. ASSUME NEW p \in Procs, Release(p) PROVE Next
  BY <1>2 DEF Release, Next, Step
<1>3. ASSUME NEW p \in Procs, LockFails(p) PROVE Next
  BY <1>3 DEF LockFails, Next, Step
<1>4. ASSUME NEW p \in Procs, Killed(p) PROVE [Next]_vars
  BY <1>4 DEF Killed, Next
<1>5. ASSUME NEW p \in Procs, OpenDb(p) \/ Read(p) \/ Begin(p) \/ Exec(p) \/ Commit(p) \/ Check(p)
      PROVE  UNCHANGED vars
  BY <1>5 DEF OpenDb, Read, Begin, Exec, Commit, Check
<1>6. ASSUME NEW p \in Procs, CloseDb(p) \/ ExecFails(p) \/ CheckFails(p) \/ OpenFails(p)
      PROVE  UNCHANGED vars
  BY <1>6 DEF CloseDb, ExecFails, CheckFails, OpenFails, Leave
<1>7. CASE UNCHANGED schemaVars
  BY <1>7 DEF schemaVars
<1> QED  BY <1>1, <1>2, <1>3, <1>4, <1>5, <1>6, <1>7 DEF SchemaNext, Runs

\* The unlink under an opener is not forgotten.
LEMMA RacedStays ==
  ASSUME IInv, [Next]_vars
  PROVE  raced' \in BOOLEAN /\ (raced => raced')
<1>1. ASSUME NEW p \in Procs, Unlink(p) PROVE raced' \in BOOLEAN /\ (raced => raced')
  BY <1>1 DEF Unlink, IInv, TypeOK
<1>2. ASSUME NEW p \in Procs, Step(p) \/ Crash(p), ~Unlink(p) PROVE raced' = raced
  BY <1>2 DEF Step, OpenExisting, OpenCreate, Flock, FlockBusy, WritePid, AcquireFails,
              Close, Crash
<1> QED  BY <1>1, <1>2 DEF Next, vars, IInv, TypeOK

\* Where the steps of lock_acquire and of lock_release lead.
LEMMA LockMoves ==
  ASSUME IInv, NEW p \in Procs
  PROVE  /\ OpenExisting(p) \/ OpenCreate(p) \/ Flock(p) \/ FlockBusy(p) \/ WritePid(p) \/ AcquireFails(p)
              => /\ pc' = [pc EXCEPT ![p] = pc'[p]]
                 /\ pc[p] \in {"idle", "opened", "locked"} /\ pc'[p] # "unlinked"
         /\ Unlink(p) => pc' = [pc EXCEPT ![p] = "unlinked"] /\ pc[p] = "holding"
         /\ Close(p) => pc' = [pc EXCEPT ![p] = "idle"] /\ pc[p] = "unlinked"
         /\ Crash(p) => pc' = [pc EXCEPT ![p] = "idle"]
<1>0. pc \in [Procs -> PCs]
  BY DEF IInv, TypeOK
<1>1. ASSUME NEW s, pc' = [pc EXCEPT ![p] = s]
      PROVE  pc' = [pc EXCEPT ![p] = pc'[p]] /\ pc'[p] = s
  BY <1>0, <1>1
<1>2. OpenExisting(p) \/ OpenCreate(p) \/ Flock(p) \/ FlockBusy(p) \/ WritePid(p) \/ AcquireFails(p)
        => \E s \in {"idle", "opened", "locked", "holding"} : pc' = [pc EXCEPT ![p] = s]
  BY DEF OpenExisting, OpenCreate, Flock, FlockBusy, WritePid, AcquireFails
<1>3. OpenExisting(p) \/ OpenCreate(p) \/ Flock(p) \/ FlockBusy(p) \/ WritePid(p) \/ AcquireFails(p)
        => pc[p] \in {"idle", "opened", "locked"}
  BY DEF OpenExisting, OpenCreate, Flock, FlockBusy, WritePid, AcquireFails
<1>4. /\ Unlink(p) => pc' = [pc EXCEPT ![p] = "unlinked"] /\ pc[p] = "holding"
      /\ Close(p) => pc' = [pc EXCEPT ![p] = "idle"] /\ pc[p] = "unlinked"
      /\ Crash(p) => pc' = [pc EXCEPT ![p] = "idle"]
  BY DEF Unlink, Close, Crash
<1> QED  BY <1>1, <1>2, <1>3, <1>4
-----------------------------------------------------------------------------
(* The steps, one by one.                                                  *)

\* A step that moves the phase of p to one without a transaction and changes
\* nothing of the database but an open transaction, which is rolled back.
LEMMA QuietInv ==
  ASSUME SchemaInv, NEW p \in Procs, NEW state \in {"off", "opening", "open", "closed"},
         Go(p, state), state = "open" => db[p] = "open",
         txn' = IF txn = p THEN NoProc ELSE txn,
         UNCHANGED <<version, applied, current, base>>, faults' \in 0..MaxFaults,
         raced => raced', LockedOK'
  PROVE  DbInv'
<1>1. /\ db' \in [Procs -> States] /\ db'[p] = state
      /\ \A q \in Procs \ {p} : db'[q] = db[q]
  BY GoFacts DEF States, SchemaInv, DbInv
<1>2. UNCHANGED <<version, applied, current, writers, stale>>
  BY DEF base
<1> USE DEF SchemaInv, DbInv
<1>3. SchemaTypeOK'
  BY <1>1, <1>2 DEF SchemaTypeOK
<1>4. (VersionIsTrue /\ OpenedIsCurrent)'
  BY <1>1, <1>2 DEF VersionIsTrue, OpenedIsCurrent
<1>5. PhaseOK'
  <2> SUFFICES ASSUME NEW q \in Procs
               PROVE  /\ (db[q] \in InTxn <=> txn = q)'
                      /\ (db[q] \in Migrating => current[q] < Target /\ 1..current[q] \subseteq applied)'
                      /\ (db[q] = "check" => Doing(q) \in applied)'
    BY DEF PhaseOK
  <2>1. (db[q] \in InTxn <=> txn = q)'
    BY <1>1, PidLockAssumption DEF PhaseOK, InTxn
  <2> QED  BY <2>1, <1>1, <1>2 DEF PhaseOK, Migrating, Doing
<1>6. FreshOK'
  BY <1>1, <1>2 DEF FreshOK, InTxn
<1>7. AloneOK'
  BY <1>1, <1>2 DEF AloneOK, Doing
<1> QED  BY <1>3, <1>4, <1>5, <1>6, <1>7

\* A step of the lock alone.
LEMMA LockOnlyInv ==
  ASSUME SchemaInv, UNCHANGED database, faults' \in 0..MaxFaults, raced => raced', LockedOK'
  PROVE  DbInv'
BY DEF database, base, SchemaInv, DbInv, SchemaTypeOK, VersionIsTrue, OpenedIsCurrent, PhaseOK,
       FreshOK, AloneOK, Doing

LEMMA AcquireInv ==
  ASSUME SchemaInv, NEW p \in Procs, raced => raced', Acquire(p) \/ LockFails(p)
  PROVE  DbInv'
<1>1. UNCHANGED database /\ Acquires(p)
  BY DEF Acquire, LockFails
<1>2. faults' \in 0..MaxFaults
  BY SchemaAssumption DEF Acquire, LockFails, Fault, SchemaInv, DbInv, SchemaTypeOK
<1>3. /\ pc' = [pc EXCEPT ![p] = pc'[p]]
      /\ pc[p] \in {"idle", "opened", "locked"} /\ pc'[p] # "unlinked"
  BY LockMoves DEF Acquire, LockFails, SchemaInv
<1>4. \A q \in Procs \ {p} : pc'[q] = pc[q]
  BY <1>3 DEF SchemaInv, IInv, TypeOK
<1>5. LockedOK'
  BY <1>1, <1>3, <1>4 DEF Acquires, LockedOK, SchemaInv, DbInv, database, base, Opened, Migrating
<1> QED  BY <1>1, <1>2, <1>5, LockOnlyInv

LEMMA ReleaseInv ==
  ASSUME SchemaInv, NEW p \in Procs, raced => raced', Release(p)
  PROVE  DbInv'
<1>0. /\ pc \in [Procs -> PCs] /\ db \in [Procs -> States] /\ faults \in 0..MaxFaults
      /\ txn \in Procs \cup {NoProc}
  BY DEF SchemaInv, IInv, TypeOK, DbInv, SchemaTypeOK
<1>1. CASE Unlink(p)
  <2>1. UNCHANGED database /\ faults' = faults /\ UNCHANGED <<db, writers>>
    BY <1>1, <1>0 DEF Release, Unlink, Close, database, base, Go
  <2>2. /\ pc[p] = "holding" /\ pc'[p] = "unlinked"
        /\ \A q \in Procs \ {p} : pc'[q] = pc[q]
    BY <1>0, <1>1, LockMoves DEF SchemaInv
  <2>3. LockedOK'
    BY <2>1, <2>2 DEF Release, LockedOK, SchemaInv, DbInv, Opened, Migrating
  <2> QED  BY <1>0, <2>1, <2>3, LockOnlyInv
<1>2. CASE Close(p) /\ p \in writers
  <2>1. Go(p, "off") /\ db[p] = "closed" /\ UNCHANGED <<version, applied, txn, current, base, faults>>
    BY <1>2 DEF Release, Unlink, Close
  <2>2. /\ pc[p] = "unlinked" /\ pc'[p] = "idle"
        /\ \A q \in Procs \ {p} : pc'[q] = pc[q]
    BY <1>0, <1>2, LockMoves DEF SchemaInv
  <2>3. /\ db' \in [Procs -> States] /\ db'[p] = "off"
        /\ \A q \in Procs \ {p} : db'[q] = db[q]
    BY <2>1, GoFacts DEF States, SchemaInv, DbInv
  <2>4. LockedOK'
    BY <2>1, <2>2, <2>3 DEF LockedOK, SchemaInv, DbInv, Opened, Migrating, base
  <2>5. txn # p
    BY <2>1 DEF SchemaInv, DbInv, PhaseOK, InTxn
  <2> QED  BY <1>0, <2>1, <2>4, <2>5, QuietInv
<1>3. CASE Close(p) /\ p \notin writers
  <2>1. UNCHANGED database /\ faults' = faults /\ UNCHANGED <<db, writers>>
    BY <1>3, <1>0 DEF Release, Unlink, Close, database, base, Go
  <2>2. /\ pc'[p] = "idle" /\ \A q \in Procs \ {p} : pc'[q] = pc[q]
    BY <1>0, <1>3, LockMoves DEF SchemaInv
  <2>3. LockedOK'
    BY <1>3, <2>1, <2>2 DEF LockedOK, SchemaInv, DbInv, Opened, Migrating
  <2> QED  BY <1>0, <2>1, <2>3, LockOnlyInv
<1> QED  BY <1>1, <1>2, <1>3 DEF Release

LEMMA OpenDbInv ==
  ASSUME SchemaInv, NEW p \in Procs, OpenDb(p)
  PROVE  DbInv'
<1>1. /\ Go(p, "opening") /\ db[p] = "off" /\ (p \in writers => pc[p] = "holding")
      /\ UNCHANGED <<vars, version, applied, txn, current, base, faults>>
  BY DEF OpenDb
<1>2. /\ db' \in [Procs -> States] /\ db'[p] = "opening"
      /\ \A q \in Procs \ {p} : db'[q] = db[q]
  BY <1>1, GoFacts DEF States, SchemaInv, DbInv
<1>3. LockedOK'
  BY <1>1, <1>2 DEF OpenDb, LockedOK, SchemaInv, DbInv, Opened, Migrating, vars, base
<1>4. txn # p
  BY <1>1 DEF SchemaInv, DbInv, PhaseOK, InTxn
<1>5. faults' \in 0..MaxFaults /\ (raced => raced')
  BY <1>1 DEF SchemaInv, DbInv, SchemaTypeOK, vars
<1> QED  BY <1>1, <1>3, <1>4, <1>5, QuietInv

\* A process that closes the database, or is not let in.
LEMMA LeaveInv ==
  ASSUME SchemaInv, NEW p \in Procs, Leave(p), faults' \in 0..MaxFaults,
         db[p] \in Opened, p \in writers \/ pc[p] = "idle"
  PROVE  DbInv'
<1>1. PICK state \in {"off", "closed"} :
        /\ Go(p, state) /\ state = IF p \in writers THEN "closed" ELSE "off"
  BY DEF Leave
<1>2. /\ db' \in [Procs -> States] /\ db'[p] = state
      /\ \A q \in Procs \ {p} : db'[q] = db[q]
  BY <1>1, GoFacts DEF States, SchemaInv, DbInv
<1>3. UNCHANGED <<pc, raced, writers>>
  BY DEF Leave, vars, base
<1>4. LockedOK'
  BY <1>1, <1>2, <1>3 DEF LockedOK, SchemaInv, DbInv, Opened, Migrating
<1> QED  BY <1>1, <1>3, <1>4, QuietInv DEF Leave

LEMMA KilledInv ==
  ASSUME SchemaInv, NEW p \in Procs, raced => raced', Killed(p)
  PROVE  DbInv'
<1>1. /\ db' \in [Procs -> States] /\ db'[p] = "off"
      /\ \A q \in Procs \ {p} : db'[q] = db[q]
  BY GoFacts DEF Killed, States, SchemaInv, DbInv
<1>2. pc'[p] = "idle" /\ \A q \in Procs \ {p} : pc'[q] = pc[q]
  BY LockMoves DEF Killed, vars, SchemaInv, IInv, TypeOK
<1>3. LockedOK'
  BY <1>1, <1>2 DEF Killed, base, LockedOK, SchemaInv, DbInv, Opened, Migrating
<1>4. faults' \in 0..MaxFaults
  BY SchemaAssumption DEF Killed, Fault, SchemaInv, DbInv, SchemaTypeOK
<1> QED  BY <1>3, <1>4, QuietInv DEF Killed

\* A step of an opened process to another phase in which it has the database
\* open leaves the lock as it is, and the lock with the database.
LEMMA StillLocked ==
  ASSUME SchemaInv, NEW p \in Procs, NEW state \in Opened, Go(p, state), db[p] \in Opened \ {"open"},
         UNCHANGED <<vars, writers>>
  PROVE  LockedOK'
<1>1. /\ db' \in [Procs -> States] /\ db'[p] = state
      /\ \A q \in Procs \ {p} : db'[q] = db[q]
  BY GoFacts DEF States, SchemaInv, DbInv, Opened, Migrating
<1> QED  BY <1>1 DEF LockedOK, SchemaInv, DbInv, Opened, Migrating, vars
-----------------------------------------------------------------------------
(* The migrations.                                                         *)

LEMMA ReadInv ==
  ASSUME SchemaInv, NEW p \in Procs, Read(p)
  PROVE  DbInv'
<1> USE DEF SchemaInv, DbInv
<1>1. version \in 0..Target /\ UNCHANGED <<version, applied, txn, writers, stale, faults, vars>>
  BY DEF Read, SchemaTypeOK, base
<1>2. /\ db' \in [Procs -> States] /\ db[p] = "opening" /\ db'[p] = Pending(version)
      /\ \A q \in Procs \ {p} : db'[q] = db[q]
  BY <1>1, GoFacts, PendingFacts DEF Read
<1>3. /\ current' \in [Procs -> 0..Target] /\ current'[p] = version
      /\ \A q \in Procs \ {p} : current'[q] = current[q]
  BY <1>1 DEF Read, SchemaTypeOK
<1>4. SchemaTypeOK'
  BY <1>1, <1>2, <1>3 DEF SchemaTypeOK
<1>5. VersionIsTrue'
  BY <1>1 DEF VersionIsTrue
<1>6. OpenedIsCurrent'
  BY <1>1, <1>2, PendingFacts DEF OpenedIsCurrent, VersionIsTrue, SchemaTypeOK
<1>7. PhaseOK'
  BY <1>1, <1>2, <1>3, PendingFacts DEF PhaseOK, InTxn, Migrating, Doing, VersionIsTrue
<1>8. FreshOK'
  BY <1>1, <1>2, <1>3, PendingFacts DEF FreshOK, InTxn
<1>9. AloneOK'
  BY <1>1, <1>2, <1>3, PendingFacts DEF AloneOK, Doing, vars
<1>10. LockedOK'
  <2>1. Go(p, Pending(version)) /\ Pending(version) \in Opened
    BY <1>1, PendingFacts DEF Read, Opened, Migrating
  <2>2. db[p] \in Opened \ {"open"}
    BY <1>2 DEF Opened
  <2> HIDE DEF SchemaInv, DbInv
  <2> QED  BY <2>1, <2>2, <1>1, StillLocked
<1> QED  BY <1>4, <1>5, <1>6, <1>7, <1>8, <1>9, <1>10

LEMMA BeginInv ==
  ASSUME SchemaInv, NEW p \in Procs, Begin(p)
  PROVE  DbInv'
<1> USE DEF SchemaInv, DbInv
<1>1. /\ UNCHANGED <<version, applied, writers, current, faults, vars>>
      /\ txn = NoProc /\ txn' = p
  BY DEF Begin
<1>2. /\ db' \in [Procs -> States] /\ db[p] = "begin" /\ db'[p] = "exec"
      /\ \A q \in Procs \ {p} : db'[q] = db[q]
  BY GoFacts DEF Begin, States
<1>3. stale' \in BOOLEAN /\ (~stale' => ~stale /\ version = current[p])
  BY DEF Begin, SchemaTypeOK
<1>4. SchemaTypeOK'
  BY <1>1, <1>2, <1>3 DEF SchemaTypeOK
<1>5. (VersionIsTrue /\ OpenedIsCurrent)'
  BY <1>1, <1>2 DEF VersionIsTrue, OpenedIsCurrent
<1>6. PhaseOK'
  BY <1>1, <1>2, PidLockAssumption DEF PhaseOK, InTxn, Migrating, Doing
<1>7. FreshOK'
  BY <1>1, <1>2, <1>3 DEF FreshOK, InTxn
<1>8. AloneOK'
  <2> SUFFICES ASSUME writers = Procs, ~raced
               PROVE  /\ ~stale'
                      /\ \A q \in Procs : /\ (db[q] = "begin" => version = current[q])'
                                          /\ (db[q] = "check" => version = Doing(q))'
    BY <1>1 DEF AloneOK, vars
  <2>1. /\ ~stale
        /\ \A q \in Procs : /\ db[q] = "begin" => version = current[q]
                            /\ db[q] = "check" => version = Doing(q)
    BY DEF AloneOK
  <2>2. version = current[p]
    BY <2>1, <1>2
  <2>3. ~stale'
    BY <2>1, <2>2 DEF Begin
  <2> QED  BY <2>1, <2>3, <1>1, <1>2 DEF Doing
<1>9. LockedOK'
  <2>1. Go(p, "exec") /\ "exec" \in Opened /\ db[p] \in Opened \ {"open"}
    BY <1>2 DEF Begin, Opened, Migrating
  <2> HIDE DEF SchemaInv, DbInv
  <2> QED  BY <2>1, <1>1, StillLocked
<1> QED  BY <1>4, <1>5, <1>6, <1>7, <1>8, <1>9

LEMMA ExecInv ==
  ASSUME SchemaInv, NEW p \in Procs, Exec(p)
  PROVE  DbInv'
<1> USE DEF SchemaInv, DbInv
<1>1. UNCHANGED <<version, applied, writers, txn, current, stale, faults, vars>>
  BY DEF Exec, base
<1>2. /\ db' \in [Procs -> States] /\ db[p] = "exec" /\ db'[p] = "commit"
      /\ \A q \in Procs \ {p} : db'[q] = db[q]
  BY GoFacts DEF Exec, States
<1>3. SchemaTypeOK'
  BY <1>1, <1>2 DEF SchemaTypeOK
<1>4. (VersionIsTrue /\ OpenedIsCurrent)'
  BY <1>1, <1>2 DEF VersionIsTrue, OpenedIsCurrent
<1>5. PhaseOK'
  BY <1>1, <1>2 DEF PhaseOK, InTxn, Migrating, Doing
<1>6. (FreshOK /\ AloneOK)'
  BY <1>1, <1>2 DEF FreshOK, AloneOK, InTxn, Doing, vars
<1>7. LockedOK'
  <2>1. Go(p, "commit") /\ "commit" \in Opened /\ db[p] \in Opened \ {"open"}
    BY <1>2 DEF Exec, Opened, Migrating
  <2> HIDE DEF SchemaInv, DbInv
  <2> QED  BY <2>1, <1>1, StillLocked
<1> QED  BY <1>3, <1>4, <1>5, <1>6, <1>7

LEMMA CommitInv ==
  ASSUME SchemaInv, NEW p \in Procs, Commit(p)
  PROVE  DbInv'
<1> USE DEF SchemaInv, DbInv
<1>1. /\ UNCHANGED <<writers, current, stale, faults, vars>>
      /\ txn' = NoProc /\ version' = Doing(p) /\ applied' = applied \cup {Doing(p)}
  BY DEF Commit, base
<1>2. /\ db' \in [Procs -> States] /\ db[p] = "commit" /\ db'[p] = "check"
      /\ \A q \in Procs \ {p} : db'[q] = db[q]
  BY GoFacts DEF Commit, States
<1>3. /\ current[p] \in 0..Target /\ current[p] < Target /\ Doing(p) \in 1..Target
      /\ 1..Doing(p) = (1..current[p]) \cup {Doing(p)}
      /\ 1..current[p] \subseteq applied
  BY <1>2, DoingFacts DEF Migrating
<1>4. txn = p /\ \A q \in Procs \ {p} : db[q] \notin InTxn
  BY <1>2 DEF PhaseOK, InTxn
<1>5. SchemaTypeOK'
  <2> Doing(p) \in 1..Target
    BY <1>3
  <2>1. version' \in 0..Target /\ applied' \subseteq 1..Target
    <3>1. applied \subseteq 1..Target /\ 1..Target \subseteq 0..Target
      BY SchemaAssumption DEF SchemaTypeOK
    <3> QED  BY <3>1, <1>1
  <2>2. /\ txn' \in Procs \cup {NoProc}
        /\ writers' \in SUBSET Procs /\ stale' \in BOOLEAN
        /\ current' \in [Procs -> 0..Target] /\ faults' \in 0..MaxFaults
    BY <1>1 DEF SchemaTypeOK
  <2> QED  BY <2>1, <2>2, <1>2 DEF SchemaTypeOK
<1>6. VersionIsTrue'
  BY <1>1, <1>3 DEF VersionIsTrue
<1>7. OpenedIsCurrent'
  BY <1>1, <1>2, <1>3 DEF OpenedIsCurrent
<1>8. PhaseOK'
  <2> SUFFICES ASSUME NEW q \in Procs
               PROVE  /\ (db[q] \in InTxn <=> txn = q)'
                      /\ (db[q] \in Migrating => current[q] < Target /\ 1..current[q] \subseteq applied)'
                      /\ (db[q] = "check" => Doing(q) \in applied)'
    BY DEF PhaseOK
  <2>1. (db[q] \in InTxn <=> txn = q)'
    BY <1>1, <1>2, <1>4, PidLockAssumption DEF InTxn
  <2>2. (db[q] \in Migrating => current[q] < Target /\ 1..current[q] \subseteq applied)'
    BY <1>1, <1>2, <1>3 DEF PhaseOK, Migrating
  <2>3. (db[q] = "check" => Doing(q) \in applied)'
    BY <1>1, <1>2 DEF PhaseOK, Doing
  <2> QED  BY <2>1, <2>2, <2>3
<1>9. FreshOK'
  <2>1. ASSUME ~stale PROVE applied' = 1..version'
    BY <1>1, <1>2, <1>3, <2>1 DEF FreshOK, InTxn
  <2> QED  BY <2>1, <1>1, <1>2, <1>4 DEF FreshOK, InTxn
<1>10. AloneOK'
  <2> SUFFICES ASSUME writers = Procs, ~raced, NEW q \in Procs
               PROVE  /\ ~stale
                      /\ (db[q] = "begin" => version = current[q])'
                      /\ (db[q] = "check" => version = Doing(q))'
    BY <1>1 DEF AloneOK, vars
  <2>1. ~stale
    BY DEF AloneOK
  <2>2. CASE q = p
    BY <2>1, <2>2, <1>1, <1>2 DEF Doing
  <2>3. CASE q # p
    <3>1. db[q] \notin Opened
      <4> HIDE DEF SchemaInv, DbInv
      <4>1. db[p] \in Opened
        BY <1>2 DEF Opened, Migrating
      <4> QED  BY <4>1, <2>3, Alone
    <3> QED  BY <3>1, <2>1, <2>3, <1>2 DEF Opened, Migrating
  <2> QED  BY <2>2, <2>3
<1>11. LockedOK'
  <2>1. Go(p, "check") /\ "check" \in Opened /\ db[p] \in Opened \ {"open"}
    BY <1>2 DEF Commit, Opened, Migrating
  <2> HIDE DEF SchemaInv, DbInv
  <2> QED  BY <2>1, <1>1, StillLocked
<1> QED  BY <1>5, <1>6, <1>7, <1>8, <1>9, <1>10, <1>11

LEMMA CheckInv ==
  ASSUME SchemaInv, NEW p \in Procs, Check(p)
  PROVE  DbInv'
<1> USE DEF SchemaInv, DbInv
<1>1. version \in 0..Target /\ UNCHANGED <<version, applied, txn, writers, stale, faults, vars>>
  BY DEF Check, SchemaTypeOK, base
<1>2. /\ db' \in [Procs -> States] /\ db[p] = "check" /\ db'[p] = Pending(version)
      /\ \A q \in Procs \ {p} : db'[q] = db[q]
  BY <1>1, GoFacts, PendingFacts DEF Check
<1>3. /\ current' \in [Procs -> 0..Target] /\ current'[p] = version
      /\ \A q \in Procs \ {p} : current'[q] = current[q]
  BY <1>1 DEF Check, SchemaTypeOK
<1>4. SchemaTypeOK'
  BY <1>1, <1>2, <1>3 DEF SchemaTypeOK
<1>5. VersionIsTrue'
  BY <1>1 DEF VersionIsTrue
<1>6. OpenedIsCurrent'
  BY <1>1, <1>2, PendingFacts DEF OpenedIsCurrent, VersionIsTrue, SchemaTypeOK
<1>7. PhaseOK'
  BY <1>1, <1>2, <1>3, PendingFacts DEF PhaseOK, InTxn, Migrating, Doing, VersionIsTrue
<1>8. FreshOK'
  BY <1>1, <1>2, <1>3, PendingFacts DEF FreshOK, InTxn
<1>9. AloneOK'
  BY <1>1, <1>2, <1>3, PendingFacts DEF AloneOK, Doing, vars
<1>10. LockedOK'
  <2>1. Go(p, Pending(version)) /\ Pending(version) \in Opened
    BY <1>1, PendingFacts DEF Check, Opened, Migrating
  <2>2. db[p] \in Opened \ {"open"}
    BY <1>2 DEF Opened, Migrating
  <2> HIDE DEF SchemaInv, DbInv
  <2> QED  BY <2>1, <2>2, <1>1, StillLocked
<1> QED  BY <1>4, <1>5, <1>6, <1>7, <1>8, <1>9, <1>10
-----------------------------------------------------------------------------
(* The theorems.                                                           *)

LEMMA NextDb == SchemaInv /\ [SchemaNext]_schemaVars => SchemaInv'
<1> SUFFICES ASSUME SchemaInv, [SchemaNext]_schemaVars PROVE SchemaInv'
  OBVIOUS
<1>1. [Next]_vars /\ IInv
  BY LockStep DEF SchemaInv
<1>2. IInv' /\ (raced => raced')
  BY <1>1, NextIInv, RacedStays
<1>3. ASSUME NEW p \in Procs, Acquire(p) \/ LockFails(p) PROVE DbInv'
  BY <1>2, <1>3, AcquireInv
<1>4. ASSUME NEW p \in Procs, Release(p) PROVE DbInv'
  BY <1>2, <1>4, ReleaseInv
<1>5. ASSUME NEW p \in Procs, OpenDb(p) PROVE DbInv'
  BY <1>5, OpenDbInv
<1>6. ASSUME NEW p \in Procs, CloseDb(p) \/ ExecFails(p) \/ CheckFails(p) \/ OpenFails(p)
      PROVE  DbInv'
  <2>1. Leave(p)
    BY <1>6 DEF CloseDb, ExecFails, CheckFails, OpenFails
  <2>2. faults' \in 0..MaxFaults
    BY <1>6, SchemaAssumption DEF CloseDb, ExecFails, CheckFails, OpenFails, Fault,
                                  SchemaInv, DbInv, SchemaTypeOK
  <2>3. db[p] \in Opened
    BY <1>6 DEF CloseDb, ExecFails, CheckFails, OpenFails, Opened, Migrating, States,
                SchemaInv, DbInv, SchemaTypeOK
  <2>4. p \in writers \/ pc[p] = "idle"
    BY <1>6 DEF CloseDb, ExecFails, CheckFails, OpenFails, SchemaInv, DbInv, LockedOK
  <2> QED  BY <2>1, <2>2, <2>3, <2>4, LeaveInv
<1>7. ASSUME NEW p \in Procs, Killed(p) PROVE DbInv'
  BY <1>2, <1>7, KilledInv
<1>8. ASSUME NEW p \in Procs, Read(p) \/ Begin(p) \/ Exec(p) \/ Commit(p) \/ Check(p)
      PROVE  DbInv'
  BY <1>8, ReadInv, BeginInv, ExecInv, CommitInv, CheckInv
<1>9. ASSUME UNCHANGED schemaVars PROVE DbInv'
  <2>1. /\ UNCHANGED database /\ UNCHANGED <<pc, writers, db>>
        /\ faults' = faults
    BY <1>9 DEF schemaVars, database, base, vars
  <2>2. faults' \in 0..MaxFaults
    BY <2>1 DEF SchemaInv, DbInv, SchemaTypeOK
  <2>3. LockedOK'
    BY <2>1 DEF SchemaInv, DbInv, LockedOK
  <2> QED  BY <2>1, <2>2, <2>3, <1>2, LockOnlyInv
<1>10. ASSUME SchemaNext PROVE DbInv'
  <2>1. PICK p \in Procs : Runs(p) \/ OpenFails(p) \/ LockFails(p) \/ Killed(p)
    BY <1>10 DEF SchemaNext
  <2>2. ASSUME Runs(p) PROVE DbInv'
    BY <2>2, <1>3, <1>4, <1>5, <1>6, <1>8 DEF Runs
  <2> QED  BY <2>1, <2>2, <1>3, <1>6, <1>7
<1>11. DbInv'
  BY <1>9, <1>10
<1> QED  BY <1>2, <1>11 DEF SchemaInv

\* The inductive invariant, type correctness included, holds of every behaviour:
\* user_version never claims more than the schema has (migrations_apply).
THEOREM SchemaInvariant == SchemaSpec => []SchemaInv
BY InitDb, NextDb, PTL DEF SchemaSpec

\* The commands and the watcher take and release the pidfile as PidLock says,
\* so that what it promises holds of them (scan_cmd_main, on_drain).
THEOREM ImplementsLock == SchemaSpec => Spec
<1>1. SchemaInit => Init
  BY DEF SchemaInit
<1> QED  BY <1>1, LockStep, PTL DEF SchemaSpec, Spec

\* A process that has the database open finds the tables and columns of every
\* migration, whoever migrates at the same time and whatever fails (db_open).
THEOREM OpenedIsCurrentHolds == SchemaSpec => []OpenedIsCurrent
<1>1. SchemaInv => OpenedIsCurrent
  BY DEF SchemaInv, DbInv
<1> QED  BY <1>1, SchemaInvariant, PTL

\* A database that nobody can open any more is the work of a migration on a stale
\* version, and not of processes that all take a pidfile which nobody unlinked
\* under an opener (migrations_apply, lock_release).
THEOREM StuckOnlyWhenStaleHolds == SchemaSpec => []StuckOnlyWhenStale
<1>1. SchemaInv => StuckOnlyWhenStale
  <2> SUFFICES ASSUME SchemaInv, Stuck PROVE stale /\ (writers # Procs \/ raced)
    BY DEF StuckOnlyWhenStale
  <2>1. version \in 0..Target /\ stale \in BOOLEAN
    BY DEF SchemaInv, DbInv, SchemaTypeOK
  <2>2. version + 1 \in applied
    BY DEF Stuck
  <2>3. stale
    BY <2>1, <2>2, SchemaAssumption DEF SchemaInv, DbInv, FreshOK
  <2> QED  BY <2>3 DEF SchemaInv, DbInv, AloneOK
<1> QED  BY <1>1, SchemaInvariant, PTL
=============================================================================
