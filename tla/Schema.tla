------------------------------- MODULE Schema -------------------------------
(***************************************************************************)
(* Opening the database (db.c) and bringing its schema up to date          *)
(* (migrations.c), under the pid lockfile (PidLock).  Every process reads  *)
(* user_version at its start and applies the migrations above it one by    *)
(* one, each in a transaction of its own.  The write subcommands have the  *)
(* pidfile while they have the database open; the watcher and the doctor   *)
(* open the database without it, and the watcher takes it for each scan.   *)
(***************************************************************************)
EXTENDS PidLock, Naturals

CONSTANTS Target,    \* migrations_target_version
          Altering,  \* migrations with an ALTER TABLE: an error when run again
          MaxFaults  \* bound: kills, busy timeouts and failing calls

ASSUME SchemaAssumption ==
  Target \in Nat /\ Altering \subseteq 1..Target /\ MaxFaults \in Nat

VARIABLES
  version,  \* PRAGMA user_version, as committed
  applied,  \* the migrations whose changes are in the committed schema
  writers,  \* the processes that are write subcommands
  txn,      \* the process that is in BEGIN IMMEDIATE, or NoProc
  db,       \* how far each process is with the database
  current,  \* current[p]: the version p believes the database has
  stale,    \* history: a migration began on a version that was no longer true
  faults    \* against the bound

base == <<writers, stale>>
database == <<version, applied, txn, db, current, base>>
schemaVars == <<vars, database, faults>>

\* "off"     not opened yet, or the process has not been started
\* "closed"  a write subcommand has closed it and is going to release the lock
States == {"off", "opening", "begin", "exec", "commit", "check", "open", "closed"}

\* A database of this release or an older one.
SchemaInit ==
  /\ Init
  /\ version \in 0..Target /\ applied = 1..version
  /\ writers \in SUBSET Procs
  /\ txn = NoProc
  /\ db = [p \in Procs |-> "off"] /\ current = [p \in Procs |-> 0]
  /\ stale = FALSE /\ faults = 0
-----------------------------------------------------------------------------
(* The lock around the database, and the database around the lock.         *)

Go(p, state) == db' = [db EXCEPT ![p] = state]

\* A write subcommand locks before it opens; the watcher has opened before it
\* locks, scans and unlocks.
Acquires(p) == IF p \in writers THEN db[p] = "off" ELSE db[p] = "open"

\* Busy, a write subcommand exits and the watcher skips the scan.
Acquire(p) ==
  /\ Acquires(p)
  /\ OpenExisting(p) \/ OpenCreate(p) \/ Flock(p) \/ FlockBusy(p) \/ WritePid(p)
  /\ UNCHANGED <<database, faults>>

\* A write subcommand closes the database before it releases the lock.
Release(p) ==
  /\ p \in writers => db[p] = "closed"
  /\ \/ Unlink(p) /\ UNCHANGED db
     \/ Close(p) /\ Go(p, IF p \in writers THEN "off" ELSE db[p])
  /\ UNCHANGED <<version, applied, txn, current, base, faults>>

\* Mutant: a write subcommand opens the database and then takes the lock.
OpenDbUnlocked(p) ==
  /\ db[p] = "off" /\ Go(p, "opening")
  /\ UNCHANGED <<vars, version, applied, txn, current, base, faults>>

\* db_open comes after lock_acquire.
OpenDb(p) ==
  /\ db[p] = "off" /\ (p \in writers => pc[p] = "holding")
  /\ Go(p, "opening")
  /\ UNCHANGED <<vars, version, applied, txn, current, base, faults>>

\* db_close: an open transaction is rolled back.
Leave(p) ==
  /\ Go(p, IF p \in writers THEN "closed" ELSE "off")
  /\ txn' = IF txn = p THEN NoProc ELSE txn
  /\ UNCHANGED <<vars, version, applied, current, base>>

\* The command has done its work, or the watcher, between two scans, ends.
CloseDb(p) ==
  /\ db[p] = "open" /\ (p \notin writers => pc[p] = "idle")
  /\ Leave(p) /\ UNCHANGED faults
-----------------------------------------------------------------------------
(* The migrations.                                                         *)

\* The loop of migrations_apply: another migration, or the handle is returned.
Pending(v) == IF v < Target THEN "begin" ELSE "open"

\* The pragmas, then the one read of user_version on which the loop relies.
Read(p) ==
  /\ db[p] = "opening"
  /\ current' = [current EXCEPT ![p] = version] /\ Go(p, Pending(version))
  /\ UNCHANGED <<vars, version, applied, txn, base, faults>>

\* BEGIN IMMEDIATE waits for the transaction of another process.
Begin(p) ==
  /\ db[p] = "begin" /\ txn = NoProc
  /\ txn' = p /\ Go(p, "exec")
  /\ stale' = (stale \/ version # current[p])
  /\ UNCHANGED <<vars, version, applied, writers, current, faults>>

Doing(p) == current[p] + 1
Fails(p) == Doing(p) \in Altering \cap applied

Exec(p) ==
  /\ db[p] = "exec" /\ ~Fails(p)
  /\ Go(p, "commit")
  /\ UNCHANGED <<vars, version, applied, txn, current, base, faults>>

\* The column is there already: ROLLBACK, and db_open returns no handle.
ExecFails(p) ==
  /\ db[p] = "exec" /\ Fails(p) /\ Leave(p)
  /\ UNCHANGED faults

\* Mutant: the version is committed before the statements are.
CommitVersionOnly(p) ==
  /\ db[p] \in {"exec", "commit"}
  /\ version' = Doing(p) /\ Go(p, "check")
  /\ applied' = IF db[p] = "commit" THEN applied \cup {Doing(p)} ELSE applied
  /\ txn' = NoProc
  /\ UNCHANGED <<vars, current, base, faults>>

\* Mutant: the statements do not end with PRAGMA user_version = N.
CommitForgetsVersion(p) ==
  /\ db[p] = "commit"
  /\ applied' = applied \cup {Doing(p)}
  /\ txn' = NoProc /\ Go(p, "check")
  /\ UNCHANGED <<vars, version, current, base, faults>>

\* The statements of the migration and PRAGMA user_version = N take effect.
Commit(p) ==
  /\ db[p] = "commit"
  /\ version' = Doing(p) /\ applied' = applied \cup {Doing(p)}
  /\ txn' = NoProc /\ Go(p, "check")
  /\ UNCHANGED <<vars, current, base, faults>>

\* user_version is read again, after the transaction.
Check(p) ==
  /\ db[p] = "check" /\ version = Doing(p)
  /\ current' = [current EXCEPT ![p] = version] /\ Go(p, Pending(version))
  /\ UNCHANGED <<vars, version, applied, txn, base, faults>>

CheckFails(p) ==
  /\ db[p] = "check" /\ version # Doing(p) /\ Leave(p)
  /\ UNCHANGED faults
-----------------------------------------------------------------------------
(* Failures, each against the bound.                                       *)

Fault == faults < MaxFaults /\ faults' = faults + 1

\* A call of db_open fails: the directory, the file, a pragma, a busy timeout
\* at BEGIN, a COMMIT.
OpenFails(p) == Fault /\ db[p] \notin {"off", "open", "closed"} /\ Leave(p)

LockFails(p) == Fault /\ Acquires(p) /\ AcquireFails(p) /\ UNCHANGED database

\* What is not committed is rolled back, and the kernel closes the descriptors.
Killed(p) ==
  /\ Fault /\ (pc[p] # "idle" \/ db[p] # "off")
  /\ IF pc[p] = "idle" THEN UNCHANGED vars ELSE Crash(p)
  /\ Go(p, "off")
  /\ txn' = IF txn = p THEN NoProc ELSE txn
  /\ UNCHANGED <<version, applied, current, base>>

Runs(p) == \/ Acquire(p) \/ Release(p) \/ OpenDb(p) \/ CloseDb(p)
           \/ Read(p) \/ Begin(p) \/ Exec(p) \/ ExecFails(p)
           \/ Commit(p) \/ Check(p) \/ CheckFails(p)

SchemaNext == \E p \in Procs : Runs(p) \/ OpenFails(p) \/ LockFails(p) \/ Killed(p)

SchemaSpec == SchemaInit /\ [][SchemaNext]_schemaVars

\* The timers and the service start commands again and again; a process runs
\* on, and SQLite gives a waiting BEGIN its turn.
FairSpec == SchemaSpec /\ \A p \in Procs : SF_schemaVars(Runs(p))
-----------------------------------------------------------------------------
SchemaTypeOK ==
  /\ version \in 0..Target /\ applied \subseteq 1..Target
  /\ writers \in SUBSET Procs
  /\ txn \in Procs \cup {NoProc}
  /\ db \in [Procs -> States] /\ current \in [Procs -> 0..Target]
  /\ stale \in BOOLEAN /\ faults \in 0..MaxFaults

\* The number in user_version is true: the changes of every migration up to it
\* are in the schema, whoever else migrates at the same time and whatever is
\* killed (migrations_apply: the version is set in the migration's transaction).
VersionIsTrue == 1..version \subseteq applied

\* A process that db_open lets through finds every table and column its
\* statements name (the return of migrations_apply).
OpenedIsCurrent == \A p \in Procs : db[p] = "open" => applied = 1..Target

\* No process can open the database any more: the next migration is applied
\* already and fails.
Stuck == version < Target /\ version + 1 \in Altering \cap applied

\* The only way there is a process that migrates on a version it has read before
\* another one's commit.  When all processes take the pidfile there is none,
\* unless lock_release has unlinked the pidfile under one that had opened it
\* (watch_cmd.c and doctor_cmd.c open the database without the pidfile).
StuckOnlyWhenStale == Stuck => stale /\ (writers # Procs \/ raced)

\* Whatever fails, the schema is brought up to date in the end (the retry of the
\* next command), unless a stale version got in between.
Converges == <>(version = Target \/ stale)
-----------------------------------------------------------------------------
\* The inductive strengthening of the safety properties above.
InTxn == {"exec", "commit"}
Migrating == {"begin", "exec", "commit", "check"}
Opened == Migrating \cup {"opening", "open"}

PhaseOK == \A p \in Procs :
  /\ db[p] \in InTxn <=> txn = p
  /\ db[p] \in Migrating => current[p] < Target /\ 1..current[p] \subseteq applied
  /\ db[p] = "check" => Doing(p) \in applied

\* How the lock goes with the database.
LockedOK == \A p \in Procs :
  /\ p \in writers /\ db[p] \in Opened => pc[p] = "holding"
  /\ p \in writers /\ db[p] = "off" => pc[p] # "unlinked"
  /\ p \in writers /\ db[p] = "closed" => pc[p] \in {"holding", "unlinked"}
  /\ p \notin writers => db[p] # "closed" /\ (db[p] # "open" => pc[p] = "idle")

\* As long as no stale version was used, version is what is applied, and it
\* does not move under a transaction.
FreshOK == ~stale =>
  /\ applied = 1..version
  /\ \A p \in Procs : db[p] \in InTxn => version = current[p]

\* Under the pidfile only one process is between read and close.
AloneOK == writers = Procs /\ ~raced =>
  /\ ~stale
  /\ \A p \in Procs : /\ db[p] = "begin" => version = current[p]
                      /\ db[p] = "check" => version = Doing(p)

DbInv == /\ SchemaTypeOK /\ VersionIsTrue /\ OpenedIsCurrent
         /\ PhaseOK /\ LockedOK /\ FreshOK /\ AloneOK

SchemaInv == IInv /\ DbInv
=============================================================================
