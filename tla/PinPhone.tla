------------------------------ MODULE PinPhone ------------------------------
(***************************************************************************)
(* The phone's side of pins and actions (src/phone: BrowserViewModel       *)
(* togglePin, unsyncTrack, deleteTrack; PinsWriter.drain; PinDao;          *)
(* PlaybackService.onCreate).  Every user operation runs in a coroutine of *)
(* its own and suspends at each database query and each append, so several *)
(* of them interleave.                                                     *)
(***************************************************************************)
EXTENDS Naturals, Sequences, FiniteSets

CONSTANTS Coroutines,
          Tracks,
          MaxTs,     \* bound: the clock, in events with distinct times
          MaxFaults, \* bound: appends that go wrong, and kills of the app
          MaxAppends \* bound: lines per file

Logs == {"pins", "actions"}

\* The Room table `pins`; ts = 0 when there is no row.
PinRow == [ts : 0..MaxTs, val : BOOLEAN, synced : BOOLEAN]
NoPin  == [ts |-> 0, val |-> FALSE, synced |-> TRUE]

VARIABLES clock,  \* the time of the latest event
          row,    \* row[id]: the track's pin row
          out,    \* out[l]: the lines of the phone's file that will parse
          at,     \* where a coroutine is suspended
          id,     \* the track it is about
          ts,     \* the time it took at its start
          val,    \* the pin state it is going to write
          todo,   \* the rows its drain has still to append
          faults, \* how many faults there have been
          torn,   \* the files whose last line is a fragment without its end
          lost,      \* history: lines of pins reported written, but in no file
          overtaken, \* history: tracks marked synced for an older line
          crossed    \* history: tracks on which two operations overlapped
files == <<out, torn, lost>>
vars  == <<clock, row, at, id, ts, val, todo, faults, files, overtaken, crossed>>

Line == [id : Tracks, ts : 1..MaxTs, val : BOOLEAN]
Points == {"idle", "read", "write", "unpin", "drain", "append", "mark", "emit",
           "delete"}

\* Types, and what a drain still has to append are lines of past events.
TypeOK ==
  /\ clock \in 0..MaxTs
  /\ row \in [Tracks -> PinRow]
  /\ out \in [Logs -> Seq(Line)]
  /\ at \in [Coroutines -> Points]
  /\ id \in [Coroutines -> Tracks]
  /\ ts \in [Coroutines -> 0..MaxTs]
  /\ val \in [Coroutines -> BOOLEAN]
  /\ todo \in [Coroutines -> Seq(Line)]
  /\ faults \in 0..MaxFaults
  /\ torn \subseteq Logs /\ lost \subseteq Line
  /\ overtaken \subseteq Tracks /\ crossed \subseteq Tracks
  /\ \A c \in Coroutines :
       /\ \A i \in 1..Len(todo[c]) : todo[c][i].ts <= clock
       /\ at[c] = "mark" => todo[c] # <<>>

Init ==
  /\ clock = 0
  /\ row = [t \in Tracks |-> NoPin]
  /\ out = [l \in Logs |-> <<>>]
  /\ at = [c \in Coroutines |-> "idle"]
  /\ id \in {[c \in Coroutines |-> t] : t \in Tracks}
  /\ ts = [c \in Coroutines |-> 0]
  /\ val = [c \in Coroutines |-> TRUE]
  /\ todo = [c \in Coroutines |-> <<>>]
  /\ faults = 0 /\ torn = {} /\ lost = {} /\ overtaken = {} /\ crossed = {}

Goto(c, p) == at' = [at EXCEPT ![c] = p]

\* The coroutine ends, and its locals with it.
End(c) == /\ Goto(c, "idle")
          /\ ts' = [ts EXCEPT ![c] = 0]
          /\ val' = [val EXCEPT ![c] = TRUE]

\* What may go wrong at any time.
Fault == faults < MaxFaults /\ faults' = faults + 1
-----------------------------------------------------------------------------
(* User operations: each starts a coroutine and takes the time.            *)

\* An operation on the track has still to write its row or emit its action.
Pending(c, t) == /\ id[c] = t
                 /\ \/ at[c] \in {"read", "write", "unpin", "emit", "delete"}
                    \/ at[c] \in {"drain", "append", "mark"} /\ ~val[c]

Tap(c, t, p) ==
  /\ at[c] = "idle" /\ clock < MaxTs
  /\ clock' = clock + 1
  /\ id' = [id EXCEPT ![c] = t]
  /\ ts' = [ts EXCEPT ![c] = clock + 1]
  /\ crossed' = IF \E d \in Coroutines : Pending(d, t) THEN crossed \cup {t}
                ELSE crossed
  /\ Goto(c, p)
  /\ UNCHANGED <<row, faults, files, val, todo, overtaken>>

TogglePin(c, t) == Tap(c, t, "read")

\* The long-press "unsync": setPinned touches a row that exists, if any.
UnsyncTap(c, t) == Tap(c, t, "unpin")

DeleteTap(c, t) == Tap(c, t, "delete")

\* PlaybackService.onCreate drains what is left over.
ServiceStart(c) ==
  /\ at[c] = "idle"
  /\ \E t \in Tracks : ~row[t].synced
  /\ Goto(c, "drain")
  /\ UNCHANGED <<clock, row, faults, files, id, ts, val, todo, overtaken, crossed>>
-----------------------------------------------------------------------------
(* togglePin and unsyncTrack                                               *)

ReadExisting(c) ==
  /\ at[c] = "read"
  /\ val' = [val EXCEPT ![c] = row[id[c]].ts = 0 \/ ~row[id[c]].val]
  /\ Goto(c, "write")
  /\ UNCHANGED <<clock, row, faults, files, id, ts, todo, overtaken, crossed>>

Write(t, v, time) ==
  /\ row' = [row EXCEPT ![t] = [ts |-> time, val |-> v, synced |-> FALSE]]
  /\ overtaken' = overtaken \ {t}

\* Mutants: the flip forgets to reset `synced`; it keeps the row's old time.
WritePinKeepsSynced(c) ==
  /\ at[c] = "write"
  /\ row' = [row EXCEPT ![id[c]] = [ts |-> ts[c], val |-> val[c],
                                    synced |-> @.ts > 0 /\ @.synced]]
  /\ overtaken' = overtaken \ {id[c]}
  /\ Goto(c, "drain")
  /\ UNCHANGED <<clock, faults, files, id, ts, val, todo, crossed>>
WritePinKeepsTime(c) ==
  /\ at[c] = "write"
  /\ Write(id[c], val[c], IF row[id[c]].ts > 0 THEN row[id[c]].ts ELSE ts[c])
  /\ Goto(c, "drain")
  /\ UNCHANGED <<clock, faults, files, id, ts, val, todo, crossed>>

WritePin(c) ==
  /\ at[c] = "write"
  /\ Write(id[c], val[c], ts[c])
  /\ Goto(c, "drain")
  /\ UNCHANGED <<clock, faults, files, id, ts, val, todo, crossed>>

Unpin(c) ==
  /\ at[c] = "unpin"
  /\ IF row[id[c]].ts > 0 THEN Write(id[c], FALSE, ts[c])
     ELSE UNCHANGED <<row, overtaken>>
  /\ Goto(c, "emit")
  /\ UNCHANGED <<clock, faults, files, id, ts, val, todo, crossed>>
-----------------------------------------------------------------------------
(* JsonlFileWriter.appendLine                                              *)

\* The bytes of a whole line reach the file.  Behind a fragment they complete
\* a line that no reader can parse, and are gone.
WriteLine(l, line) ==
  IF l \in torn THEN out' = out /\ torn' = torn \ {l}
  ELSE /\ Len(out[l]) < MaxAppends
       /\ out' = [out EXCEPT ![l] = Append(@, line)]
       /\ torn' = torn

\* appendLine returns true: the line is written, or the provider gave no
\* descriptor and writeAndFsync returned without writing (`?: return`).
Appended(l, line) ==
  /\ \/ WriteLine(l, line) /\ faults' = faults
     \/ Fault /\ UNCHANGED <<out, torn>>
  /\ lost' = IF l = "pins" /\ out' = out THEN lost \cup {line} ELSE lost

\* It returns false: nothing was written, or a part of the line, or all of it
\* and the time of the sync could not be stored.
AppendFails(l, line) ==
  /\ Fault
  /\ \/ UNCHANGED <<out, torn>>
     \/ torn' = torn \cup {l} /\ out' = out
     \/ WriteLine(l, line)
  /\ UNCHANGED lost
-----------------------------------------------------------------------------
(* PinsWriter.drain                                                        *)

LineOf(t) == [id |-> t, ts |-> row[t].ts, val |-> row[t].val]
Unsynced  == {t \in Tracks : row[t].ts > 0 /\ ~row[t].synced}

\* The unsynced rows, oldest first, as they are now.
Snapshot(c) ==
  /\ at[c] = "drain"
  /\ \E s \in [1..Cardinality(Unsynced) -> Unsynced] :
       /\ \A i, j \in DOMAIN s : i < j => s[i] # s[j] /\ row[s[i]].ts <= row[s[j]].ts
       /\ todo' = [todo EXCEPT ![c] = [i \in DOMAIN s |-> LineOf(s[i])]]
  /\ Goto(c, "append")
  /\ UNCHANGED <<clock, row, faults, files, id, ts, val, overtaken, crossed>>

AppendPin(c) ==
  /\ at[c] = "append" /\ todo[c] # <<>>
  /\ Appended("pins", Head(todo[c]))
  /\ Goto(c, "mark")
  /\ UNCHANGED <<clock, row, id, ts, val, todo, overtaken, crossed>>

\* The append fails: the row stays unsynced for the next drain.
AppendPinFails(c) ==
  /\ at[c] = "append" /\ todo[c] # <<>>
  /\ AppendFails("pins", Head(todo[c]))
  /\ todo' = [todo EXCEPT ![c] = Tail(@)]
  /\ UNCHANGED <<clock, row, at, id, ts, val, overtaken, crossed>>

\* UPDATE pins SET synced = 1 WHERE id = :id -- whatever the row says by now.
MarkSynced(c) ==
  /\ at[c] = "mark"
  /\ LET line == Head(todo[c])
     IN  /\ row' = [row EXCEPT ![line.id].synced = TRUE]
         /\ overtaken' = IF line = LineOf(line.id) THEN overtaken
                         ELSE overtaken \cup {line.id}
  /\ todo' = [todo EXCEPT ![c] = Tail(@)]
  /\ Goto(c, "append")
  /\ UNCHANGED <<clock, faults, files, id, ts, val, crossed>>

\* A toggle to off goes on to emit the unsync action.
DrainDone(c) ==
  /\ at[c] = "append" /\ todo[c] = <<>>
  /\ IF val[c] THEN End(c) ELSE Goto(c, "emit") /\ UNCHANGED <<ts, val>>
  /\ UNCHANGED <<clock, row, faults, files, id, todo, overtaken, crossed>>
-----------------------------------------------------------------------------
(* ActionsWriter.emit takes a new time; a failed append loses the action.  *)

Action(c, now) == [id |-> id[c], ts |-> now, val |-> at[c] = "delete"]

EmitAction(c) ==
  /\ at[c] \in {"emit", "delete"}
  /\ \E now \in {clock, clock + 1} :
       /\ now \in 1..MaxTs
       /\ clock' = now
       /\ \/ Appended("actions", Action(c, now))
          \/ AppendFails("actions", Action(c, now))
  /\ End(c)
  /\ UNCHANGED <<row, id, todo, overtaken, crossed>>

\* The app is killed, or the screen is left and its coroutines cancelled; an
\* append that is cut short is an append that failed just before.
Killed ==
  /\ Fault
  /\ at' = [c \in Coroutines |-> "idle"]
  /\ ts' = [c \in Coroutines |-> 0]
  /\ val' = [c \in Coroutines |-> TRUE]
  /\ todo' = [c \in Coroutines |-> <<>>]
  /\ UNCHANGED <<clock, row, files, id, overtaken, crossed>>

Next ==
  \/ \E c \in Coroutines :
       \/ \E t \in Tracks : TogglePin(c, t) \/ UnsyncTap(c, t) \/ DeleteTap(c, t)
       \/ ServiceStart(c)
       \/ ReadExisting(c) \/ WritePin(c) \/ Unpin(c)
       \/ Snapshot(c) \/ AppendPin(c) \/ AppendPinFails(c)
       \/ MarkSynced(c) \/ DrainDone(c) \/ EmitAction(c)
  \/ Killed

Spec == Init /\ [][Next]_vars
-----------------------------------------------------------------------------
Sent(l) == {out[l][i] : i \in 1..Len(out[l])}

\* "The `synced` column flips to `true` when Phase 6 has committed the row to
\* JSONL" (PinEntity.kt:10-11): the line that carries the row's state and time
\* is in the file.  Two things alone make it untrue: a line that appendLine
\* reported as written and that is in no file, and a toggle between the
\* snapshot of a drain and its markSynced (PinsWriter.drain).
SyncedMeansWritten ==
  \A t \in Tracks \ overtaken :
    row[t].ts > 0 /\ row[t].synced => LineOf(t) \in Sent("pins") \cup lost

\* What the phone says of a track is never older than what it has said: no line
\* of pins is newer than the row, and no unsync is as new as a row that is on,
\* although an action takes its time only when it is written.  It takes two
\* overlapping operations on the track to break it (togglePin, unsyncTrack).
RowIsNewest ==
  \A t \in Tracks \ crossed :
    /\ \A e \in Sent("pins") : e.id = t => e.ts <= row[t].ts
    /\ \A a \in Sent("actions") :
         a.id = t /\ ~a.val /\ row[t].val => a.ts < row[t].ts
=============================================================================
