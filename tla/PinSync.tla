------------------------------ MODULE PinSync ------------------------------
(***************************************************************************)
(* Pins and actions end to end: the phone's coroutines (PinPhone) write    *)
(* two files, Syncthing carries each at its own pace, and the daemon's     *)
(* ingest passes (PinMerge) merge what has arrived.                        *)
(***************************************************************************)
EXTENDS PinMerge

CONSTANTS Coroutines, MaxFaults

ASSUME SyncAssumption == MaxFaults \in Nat

VARIABLES clock, row, out, at, id, ts, val, todo, faults, torn, \* the phone's
          lost, overtaken, crossed

Phone == INSTANCE PinPhone WITH MaxAppends <- MaxLines

phone    == <<clock, row, out, at, id, ts, val, todo, faults, torn, lost,
              overtaken, crossed>>
syncvars == <<phone, vars>>

SyncInit == Phone!Init /\ Init

PhoneStep == Phone!Next /\ UNCHANGED vars

\* The next line of a file arrives; nothing orders the two files.
Deliver(l) ==
  /\ Len(file[l]) < Len(out[l])
  /\ Arrive(l, out[l][Len(file[l]) + 1])
  /\ UNCHANGED phone

DesktopStep == Ingest /\ UNCHANGED phone

SyncNext == PhoneStep \/ (\E l \in Phone!Logs : Deliver(l)) \/ DesktopStep

SyncSpec == SyncInit /\ [][SyncNext]_syncvars
-----------------------------------------------------------------------------
\* A pin row marked as synced has its line in the file, whatever failed or was
\* killed, but for the two cases it names (PinsWriter.drain, appendLine).
SyncedMeansWritten == Phone!SyncedMeansWritten

\* The row of a track is newer than what was written of it before, unless two
\* operations on the track overlapped (togglePin, ActionsWriter.emit).
RowIsNewest == Phone!RowIsNewest

\* Everything the phone wrote has arrived and been absorbed; no one is at work.
Quiet == /\ \A c \in Coroutines : at[c] = "idle"
         /\ \A l \in Phone!Logs : file[l] = out[l] /\ db.off[l] = Len(out[l])
         /\ reading = "none"

\* The types of both sides (PinEntity, ingest_one_file).
SyncTypeOK == Phone!TypeOK /\ TypeOK

\* Once all has settled, the desktop pins what the phone shows as pinned and
\* synced, and nothing that it shows as unpinned and synced, whatever failed,
\* was killed, repeated or arrived late (togglePin, drain, handle_pin,
\* handle_action); except for a row whose line was lost or overtaken, as in
\* SyncedMeansWritten, and for a track on which two operations overlapped.
PinReachesDesktop ==
  \A t \in Tracks \ (db.blacklist \cup overtaken \cup crossed) :
    Quiet /\ row[t].ts > 0 /\ row[t].synced /\ Phone!LineOf(t) \notin lost
      => IF row[t].val THEN db.pins[t].val /\ t \notin db.override
         ELSE ~db.pins[t].val
=============================================================================
