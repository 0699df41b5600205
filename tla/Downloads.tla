----------------------------- MODULE Downloads -----------------------------
(***************************************************************************)
(* Downloads requested on the phone (DownloadsViewModel, ShareReceiver-    *)
(* Activity, DownloadsWriter, DownloadStatusReader, DownloadDao) and the   *)
(* desktop's dispatcher (download_cmd.c, download.c).  Two append-only     *)
(* files cross on Syncthing: requests from the phone, status lines from    *)
(* the desktop.  Both are read again from the start by every reader.       *)
(***************************************************************************)
EXTENDS Naturals, Sequences

CONSTANTS Writers,     \* coroutines that submit, share and drain
          Pollers,     \* coroutines that read the status file
          Queries,
          Failing,     \* the requests whose flacget exits with another code than 0
          MaxRequests, \* bound: rows the user creates
          MaxLines,    \* bound: lines of the request file
          MaxTs,       \* bound: the desktop's clock, in distinct milliseconds
          MaxFaults    \* bound: kills, failed writes, failed starts, clock steps

Coroutines == Writers \cup Pollers

ASSUME BoundsAssumption == /\ MaxRequests \in Nat /\ MaxLines \in Nat
                           /\ MaxTs \in Nat \ {0} /\ MaxFaults \in Nat

Requests == 1..MaxRequests      \* ids, in the order of their requestedAt
InFlight == {"pending", "queued", "running"}
Terminal == {"done", "error"}
Line     == [id : Requests, state : Terminal \cup {"running"}, ts : 1..MaxTs]
DownloadRow == [state : InFlight \cup Terminal \cup {"none"}, synced : BOOLEAN,
                upd : 0..MaxTs, query : Queries]

VARIABLES
  rows,     \* the Room table `downloads`
  at,       \* where a coroutine is suspended
  want,     \* the query a coroutine is going to insert
  todo,     \* the ids its drain has still to append
  unread,   \* the status lines its poll has still to apply
  out,      \* the request file on the phone: the ids of the lines that will parse
  cut,      \* whether it ends in a fragment without a newline
  arrived,  \* how many of them the desktop's copy has
  status,   \* the lines of downloads-desktop.jsonl that parse
  torn,     \* whether it ends in a fragment without a newline
  seen,     \* how many status lines the phone's copy has
  wake,     \* the path unit has a change to react to
  pc,       \* the dispatcher: idle, scanning the requests, running flacget
  pos,      \* lines of the request file it is done with
  upto,     \* lines of the version it opened
  done,     \* its set of finished ids
  now,      \* the desktop's clock
  faults,   \* faults so far
  fetched,  \* ghost: starts of flacget for an id since an outcome of it was lost
  stepped,  \* ghost: the clock was set back
  lost      \* ghost: requests reported written although no reader will see the line
file    == <<out, cut, lost>>
phone   == <<rows, at, want, todo, unread, file>>
desktop == <<status, torn, pc, pos, upto, done, fetched>>
vars    == <<phone, desktop, arrived, seen, wake, now, faults, stepped>>

NoRow(q) == [state |-> "none", synced |-> FALSE, upd |-> 0, query |-> q]

Init ==
  /\ rows \in {[i \in Requests |-> NoRow(q)] : q \in Queries}
  /\ at = [c \in Coroutines |-> "idle"]
  /\ want \in [Coroutines -> Queries]
  /\ todo = [c \in Coroutines |-> {}]
  /\ unread = [c \in Coroutines |-> <<>>]
  /\ out = <<>> /\ cut = FALSE /\ lost = {} /\ arrived = 0
  /\ status = <<>> /\ torn = FALSE /\ seen = 0
  /\ wake = FALSE /\ pc = "idle" /\ pos = 0 /\ upto = 0 /\ done = {}
  /\ now = 1 /\ faults = 0 /\ stepped = FALSE
  /\ fetched = [i \in Requests |-> 0]

Goto(c, p) == at' = [at EXCEPT ![c] = p]
Fault == faults < MaxFaults /\ faults' = faults + 1
-----------------------------------------------------------------------------
(* The phone.  A coroutine suspends at every query and every append.        *)

Made == {i \in Requests : rows[i].state # "none"}

\* DownloadsViewModel.submit, and HomeViewModel.fetch for a query it has not
\* asked for in this process: no look at the table.
Submit(c, q) ==
  /\ at[c] = "idle"
  /\ Made # Requests
  /\ want' = [want EXCEPT ![c] = q]
  /\ Goto(c, "insert")
  /\ UNCHANGED <<rows, todo, unread, file, desktop, arrived, seen, wake, now, faults, stepped>>

\* latestFor: the newest request for a query.
Latest(q) == {i \in Made : rows[i].query = q
                           /\ \A j \in Made : rows[j].query = q => j <= i}

\* ShareReceiverActivity.request refuses a query whose latest request is in
\* flight.
Share(c, q) ==
  /\ \A i \in Latest(q) : rows[i].state \notin InFlight
  /\ Submit(c, q)

Insert(c) ==
  /\ at[c] = "insert"
  /\ IF Made = Requests
       THEN Goto(c, "idle") /\ UNCHANGED rows
       ELSE \E i \in Requests \ Made :
              /\ \A j \in Requests \ Made : i <= j
              /\ rows' = [rows EXCEPT ![i] = [state |-> "pending", synced |-> FALSE,
                                              upd |-> 0, query |-> want[c]]]
              /\ Goto(c, "drain")
  /\ UNCHANGED <<want, todo, unread, file, desktop, arrived, seen, wake, now, faults, stepped>>

\* DownloadsWriter.drain: the unsynced rows as they are now, oldest first.
Snapshot(c) ==
  /\ at[c] = "drain"
  /\ todo' = [todo EXCEPT ![c] = {i \in Made : ~rows[i].synced}]
  /\ Goto(c, "append")
  /\ UNCHANGED <<rows, want, unread, file, desktop, arrived, seen, wake, now, faults, stepped>>

Oldest(c, i) == i \in todo[c] /\ \A j \in todo[c] : i <= j

\* writeAndFsync: the whole line.  Behind a fragment it completes a line that
\* does not parse, and is gone.
WriteLine(i) ==
  /\ cut' = FALSE
  /\ IF cut THEN out' = out ELSE Len(out) < MaxLines /\ out' = Append(out, i)

\* appendLine returns true: the line is written, or the provider gave no
\* descriptor and writeAndFsync returned without writing (`?: return`).
AppendRequest(c, i) ==
  /\ at[c] = "append" /\ Oldest(c, i)
  /\ \/ WriteLine(i) /\ UNCHANGED faults
     \/ Fault /\ UNCHANGED <<out, cut>>
  /\ lost' = IF out' = out THEN lost \cup {i} ELSE lost
  /\ Goto(c, "mark")
  /\ UNCHANGED <<rows, want, todo, unread, desktop, arrived, seen, wake, now, stepped>>

\* The write stops short with nothing or a fragment, or it is whole and the time
\* of the sync cannot be stored.
AppendFaulty(i) ==
  /\ Fault
  /\ \/ out' = out /\ cut' \in {cut, TRUE}
     \/ WriteLine(i)
  /\ UNCHANGED lost

\* Mutant: a failed append is marked like the others.
AppendFailsQuietly(c, i) ==
  /\ at[c] = "append" /\ Oldest(c, i)
  /\ AppendFaulty(i)
  /\ Goto(c, "mark")
  /\ UNCHANGED <<rows, want, todo, unread, desktop, arrived, seen, wake, now, stepped>>

\* appendLine returns false: the row stays as it is.
AppendFails(c, i) ==
  /\ at[c] = "append" /\ Oldest(c, i)
  /\ AppendFaulty(i)
  /\ todo' = [todo EXCEPT ![c] = @ \ {i}]
  /\ UNCHANGED <<rows, at, want, unread, desktop, arrived, seen, wake, now, stepped>>

\* markQueued leaves alone a row that has moved on since it was appended.
MarkQueued(c, i) ==
  /\ at[c] = "mark" /\ Oldest(c, i)
  /\ rows' = [rows EXCEPT ![i] = IF @.state = "pending"
                                   THEN [@ EXCEPT !.synced = TRUE, !.state = "queued"]
                                   ELSE @]
  /\ todo' = [todo EXCEPT ![c] = @ \ {i}]
  /\ Goto(c, "append")
  /\ UNCHANGED <<want, unread, file, desktop, arrived, seen, wake, now, faults, stepped>>

DrainDone(c) ==
  /\ at[c] = "append" /\ todo[c] = {}
  /\ Goto(c, "idle")
  /\ UNCHANGED <<rows, want, todo, unread, file, desktop, arrived, seen, wake, now, faults, stepped>>

\* DownloadStatusReader.poll: the version of the status file that is there.
Poll(c) ==
  /\ at[c] = "idle" /\ seen > 0
  /\ unread' = [unread EXCEPT ![c] = SubSeq(status, 1, seen)]
  /\ Goto(c, "poll")
  /\ UNCHANGED <<rows, want, todo, file, desktop, arrived, seen, wake, now, faults, stepped>>

\* Mutant: a line of the same millisecond is dropped.
AppliesLater(line, row) == row.state # "none" /\ line.ts > row.upd

\* updateStatus: last writer wins on statusUpdatedAt.
Applies(line, row) == row.state # "none" /\ line.ts >= row.upd

ApplyLine(c) ==
  /\ at[c] = "poll" /\ unread[c] # <<>>
  /\ LET line == Head(unread[c]) IN
       rows' = [rows EXCEPT ![line.id] =
                  IF Applies(line, @) THEN [@ EXCEPT !.state = line.state, !.upd = line.ts]
                                      ELSE @]
  /\ unread' = [unread EXCEPT ![c] = Tail(@)]
  /\ UNCHANGED <<at, want, todo, file, desktop, arrived, seen, wake, now, faults, stepped>>

PollDone(c) ==
  /\ at[c] = "poll" /\ unread[c] = <<>>
  /\ Goto(c, "idle")
  /\ UNCHANGED <<rows, want, todo, unread, file, desktop, arrived, seen, wake, now, faults, stepped>>

\* Android kills the app.
AppKilled ==
  /\ \E c \in Coroutines : at[c] # "idle"
  /\ Fault
  /\ at' = [c \in Coroutines |-> "idle"]
  /\ todo' = [c \in Coroutines |-> {}]
  /\ unread' = [c \in Coroutines |-> <<>>]
  /\ UNCHANGED <<rows, want, file, desktop, arrived, seen, wake, now, stepped>>

Resume(c) ==
  \/ Insert(c) \/ Snapshot(c) \/ DrainDone(c) \/ ApplyLine(c) \/ PollDone(c)
  \/ \E i \in Requests : AppendRequest(c, i) \/ AppendFails(c, i) \/ MarkQueued(c, i)
-----------------------------------------------------------------------------
(* Syncthing and systemd.                                                  *)

\* A change of the meta directory: the path unit reacts to it when its service
\* is idle; what happens while the service runs may or may not be remembered.
Changed == wake' \in (IF pc = "idle" THEN {TRUE} ELSE {wake, TRUE})

\* A newer version of a file replaces the copy on the other side.
DeliverRequests ==
  /\ arrived < Len(out)
  /\ arrived' = Len(out)
  /\ Changed
  /\ UNCHANGED <<phone, desktop, seen, now, faults, stepped>>

DeliverStatus ==
  /\ seen < Len(status)
  /\ seen' = Len(status)
  /\ UNCHANGED <<phone, desktop, arrived, wake, now, faults, stepped>>

\* Anything else that is written there, the daily cycle's manifest at the least.
MetaTouched ==
  /\ ~wake /\ Changed
  /\ UNCHANGED <<phone, desktop, arrived, seen, now, faults, stepped>>

ClockStepsBack ==
  /\ Fault
  /\ now > 1 /\ now' = now - 1
  /\ stepped' = TRUE
  /\ UNCHANGED <<phone, desktop, arrived, seen, wake>>
-----------------------------------------------------------------------------
(* The dispatcher.                                                         *)

TerminalIn(s) == {s[k].id : k \in {j \in 1..Len(s) : s[j].state \in Terminal}}

\* download_cmd_main under its own lock; load_terminal_ids stops at a read error
\* and goes on with what it has; scan_request_file opens the file from 0.
Start ==
  /\ pc = "idle" /\ wake
  /\ wake' = FALSE
  /\ pc' = "scan"
  /\ pos' = 0 /\ upto' = arrived
  /\ \E n \in 0..Len(status) :
       LET missed == TerminalIn(status) \ TerminalIn(SubSeq(status, 1, n)) IN
         /\ IF n = Len(status) THEN UNCHANGED faults ELSE Fault
         /\ done' = TerminalIn(SubSeq(status, 1, n))
         /\ fetched' = [i \in Requests |-> IF i \in missed THEN 0 ELSE fetched[i]]
  /\ UNCHANGED <<phone, status, torn, arrived, seen, now, stepped>>

\* The configuration, the meta directory or flacget is missing.
StartFails ==
  /\ pc = "idle" /\ wake
  /\ Fault
  /\ wake' = FALSE
  /\ UNCHANGED <<phone, desktop, arrived, seen, now, stepped>>

Skip ==
  /\ pc = "scan" /\ pos < upto
  /\ out[pos + 1] \in done
  /\ pos' = pos + 1
  /\ UNCHANGED <<phone, status, torn, pc, upto, done, fetched, arrived, seen, wake, now,
                 faults, stepped>>

\* status_append takes the time and writes the line; behind a fragment it is
\* glued to it and parses nowhere; a write that fails may leave a fragment.
\* Its result is ignored.  Only the order of the times of one request matters, so
\* the clock moves, if it does, before an outcome.
StatusAppend(i, state) ==
  \/ /\ now' \in {now} \cup (IF state \in Terminal THEN {now + 1} ELSE {})
     /\ now' <= MaxTs
     /\ status' = IF torn THEN status
                          ELSE Append(status, [id |-> i, state |-> state, ts |-> now'])
     /\ torn' = FALSE
     /\ UNCHANGED faults
  \/ /\ Fault
     /\ torn' \in {torn, TRUE}
     /\ UNCHANGED <<status, now>>

\* Mutant: the set of finished ids is not consulted.
RunFlacgetAgain ==
  /\ pc = "scan" /\ pos < upto
  /\ StatusAppend(out[pos + 1], "running")
  /\ fetched' = [fetched EXCEPT ![out[pos + 1]] = @ + 1]
  /\ pc' = "exec"
  /\ Changed
  /\ UNCHANGED <<phone, pos, upto, done, arrived, seen, stepped>>

\* handle_request_line, up to the fork.
RunFlacget ==
  /\ pc = "scan" /\ pos < upto
  /\ out[pos + 1] \notin done
  /\ StatusAppend(out[pos + 1], "running")
  /\ fetched' = [fetched EXCEPT ![out[pos + 1]] = @ + 1]
  /\ pc' = "exec"
  /\ Changed
  /\ UNCHANGED <<phone, pos, upto, done, arrived, seen, stepped>>

\* flacget has exited, with 0 or not; a fork that failed counts as not.
Outcome(i) == IF i \in Failing THEN "error" ELSE "done"

Finish ==
  /\ pc = "exec"
  /\ StatusAppend(out[pos + 1], Outcome(out[pos + 1]))
  /\ fetched' = [fetched EXCEPT ![out[pos + 1]] = IF status' = status THEN 0 ELSE @]
  /\ done' = done \cup {out[pos + 1]}
  /\ pos' = pos + 1
  /\ pc' = "scan"
  /\ Changed
  /\ UNCHANGED <<phone, upto, arrived, seen, stepped>>

Exit ==
  /\ pc = "scan" /\ pos = upto
  /\ pc' = "idle"
  /\ pos' = 0 /\ upto' = 0 /\ done' = {}
  /\ UNCHANGED <<phone, status, torn, fetched, arrived, seen, wake, now, faults, stepped>>

\* The dispatcher is killed; what flacget was fetching has no outcome.
DispatcherKilled ==
  /\ pc # "idle"
  /\ Fault
  /\ pc' = "idle"
  /\ pos' = 0 /\ upto' = 0 /\ done' = {}
  /\ fetched' = IF pc = "exec" THEN [fetched EXCEPT ![out[pos + 1]] = 0] ELSE fetched
  /\ UNCHANGED <<phone, status, torn, arrived, seen, wake, now, stepped>>

Dispatch == Start \/ Skip \/ RunFlacget \/ Finish \/ Exit
-----------------------------------------------------------------------------
Next ==
  \/ \E c \in Coroutines : Resume(c)
  \/ \E c \in Pollers : Poll(c)
  \/ \E c \in Writers, q \in Queries : Submit(c, q) \/ Share(c, q)
  \/ AppKilled
  \/ DeliverRequests \/ DeliverStatus \/ MetaTouched \/ ClockStepsBack
  \/ Dispatch \/ StartFails \/ DispatcherKilled

\* Started coroutines go on; the download section is looked at; files are
\* delivered; the meta directory changes again and again; the dispatcher runs.
Fairness == /\ \A c \in Coroutines : WF_vars(Resume(c))
            /\ \A c \in Pollers : WF_vars(Poll(c))
            /\ WF_vars(DeliverRequests) /\ WF_vars(DeliverStatus)
            /\ WF_vars(MetaTouched) /\ WF_vars(Dispatch)

Spec == Init /\ [][Next]_vars /\ Fairness
-----------------------------------------------------------------------------
(* Properties                                                              *)

TypeOK ==
  /\ rows \in [Requests -> DownloadRow]
  /\ at \in [Coroutines -> {"idle", "insert", "drain", "append", "mark", "poll"}]
  /\ want \in [Coroutines -> Queries]
  /\ todo \in [Coroutines -> SUBSET Requests]
  /\ unread \in [Coroutines -> Seq(Line)]
  /\ out \in Seq(Requests) /\ arrived \in 0..Len(out)
  /\ status \in Seq(Line) /\ seen \in 0..Len(status)
  /\ cut \in BOOLEAN /\ lost \subseteq Requests
  /\ torn \in BOOLEAN /\ wake \in BOOLEAN /\ stepped \in BOOLEAN
  /\ pc \in {"idle", "scan", "exec"}
  /\ upto \in 0..arrived /\ pos \in 0..upto
  /\ pc = "exec" => pos < upto
  /\ done \in SUBSET Requests
  /\ now \in 1..MaxTs /\ faults \in 0..MaxFaults
  /\ fetched \in [Requests -> Nat]

Sent == {out[k] : k \in 1..Len(out)}

\* A row that shows more than "pending" has its line in the request file,
\* however many drains and polls overlap, and whatever fails, stops short or is
\* killed -- unless appendLine reported a line that it had not written or had
\* glued to a fragment (DownloadsWriter.drain, markQueued, updateStatus).
ShownIsSent ==
  \A i \in Made : rows[i].state # "pending" \/ rows[i].synced => i \in Sent \cup lost

\* flacget is started a second time for a request only when the outcome of the
\* first was lost: killed before the line, a write that failed or hit a
\* fragment, a status file that could not be read to its end.  Duplicate request
\* lines, redelivery and new passes cost nothing (load_terminal_ids, idset_add).
RefetchedOnlyWhenLost == \A i \in Requests : fetched[i] <= 1

\* Why the first holds: what the desktop and the polls know of was sent, and a
\* request about to be marked has just been appended, or is among the lost.
SentInv ==
  /\ ShownIsSent
  /\ \A k \in 1..Len(status) : status[k].id \in Sent
  /\ \A c \in Coroutines : \A k \in 1..Len(unread[c]) : unread[c][k].id \in Sent
  /\ \A c \in Coroutines, i \in Requests : at[c] = "mark" /\ Oldest(c, i) => i \in Sent \cup lost

Running(i) == pc = "exec" /\ out[pos + 1] = i

\* Why the second holds: a start whose outcome is not lost is under way or has its
\* line, and then the running pass knows it.
FetchInv ==
  /\ RefetchedOnlyWhenLost
  /\ \A i \in Requests : Running(i) => i \notin done
  /\ \A i \in Requests : fetched[i] = 1 =>
       Running(i) \/ (i \in TerminalIn(status) /\ (pc = "idle" \/ i \in done))

IInv == TypeOK /\ SentInv /\ FetchInv

\* Every request whose line is in the file gets an outcome and the phone shows it,
\* although the path unit may miss what arrives while the service runs, either
\* process may be killed, and several lines may carry the same millisecond --
\* unless the desktop's clock was set back (download_run, nocturne-download.path,
\* poll).  A row in `lost` has no line: it shows "queued" and stays so.
SentIsAnswered == \A i \in Requests : i \in Sent ~> rows[i].state \in Terminal \/ stepped
=============================================================================
