-------------------------- MODULE DownloadsProofs --------------------------
(***************************************************************************)
(* For any number of requests, lines, coroutines and faults: what the      *)
(* phone shows as more than pending was sent, and flacget runs a second    *)
(* time only for a request whose outcome was lost.                         *)
(***************************************************************************)
EXTENDS Downloads, SequenceTheorems, TLAPS

\* status_append adds one line for its id or none.
LEMMA StatusAppendEffect ==
  ASSUME TypeOK, NEW i \in Requests, NEW state \in Terminal \cup {"running"},
         StatusAppend(i, state)
  PROVE  /\ status' \in Seq(Line)
         /\ \/ status' = status
            \/ status' = Append(status, [id |-> i, state |-> state, ts |-> now'])
         /\ Len(status) <= Len(status')
         /\ torn' \in BOOLEAN /\ now' \in 1..MaxTs /\ faults' \in 0..MaxFaults
<1>1. CASE /\ now' \in {now} \cup (IF state \in Terminal THEN {now + 1} ELSE {})
           /\ now' <= MaxTs
           /\ status' = IF torn THEN status
                          ELSE Append(status, [id |-> i, state |-> state, ts |-> now'])
           /\ torn' = FALSE /\ UNCHANGED faults
  <2>1. now' \in 1..MaxTs
    BY <1>1, BoundsAssumption DEF TypeOK
  <2>2. [id |-> i, state |-> state, ts |-> now'] \in Line
    BY <2>1 DEF Line
  <2>3. /\ status' \in Seq(Line) /\ Len(status) <= Len(status')
        /\ \/ status' = status
           \/ status' = Append(status, [id |-> i, state |-> state, ts |-> now'])
    <3>1. CASE torn
      BY <1>1, <3>1 DEF TypeOK
    <3>2. CASE ~torn
      BY <1>1, <3>2, <2>2 DEF TypeOK
    <3> QED BY <3>1, <3>2
  <2>4. torn' \in BOOLEAN /\ faults' \in 0..MaxFaults
    BY <1>1 DEF TypeOK
  <2> QED BY <2>1, <2>3, <2>4
<1>2. CASE Fault /\ torn' \in {torn, TRUE} /\ UNCHANGED <<status, now>>
  <2>1. faults' \in 0..MaxFaults
    BY <1>2, BoundsAssumption DEF TypeOK, Fault
  <2>2. Len(status) \in Nat
    BY DEF TypeOK
  <2>3. torn' \in BOOLEAN
    BY <1>2 DEF TypeOK
  <2>4. status' \in Seq(Line) /\ now' \in 1..MaxTs /\ status' = status
    BY <1>2 DEF TypeOK
  <2> QED BY <2>1, <2>2, <2>3, <2>4
<1> QED BY <1>1, <1>2 DEF StatusAppend

\* The line under the dispatcher is a request that has arrived.
LEMMA CurrentLine ==
  ASSUME TypeOK, pos < upto
  PROVE  pos + 1 \in 1..Len(out) /\ out[pos + 1] \in Requests /\ pos + 1 \in 0..upto
BY DEF TypeOK

LEMMA OutcomeType == \A i : Outcome(i) \in Terminal
BY DEF Outcome, Terminal

\* What an append does to the request file: one line for its id or none.
LEMMA AppendEffect ==
  ASSUME TypeOK, NEW c \in Coroutines, NEW i \in Requests,
         AppendRequest(c, i) \/ AppendFails(c, i)
  PROVE  /\ out' = out \/ out' = Append(out, i)
         /\ out' \in Seq(Requests) /\ Len(out) <= Len(out')
         /\ Sent \subseteq Sent' /\ (out' # out => i \in Sent')
         /\ \A k \in 1..Len(out) : out'[k] = out[k]
         /\ cut' \in BOOLEAN /\ faults' \in 0..MaxFaults
         /\ lost' \subseteq Requests /\ lost \subseteq lost'
<1>1. out' = out \/ out' = Append(out, i)
  BY DEF AppendRequest, AppendFails, AppendFaulty, WriteLine
<1>2. cut' \in BOOLEAN
  BY DEF AppendRequest, AppendFails, AppendFaulty, WriteLine, TypeOK
<1>3. faults' \in 0..MaxFaults
  <2>1. faults' = faults \/ Fault
    BY DEF AppendRequest, AppendFails, AppendFaulty
  <2> QED BY <2>1, BoundsAssumption DEF Fault, TypeOK
<1>4. lost' \subseteq Requests /\ lost \subseteq lost'
  BY DEF AppendRequest, AppendFails, AppendFaulty, TypeOK
<1>5. out \in Seq(Requests) /\ Len(out) \in Nat
  BY DEF TypeOK
<1>6. CASE out' = out
  BY <1>2, <1>3, <1>4, <1>5, <1>6 DEF Sent
<1>7. CASE out' = Append(out, i)
  <2>1. /\ out' \in Seq(Requests)
        /\ Len(out') = Len(out) + 1 /\ out'[Len(out) + 1] = i
        /\ \A k \in 1..Len(out) : out'[k] = out[k]
    BY <1>5, <1>7
  <2>2. Sent \subseteq Sent' /\ i \in Sent'
    BY <2>1, <1>5 DEF Sent
  <2> QED BY <1>2, <1>3, <1>4, <1>5, <1>7, <2>1, <2>2
<1> QED BY <1>1, <1>6, <1>7

\* The initial states satisfy the invariant.
LEMMA InitInv == Init => IInv
<1> SUFFICES ASSUME Init PROVE IInv OBVIOUS
<1>1. PICK q \in Queries : rows = [i \in Requests |-> NoRow(q)]
  BY DEF Init
<1>2. TypeOK
  <2>1. rows \in [Requests -> DownloadRow]
    BY <1>1, BoundsAssumption DEF NoRow, DownloadRow
  <2>2. /\ at \in [Coroutines -> {"idle", "insert", "drain", "append", "mark", "poll"}]
        /\ want \in [Coroutines -> Queries]
        /\ todo \in [Coroutines -> SUBSET Requests]
        /\ unread \in [Coroutines -> Seq(Line)]
    <3>1. want \in [Coroutines -> Queries]
      BY DEF Init
    <3> QED BY <3>1 DEF Init
  <2>3. /\ out \in Seq(Requests) /\ arrived \in 0..Len(out)
        /\ status \in Seq(Line) /\ seen \in 0..Len(status)
        /\ upto \in 0..arrived /\ pos \in 0..upto /\ fetched \in [Requests -> Nat]
    BY DEF Init
  <2>4. /\ cut \in BOOLEAN /\ lost \subseteq Requests
        /\ torn \in BOOLEAN /\ wake \in BOOLEAN /\ stepped \in BOOLEAN
        /\ pc \in {"idle", "scan", "exec"} /\ (pc = "exec" => pos < upto)
        /\ done \in SUBSET Requests
    BY DEF Init
  <2>5. now \in 1..MaxTs /\ faults \in 0..MaxFaults
    BY BoundsAssumption DEF Init
  <2> QED BY <2>1, <2>2, <2>3, <2>4, <2>5 DEF TypeOK
<1>3. SentInv
  <2>1. Made = {}
    BY <1>1 DEF Made, NoRow
  <2> QED BY <2>1 DEF Init, SentInv, ShownIsSent
<1>4. FetchInv
  BY <1>1 DEF Init, FetchInv, RefetchedOnlyWhenLost, Running
<1> QED BY <1>2, <1>3, <1>4 DEF IInv
-----------------------------------------------------------------------------
(* Types.                                                                  *)

\* The coroutines' steps keep the types.
LEMMA PhoneType ==
  ASSUME TypeOK, NEW c \in Coroutines, Resume(c)
  PROVE  TypeOK'
<1> USE DEF phone, file, desktop, Goto
<1>1. CASE Insert(c)
  <2>1. CASE Made = Requests
    BY <1>1, <2>1 DEF TypeOK, Insert
  <2>2. CASE Made # Requests
    <3>1. PICK i \in Requests :
            rows' = [rows EXCEPT ![i] = [state |-> "pending", synced |-> FALSE,
                                         upd |-> 0, query |-> want[c]]]
      BY <1>1, <2>2 DEF Insert
    <3>2. want[c] \in Queries
      BY DEF TypeOK
    <3>3. [state |-> "pending", synced |-> FALSE, upd |-> 0, query |-> want[c]] \in DownloadRow
      BY <3>2, BoundsAssumption DEF DownloadRow, InFlight
    <3>4. rows' \in [Requests -> DownloadRow]
      BY <3>1, <3>3 DEF TypeOK
    <3> QED BY <1>1, <2>2, <3>4 DEF TypeOK, Insert
  <2> QED BY <2>1, <2>2
<1>2. CASE Snapshot(c)
  BY <1>2 DEF TypeOK, Snapshot, Made
<1>3. CASE DrainDone(c)
  BY <1>3 DEF TypeOK, DrainDone
<1>4. CASE PollDone(c)
  BY <1>4 DEF TypeOK, PollDone
<1>5. CASE ApplyLine(c)
  <2> DEFINE line == Head(unread[c])
             row  == rows[line.id]
             new  == IF Applies(line, row)
                       THEN [row EXCEPT !.state = line.state, !.upd = line.ts] ELSE row
  <2>1. unread[c] \in Seq(Line) /\ unread[c] # <<>>
    BY <1>5 DEF ApplyLine, TypeOK
  <2>2. line \in Line /\ Tail(unread[c]) \in Seq(Line)
    BY <2>1
  <2>3. line.id \in Requests /\ line.state \in Terminal \cup {"running"} /\ line.ts \in 1..MaxTs
    BY <2>2 DEF Line
  <2>4. row \in DownloadRow
    BY <2>3 DEF TypeOK
  <2>5. new \in DownloadRow
    <3>1. line.ts \in 0..MaxTs /\ line.state \in InFlight \cup Terminal \cup {"none"}
      BY <2>3, BoundsAssumption DEF InFlight
    <3> HIDE DEF row, line
    <3>2. [row EXCEPT !.state = line.state, !.upd = line.ts] \in DownloadRow
      BY <2>4, <3>1 DEF DownloadRow
    <3> QED BY <2>4, <3>2
  <2>6. rows' = [rows EXCEPT ![line.id] = new]
    BY <1>5 DEF ApplyLine
  <2>7. rows' \in [Requests -> DownloadRow]
    BY <2>5, <2>6 DEF TypeOK
  <2>8. unread' \in [Coroutines -> Seq(Line)]
    BY <1>5, <2>2 DEF ApplyLine, TypeOK
  <2> QED BY <1>5, <2>7, <2>8 DEF ApplyLine, TypeOK
<1>6. ASSUME NEW i \in Requests, AppendRequest(c, i) PROVE TypeOK'
  <2>1. /\ out' \in Seq(Requests) /\ Len(out) <= Len(out')
        /\ cut' \in BOOLEAN /\ faults' \in 0..MaxFaults /\ lost' \subseteq Requests
    BY <1>6, AppendEffect
  <2>2. arrived \in 0..Len(out')
    BY <2>1 DEF TypeOK
  <2> QED BY <1>6, <2>1, <2>2 DEF TypeOK, AppendRequest
<1>7. ASSUME NEW i \in Requests, AppendFails(c, i) PROVE TypeOK'
  <2>1. /\ out' \in Seq(Requests) /\ Len(out) <= Len(out')
        /\ cut' \in BOOLEAN /\ faults' \in 0..MaxFaults /\ lost' \subseteq Requests
    BY <1>7, AppendEffect
  <2>2. arrived \in 0..Len(out')
    BY <2>1 DEF TypeOK
  <2> QED BY <1>7, <2>1, <2>2 DEF TypeOK, AppendFails
<1>8. ASSUME NEW i \in Requests, MarkQueued(c, i) PROVE TypeOK'
  <2> DEFINE new == IF rows[i].state = "pending"
                      THEN [rows[i] EXCEPT !.synced = TRUE, !.state = "queued"] ELSE rows[i]
  <2>1. rows[i] \in DownloadRow
    BY DEF TypeOK
  <2>2. new \in DownloadRow
    BY <2>1 DEF DownloadRow, InFlight
  <2>3. rows' = [rows EXCEPT ![i] = new]
    BY <1>8 DEF MarkQueued
  <2>4. rows' \in [Requests -> DownloadRow]
    BY <2>2, <2>3 DEF TypeOK
  <2> QED BY <1>8, <2>4 DEF TypeOK, MarkQueued
<1> QED BY <1>1, <1>2, <1>3, <1>4, <1>5, <1>6, <1>7, <1>8 DEF Resume

\* So do the dispatcher's.
LEMMA DispatchType ==
  ASSUME TypeOK, Dispatch
  PROVE  TypeOK'
<1> USE DEF phone, file, desktop
<1>1. CASE Start
  <2>1. PICK n \in 0..Len(status) :
           /\ IF n = Len(status) THEN UNCHANGED faults ELSE Fault
           /\ done' = TerminalIn(SubSeq(status, 1, n))
           /\ fetched' = [i \in Requests |->
                 IF i \in TerminalIn(status) \ TerminalIn(SubSeq(status, 1, n))
                   THEN 0 ELSE fetched[i]]
    BY <1>1 DEF Start
  <2>2. SubSeq(status, 1, n) \in Seq(Line)
    BY <2>1 DEF TypeOK
  <2>3. \A k \in 1..Len(SubSeq(status, 1, n)) : SubSeq(status, 1, n)[k].id \in Requests
    BY <2>2 DEF Line
  <2>4. done' \in SUBSET Requests
    <3>1. TerminalIn(SubSeq(status, 1, n)) \subseteq Requests
      BY <2>3 DEF TerminalIn
    <3> QED BY <2>1, <3>1
  <2>5. faults' \in 0..MaxFaults
    BY <2>1, BoundsAssumption DEF TypeOK, Fault
  <2>6. fetched' \in [Requests -> Nat]
    BY <2>1 DEF TypeOK
  <2>7. upto' \in 0..arrived' /\ pos' \in 0..upto' /\ pc' = "scan" /\ wake' = FALSE
    BY <1>1 DEF TypeOK, Start
  <2>8. UNCHANGED <<phone, status, torn, arrived, seen, now, stepped>>
    BY <1>1 DEF Start
  <2> QED BY <2>4, <2>5, <2>6, <2>7, <2>8 DEF TypeOK
<1>2. CASE Skip
  BY <1>2, CurrentLine DEF TypeOK, Skip
<1>3. CASE RunFlacget
  <2> DEFINE i == out[pos + 1]
  <2>1. i \in Requests /\ StatusAppend(i, "running")
    BY <1>3, CurrentLine DEF RunFlacget
  <2>2. /\ status' \in Seq(Line) /\ Len(status) <= Len(status')
        /\ torn' \in BOOLEAN /\ now' \in 1..MaxTs /\ faults' \in 0..MaxFaults
    BY <2>1, StatusAppendEffect
  <2>3. seen \in 0..Len(status')
    BY <2>2 DEF TypeOK
  <2>4. fetched' \in [Requests -> Nat]
    BY <1>3, <2>1 DEF TypeOK, RunFlacget
  <2>5. wake' \in BOOLEAN
    BY <1>3 DEF TypeOK, RunFlacget, Changed
  <2> QED BY <1>3, <2>2, <2>3, <2>4, <2>5 DEF TypeOK, RunFlacget
<1>4. CASE Finish
  <2> DEFINE i == out[pos + 1]
  <2>1. i \in Requests /\ StatusAppend(i, Outcome(i)) /\ pos' \in 0..upto
    BY <1>4, CurrentLine DEF Finish, TypeOK
  <2>2. /\ status' \in Seq(Line) /\ Len(status) <= Len(status')
        /\ torn' \in BOOLEAN /\ now' \in 1..MaxTs /\ faults' \in 0..MaxFaults
    <3> HIDE DEF i
    <3> QED BY <2>1, StatusAppendEffect, OutcomeType
  <2>3. seen \in 0..Len(status')
    BY <2>2 DEF TypeOK
  <2>4. fetched' \in [Requests -> Nat]
    BY <1>4, <2>1 DEF TypeOK, Finish
  <2>5. wake' \in BOOLEAN
    BY <1>4 DEF TypeOK, Finish, Changed
  <2>6. done' \in SUBSET Requests
    BY <1>4, <2>1 DEF TypeOK, Finish
  <2> QED BY <1>4, <2>1, <2>2, <2>3, <2>4, <2>5, <2>6 DEF TypeOK, Finish
<1>5. CASE Exit
  BY <1>5 DEF TypeOK, Exit
<1> QED BY <1>1, <1>2, <1>3, <1>4, <1>5 DEF Dispatch

\* And every other step.
LEMMA TypePreserved ==
  ASSUME TypeOK, [Next]_vars
  PROVE  TypeOK'
<1> USE DEF phone, file, desktop
<1>1. ASSUME NEW c \in Coroutines, Resume(c) PROVE TypeOK'
  BY <1>1, PhoneType
<1>2. ASSUME NEW c \in Pollers, Poll(c) PROVE TypeOK'
  <2>1. SubSeq(status, 1, seen) \in Seq(Line)
    BY DEF TypeOK
  <2>2. unread' \in [Coroutines -> Seq(Line)]
    BY <1>2, <2>1 DEF TypeOK, Poll
  <2> QED BY <1>2, <2>2 DEF TypeOK, Poll, Goto
<1>3. ASSUME NEW c \in Writers, NEW q \in Queries, Submit(c, q) \/ Share(c, q) PROVE TypeOK'
  BY <1>3 DEF TypeOK, Submit, Share, Goto
<1>4. CASE AppKilled
  <2>1. faults' \in 0..MaxFaults
    BY <1>4, BoundsAssumption DEF TypeOK, AppKilled, Fault
  <2>2. unread' \in [Coroutines -> Seq(Line)]
    BY <1>4 DEF AppKilled
  <2> QED BY <1>4, <2>1, <2>2 DEF TypeOK, AppKilled
<1>5. CASE DeliverRequests
  <2>1. arrived' \in 0..Len(out) /\ upto \in 0..arrived'
    BY <1>5 DEF TypeOK, DeliverRequests
  <2> QED BY <1>5, <2>1 DEF TypeOK, DeliverRequests, Changed
<1>6. CASE DeliverStatus
  <2>1. seen' \in 0..Len(status)
    BY <1>6 DEF TypeOK, DeliverStatus
  <2> QED BY <1>6, <2>1 DEF TypeOK, DeliverStatus
<1>7. CASE MetaTouched
  BY <1>7 DEF TypeOK, MetaTouched, Changed
<1>8. CASE ClockStepsBack
  <2>1. faults' \in 0..MaxFaults /\ now' \in 1..MaxTs
    BY <1>8, BoundsAssumption DEF TypeOK, ClockStepsBack, Fault
  <2> QED BY <1>8, <2>1 DEF TypeOK, ClockStepsBack
<1>9. CASE Dispatch
  BY <1>9, DispatchType
<1>10. CASE StartFails
  <2>1. faults' \in 0..MaxFaults
    BY <1>10, BoundsAssumption DEF TypeOK, StartFails, Fault
  <2> QED BY <1>10, <2>1 DEF TypeOK, StartFails
<1>11. CASE DispatcherKilled
  <2>1. faults' \in 0..MaxFaults
    BY <1>11, BoundsAssumption DEF TypeOK, DispatcherKilled, Fault
  <2>2. fetched' \in [Requests -> Nat]
    BY <1>11 DEF TypeOK, DispatcherKilled
  <2> QED BY <1>11, <2>1, <2>2 DEF TypeOK, DispatcherKilled
<1>12. CASE UNCHANGED vars
  BY <1>12 DEF TypeOK, vars
<1> QED BY <1>1, <1>2, <1>3, <1>4, <1>5, <1>6, <1>7, <1>8, <1>9, <1>10, <1>11, <1>12 DEF Next
-----------------------------------------------------------------------------
(* What is shown was sent.                                                 *)

\* A step that leaves the request file, the rows, the polls and the status file
\* alone, and starts no mark, keeps SentInv.
LEMMA SentFrame ==
  ASSUME SentInv, UNCHANGED <<rows, unread, out, lost, status>>,
         \A d \in Coroutines : at'[d] = "mark" => at[d] = "mark" /\ todo'[d] = todo[d]
  PROVE  SentInv'
<1>1. Sent' = Sent /\ Made' = Made
  BY DEF Sent, Made
<1>2. ShownIsSent'
  BY <1>1 DEF SentInv, ShownIsSent
<1>3. \A d \in Coroutines, i \in Requests : at'[d] = "mark" /\ Oldest(d, i)' => i \in Sent \cup lost
  BY DEF SentInv, Oldest
<1> QED BY <1>1, <1>2, <1>3 DEF SentInv

\* The coroutines' steps keep SentInv: only an append leads to a mark.
LEMMA PhoneSent ==
  ASSUME TypeOK, SentInv, NEW c \in Coroutines, Resume(c)
  PROVE  SentInv'
<1> USE DEF phone, file, desktop, Goto
<1>1. CASE Insert(c)
  <2>1. CASE Made = Requests
    BY <1>1, <2>1, SentFrame DEF TypeOK, Insert
  <2>2. CASE Made # Requests
    <3>1. PICK i \in Requests :
            /\ rows' = [rows EXCEPT ![i] = [state |-> "pending", synced |-> FALSE,
                                            upd |-> 0, query |-> want[c]]]
      BY <1>1, <2>2 DEF Insert
    <3>2. /\ UNCHANGED <<todo, unread, out, lost, status>>
          /\ \A d \in Coroutines : at'[d] = "mark" => at[d] = "mark"
      BY <1>1, <2>2 DEF TypeOK, Insert
    <3>3. \A j \in Requests : rows'[j] = IF j = i
            THEN [state |-> "pending", synced |-> FALSE, upd |-> 0, query |-> want[c]]
            ELSE rows[j]
      BY <3>1 DEF TypeOK
    <3> QED BY <3>2, <3>3 DEF SentInv, ShownIsSent, Made, Sent, Oldest
  <2> QED BY <2>1, <2>2
<1>2. CASE Snapshot(c)
  BY <1>2, SentFrame DEF TypeOK, Snapshot
<1>3. CASE DrainDone(c)
  BY <1>3, SentFrame DEF TypeOK, DrainDone
<1>4. CASE PollDone(c)
  BY <1>4, SentFrame DEF TypeOK, PollDone
<1>5. CASE ApplyLine(c)
  <2> DEFINE line == Head(unread[c])
  <2>1. unread[c] \in Seq(Line) /\ unread[c] # <<>>
    BY <1>5 DEF ApplyLine, TypeOK
  <2>2. line = unread[c][1] /\ 1 \in 1..Len(unread[c])
    BY <2>1
  <2>3. line.id \in Sent
    BY <2>2 DEF SentInv
  <2>4. /\ UNCHANGED <<todo, at, out, lost, status>>
        /\ \A j \in Requests : j # line.id => rows'[j] = rows[j]
        /\ \A j \in Requests : rows[j].state = "none" => rows'[j].state = "none"
    BY <1>5 DEF TypeOK, ApplyLine, Applies
  <2>5. \A k \in 1..Len(Tail(unread[c])) : Tail(unread[c])[k].id \in Sent
    <3>1. \A k \in 1..Len(Tail(unread[c])) :
            Tail(unread[c])[k] = unread[c][k + 1] /\ k + 1 \in 1..Len(unread[c])
      BY <2>1
    <3> QED BY <3>1 DEF SentInv
  <2>6. \A d \in Coroutines : unread'[d] = IF d = c THEN Tail(unread[c]) ELSE unread[d]
    BY <1>5 DEF ApplyLine, TypeOK
  <2>7. ShownIsSent'
    BY <2>3, <2>4 DEF SentInv, ShownIsSent, Made, Sent
  <2>8. \A d \in Coroutines : \A k \in 1..Len(unread'[d]) : unread'[d][k].id \in Sent
    BY <2>5, <2>6 DEF SentInv
  <2> QED BY <2>4, <2>7, <2>8 DEF SentInv, Sent, Oldest
<1>6. ASSUME NEW i \in Requests, AppendRequest(c, i) PROVE SentInv'
  <2>1. Sent \subseteq Sent' /\ lost \subseteq lost' /\ (out' # out => i \in Sent')
    BY <1>6, AppendEffect
  <2>2. i \in (Sent \cup lost)'
    BY <1>6, <2>1 DEF AppendRequest
  <2>3. UNCHANGED <<rows, todo, unread, status>> /\ Oldest(c, i)
    BY <1>6 DEF AppendRequest
  <2>4. \A d \in Coroutines : d # c => at'[d] = at[d]
    BY <1>6 DEF AppendRequest, TypeOK
  <2>5. \A j \in Requests : Oldest(c, j) => j = i
    BY <2>3, BoundsAssumption DEF Oldest, Requests
  <2>6. \A d \in Coroutines, j \in Requests :
          at'[d] = "mark" /\ Oldest(d, j)' => j \in (Sent \cup lost)'
    <3> SUFFICES ASSUME NEW d \in Coroutines, NEW j \in Requests,
                        at'[d] = "mark", Oldest(d, j)'
                 PROVE  j \in (Sent \cup lost)'
      OBVIOUS
    <3>1. Oldest(d, j)
      BY <2>3 DEF Oldest
    <3>2. CASE d = c
      BY <3>1, <3>2, <2>2, <2>5
    <3>3. CASE d # c
      BY <3>1, <3>3, <2>1, <2>4 DEF SentInv
    <3> QED BY <3>2, <3>3
  <2> QED BY <2>1, <2>3, <2>6 DEF SentInv, ShownIsSent, Made
<1>7. ASSUME NEW i \in Requests, AppendFails(c, i) PROVE SentInv'
  <2>1. at[c] # "mark" /\ at' = at
    BY <1>7 DEF AppendFails
  <2>2. \A d \in Coroutines : d # c => todo'[d] = todo[d]
    BY <1>7 DEF AppendFails, TypeOK
  <2>3. UNCHANGED <<rows, unread, status>>
    BY <1>7 DEF AppendFails
  <2>4. Sent \subseteq Sent' /\ lost \subseteq lost'
    BY <1>7, AppendEffect
  <2> QED BY <2>1, <2>2, <2>3, <2>4 DEF SentInv, ShownIsSent, Made, Oldest
<1>8. ASSUME NEW i \in Requests, MarkQueued(c, i) PROVE SentInv'
  <2>1. i \in Sent \cup lost
    BY <1>8 DEF MarkQueued, SentInv
  <2>2. /\ UNCHANGED <<unread, out, lost, status>>
        /\ \A j \in Requests : j # i => rows'[j] = rows[j]
        /\ \A d \in Coroutines : at'[d] = "mark" => d # c /\ at[d] = "mark" /\ todo'[d] = todo[d]
    BY <1>8 DEF MarkQueued, TypeOK
  <2>3. ShownIsSent'
    BY <2>1, <2>2 DEF SentInv, ShownIsSent, Made, Sent
  <2> QED BY <2>2, <2>3 DEF SentInv, Sent, Oldest
<1> QED BY <1>1, <1>2, <1>3, <1>4, <1>5, <1>6, <1>7, <1>8 DEF Resume

\* A status line is about a request that was read from the file.
LEMMA DispatchSent ==
  ASSUME TypeOK, SentInv, NEW i \in Requests, NEW state \in Terminal \cup {"running"},
         StatusAppend(i, state), i \in Sent, UNCHANGED phone
  PROVE  SentInv'
<1> USE DEF phone, file
<1>1. Sent' = Sent /\ Made' = Made /\ ShownIsSent'
  BY DEF SentInv, ShownIsSent, Sent, Made
<1>2. \A k \in 1..Len(status') : status'[k].id \in Sent
  <2>1. CASE status' = status
    BY <2>1 DEF SentInv
  <2>2. CASE status' = Append(status, [id |-> i, state |-> state, ts |-> now'])
    <3>1. status \in Seq(Line)
      BY DEF TypeOK
    <3>2. \A k \in 1..Len(status') : \/ k \in 1..Len(status) /\ status'[k] = status[k]
                                     \/ status'[k].id = i
      BY <2>2, <3>1
    <3> QED BY <3>2 DEF SentInv
  <2> QED BY <2>1, <2>2, StatusAppendEffect
<1> QED BY <1>1, <1>2 DEF SentInv, Oldest

\* Every step keeps SentInv.
LEMMA SentPreserved ==
  ASSUME TypeOK, SentInv, [Next]_vars
  PROVE  SentInv'
<1> USE DEF phone, file, desktop
<1>1. ASSUME NEW c \in Coroutines, Resume(c) PROVE SentInv'
  BY <1>1, PhoneSent
<1>2. ASSUME NEW c \in Pollers, Poll(c) PROVE SentInv'
  <2>1. \A k \in 1..Len(SubSeq(status, 1, seen)) : SubSeq(status, 1, seen)[k].id \in Sent
    <3>1. /\ Len(SubSeq(status, 1, seen)) = seen
          /\ \A k \in 1..seen : SubSeq(status, 1, seen)[k] = status[k] /\ k \in 1..Len(status)
      BY DEF TypeOK
    <3> QED BY <3>1 DEF SentInv
  <2>2. \A d \in Coroutines : \A k \in 1..Len(unread'[d]) : unread'[d][k].id \in Sent
    BY <1>2, <2>1 DEF Poll, TypeOK, SentInv
  <2>3. \A d \in Coroutines : at'[d] = "mark" => at[d] = "mark"
    BY <1>2 DEF Poll, Goto, TypeOK
  <2>4. UNCHANGED <<rows, todo, out, lost, status>>
    BY <1>2 DEF Poll
  <2> QED BY <2>2, <2>3, <2>4 DEF SentInv, ShownIsSent, Made, Sent, Oldest
<1>3. ASSUME NEW c \in Writers, NEW q \in Queries, Submit(c, q) \/ Share(c, q) PROVE SentInv'
  BY <1>3, SentFrame DEF TypeOK, Submit, Share, Goto
<1>4. CASE AppKilled
  <2>1. \A d \in Coroutines : unread'[d] = <<>> /\ at'[d] = "idle"
    BY <1>4 DEF AppKilled
  <2>2. UNCHANGED <<rows, out, lost, status>>
    BY <1>4 DEF AppKilled
  <2> QED BY <2>1, <2>2 DEF SentInv, ShownIsSent, Made, Sent
<1>5. CASE DeliverRequests \/ DeliverStatus \/ MetaTouched \/ ClockStepsBack \/ StartFails
  BY <1>5, SentFrame DEF DeliverRequests, DeliverStatus, MetaTouched, ClockStepsBack, StartFails
<1>6. CASE Start \/ Skip \/ Exit \/ DispatcherKilled
  BY <1>6, SentFrame DEF Start, Skip, Exit, DispatcherKilled
<1>7. CASE RunFlacget
  BY <1>7, CurrentLine, DispatchSent DEF RunFlacget, Sent
<1>8. CASE Finish
  <2>1. pos < upto
    BY <1>8 DEF Finish, TypeOK
  <2>2. out[pos + 1] \in Requests /\ out[pos + 1] \in Sent
    BY <2>1, CurrentLine DEF Sent
  <2>3. StatusAppend(out[pos + 1], Outcome(out[pos + 1])) /\ UNCHANGED phone
    BY <1>8 DEF Finish
  <2> QED BY <2>2, <2>3, DispatchSent, OutcomeType
<1>9. CASE UNCHANGED vars
  BY <1>9, SentFrame DEF vars
<1> QED BY <1>1, <1>2, <1>3, <1>4, <1>5, <1>6, <1>7, <1>8, <1>9 DEF Next, Dispatch
-----------------------------------------------------------------------------
(* When flacget runs again.                                                *)

\* A step that leaves the status file, the pass and the request file's lines in
\* place keeps FetchInv.
LEMMA FetchFrame ==
  ASSUME FetchInv, UNCHANGED <<status, pc, done, fetched>>,
         pc = "exec" => out'[pos' + 1] = out[pos + 1]
  PROVE  FetchInv'
BY DEF FetchInv, RefetchedOnlyWhenLost, Running, TerminalIn

\* An outcome is in the file once its line was appended, and stays there.
LEMMA TerminalAppend ==
  ASSUME TypeOK, NEW i \in Requests, NEW state \in Terminal \cup {"running"},
         StatusAppend(i, state)
  PROVE  /\ TerminalIn(status) \subseteq TerminalIn(status')
         /\ status' # status /\ state \in Terminal => i \in TerminalIn(status')
<1>1. CASE status' = status
  BY <1>1
<1>2. CASE status' = Append(status, [id |-> i, state |-> state, ts |-> now'])
  <2>1. Len(status) \in Nat /\ Len(status') = Len(status) + 1
    BY <1>2 DEF TypeOK
  <2>2. /\ \A k \in 1..Len(status) : k \in 1..Len(status') /\ status'[k] = status[k]
        /\ Len(status) + 1 \in 1..Len(status')
        /\ status'[Len(status) + 1] = [id |-> i, state |-> state, ts |-> now']
    BY <1>2, <2>1 DEF TypeOK
  <2>3. TerminalIn(status) \subseteq TerminalIn(status')
    BY <2>2 DEF TerminalIn
  <2>4. state \in Terminal => i \in TerminalIn(status')
    <3>1. ASSUME state \in Terminal PROVE i \in TerminalIn(status')
      <4>1. status'[Len(status) + 1].state \in Terminal /\ status'[Len(status) + 1].id = i
        BY <2>2, <3>1
      <4> QED BY <2>2, <4>1 DEF TerminalIn
    <3> QED BY <3>1
  <2> QED BY <2>3, <2>4
<1> QED BY <1>1, <1>2, StatusAppendEffect

\* Every step keeps FetchInv.
LEMMA FetchPreserved ==
  ASSUME TypeOK, FetchInv, [Next]_vars
  PROVE  FetchInv'
<1> USE DEF phone, file, desktop
<1>1. ASSUME NEW c \in Coroutines, NEW i \in Requests,
             AppendRequest(c, i) \/ AppendFails(c, i)
      PROVE  FetchInv'
  <2>1. UNCHANGED <<status, pc, pos, done, fetched>>
    BY <1>1 DEF AppendRequest, AppendFails
  <2>2. pc = "exec" => out'[pos' + 1] = out[pos + 1]
    BY <1>1, <2>1, CurrentLine, AppendEffect DEF TypeOK
  <2> QED BY <2>1, <2>2, FetchFrame
<1>2. ASSUME NEW c \in Coroutines, Resume(c), UNCHANGED out PROVE FetchInv'
  BY <1>1, <1>2, FetchFrame DEF Resume, Insert, Snapshot, DrainDone, ApplyLine,
       PollDone, MarkQueued
<1>3. ASSUME NEW c \in Pollers, Poll(c) PROVE FetchInv'
  BY <1>3, FetchFrame DEF Poll
<1>4. ASSUME NEW c \in Writers, NEW q \in Queries, Submit(c, q) \/ Share(c, q) PROVE FetchInv'
  BY <1>4, FetchFrame DEF Submit, Share
<1>5. CASE AppKilled \/ DeliverRequests \/ DeliverStatus \/ MetaTouched \/ ClockStepsBack
           \/ StartFails
  BY <1>5, FetchFrame DEF AppKilled, DeliverRequests, DeliverStatus, MetaTouched,
       ClockStepsBack, StartFails
<1>6. CASE Start
  <2>1. PICK n \in 0..Len(status) :
           /\ done' = TerminalIn(SubSeq(status, 1, n))
           /\ fetched' = [i \in Requests |->
                 IF i \in TerminalIn(status) \ TerminalIn(SubSeq(status, 1, n))
                   THEN 0 ELSE fetched[i]]
    BY <1>6 DEF Start
  <2>2. pc = "idle" /\ pc' = "scan" /\ status' = status
    BY <1>6 DEF Start
  <2>3. \A i \in Requests : fetched'[i] <= 1
    BY <2>1 DEF FetchInv, RefetchedOnlyWhenLost
  <2>4. \A i \in Requests : fetched'[i] = 1 => i \in TerminalIn(status) /\ i \in done'
    BY <2>1, <2>2 DEF FetchInv, Running
  <2> QED BY <2>2, <2>3, <2>4 DEF FetchInv, RefetchedOnlyWhenLost, Running
<1>7. CASE Skip
  BY <1>7 DEF Skip, FetchInv, RefetchedOnlyWhenLost, Running, TerminalIn
<1>8. CASE RunFlacget
  <2> DEFINE r == out[pos + 1]
  <2>1. r \in Requests /\ r \notin done /\ StatusAppend(r, "running")
    BY <1>8, CurrentLine DEF RunFlacget
  <2>2. TerminalIn(status) \subseteq TerminalIn(status')
    <3> HIDE DEF r
    <3> QED BY <2>1, TerminalAppend
  <2>3. pc = "scan" /\ pc' = "exec" /\ UNCHANGED <<out, pos, done>>
    BY <1>8 DEF RunFlacget
  <2>4. fetched[r] = 0
    <3>1. fetched[r] \in Nat /\ fetched[r] <= 1
      BY <2>1 DEF TypeOK, FetchInv, RefetchedOnlyWhenLost
    <3>2. fetched[r] # 1
      BY <2>1, <2>3 DEF FetchInv, Running
    <3> QED BY <3>1, <3>2
  <2>5. \A i \in Requests : fetched'[i] = IF i = r THEN 1 ELSE fetched[i]
    BY <1>8, <2>1, <2>4 DEF RunFlacget, TypeOK
  <2>6. \A i \in Requests : Running(i)' <=> i = r
    BY <2>3 DEF Running
  <2>7. \A i \in Requests : i # r /\ fetched'[i] = 1 => i \in TerminalIn(status') /\ i \in done'
    BY <2>2, <2>3, <2>5 DEF FetchInv, Running
  <2> QED BY <2>1, <2>3, <2>5, <2>6, <2>7 DEF FetchInv, RefetchedOnlyWhenLost
<1>9. CASE Finish
  <2> DEFINE r == out[pos + 1]
  <2>1. r \in Requests /\ StatusAppend(r, Outcome(r)) /\ pc = "exec"
    BY <1>9, CurrentLine DEF Finish, TypeOK
  <2>2. /\ TerminalIn(status) \subseteq TerminalIn(status')
        /\ status' # status => r \in TerminalIn(status')
    <3> HIDE DEF r
    <3> QED BY <2>1, TerminalAppend, OutcomeType
  <2>3. \A i \in Requests : fetched'[i] = IF i = r /\ status' = status THEN 0 ELSE fetched[i]
    BY <1>9, <2>1 DEF Finish, TypeOK
  <2>4. pc' = "scan" /\ done' = done \cup {r}
    BY <1>9 DEF Finish
  <2>5. \A i \in Requests : fetched'[i] = 1 => i \in TerminalIn(status') /\ i \in done'
    BY <2>1, <2>2, <2>3, <2>4 DEF FetchInv, Running
  <2>6. \A i \in Requests : fetched'[i] <= 1
    BY <2>3 DEF FetchInv, RefetchedOnlyWhenLost
  <2> QED BY <2>4, <2>5, <2>6 DEF FetchInv, RefetchedOnlyWhenLost, Running
<1>10. CASE Exit
  BY <1>10 DEF Exit, FetchInv, RefetchedOnlyWhenLost, Running, TerminalIn
<1>11. CASE DispatcherKilled
  <2>1. \A i \in Requests : fetched'[i] = IF Running(i) THEN 0 ELSE fetched[i]
    BY <1>11 DEF DispatcherKilled, TypeOK, Running
  <2>2. pc' = "idle" /\ status' = status
    BY <1>11 DEF DispatcherKilled
  <2>3. \A i \in Requests : fetched'[i] = 1 => i \in TerminalIn(status)
    BY <2>1 DEF FetchInv
  <2>4. \A i \in Requests : fetched'[i] <= 1
    BY <2>1 DEF FetchInv, RefetchedOnlyWhenLost
  <2> QED BY <2>2, <2>3, <2>4 DEF FetchInv, RefetchedOnlyWhenLost, Running
<1>12. CASE UNCHANGED vars
  BY <1>12, FetchFrame DEF vars
<1>13. ASSUME NEW c \in Coroutines, Resume(c) PROVE FetchInv'
  BY <1>1, <1>2, <1>13 DEF Resume, Insert, Snapshot, DrainDone, ApplyLine, PollDone,
       MarkQueued
<1> QED BY <1>3, <1>4, <1>5, <1>6, <1>7, <1>8, <1>9, <1>10, <1>11, <1>12, <1>13
        DEF Next, Dispatch
-----------------------------------------------------------------------------
(* The theorems.                                                           *)

\* The invariant of both files and their readers (download.c, DownloadsWriter,
\* DownloadStatusReader).
THEOREM DownloadsInvariant == Spec => []IInv
<1>1. Init => IInv
  BY InitInv
<1>2. IInv /\ [Next]_vars => IInv'
  BY TypePreserved, SentPreserved, FetchPreserved DEF IInv
<1> QED BY <1>1, <1>2, PTL DEF Spec

\* What the phone shows as more than pending is in the request file, however its
\* drains and polls overlap (DownloadsWriter.drain, markQueued, updateStatus).
THEOREM ShownIsSentHolds == Spec => []ShownIsSent
<1>1. IInv => ShownIsSent
  BY DEF IInv, SentInv
<1> QED BY <1>1, DownloadsInvariant, PTL

\* No request is fetched again unless the outcome of its fetch was lost
\* (handle_request_line, load_terminal_ids).
THEOREM RefetchedOnlyWhenLostHolds == Spec => []RefetchedOnlyWhenLost
<1>1. IInv => RefetchedOnlyWhenLost
  BY DEF IInv, FetchInv
<1> QED BY <1>1, DownloadsInvariant, PTL
=============================================================================
