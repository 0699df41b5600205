---------------------------- MODULE JsonlStream ----------------------------
(***************************************************************************)
(* One JSONL stream from the phone to the daemon's database: the phone     *)
(* appends lines to its file, Syncthing carries versions of the file to    *)
(* the desktop, and each ingest pass reads on from the byte offset it has  *)
(* stored (src/nocturned/ingest.c: ingest_one_file, and jsonl.c).          *)
(*                                                                         *)
(* A file is a sequence of bytes; a byte <<l, k>> is the k-th byte of line *)
(* l and <<l, 0>> is the newline that ends it.  What a line says does not  *)
(* matter here, only whether the handler accepts it.                       *)
(***************************************************************************)
EXTENDS Naturals, Sequences, FiniteSets

CONSTANTS Lines,     \* the lines the phone may write, each at most once
          Width,     \* Width[l]: the bytes of l before its newline
          Rejected,  \* lines that a handler refuses (bad field, unknown track)
          JSONL_MAX_LINE,
          MaxBytes,  \* bound: bytes in the phone's file
          MaxResets, \* bound: how often the file is reset or shrinks
          MaxFails   \* bound: how often a pass fails or is killed

ASSUME StreamAssumption ==
  /\ Width \in [Lines -> Nat \ {0}]
  /\ Rejected \subseteq Lines
  /\ JSONL_MAX_LINE \in Nat
  /\ MaxBytes \in Nat
  /\ MaxResets \in Nat /\ MaxFails \in Nat

VARIABLES src,      \* the phone's file
          used,     \* lines the phone has tried to write
          dst,      \* the version of the file on the desktop
          resets,   \* how often the file was reset or shrank
          stored,   \* the row of ingest_offsets for this file, 0 if none
          applied,  \* events processed and committed, in order
          pc,       \* ingest_one_file: "idle", "checked" or "reading"
          snap,     \* the version of the file it has open
          start,    \* old_offset
          off,      \* the reader's offset
          fails,    \* how often a pass failed or was killed
          pending   \* events processed by the open transaction
phone  == <<src, used>>
pass   == <<pc, snap, start, off, pending, fails>>
vars == <<src, used, dst, resets, stored, applied, pass>>

Bytes == {<<l, k>> : l \in Lines, k \in 0..MaxBytes}

\* Types, and no pass leaves its file open or its transaction behind
\* (jsonl_close, ROLLBACK and COMMIT at the end of ingest_one_file).
TypeOK == /\ src \in Seq(Bytes) /\ dst \in Seq(Bytes) /\ snap \in Seq(Bytes)
          /\ used \subseteq Lines
          /\ resets \in 0..MaxResets /\ fails \in 0..MaxFails
          /\ stored \in Nat /\ start \in Nat /\ off \in Nat
          /\ applied \in Seq(Lines) /\ pending \in Seq(Lines)
          /\ pc \in {"idle", "checked", "reading"}
          /\ pc # "reading" => snap = <<>> /\ off = 0 /\ pending = <<>>

Init == /\ src = <<>> /\ dst = <<>> /\ snap = <<>>
        /\ used = {}
        /\ resets = 0 /\ fails = 0
        /\ stored = 0 /\ start = 0 /\ off = 0
        /\ applied = <<>> /\ pending = <<>>
        /\ pc = "idle"
-----------------------------------------------------------------------------
(* The phone (JsonlFileWriter.appendLine) and Syncthing.                   *)

Encode(l) == [k \in 1..(Width[l] + 1) |->
                IF k > Width[l] THEN <<l, 0>> ELSE <<l, k>>]

IsNewline(b) == b[2] = 0

Extends(f, g) == Len(f) >= Len(g) /\ \A i \in 1..Len(g) : f[i] = g[i]

\* The line and its newline are written and synced; or the write stops short
\* (IOException) and the next line lands right behind the fragment.
AppendLine(l) ==
  /\ l \notin used
  /\ used' = used \cup {l}
  /\ \E n \in 1..Len(Encode(l)) :
       /\ src' = src \o SubSeq(Encode(l), 1, n)
  /\ Len(src') <= MaxBytes
  /\ UNCHANGED <<dst, resets, stored, applied, pass>>

\* Syncthing brings a newer version: a longer prefix of the phone's file, cut
\* anywhere (docs/jsonl-spec.md section 10), replacing the file by a rename.
Deliver ==
  /\ \E n \in 0..Len(src) :
       /\ Extends(src, dst) => n > Len(dst)
       /\ dst' = SubSeq(src, 1, n)
  /\ UNCHANGED <<phone, resets, stored, applied, pass>>

\* The app is reinstalled with its device id and starts an empty file.
Reinstall ==
  /\ resets < MaxResets /\ src # <<>>
  /\ resets' = resets + 1
  /\ src' = <<>>
  /\ UNCHANGED <<used, dst, stored, applied, pass>>

\* An older version comes back on the desktop (Syncthing conflict).
Shrink ==
  /\ resets < MaxResets
  /\ resets' = resets + 1
  /\ \E n \in 0..(Len(dst) - 1) : dst' = SubSeq(dst, 1, n)
  /\ UNCHANGED <<phone, stored, applied, pass>>
-----------------------------------------------------------------------------
(* The line reader, on the open version s from offset o.                   *)

NewlinesAfter(s, o) == {i \in (o + 1)..Len(s) : IsNewline(s[i])}

FirstNewline(s, o) == CHOOSE i \in NewlinesAfter(s, o) :
                        \A j \in NewlinesAfter(s, o) : i <= j

\* The bytes the reader can hold before it meets a newline or the end.
Held(s, o) == IF NewlinesAfter(s, o) # {} THEN FirstNewline(s, o) - 1 - o
              ELSE IF o < Len(s) THEN Len(s) - o ELSE 0

Oversize(s, o) == Held(s, o) > JSONL_MAX_LINE

HasLine(s, o) == NewlinesAfter(s, o) # {} /\ ~Oversize(s, o)

\* Mutant: stop before the newline.
NextOffsetShort(s, o) == IF NewlinesAfter(s, o) # {} THEN FirstNewline(s, o) - 1
                         ELSE Len(s)

\* Past the line, or past the oversize region: to its newline, or to the end
\* of the file when the newline has not arrived yet (jsonl_drain_oversize).
NextOffset(s, o) == IF NewlinesAfter(s, o) # {} THEN FirstNewline(s, o)
                    ELSE Len(s)

\* The events a handler makes of the line at o: none when it does not parse.
Parsed(s, o) == {l \in Lines \ Rejected :
                   SubSeq(s, o + 1, FirstNewline(s, o)) = Encode(l)}
-----------------------------------------------------------------------------
(* ingest_one_file                                                         *)

CheckSizeForgets ==
  /\ pc = "idle" /\ pc' = "checked"
  /\ start' = 0
  /\ UNCHANGED <<phone, dst, resets, stored, applied, snap, off, pending, fails>>

\* stat: the stored offset, or 0 when it overshoots the file (RACE-05).
CheckSize ==
  /\ pc = "idle"
  /\ pc' = "checked"
  /\ start' = IF stored > Len(dst) THEN 0 ELSE stored
  /\ UNCHANGED <<phone, dst, resets, stored, applied, snap, off, pending, fails>>

\* jsonl_open, seek, BEGIN IMMEDIATE.  The file may have been replaced since.
OpenFile ==
  /\ pc = "checked"
  /\ pc' = "reading"
  /\ snap' = dst
  /\ off' = start
  /\ pending' = <<>>
  /\ UNCHANGED <<phone, dst, resets, stored, applied, start, fails>>

ReadLine ==
  /\ pc = "reading"
  /\ HasLine(snap, off)
  /\ IF Parsed(snap, off) = {} THEN pending' = pending
     ELSE \E l \in Parsed(snap, off) : pending' = Append(pending, l)
  /\ off' = NextOffset(snap, off)
  /\ UNCHANGED <<phone, dst, resets, stored, applied, pc, snap, start, fails>>

SkipOversize ==
  /\ pc = "reading"
  /\ Oversize(snap, off)
  /\ off' = NextOffset(snap, off)
  /\ UNCHANGED <<phone, dst, resets, stored, applied, pc, snap, start, pending, fails>>

\* End of the file or a partial line: the events and the offset, when it has
\* advanced, become durable in one transaction.
Commit ==
  /\ pc = "reading"
  /\ ~HasLine(snap, off) /\ ~Oversize(snap, off)
  /\ applied' = applied \o pending
  /\ stored' = IF off > start THEN off ELSE stored
  /\ pc' = "idle" /\ snap' = <<>> /\ start' = 0 /\ off' = 0 /\ pending' = <<>>
  /\ UNCHANGED <<phone, dst, resets, fails>>

\* Mutant: an error leaves what was inserted before it.
AbortKeepsEvents ==
  /\ pc # "idle" /\ fails < MaxFails
  /\ fails' = fails + 1
  /\ pc' = "idle" /\ snap' = <<>> /\ start' = 0 /\ off' = 0 /\ pending' = <<>>
  /\ applied' = applied \o pending
  /\ UNCHANGED <<phone, dst, resets, stored>>

\* A read or database error, or the death of the process: rolled back.
Abort ==
  /\ pc # "idle" /\ fails < MaxFails
  /\ fails' = fails + 1
  /\ pc' = "idle" /\ snap' = <<>> /\ start' = 0 /\ off' = 0 /\ pending' = <<>>
  /\ UNCHANGED <<phone, dst, resets, stored, applied>>

Ingest == CheckSize \/ OpenFile \/ ReadLine \/ SkipOversize \/ Commit

Next == \/ \E l \in Lines : AppendLine(l)
        \/ Deliver \/ Reinstall \/ Shrink
        \/ Ingest \/ Abort

Spec == Init /\ [][Next]_vars

\* The timer and path units keep running ingest passes, of which only MaxFails
\* fail; Syncthing catches up when it can.
FairSpec == Spec /\ WF_vars(Ingest) /\ WF_vars(Deliver)
-----------------------------------------------------------------------------
Times(l) == Cardinality({i \in DOMAIN applied : applied[i] = l})

Upto(f, n) == IF n > Len(f) THEN f ELSE SubSeq(f, 1, n)

\* l stands on a line of its own in the file f, and the handler accepts it.
IsEvent(f, l) ==
  /\ l \notin Rejected /\ Width[l] <= JSONL_MAX_LINE
  /\ \E o \in 0..(Len(f) - Width[l] - 1) :
       /\ o > 0 => IsNewline(f[o])
       /\ SubSeq(f, o + 1, o + Width[l] + 1) = Encode(l)

\* Offsets keep plays from being counted twice (ingest.c:23-24, jsonl-spec
\* section 7) and lose nothing: as long as the file only grows, every event up
\* to the stored offset has been processed exactly once, and no event twice,
\* whatever is torn, oversize, delivered in part, rolled back or killed.
ProcessedOnce ==
  resets = 0 =>
    \A l \in Lines :
      /\ Times(l) <= 1
      /\ IsEvent(Upto(src, stored), l) => Times(l) = 1

\* Every event of a file that only grows is processed in the end.
EventuallyProcessed ==
  \A l \in Lines :
    (IsEvent(src, l) /\ resets = 0) ~> (Times(l) = 1 \/ resets > 0)

\* No write has torn: every line that was tried is in the file.
Whole == \A l \in used : \E o \in 0..(Len(src) - Width[l] - 1) :
           SubSeq(src, o + 1, o + Width[l] + 1) = Encode(l)

\* The events of the first n bytes of f, in the order of their newlines.
Logged(f) ==
  LET upto[n \in 0..Len(f)] ==
        IF n = 0 THEN <<>>
        ELSE IF IsNewline(f[n]) /\ IsEvent(f, f[n][1]) THEN Append(upto[n - 1], f[n][1])
        ELSE upto[n - 1]
  IN  upto

\* The stream (append, delivery, ingest pass) implements the abstract log step
\* by step, for as long as the file only grows and the phone's writes are
\* whole: behind fragments that add up to an oversize line, the fate of the
\* next event depends on where the versions were cut.
Log == INSTANCE EventLog
         WITH Events <- Lines, produced <- Logged(src)[Len(src)], consumed <- applied
ImplementsLog ==
  Log!Init /\ [][(resets' = 0 /\ Whole') => [Log!Next]_(Log!vars)]_vars
=============================================================================
