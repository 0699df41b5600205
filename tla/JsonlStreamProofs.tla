------------------------- MODULE JsonlStreamProofs -------------------------
(***************************************************************************)
(* Proofs about JsonlStream, for any lines, limit and file: the type       *)
(* invariant, and that every event of a file that only grows is processed  *)
(* exactly once up to the stored offset, whatever is torn, oversize,       *)
(* delivered in part, rolled back or killed; and that the stream           *)
(* implements the abstract log while the writes are whole.                 *)
(***************************************************************************)
EXTENDS JsonlStream, FiniteSetTheorems, SequenceTheorems, WellFoundedInduction, TLAPS

\* Every nonempty set of naturals has a least element.
LEMMA Least ==
  ASSUME NEW S \in SUBSET Nat, S # {}
  PROVE  \E i \in S : \A j \in S : i <= j
<1> DEFINE R == OpToRel(<, Nat)
<1>1. \A x, y \in Nat : x < y => <<x, y>> \in R
  BY Zenon DEF OpToRel
<1>2. IsWellFoundedOn(R, Nat)
  BY NatLessThanWellFounded
<1> HIDE DEF R
<1>3. \E i \in S : \A j \in S : ~(<<j, i>> \in R)
  BY <1>2, WFMin, Zenon
<1>4. PICK i \in S : \A j \in S : ~(<<j, i>> \in R)
  BY <1>3
<1>5. \A j \in S : ~(j < i)
  BY <1>1, <1>4
<1> QED  BY <1>5

LEMMA BytesAre == Bytes = Lines \X (0..MaxBytes)
BY DEF Bytes

\* A line's bytes: its content, numbered, and one newline at the end.
LEMMA EncodeIs ==
  ASSUME NEW l \in Lines
  PROVE  /\ Width[l] \in Nat \ {0}
         /\ Encode(l) \in Seq(Lines \X Nat)
         /\ Len(Encode(l)) = Width[l] + 1
         /\ \A k \in 1..Width[l] : Encode(l)[k] = <<l, k>>
         /\ Encode(l)[Width[l] + 1] = <<l, 0>>
         /\ \A k \in 1..(Width[l] + 1) : Encode(l)[k][1] = l
         /\ \A j, k \in 1..(Width[l] + 1) : Encode(l)[j] = Encode(l)[k] => j = k
<1>1. Width[l] \in Nat \ {0}
  BY StreamAssumption
<1> DEFINE w == Width[l]
<1>2. Encode(l) = [k \in 1..(w + 1) |-> IF k > w THEN <<l, 0>> ELSE <<l, k>>]
  BY DEF Encode
<1>3. w \in Nat \ {0} /\ w + 1 \in Nat
  BY <1>1
<1> HIDE DEF w
<1>4. \A k \in 1..(w + 1) : (IF k > w THEN <<l, 0>> ELSE <<l, k>>) \in Lines \X Nat
  BY <1>3
<1>5. Encode(l) \in [1..(w + 1) -> Lines \X Nat]
  BY <1>2, <1>4
<1>6. Encode(l) \in Seq(Lines \X Nat) /\ Len(Encode(l)) = w + 1
  BY <1>3, <1>5
<1>7. /\ \A k \in 1..w : Encode(l)[k] = <<l, k>>
      /\ Encode(l)[w + 1] = <<l, 0>>
  BY <1>2, <1>3
<1>8. \A k \in 1..(w + 1) : Encode(l)[k] = <<l, IF k > w THEN 0 ELSE k>>
  BY <1>2, <1>3
<1>9. \A k \in 1..(w + 1) : Encode(l)[k][1] = l
  BY <1>8
<1>10. \A j, k \in 1..(w + 1) : Encode(l)[j] = Encode(l)[k] => j = k
  <2> SUFFICES ASSUME NEW j \in 1..(w + 1), NEW k \in 1..(w + 1),
                      Encode(l)[j] = Encode(l)[k]
               PROVE  j = k
    OBVIOUS
  <2>1. (IF j > w THEN 0 ELSE j) = (IF k > w THEN 0 ELSE k)
    BY <1>8
  <2> QED  BY <1>3, <2>1
<1> QED  BY <1>1, <1>6, <1>7, <1>9, <1>10 DEF w

\* What appending the first n bytes of a line does to the file (appendLine).
LEMMA AppendIs ==
  ASSUME src \in Seq(Bytes), NEW l \in Lines, NEW n \in 1..(Width[l] + 1),
         src' = src \o SubSeq(Encode(l), 1, n), Len(src') <= MaxBytes
  PROVE  /\ src' \in Seq(Bytes) /\ Len(src') = Len(src) + n
         /\ \A i \in 1..Len(src) : src'[i] = src[i]
         /\ \A k \in 1..n : src'[Len(src) + k] = Encode(l)[k]
<1> DEFINE c == SubSeq(Encode(l), 1, n)
<1>1. n \in Nat /\ Len(src) \in Nat /\ MaxBytes \in Nat
  BY EncodeIs, StreamAssumption
<1>2. /\ c \in Seq(Lines \X Nat) /\ Len(c) = n
      /\ \A k \in 1..n : c[k] = Encode(l)[k]
  <2>1. \A i \in 1..n : Encode(l)[i] \in Lines \X Nat
    BY EncodeIs
  <2> QED  BY <1>1, <2>1, SubSeqProperties
<1>3. src \in Seq(Lines \X Nat)
  <2>1. Bytes \subseteq Lines \X Nat
    BY BytesAre, <1>1
  <2> QED  BY <2>1, SeqMonotonic
<1> HIDE DEF c
<1>4. src' = src \o c
  BY DEF c
<1>5. /\ Len(src') = Len(src) + n
      /\ \A i \in 1..(Len(src) + n) :
           src'[i] = IF i <= Len(src) THEN src[i] ELSE c[i - Len(src)]
  BY <1>2, <1>3, <1>4, ConcatProperties
<1>6. \A k \in 1..n : src'[Len(src) + k] = Encode(l)[k]
  BY <1>1, <1>2, <1>5
<1>7. \A k \in 1..n : c[k] \in Bytes
  <2> SUFFICES ASSUME NEW k \in 1..n PROVE Encode(l)[k] \in Bytes
    BY <1>2
  <2>1. k \in 0..MaxBytes
    BY <1>1, <1>5
  <2>2. 0 \in 0..MaxBytes
    BY <1>1
  <2>3. /\ Width[l] \in Nat
        /\ \A i \in 1..Width[l] : Encode(l)[i] = <<l, i>>
        /\ Encode(l)[Width[l] + 1] = <<l, 0>>
    BY EncodeIs
  <2>4. Encode(l)[k] = <<l, k>> \/ Encode(l)[k] = <<l, 0>>
    <3> DEFINE w == Width[l]
    <3>1. k \in 1..w \/ k = w + 1
      BY <2>3
    <3> QED  BY <2>3, <3>1
  <2>5. \A j \in 0..MaxBytes : <<l, j>> \in Bytes
    BY BytesAre
  <2> QED  BY <2>1, <2>2, <2>4, <2>5
<1>8. c \in Seq(Bytes)
  BY <1>1, <1>2, <1>7
<1>9. src' \in Seq(Bytes)
  BY <1>4, <1>8, ConcatProperties
<1> QED  BY <1>1, <1>5, <1>6, <1>9

\* The next newline is a newline, beyond the offset, and the first one there
\* (jsonl_read_line, memchr in the buffer).
LEMMA FirstNewlineIs ==
  ASSUME NEW s \in Seq(Bytes), NEW o \in Nat, NewlinesAfter(s, o) # {}
  PROVE  /\ FirstNewline(s, o) \in (o + 1)..Len(s)
         /\ IsNewline(s[FirstNewline(s, o)])
         /\ \A i \in (o + 1)..(FirstNewline(s, o) - 1) : ~IsNewline(s[i])
<1> DEFINE S == NewlinesAfter(s, o)
<1>1. S \in SUBSET Nat /\ S # {} /\ Len(s) \in Nat
  BY DEF NewlinesAfter
<1>2. \E i \in S : \A j \in S : i <= j
  <2> HIDE DEF S
  <2> QED  BY <1>1, Least
<1>3. FirstNewline(s, o) \in S /\ \A j \in S : FirstNewline(s, o) <= j
  BY <1>2 DEF FirstNewline
<1>4. \A i \in (o + 1)..Len(s) : IsNewline(s[i]) => i \in S
  BY DEF NewlinesAfter
<1> DEFINE n == FirstNewline(s, o)
<1>5. n \in (o + 1)..Len(s) /\ IsNewline(s[n])
  BY <1>3 DEF NewlinesAfter
<1> HIDE DEF n, S
<1>6. \A i \in (o + 1)..(n - 1) : ~IsNewline(s[i])
  <2> SUFFICES ASSUME NEW i \in (o + 1)..(n - 1), IsNewline(s[i])
               PROVE  FALSE
    OBVIOUS
  <2>1. i \in (o + 1)..Len(s)
    BY <1>1, <1>5
  <2>2. n <= i
    BY <1>3, <1>4, <2>1 DEF n
  <2> QED  BY <1>1, <1>5, <2>2
<1> QED  BY <1>5, <1>6 DEF n
-----------------------------------------------------------------------------
(* The invariants.                                                         *)

\* No byte is in the file twice, since every line is written at most once.
Fresh == /\ \A i \in 1..Len(src) : src[i][1] \in used
         /\ \A i, j \in 1..Len(src) : src[i] = src[j] => i = j

\* While the file only grows, each version is a prefix of the next, and the
\* offsets lie within the versions they were read in.
Follows == /\ Extends(src, dst) /\ Extends(dst, snap)
           /\ stored <= Len(dst)
           /\ pc # "idle" => start = stored
           /\ pc = "reading" => start <= off /\ off <= Len(snap)

\* The events of s differ, and each has its newline between m and n.
Marks(s, m, n) ==
  /\ \A i \in 1..Len(s) : \E p \in (m + 1)..n : src[p] = <<s[i], 0>>
  /\ \A i, j \in 1..Len(s) : s[i] = s[j] => i = j

Once == /\ Marks(applied, 0, stored)
        /\ pc = "reading" => Marks(pending, start, off)

\* Offset n of f is at the start of a line, or so far behind it that the line
\* is oversize: there jsonl_drain_oversize may have stopped.
Boundary(f, n) ==
  \E q \in 0..n : /\ q > 0 => IsNewline(f[q])
                  /\ \A i \in (q + 1)..n : ~IsNewline(f[i])
                  /\ q = n \/ n - q > JSONL_MAX_LINE

\* Line l stands in f from o + 1 on.
Stands(f, l, o) == \A k \in 1..(Width[l] + 1) : f[o + k] = Encode(l)[k]

\* l is an event among the first n bytes of f.
EventIn(f, l, n) ==
  /\ l \notin Rejected /\ Width[l] <= JSONL_MAX_LINE
  /\ \E o \in 0..n : /\ o + Width[l] + 1 <= n
                     /\ o > 0 => IsNewline(f[o])
                     /\ Stands(f, l, o)

Members(s) == {s[i] : i \in 1..Len(s)}

\* All events up to n are in S.
Complete(n, S) == Boundary(src, n) /\ \A l \in Lines : EventIn(src, l, n) => l \in S

NoneMissed ==
  /\ Complete(stored, Members(applied))
  /\ pc = "reading" => Complete(off, Members(applied) \cup Members(pending))

\* While the phone's writes are whole: a line starts behind a newline, and the
\* file ends at one; what is processed is what is logged up to the offset.
Starts == /\ \A i \in 2..Len(src) : src[i][2] = 1 => IsNewline(src[i - 1])
          /\ Len(src) > 0 => IsNewline(src[Len(src)])

Matches == /\ applied = Logged(src)[stored]
           /\ pc = "reading" => applied \o pending = Logged(src)[off]

IInv == /\ TypeOK /\ Fresh
        /\ resets = 0 => Follows /\ Once /\ NoneMissed
        /\ resets = 0 /\ Whole => Starts /\ Matches
-----------------------------------------------------------------------------
(* What is up to an offset stays the same when the file grows.             *)

LEMMA ExtendsTransitive ==
  ASSUME NEW f \in Seq(Bytes), NEW g \in Seq(Bytes), NEW h \in Seq(Bytes),
         Extends(f, g), Extends(g, h)
  PROVE  Extends(f, h)
BY DEF Extends

LEMMA BoundaryGrows ==
  ASSUME NEW f \in Seq(Bytes), NEW g \in Seq(Bytes), Extends(g, f),
         NEW n \in 0..Len(f), Boundary(f, n)
  PROVE  Boundary(g, n)
<1>1. \A i \in 1..n : g[i] = f[i]
  BY DEF Extends
<1>2. PICK q \in 0..n : /\ q > 0 => IsNewline(f[q])
                        /\ \A i \in (q + 1)..n : ~IsNewline(f[i])
                        /\ q = n \/ n - q > JSONL_MAX_LINE
  BY DEF Boundary
<1>3. q > 0 => IsNewline(g[q])
  BY <1>1, <1>2
<1>4. \A i \in (q + 1)..n : ~IsNewline(g[i])
  BY <1>1, <1>2
<1> QED  BY <1>2, <1>3, <1>4 DEF Boundary

LEMMA EventGrows ==
  ASSUME NEW f \in Seq(Bytes), NEW g \in Seq(Bytes), Extends(g, f),
         NEW n \in 0..Len(f), NEW l \in Lines, EventIn(g, l, n)
  PROVE  EventIn(f, l, n)
<1>1. \A i \in 1..n : g[i] = f[i]
  BY DEF Extends
<1>2. PICK o \in 0..n : /\ o + Width[l] + 1 <= n
                        /\ o > 0 => IsNewline(g[o])
                        /\ Stands(g, l, o)
  BY DEF EventIn
<1>3. Width[l] \in Nat
  BY EncodeIs
<1>4. o > 0 => IsNewline(f[o])
  BY <1>1, <1>2, <1>3
<1>5. Stands(f, l, o)
  BY <1>1, <1>2, <1>3 DEF Stands
<1> QED  BY <1>2, <1>4, <1>5 DEF EventIn

LEMMA CompleteGrows ==
  ASSUME src \in Seq(Bytes), src' \in Seq(Bytes), Extends(src', src),
         NEW n \in 0..Len(src), NEW S, Complete(n, S)
  PROVE  /\ Boundary(src', n)
         /\ \A l \in Lines : EventIn(src', l, n) => l \in S
BY BoundaryGrows, EventGrows DEF Complete

\* The core of completeness: an event between an offset at a boundary and the
\* next newline starts at the offset and ends at the newline.
LEMMA NextEvent ==
  ASSUME NEW f \in Seq(Bytes), NEW o \in 0..Len(f), Boundary(f, o),
         NEW n \in (o + 1)..Len(f), \A i \in (o + 1)..(n - 1) : ~IsNewline(f[i]),
         NEW l \in Lines, EventIn(f, l, n), ~EventIn(f, l, o)
  PROVE  /\ o + Width[l] + 1 = n /\ Stands(f, l, o)
         /\ l \notin Rejected /\ Width[l] <= JSONL_MAX_LINE
<1> DEFINE w == Width[l]
<1>1. /\ w \in Nat
      /\ \A k \in 1..w : ~IsNewline(Encode(l)[k])
      /\ IsNewline(Encode(l)[w + 1])
  BY EncodeIs DEF IsNewline
<1>2. PICK b \in 0..n : /\ b + w + 1 <= n
                        /\ b > 0 => IsNewline(f[b])
                        /\ Stands(f, l, b)
  BY DEF EventIn
<1>3. l \notin Rejected /\ w <= JSONL_MAX_LINE
  BY DEF EventIn
<1>4. PICK q \in 0..o : /\ q > 0 => IsNewline(f[q])
                        /\ \A i \in (q + 1)..o : ~IsNewline(f[i])
                        /\ q = o \/ o - q > JSONL_MAX_LINE
  BY DEF Boundary
<1>5. \A k \in 1..(w + 1) : f[b + k] = Encode(l)[k]
  BY <1>2 DEF Stands
<1>6. ~(b + w + 1 <= o)
  <2> SUFFICES ASSUME b + w + 1 <= o PROVE FALSE
    OBVIOUS
  <2>1. b \in 0..o
    BY <1>1
  <2> QED  BY <1>2, <1>3, <2>1 DEF EventIn
<1> HIDE DEF w
<1>7. o \in Nat /\ n \in Nat /\ o < n /\ JSONL_MAX_LINE \in Nat
  BY StreamAssumption
<1>8. b + w + 1 = n
  <2>1. IsNewline(f[b + w + 1])
    <3>1. f[b + (w + 1)] = Encode(l)[w + 1]
      BY <1>1, <1>5
    <3>2. b + (w + 1) = b + w + 1
      BY <1>1
    <3> QED  BY <1>1, <3>1, <3>2
  <2>2. b + w + 1 \in (o + 1)..n
    BY <1>1, <1>2, <1>6, <1>7
  <2> QED  BY <1>7, <2>1, <2>2
<1>9. ~(b < q)
  <2> SUFFICES ASSUME b < q PROVE FALSE
    OBVIOUS
  <2>1. PICK k \in 1..w : b + k = q
    <3>1. q - b \in 1..w /\ b + (q - b) = q
      BY <1>1, <1>7, <1>8
    <3> QED  BY <3>1
  <2>2. f[q] = Encode(l)[k]
    BY <1>1, <1>5, <2>1
  <2> QED  BY <1>1, <1>4, <2>1, <2>2
<1>10. ~(b > q)
  <2> SUFFICES ASSUME b > q PROVE FALSE
    OBVIOUS
  <2>1. b \in (q + 1)..o \/ b \in (o + 1)..(n - 1)
    BY <1>1, <1>7, <1>8
  <2> QED  BY <1>2, <1>4, <2>1
<1>11. b = q
  BY <1>9, <1>10
<1>12. q = o
  BY <1>1, <1>3, <1>4, <1>7, <1>8, <1>11
<1> QED  BY <1>2, <1>3, <1>8, <1>11, <1>12 DEF w
-----------------------------------------------------------------------------
(* Types.                                                                  *)

\* The offset moves forward, past at least one byte, and stays in the file.
LEMMA NextOffsetIs ==
  ASSUME NEW s \in Seq(Bytes), NEW o \in Nat, HasLine(s, o) \/ Oversize(s, o)
  PROVE  NextOffset(s, o) \in (o + 1)..Len(s)
<1>1. CASE NewlinesAfter(s, o) # {}
  BY <1>1, FirstNewlineIs DEF NextOffset
<1>2. CASE NewlinesAfter(s, o) = {}
  <2>1. o < Len(s)
    BY <1>2, StreamAssumption DEF HasLine, Oversize, Held
  <2>2. Len(s) \in Nat /\ NextOffset(s, o) = Len(s)
    BY <1>2 DEF NextOffset
  <2> QED  BY <2>1, <2>2
<1> QED  BY <1>1, <1>2

\* A prefix of a file is a file.
LEMMA PrefixIs ==
  ASSUME NEW f \in Seq(Bytes), NEW n \in 0..Len(f)
  PROVE  /\ SubSeq(f, 1, n) \in Seq(Bytes) /\ Len(SubSeq(f, 1, n)) = n
         /\ \A i \in 1..n : SubSeq(f, 1, n)[i] = f[i]
<1>1. n \in Nat /\ \A i \in 1..n : f[i] \in Bytes
  OBVIOUS
<1> QED  BY <1>1, SubSeqProperties

LEMMA TypeNext == TypeOK /\ [Next]_vars => TypeOK'
<1> SUFFICES ASSUME TypeOK, [Next]_vars PROVE TypeOK'
  OBVIOUS
<1>1. /\ src \in Seq(Bytes) /\ dst \in Seq(Bytes) /\ snap \in Seq(Bytes)
      /\ used \subseteq Lines
      /\ resets \in 0..MaxResets /\ fails \in 0..MaxFails
      /\ stored \in Nat /\ start \in Nat /\ off \in Nat
      /\ applied \in Seq(Lines) /\ pending \in Seq(Lines)
      /\ pc \in {"idle", "checked", "reading"}
      /\ pc # "reading" => snap = <<>> /\ off = 0 /\ pending = <<>>
      /\ Len(dst) \in Nat /\ <<>> \in Seq(Bytes) /\ <<>> \in Seq(Lines)
  BY DEF TypeOK
<1>2. ASSUME NEW l \in Lines, AppendLine(l) PROVE TypeOK'
  <2>1. PICK n \in 1..Len(Encode(l)) : src' = src \o SubSeq(Encode(l), 1, n)
    BY <1>2 DEF AppendLine
  <2>2. src' \in Seq(Bytes)
    <3>1. n \in 1..(Width[l] + 1)
      BY EncodeIs
    <3> QED  BY <1>1, <1>2, <2>1, <3>1, AppendIs DEF AppendLine
  <2> QED  BY <1>1, <1>2, <2>2 DEF AppendLine, TypeOK, pass
<1>3. CASE Deliver
  <2>1. dst' \in Seq(Bytes)
    BY <1>1, <1>3, PrefixIs DEF Deliver
  <2> QED  BY <1>1, <1>3, <2>1 DEF Deliver, TypeOK, phone, pass
<1>4. CASE Reinstall
  BY <1>1, <1>4, StreamAssumption DEF Reinstall, TypeOK, pass
<1>5. CASE Shrink
  <2>1. dst' \in Seq(Bytes)
    BY <1>1, <1>5, PrefixIs DEF Shrink
  <2> QED  BY <1>1, <1>5, <2>1, StreamAssumption DEF Shrink, TypeOK, phone, pass
<1>6. CASE CheckSize
  BY <1>1, <1>6 DEF CheckSize, TypeOK, phone
<1>7. CASE OpenFile
  BY <1>1, <1>7 DEF OpenFile, TypeOK, phone
<1>8. CASE ReadLine \/ SkipOversize
  <2>1. NextOffset(snap, off) \in Nat
    BY <1>1, <1>8, NextOffsetIs DEF ReadLine, SkipOversize
  <2>2. \A l \in Parsed(snap, off) : Append(pending, l) \in Seq(Lines)
    BY <1>1 DEF Parsed
  <2>3. pending' \in Seq(Lines)
    BY <1>1, <1>8, <2>2 DEF ReadLine, SkipOversize
  <2> QED  BY <1>1, <1>8, <2>1, <2>3 DEF ReadLine, SkipOversize, TypeOK, phone
<1>9. CASE Commit
  <2>1. applied \o pending \in Seq(Lines)
    BY <1>1
  <2>2. applied' \in Seq(Lines) /\ stored' \in Nat
    BY <1>1, <1>9, <2>1 DEF Commit
  <2> QED  BY <1>1, <1>9, <2>2 DEF Commit, TypeOK, phone
<1>10. CASE Abort
  BY <1>1, <1>10, StreamAssumption DEF Abort, TypeOK, phone
<1>11. CASE UNCHANGED vars
  BY <1>1, <1>11 DEF TypeOK, vars, pass
<1> QED
  BY <1>2, <1>3, <1>4, <1>5, <1>6, <1>7, <1>8, <1>9, <1>10, <1>11 DEF Next, Ingest
-----------------------------------------------------------------------------
(* The file, the versions and the offsets.                                 *)

\* No step writes a byte that is there already.
LEMMA FreshNext == TypeOK /\ Fresh /\ [Next]_vars => Fresh'
<1> SUFFICES ASSUME TypeOK, Fresh, [Next]_vars PROVE Fresh'
  OBVIOUS
<1>1. src \in Seq(Bytes) /\ Len(src) \in Nat
  BY DEF TypeOK
<1>2. ASSUME NEW l \in Lines, AppendLine(l) PROVE Fresh'
  <2>1. PICK n \in 1..Len(Encode(l)) : src' = src \o SubSeq(Encode(l), 1, n)
    BY <1>2 DEF AppendLine
  <2>2. n \in 1..(Width[l] + 1) /\ n \in Nat
    BY EncodeIs
  <2>3. /\ Len(src') = Len(src) + n
        /\ \A i \in 1..Len(src) : src'[i] = src[i]
        /\ \A k \in 1..n : src'[Len(src) + k] = Encode(l)[k]
    BY <1>1, <1>2, <2>1, <2>2, AppendIs DEF AppendLine
  <2>4. /\ \A k \in 1..n : Encode(l)[k][1] = l
        /\ \A j, k \in 1..n : Encode(l)[j] = Encode(l)[k] => j = k
    <3>1. \A k \in 1..n : k \in 1..(Width[l] + 1)
      BY <2>2, EncodeIs
    <3> QED  BY <3>1, EncodeIs
  <2>5. l \notin used /\ used' = used \cup {l}
    BY <1>2 DEF AppendLine
  <2>6. \A i \in 1..Len(src') :
          \/ i \in 1..Len(src) /\ src'[i] = src[i] /\ src'[i][1] \in used
          \/ \E k \in 1..n : /\ i = Len(src) + k /\ src'[i] = Encode(l)[k]
                             /\ src'[i][1] = l
    <3> SUFFICES ASSUME NEW i \in 1..Len(src'), i \notin 1..Len(src)
                 PROVE  \E k \in 1..n : /\ i = Len(src) + k /\ src'[i] = Encode(l)[k]
                                        /\ src'[i][1] = l
      BY <2>3 DEF Fresh
    <3>1. PICK k \in 1..n : i = Len(src) + k
      <4>1. i - Len(src) \in 1..n /\ i = Len(src) + (i - Len(src))
        BY <1>1, <2>2, <2>3
      <4> QED  BY <4>1
    <3>2. src'[i] = Encode(l)[k] /\ Encode(l)[k][1] = l
      <4>1. \A j \in 1..n : src'[Len(src) + j] = Encode(l)[j]
        BY <2>3
      <4>2. \A j \in 1..n : Encode(l)[j][1] = l
        BY <2>4
      <4> QED  BY <3>1, <4>1, <4>2, Zenon
    <3> QED  BY <3>1, <3>2
  <2>7. \A i \in 1..Len(src) : src'[i] = src[i] /\ src'[i][1] # l
    BY <2>3, <2>5 DEF Fresh
  <2>8. \A i \in 1..Len(src') : i \notin 1..Len(src) => src'[i][1] = l
    BY <2>6
  <2>9. \A i \in 1..Len(src') : src'[i][1] \in used'
    BY <2>5, <2>6
  <2>10. ASSUME NEW i \in 1..Len(src'), NEW j \in 1..Len(src'), src'[i] = src'[j]
        PROVE  i = j
    <3>1. CASE i \in 1..Len(src)
      <4>1. j \in 1..Len(src)
        BY <2>7, <2>8, <2>10, <3>1
      <4> QED  BY <2>3, <2>10, <3>1, <4>1 DEF Fresh
    <3>2. CASE i \notin 1..Len(src)
      <4>1. PICK k \in 1..n : i = Len(src) + k /\ src'[i] = Encode(l)[k] /\ src'[i][1] = l
        BY <2>6, <3>2
      <4>2. j \notin 1..Len(src)
        BY <2>10, <2>7, <4>1
      <4>3. PICK m \in 1..n : j = Len(src) + m /\ src'[j] = Encode(l)[m]
        BY <2>6, <4>2
      <4> QED  BY <2>4, <2>10, <4>1, <4>3
    <3> QED  BY <3>1, <3>2
  <2> QED  BY <2>9, <2>10 DEF Fresh
<1>3. CASE Reinstall
  BY <1>3 DEF Reinstall, Fresh
<1>4. CASE UNCHANGED phone
  BY <1>4 DEF Fresh, phone
<1> QED
  BY <1>2, <1>3, <1>4
  DEF Next, Ingest, Deliver, Shrink, CheckSize, OpenFile, ReadLine, SkipOversize,
      Commit, Abort, vars, phone

\* A step after which the file has only grown was taken while it had: the
\* phone's file is extended, and what was read so far stands in it.
LEMMA Grown ==
  ASSUME TypeOK, [Next]_vars, resets' = 0
  PROVE  resets = 0 /\ src' \in Seq(Bytes) /\ Extends(src', src)
<1>1. src \in Seq(Bytes) /\ resets \in Nat /\ Extends(src, src) /\ src' \in Seq(Bytes)
  BY TypeNext DEF TypeOK, Extends
<1>2. ASSUME NEW l \in Lines, AppendLine(l)
      PROVE  resets = 0 /\ Extends(src', src)
  <2>1. PICK n \in 1..Len(Encode(l)) : src' = src \o SubSeq(Encode(l), 1, n)
    BY <1>2 DEF AppendLine
  <2>2. n \in 1..(Width[l] + 1) /\ n \in Nat
    BY EncodeIs
  <2>3. /\ Len(src') = Len(src) + n
        /\ \A i \in 1..Len(src) : src'[i] = src[i]
    BY <1>1, <1>2, <2>1, <2>2, AppendIs DEF AppendLine
  <2> QED  BY <1>1, <1>2, <2>2, <2>3 DEF AppendLine, Extends
<1>3. CASE Reinstall \/ Shrink
  BY <1>1, <1>3 DEF Reinstall, Shrink
<1>4. CASE UNCHANGED <<phone, resets>>
  BY <1>1, <1>4 DEF phone
<1> QED
  BY <1>1, <1>2, <1>3, <1>4
  DEF Next, Ingest, Deliver, CheckSize, OpenFile, ReadLine, SkipOversize,
      Commit, Abort, vars

\* The versions stay prefixes of each other: a delivery brings a longer one, a
\* pass opens the one that is there; offsets only move within what was opened.
LEMMA FollowsNext ==
  ASSUME TypeOK, Follows, [Next]_vars, resets' = 0
  PROVE  Follows'
<1>1. /\ src \in Seq(Bytes) /\ dst \in Seq(Bytes) /\ snap \in Seq(Bytes)
      /\ stored \in Nat /\ start \in Nat /\ off \in Nat
      /\ pc \in {"idle", "checked", "reading"}
      /\ pc # "reading" => snap = <<>> /\ off = 0
      /\ resets = 0 /\ src' \in Seq(Bytes) /\ Extends(src', src)
  BY Grown DEF TypeOK
<1>2. Extends(dst, <<>>) /\ Extends(dst, dst)
  BY <1>1 DEF Extends
<1>3. /\ Extends(src, dst) /\ Extends(dst, snap)
      /\ stored <= Len(dst)
      /\ pc # "idle" => start = stored
      /\ pc = "reading" => start <= off /\ off <= Len(snap)
  BY DEF Follows
<1>4. Extends(src', dst)
  BY <1>1, <1>3, ExtendsTransitive
<1>5. ASSUME NEW l \in Lines, AppendLine(l) PROVE Follows'
  BY <1>3, <1>4, <1>5 DEF AppendLine, pass, Follows
<1>6. CASE Deliver
  <2>1. PICK n \in 0..Len(src) : n > Len(dst) /\ dst' = SubSeq(src, 1, n)
    BY <1>3, <1>6 DEF Deliver
  <2>2. /\ dst' \in Seq(Bytes) /\ Len(dst') = n
        /\ \A i \in 1..n : dst'[i] = src[i]
    BY <1>1, <2>1, PrefixIs
  <2>3. Extends(src, dst') /\ Extends(dst', dst)
    BY <1>1, <1>3, <2>1, <2>2 DEF Extends
  <2>4. Extends(dst', snap)
    BY <1>1, <1>3, <2>2, <2>3, ExtendsTransitive
  <2>5. stored <= Len(dst')
    BY <1>1, <1>3, <2>1, <2>2
  <2>6. UNCHANGED <<phone, stored, pass>>
    BY <1>6 DEF Deliver
  <2> QED  BY <1>3, <2>3, <2>4, <2>5, <2>6 DEF Follows, phone, pass
<1>7. CASE Reinstall \/ Shrink
  BY <1>1, <1>7 DEF Reinstall, Shrink
<1>8. CASE CheckSize
  <2>1. start' = stored
    BY <1>1, <1>3, <1>8 DEF CheckSize
  <2> QED  BY <1>3, <1>8, <2>1 DEF CheckSize, Follows, phone
<1>9. CASE OpenFile
  BY <1>1, <1>2, <1>3, <1>9 DEF OpenFile, Follows, phone
<1>10. CASE ReadLine \/ SkipOversize
  <2>1. NextOffset(snap, off) \in (off + 1)..Len(snap) /\ Len(snap) \in Nat
    BY <1>1, <1>10, NextOffsetIs DEF ReadLine, SkipOversize
  <2>2. /\ UNCHANGED <<phone, dst, stored, pc, snap, start>>
        /\ off' = NextOffset(snap, off) /\ pc = "reading"
    BY <1>10 DEF ReadLine, SkipOversize
  <2>3. start <= off' /\ off' <= Len(snap)
    BY <1>1, <1>3, <2>1, <2>2
  <2> QED  BY <1>3, <2>2, <2>3 DEF Follows, phone
<1>11. CASE Commit
  <2>1. Len(snap) <= Len(dst) /\ Len(snap) \in Nat /\ Len(dst) \in Nat
    BY <1>1, <1>3 DEF Extends
  <2>2. stored' <= Len(dst)
    BY <1>1, <1>3, <1>11, <2>1 DEF Commit
  <2> QED  BY <1>2, <1>3, <1>11, <2>2 DEF Commit, Follows, phone
<1>12. CASE Abort
  BY <1>2, <1>3, <1>12 DEF Abort, Follows, phone
<1>13. CASE UNCHANGED vars
  BY <1>3, <1>13 DEF vars, pass, phone, Follows
<1> QED
  BY <1>5, <1>6, <1>7, <1>8, <1>9, <1>10, <1>11, <1>12, <1>13 DEF Next, Ingest
-----------------------------------------------------------------------------
(* No event is processed twice.                                            *)

LEMMA MarksGrows ==
  ASSUME src \in Seq(Bytes), src' \in Seq(Bytes), Extends(src', src),
         NEW s, NEW m \in Nat, NEW n \in 0..Len(src), Marks(s, m, n)
  PROVE  /\ \A i \in 1..Len(s) : \E p \in (m + 1)..n : src'[p] = <<s[i], 0>>
         /\ \A i, j \in 1..Len(s) : s[i] = s[j] => i = j
<1>1. \A p \in (m + 1)..n : src'[p] = src[p]
  BY DEF Extends
<1> QED  BY <1>1 DEF Marks

LEMMA MarksWidens ==
  ASSUME NEW s, NEW m \in Nat, NEW n \in Nat, NEW k \in Nat, n <= k, Marks(s, m, n)
  PROVE  Marks(s, m, k)
<1>1. \A p \in (m + 1)..n : p \in (m + 1)..k
  OBVIOUS
<1> QED  BY <1>1 DEF Marks

\* An event whose newline is behind those of the others is a new one.
LEMMA MarksAppend ==
  ASSUME src \in Seq(Bytes), Fresh, NEW s \in Seq(Lines), NEW l \in Lines,
         NEW m \in Nat, NEW o \in Nat, NEW n \in (o + 1)..Len(src), m <= o,
         Marks(s, m, o), src[n] = <<l, 0>>
  PROVE  Marks(Append(s, l), m, n)
<1> DEFINE t == Append(s, l)
<1>1. /\ Len(s) \in Nat /\ Len(t) = Len(s) + 1 /\ t[Len(s) + 1] = l
      /\ \A i \in 1..Len(s) : t[i] = s[i]
  OBVIOUS
<1> HIDE DEF t
<1>2. \A i \in 1..Len(t) : i \in 1..Len(s) \/ i = Len(s) + 1
  BY <1>1
<1>3. \A i \in 1..Len(s) : \E p \in (m + 1)..n : p <= o /\ src[p] = <<s[i], 0>>
  <2>1. \A i \in 1..Len(s) : \E p \in (m + 1)..o : src[p] = <<s[i], 0>>
    BY DEF Marks
  <2>2. \A p \in (m + 1)..o : p \in (m + 1)..n /\ p <= o
    OBVIOUS
  <2> QED  BY <2>1, <2>2
<1>4. \A i \in 1..Len(s) : s[i] # l
  <2> SUFFICES ASSUME NEW i \in 1..Len(s), s[i] = l PROVE FALSE
    OBVIOUS
  <2>1. PICK p \in (m + 1)..n : p <= o /\ src[p] = <<s[i], 0>>
    BY <1>3
  <2>2. p \in 1..Len(src) /\ n \in 1..Len(src)
    OBVIOUS
  <2>3. p = n
    BY <2>1, <2>2 DEF Fresh
  <2> QED  BY <2>1, <2>3
<1>5. \A i \in 1..Len(t) : \E p \in (m + 1)..n : src[p] = <<t[i], 0>>
  <2> SUFFICES ASSUME NEW i \in 1..Len(t)
               PROVE  \E p \in (m + 1)..n : src[p] = <<t[i], 0>>
    OBVIOUS
  <2>1. CASE i \in 1..Len(s)
    BY <1>1, <1>3, <2>1
  <2>2. CASE i = Len(s) + 1
    <3>1. n \in (m + 1)..n
      OBVIOUS
    <3> QED  BY <1>1, <2>2, <3>1
  <2> QED  BY <1>2, <2>1, <2>2
<1>6. \A i, j \in 1..Len(s) : s[i] = s[j] => i = j
  BY DEF Marks
<1>7. \A i, j \in 1..Len(t) : t[i] = t[j] => i = j
  <2> SUFFICES ASSUME NEW i \in 1..Len(t), NEW j \in 1..Len(t), t[i] = t[j]
               PROVE  i = j
    OBVIOUS
  <2>1. CASE i \in 1..Len(s) /\ j \in 1..Len(s)
    BY <1>1, <1>6, <2>1
  <2>2. CASE i = Len(s) + 1 \/ j = Len(s) + 1
    BY <1>1, <1>2, <1>4, <2>2
  <2> QED  BY <1>2, <2>1, <2>2
<1> QED  BY <1>5, <1>7 DEF Marks, t

\* The events of two stretches of the file that follow each other differ.
LEMMA MarksConcat ==
  ASSUME src \in Seq(Bytes), Fresh, NEW s \in Seq(Lines), NEW t \in Seq(Lines),
         NEW m \in Nat, NEW n \in m..Len(src), Marks(s, 0, m), Marks(t, m, n)
  PROVE  Marks(s \o t, 0, n)
<1> DEFINE u == s \o t
<1>1. /\ Len(s) \in Nat /\ Len(t) \in Nat /\ Len(u) = Len(s) + Len(t)
      /\ \A i \in 1..Len(u) : u[i] = IF i <= Len(s) THEN s[i] ELSE t[i - Len(s)]
  BY ConcatProperties
<1> HIDE DEF u
<1>2. \A i \in 1..Len(u) :
        \/ i \in 1..Len(s) /\ u[i] = s[i]
        \/ \E k \in 1..Len(t) : i = Len(s) + k /\ u[i] = t[k]
  <2> SUFFICES ASSUME NEW i \in 1..Len(u), i \notin 1..Len(s)
               PROVE  \E k \in 1..Len(t) : i = Len(s) + k /\ u[i] = t[k]
    BY <1>1
  <2>1. i - Len(s) \in 1..Len(t) /\ i = Len(s) + (i - Len(s)) /\ u[i] = t[i - Len(s)]
    BY <1>1
  <2> QED  BY <2>1
<1>3. \A i \in 1..Len(s) : \E p \in (0 + 1)..m : src[p] = <<s[i], 0>>
  BY DEF Marks
<1>4. \A k \in 1..Len(t) : \E p \in (m + 1)..n : src[p] = <<t[k], 0>>
  BY DEF Marks
<1>5. \A i \in 1..Len(s), k \in 1..Len(t) : s[i] # t[k]
  <2> SUFFICES ASSUME NEW i \in 1..Len(s), NEW k \in 1..Len(t), s[i] = t[k]
               PROVE  FALSE
    OBVIOUS
  <2>1. PICK p \in (0 + 1)..m : src[p] = <<s[i], 0>>
    BY <1>3
  <2>2. PICK q \in (m + 1)..n : src[q] = <<t[k], 0>>
    BY <1>4
  <2>3. p \in 1..Len(src) /\ q \in 1..Len(src) /\ p # q
    OBVIOUS
  <2> QED  BY <2>1, <2>2, <2>3 DEF Fresh
<1>6. \A i \in 1..Len(u) : \E p \in (0 + 1)..n : src[p] = <<u[i], 0>>
  <2> SUFFICES ASSUME NEW i \in 1..Len(u)
               PROVE  \E p \in (0 + 1)..n : src[p] = <<u[i], 0>>
    OBVIOUS
  <2>0. /\ \A p \in (0 + 1)..m : p \in (0 + 1)..n
        /\ \A p \in (m + 1)..n : p \in (0 + 1)..n
    OBVIOUS
  <2>1. CASE i \in 1..Len(s) /\ u[i] = s[i]
    BY <1>3, <2>0, <2>1
  <2>2. CASE \E k \in 1..Len(t) : i = Len(s) + k /\ u[i] = t[k]
    BY <1>4, <2>0, <2>2
  <2> QED  BY <1>2, <2>1, <2>2
<1>7. /\ \A i, j \in 1..Len(s) : s[i] = s[j] => i = j
      /\ \A i, j \in 1..Len(t) : t[i] = t[j] => i = j
  BY DEF Marks
<1>8. ASSUME NEW i \in 1..Len(u), NEW j \in 1..Len(u), u[i] = u[j]
      PROVE  i = j
  <2>1. CASE i \in 1..Len(s) /\ u[i] = s[i]
    <3>1. CASE j \in 1..Len(s) /\ u[j] = s[j]
      BY <1>7, <1>8, <2>1, <3>1
    <3>2. CASE \E k \in 1..Len(t) : j = Len(s) + k /\ u[j] = t[k]
      BY <1>5, <1>8, <2>1, <3>2
    <3> QED  BY <1>2, <3>1, <3>2
  <2>2. CASE \E k \in 1..Len(t) : i = Len(s) + k /\ u[i] = t[k]
    <3>1. CASE j \in 1..Len(s) /\ u[j] = s[j]
      BY <1>5, <1>8, <2>2, <3>1
    <3>2. CASE \E k \in 1..Len(t) : j = Len(s) + k /\ u[j] = t[k]
      BY <1>7, <1>8, <2>2, <3>2
    <3> QED  BY <1>2, <3>1, <3>2
  <2> QED  BY <1>2, <2>1, <2>2
<1> QED  BY <1>6, <1>8 DEF Marks, u

\* A line that parses ends at the newline that the reader found.
LEMMA ParsedIs ==
  ASSUME TypeOK, Follows, pc = "reading", HasLine(snap, off)
  PROVE  LET n == FirstNewline(snap, off)
         IN  /\ n \in (off + 1)..Len(snap) /\ NextOffset(snap, off) = n
             /\ n \in 1..Len(src) /\ src[n] = snap[n]
             /\ \A i \in (off + 1)..(n - 1) : ~IsNewline(snap[i])
             /\ \A l \in Parsed(snap, off) : l \in Lines /\ src[n] = <<l, 0>>
<1> DEFINE n == FirstNewline(snap, off)
<1>1. /\ src \in Seq(Bytes) /\ dst \in Seq(Bytes) /\ snap \in Seq(Bytes) /\ off \in Nat
      /\ Extends(src, dst) /\ Extends(dst, snap) /\ NewlinesAfter(snap, off) # {}
  BY DEF TypeOK, Follows, HasLine
<1>2. /\ n \in (off + 1)..Len(snap) /\ NextOffset(snap, off) = n
      /\ \A i \in (off + 1)..(n - 1) : ~IsNewline(snap[i])
  BY <1>1, FirstNewlineIs DEF NextOffset
<1>3. n \in 1..Len(src) /\ src[n] = snap[n]
  <2>1. Extends(src, snap)
    BY <1>1, ExtendsTransitive
  <2> HIDE DEF n
  <2> QED  BY <1>1, <1>2, <2>1 DEF Extends
<1>4. ASSUME NEW l \in Parsed(snap, off)
      PROVE  l \in Lines /\ snap[n] = <<l, 0>>
  <2>1. l \in Lines /\ SubSeq(snap, off + 1, n) = Encode(l)
    BY DEF Parsed
  <2>2. /\ Width[l] \in Nat /\ Len(Encode(l)) = Width[l] + 1
        /\ Encode(l)[Width[l] + 1] = <<l, 0>>
    BY <2>1, EncodeIs
  <2> DEFINE c == SubSeq(snap, off + 1, n)
  <2> HIDE DEF n
  <2>3. n - off \in Nat \ {0} /\ n \in Nat /\ Len(snap) \in Nat
    BY <1>1, <1>2
  <2>4. /\ Len(c) = n - off
        /\ \A i \in 1..(n - off) : c[i] = snap[off + i]
    <3>1. Len(SubSeq(snap, off + 1, n)) = n - (off + 1) + 1
      BY <1>1, <1>2, <2>3
    <3>2. \A i \in 1..(n - off) : SubSeq(snap, off + 1, n)[i] = snap[off + 1 + i - 1]
      BY <1>1, <1>2, <2>3
    <3>3. \A i \in 1..(n - off) : off + 1 + i - 1 = off + i
      BY <1>1, <2>3
    <3>4. n - (off + 1) + 1 = n - off
      BY <1>1, <2>3
    <3> QED  BY <3>1, <3>2, <3>3, <3>4
  <2>5. c[n - off] = snap[n]
    <3>1. n - off \in 1..(n - off) /\ off + (n - off) = n
      BY <1>1, <2>3
    <3> QED  BY <2>4, <3>1
  <2>6. n - off = Width[l] + 1
    BY <2>1, <2>2, <2>4
  <2> QED  BY <2>1, <2>2, <2>5, <2>6
<1> QED  BY <1>2, <1>3, <1>4

\* A pass takes each line it reads from behind the last one, and what it
\* commits from behind the stored offset.
LEMMA OnceNext ==
  ASSUME TypeOK, Fresh, Follows, Once, [Next]_vars, resets' = 0
  PROVE  Once'
<1>1. /\ src \in Seq(Bytes) /\ dst \in Seq(Bytes) /\ snap \in Seq(Bytes)
      /\ stored \in Nat /\ start \in Nat /\ off \in Nat
      /\ applied \in Seq(Lines) /\ pending \in Seq(Lines)
      /\ src' \in Seq(Bytes) /\ Extends(src', src) /\ resets = 0 /\ resets \in Nat
  BY Grown DEF TypeOK
<1>2. /\ Extends(src, dst) /\ Extends(dst, snap) /\ stored <= Len(dst)
      /\ pc # "idle" => start = stored
      /\ pc = "reading" => start <= off /\ off <= Len(snap)
  BY DEF Follows
<1>3. /\ Len(dst) \in Nat /\ Len(snap) \in Nat /\ Len(src) \in Nat
      /\ stored \in 0..Len(src)
      /\ pc = "reading" => off \in start..Len(src) /\ off \in 0..Len(src)
  BY <1>1, <1>2 DEF Extends
<1>4. Marks(applied, 0, stored) /\ (pc = "reading" => Marks(pending, start, off))
  BY DEF Once
<1>5. ASSUME UNCHANGED <<applied, stored>> PROVE Marks(applied, 0, stored)'
  <2>1. /\ \A i \in 1..Len(applied) : \E p \in (0 + 1)..stored : src'[p] = <<applied[i], 0>>
        /\ \A i, j \in 1..Len(applied) : applied[i] = applied[j] => i = j
    BY <1>1, <1>3, <1>4, MarksGrows
  <2> QED  BY <1>5, <2>1 DEF Marks
<1>6. ASSUME UNCHANGED <<pending, start, off, pc>>, pc' = "reading"
      PROVE  Marks(pending, start, off)'
  <2>1. /\ \A i \in 1..Len(pending) : \E p \in (start + 1)..off : src'[p] = <<pending[i], 0>>
        /\ \A i, j \in 1..Len(pending) : pending[i] = pending[j] => i = j
    BY <1>1, <1>3, <1>4, <1>6, MarksGrows
  <2> QED  BY <1>6, <2>1 DEF Marks
<1>7. ASSUME UNCHANGED src, Marks(pending', start', off') PROVE Marks(pending, start, off)'
  BY <1>7 DEF Marks
<1>8. CASE \/ \E l \in Lines : AppendLine(l)
           \/ Deliver \/ CheckSize \/ Abort \/ UNCHANGED vars
  <2>1. UNCHANGED <<applied, stored>>
    BY <1>8 DEF AppendLine, Deliver, CheckSize, Abort, vars
  <2>2. UNCHANGED <<pending, start, off, pc>> \/ pc' # "reading"
    BY <1>8 DEF AppendLine, Deliver, CheckSize, Abort, vars, pass
  <2> QED  BY <1>5, <1>6, <2>1, <2>2 DEF Once
<1>9. CASE Reinstall \/ Shrink
  BY <1>1, <1>9 DEF Reinstall, Shrink
<1>10. CASE OpenFile
  <2>1. UNCHANGED <<applied, stored, src>> /\ pending' = <<>>
    BY <1>10 DEF OpenFile, phone
  <2>2. Marks(<<>>, start', off')
    BY DEF Marks
  <2> QED  BY <1>5, <1>7, <2>1, <2>2 DEF Once
<1>11. CASE ReadLine
  <2> DEFINE n == FirstNewline(snap, off)
  <2>1. /\ pc = "reading" /\ HasLine(snap, off) /\ off' = NextOffset(snap, off)
        /\ UNCHANGED <<applied, stored, src, start>>
    BY <1>11 DEF ReadLine, phone
  <2>2. /\ n \in (off + 1)..Len(snap) /\ off' = n
        /\ n \in 1..Len(src) /\ src[n] = snap[n]
        /\ \A l \in Parsed(snap, off) : l \in Lines /\ src[n] = <<l, 0>>
    BY <2>1, ParsedIs
  <2>3. pending' = pending \/ \E l \in Parsed(snap, off) : pending' = Append(pending, l)
    BY <1>11 DEF ReadLine
  <2> HIDE DEF n
  <2>4. Marks(pending, start, off) /\ off \in Nat /\ start <= off
    BY <1>1, <1>2, <1>4, <2>1
  <2>5. Marks(pending', start, off')
    <3>1. CASE pending' = pending
      <4>1. off' \in Nat /\ off <= off'
        BY <1>1, <2>2
      <4> QED  BY <1>1, <2>4, <3>1, <4>1, MarksWidens
    <3>2. ASSUME NEW l \in Parsed(snap, off), pending' = Append(pending, l)
          PROVE  Marks(pending', start, off')
      <4>1. n \in (off + 1)..Len(src) /\ l \in Lines /\ src[n] = <<l, 0>>
        BY <1>1, <1>3, <2>2
      <4> QED  BY <1>1, <2>2, <2>4, <3>2, <4>1, MarksAppend
    <3> QED  BY <2>3, <3>1, <3>2
  <2> QED  BY <1>5, <1>7, <2>1, <2>5 DEF Once
<1>12. CASE SkipOversize
  <2>1. /\ pc = "reading" /\ Oversize(snap, off) /\ off' = NextOffset(snap, off)
        /\ UNCHANGED <<applied, stored, src, start, pending>>
    BY <1>12 DEF SkipOversize, phone
  <2>2. off' \in Nat /\ off <= off'
    BY <1>1, <1>3, <2>1, NextOffsetIs
  <2>3. Marks(pending', start, off')
    BY <1>1, <1>4, <2>1, <2>2, MarksWidens
  <2> QED  BY <1>5, <1>7, <2>1, <2>3 DEF Once
<1>13. CASE Commit
  <2>1. /\ pc = "reading" /\ applied' = applied \o pending /\ UNCHANGED src
        /\ pc' = "idle" /\ stored' = IF off > start THEN off ELSE stored
    BY <1>13 DEF Commit, phone
  <2>2. stored' = off /\ start = stored
    BY <1>1, <1>2, <2>1
  <2>3. Marks(applied \o pending, 0, off)
    BY <1>1, <1>3, <1>4, <2>1, <2>2, MarksConcat
  <2>4. Marks(applied, 0, stored)'
    BY <2>1, <2>2, <2>3 DEF Marks
  <2> QED  BY <2>1, <2>4 DEF Once
<1> QED
  BY <1>8, <1>9, <1>10, <1>11, <1>12, <1>13 DEF Next, Ingest
-----------------------------------------------------------------------------
(* No event is passed over.                                                *)

LEMMA MembersAppend ==
  ASSUME NEW s \in Seq(Lines), NEW l \in Lines
  PROVE  Members(s) \subseteq Members(Append(s, l)) /\ l \in Members(Append(s, l))
<1> DEFINE t == Append(s, l)
<1>1. /\ Len(s) \in Nat /\ Len(t) = Len(s) + 1 /\ t[Len(s) + 1] = l
      /\ \A i \in 1..Len(s) : t[i] = s[i]
  OBVIOUS
<1> HIDE DEF t
<1>2. Len(s) + 1 \in 1..Len(t) /\ \A i \in 1..Len(s) : i \in 1..Len(t)
  BY <1>1
<1>3. l \in Members(t)
  BY <1>1, <1>2 DEF Members
<1>4. \A i \in 1..Len(s) : s[i] \in Members(t)
  BY <1>1, <1>2 DEF Members
<1> QED  BY <1>3, <1>4 DEF Members, t

LEMMA MembersConcat ==
  ASSUME NEW s \in Seq(Lines), NEW t \in Seq(Lines)
  PROVE  Members(s) \cup Members(t) \subseteq Members(s \o t)
<1> DEFINE u == s \o t
<1>1. /\ Len(s) \in Nat /\ Len(t) \in Nat /\ Len(u) = Len(s) + Len(t)
      /\ \A i \in 1..Len(u) : u[i] = IF i <= Len(s) THEN s[i] ELSE t[i - Len(s)]
  BY ConcatProperties
<1> HIDE DEF u
<1>2. \A i \in 1..Len(s) : i \in 1..Len(u) /\ u[i] = s[i]
  BY <1>1
<1>3. \A i \in 1..Len(t) : Len(s) + i \in 1..Len(u) /\ u[Len(s) + i] = t[i]
  <2> SUFFICES ASSUME NEW i \in 1..Len(t)
               PROVE  Len(s) + i \in 1..Len(u) /\ u[Len(s) + i] = t[i]
    OBVIOUS
  <2>1. /\ Len(s) + i \in 1..Len(u) /\ ~(Len(s) + i <= Len(s))
        /\ (Len(s) + i) - Len(s) = i
    BY <1>1
  <2> QED  BY <1>1, <2>1
<1>4. \A i \in 1..Len(s) : s[i] \in Members(u)
  BY <1>2 DEF Members
<1>5. \A i \in 1..Len(t) : t[i] \in Members(u)
  BY <1>3 DEF Members
<1> QED  BY <1>4, <1>5 DEF Members, u

\* Bytes without a newline hold no event.
LEMMA NoNewlineNoEvent ==
  ASSUME NEW f \in Seq(Bytes), NEW o \in 0..Len(f), NEW n \in o..Len(f),
         \A i \in (o + 1)..n : ~IsNewline(f[i]),
         NEW l \in Lines, EventIn(f, l, n)
  PROVE  EventIn(f, l, o)
<1> DEFINE w == Width[l]
<1>1. w \in Nat /\ IsNewline(Encode(l)[w + 1])
  BY EncodeIs DEF IsNewline
<1>2. PICK b \in 0..n : /\ b + w + 1 <= n
                        /\ b > 0 => IsNewline(f[b])
                        /\ Stands(f, l, b)
  BY DEF EventIn
<1>3. \A k \in 1..(w + 1) : f[b + k] = Encode(l)[k]
  BY <1>2 DEF Stands
<1> HIDE DEF w
<1>4. b + w + 1 \in Nat /\ IsNewline(f[b + w + 1])
  <2>1. f[b + (w + 1)] = Encode(l)[w + 1]
    BY <1>1, <1>3
  <2>2. b + (w + 1) = b + w + 1
    BY <1>1
  <2> QED  BY <1>1, <2>1, <2>2
<1>5. b + w + 1 <= o /\ b \in 0..o
  BY <1>1, <1>2, <1>4
<1> QED  BY <1>2, <1>5 DEF EventIn, w

\* A line that stands at the offset, up to the first newline, parses.
LEMMA StandsParses ==
  ASSUME NEW s \in Seq(Bytes), NEW o \in Nat, NewlinesAfter(s, o) # {},
         NEW l \in Lines, l \notin Rejected, o + Width[l] + 1 = FirstNewline(s, o),
         Stands(s, l, o)
  PROVE  l \in Parsed(s, o)
<1> DEFINE n == FirstNewline(s, o)
           w == Width[l]
           c == SubSeq(s, o + 1, n)
<1>1. /\ w \in Nat /\ Encode(l) \in Seq(Lines \X Nat) /\ Len(Encode(l)) = w + 1
      /\ n \in (o + 1)..Len(s) /\ n = o + w + 1
  BY EncodeIs, FirstNewlineIs
<1>2. \A k \in 1..(w + 1) : s[o + k] = Encode(l)[k]
  BY DEF Stands
<1> HIDE DEF n, w
<1>3. c \in Seq(Bytes) /\ Len(c) = w + 1 /\ \A k \in 1..(w + 1) : c[k] = s[o + k]
  <2>1. Len(SubSeq(s, o + 1, n)) = n - (o + 1) + 1
    BY <1>1
  <2>2. \A k \in 1..(w + 1) : SubSeq(s, o + 1, n)[k] = s[o + 1 + k - 1]
    BY <1>1
  <2>3. /\ \A k \in 1..(w + 1) : o + 1 + k - 1 = o + k
        /\ n - (o + 1) + 1 = w + 1
    BY <1>1
  <2>4. SubSeq(s, o + 1, n) \in Seq(Bytes)
    BY <1>1, SubSeqProperties
  <2> QED  BY <2>1, <2>2, <2>3, <2>4
<1> HIDE DEF c
<1>4. c = Encode(l)
  <2>1. \A k \in 1..(w + 1) : c[k] = Encode(l)[k]
    BY <1>2, <1>3
  <2>2. Len(c) = Len(Encode(l)) /\ \A k \in 1..Len(c) : c[k] = Encode(l)[k]
    BY <1>1, <1>3, <2>1
  <2>3. c \in Seq((Lines \X Nat) \cup Bytes) /\ Encode(l) \in Seq((Lines \X Nat) \cup Bytes)
    BY <1>1, <1>3, SeqMonotonic
  <2> QED  BY <2>2, <2>3, SeqEqual
<1> QED  BY <1>4 DEF Parsed, c, n

\* A pass stops at line boundaries or behind what made a line oversize, and
\* makes an event of every line it passes that is one.
LEMMA NoneMissedNext ==
  ASSUME TypeOK, Follows, NoneMissed, [Next]_vars, resets' = 0
  PROVE  NoneMissed'
<1>1. /\ src \in Seq(Bytes) /\ dst \in Seq(Bytes) /\ snap \in Seq(Bytes)
      /\ stored \in Nat /\ start \in Nat /\ off \in Nat
      /\ applied \in Seq(Lines) /\ pending \in Seq(Lines)
      /\ src' \in Seq(Bytes) /\ Extends(src', src) /\ resets = 0 /\ resets \in Nat
  BY Grown DEF TypeOK
<1>2. /\ Extends(src, dst) /\ Extends(dst, snap) /\ stored <= Len(dst)
      /\ pc # "idle" => start = stored
      /\ pc = "reading" => start <= off /\ off <= Len(snap)
  BY DEF Follows
<1>3. /\ Len(dst) \in Nat /\ Len(snap) \in Nat /\ Len(src) \in Nat
      /\ stored \in 0..Len(src) /\ Len(snap) <= Len(src)
      /\ pc = "reading" => off \in 0..Len(src)
      /\ \A i \in 1..Len(snap) : src[i] = snap[i]
  BY <1>1, <1>2 DEF Extends
<1>4. /\ Complete(stored, Members(applied))
      /\ pc = "reading" => Complete(off, Members(applied) \cup Members(pending))
  BY DEF NoneMissed
<1>5. ASSUME UNCHANGED <<applied, stored>> PROVE Complete(stored, Members(applied))'
  <2> DEFINE S == Members(applied)
  <2>1. /\ Boundary(src', stored)
        /\ \A l \in Lines : EventIn(src', l, stored) => l \in S
    <3> HIDE DEF S
    <3>1. Complete(stored, S)
      BY <1>4 DEF S
    <3> QED  BY <1>1, <1>3, <3>1, CompleteGrows
  <2> QED  BY <1>5, <2>1 DEF Complete, Members
<1>6. ASSUME UNCHANGED <<applied, pending, off, pc>>, pc' = "reading"
      PROVE  Complete(off, Members(applied) \cup Members(pending))'
  <2> DEFINE S == Members(applied) \cup Members(pending)
  <2>1. /\ Boundary(src', off)
        /\ \A l \in Lines : EventIn(src', l, off) => l \in S
    <3> HIDE DEF S
    <3>1. Complete(off, S) /\ off \in 0..Len(src)
      BY <1>3, <1>4, <1>6 DEF S
    <3> QED  BY <1>1, <3>1, CompleteGrows
  <2> QED  BY <1>6, <2>1 DEF Complete, Members
<1>7. ASSUME UNCHANGED <<src, applied>>,
             Complete(off', Members(applied) \cup Members(pending'))
      PROVE  Complete(off, Members(applied) \cup Members(pending))'
  BY <1>7 DEF Complete, Members
<1>8. CASE \/ \E l \in Lines : AppendLine(l)
           \/ Deliver \/ CheckSize \/ Abort \/ UNCHANGED vars
  <2>1. UNCHANGED <<applied, stored>>
    BY <1>8 DEF AppendLine, Deliver, CheckSize, Abort, vars
  <2>2. UNCHANGED <<applied, pending, off, pc>> \/ pc' # "reading"
    BY <1>8 DEF AppendLine, Deliver, CheckSize, Abort, vars, pass
  <2> QED  BY <1>5, <1>6, <2>1, <2>2 DEF NoneMissed
<1>9. CASE Reinstall \/ Shrink
  BY <1>1, <1>9 DEF Reinstall, Shrink
<1>10. CASE OpenFile
  <2>1. UNCHANGED <<applied, stored, src>> /\ pending' = <<>> /\ off' = stored
    BY <1>2, <1>10 DEF OpenFile, phone
  <2>2. Complete(off', Members(applied) \cup Members(pending'))
    BY <1>4, <2>1 DEF Complete
  <2> QED  BY <1>5, <1>7, <2>1, <2>2 DEF NoneMissed
<1>11. CASE ReadLine
  <2> DEFINE n == FirstNewline(snap, off)
             S == Members(applied) \cup Members(pending)
             T == Members(applied) \cup Members(pending')
  <2>1. /\ pc = "reading" /\ HasLine(snap, off) /\ off' = NextOffset(snap, off)
        /\ UNCHANGED <<applied, stored, src>> /\ NewlinesAfter(snap, off) # {}
    BY <1>11 DEF ReadLine, HasLine, phone
  <2>2. /\ n \in (off + 1)..Len(snap) /\ off' = n
        /\ n \in 1..Len(src) /\ src[n] = snap[n]
        /\ \A i \in (off + 1)..(n - 1) : ~IsNewline(snap[i])
        /\ \A l \in Parsed(snap, off) : l \in Lines /\ src[n] = <<l, 0>>
    BY <2>1, ParsedIs
  <2>3. IsNewline(src[n])
    BY <1>1, <2>1, <2>2, FirstNewlineIs
  <2>4. IF Parsed(snap, off) = {} THEN pending' = pending
        ELSE \E l \in Parsed(snap, off) : pending' = Append(pending, l)
    BY <1>11 DEF ReadLine
  <2>5. S \subseteq T
    BY <1>1, <2>2, <2>4, MembersAppend
  <2>6. \A l \in Parsed(snap, off) : l \in T
    <3> SUFFICES ASSUME NEW l \in Parsed(snap, off) PROVE l \in T
      OBVIOUS
    <3>1. PICK m \in Parsed(snap, off) : pending' = Append(pending, m)
      BY <2>4
    <3>2. <<l, 0>> = <<m, 0>> /\ m \in Lines
      BY <2>2
    <3>3. m \in Members(Append(pending, m))
      BY <1>1, <3>2, MembersAppend
    <3> QED  BY <3>1, <3>2, <3>3
  <2>7. Complete(off, S) /\ off \in 0..Len(src)
    BY <1>3, <1>4, <2>1
  <2> HIDE DEF n, S, T
  <2>8. Boundary(src, n)
    <3>1. n \in 0..n /\ \A i \in (n + 1)..n : ~IsNewline(src[i])
      BY <2>2
    <3> QED  BY <2>3, <3>1 DEF Boundary
  <2>9. ASSUME NEW l \in Lines, EventIn(src, l, n) PROVE l \in T
    <3>1. CASE EventIn(src, l, off)
      BY <2>5, <2>7, <3>1 DEF Complete
    <3>2. CASE ~EventIn(src, l, off)
      <4>1. \A i \in (off + 1)..(n - 1) : ~IsNewline(src[i])
        <5>1. \A i \in (off + 1)..(n - 1) : i \in 1..Len(snap)
          BY <1>1, <1>3, <2>2
        <5> QED  BY <1>3, <2>2, <5>1
      <4>2. n \in (off + 1)..Len(src)
        BY <1>1, <1>3, <2>2
      <4>3. Boundary(src, off)
        BY <2>7 DEF Complete
      <4>4. off + Width[l] + 1 = n /\ Stands(src, l, off) /\ l \notin Rejected
        <5>1. off \in 0..Len(src) /\ src \in Seq(Bytes) /\ EventIn(src, l, n)
          BY <1>1, <2>7, <2>9
        <5> QED  BY <3>2, <4>1, <4>2, <4>3, <5>1, NextEvent
      <4>5. Stands(snap, l, off)
        <5>1. Width[l] \in Nat
          BY EncodeIs
        <5>2. \A k \in 1..(Width[l] + 1) : off + k \in 1..Len(snap)
          BY <1>1, <1>3, <2>2, <4>4, <5>1
        <5> QED  BY <1>3, <4>4, <5>2 DEF Stands
      <4>6. l \in Parsed(snap, off)
        BY <1>1, <2>1, <4>4, <4>5, StandsParses DEF n
      <4> QED  BY <2>6, <4>6
    <3> QED  BY <3>1, <3>2
  <2>10. Complete(off', T)
    BY <2>2, <2>8, <2>9 DEF Complete
  <2>11. pc' = "reading" => Complete(off, Members(applied) \cup Members(pending))'
    BY <1>7, <2>1, <2>10 DEF T
  <2> QED  BY <1>5, <2>1, <2>11 DEF NoneMissed
<1>12. CASE SkipOversize
  <2> DEFINE n == NextOffset(snap, off)
             S == Members(applied) \cup Members(pending)
  <2>1. /\ pc = "reading" /\ Oversize(snap, off) /\ off' = n
        /\ UNCHANGED <<applied, stored, src, pending>>
    BY <1>12 DEF SkipOversize, phone
  <2>2. n \in (off + 1)..Len(snap) /\ n \in (off + 1)..Len(src) /\ JSONL_MAX_LINE \in Nat
    <3>1. n \in (off + 1)..Len(snap)
      BY <1>1, <2>1, NextOffsetIs
    <3> HIDE DEF n
    <3> QED  BY <1>1, <1>3, <3>1, StreamAssumption
  <2>3. Complete(off, S) /\ off \in 0..Len(src) /\ Boundary(src, off)
    BY <1>3, <1>4, <2>1 DEF Complete
  <2>4. ASSUME NewlinesAfter(snap, off) # {} PROVE Complete(n, S)
    <3> HIDE DEF S
    <3>1. /\ n = FirstNewline(snap, off) /\ n - 1 - off > JSONL_MAX_LINE
          /\ IsNewline(snap[n])
          /\ \A i \in (off + 1)..(n - 1) : ~IsNewline(snap[i])
      BY <1>1, <2>1, <2>4, FirstNewlineIs DEF NextOffset, Oversize, Held
    <3> HIDE DEF n
    <3>2. /\ \A i \in (off + 1)..n : i \in 1..Len(snap)
          /\ n \in (off + 1)..n /\ n \in 0..n
      BY <1>1, <1>3, <2>2
    <3>3. IsNewline(src[n]) /\ \A i \in (off + 1)..(n - 1) : ~IsNewline(src[i])
      <4>1. \A i \in (off + 1)..(n - 1) : i \in (off + 1)..n
        BY <1>1, <2>2
      <4> QED  BY <1>3, <3>1, <3>2, <4>1
    <3>4. Boundary(src, n)
      <4>1. \A i \in (n + 1)..n : ~IsNewline(src[i])
        BY <2>2
      <4> QED  BY <3>2, <3>3, <4>1 DEF Boundary
    <3>5. ASSUME NEW l \in Lines, EventIn(src, l, n) PROVE EventIn(src, l, off)
      <4> SUFFICES ASSUME ~EventIn(src, l, off) PROVE FALSE
        OBVIOUS
      <4>1. off + Width[l] + 1 = n /\ Width[l] <= JSONL_MAX_LINE
        <5>1. /\ off \in 0..Len(src) /\ n \in (off + 1)..Len(src)
              /\ src \in Seq(Bytes) /\ EventIn(src, l, n) /\ Boundary(src, off)
          BY <1>1, <2>2, <2>3, <3>5
        <5>2. \A i \in (off + 1)..(n - 1) : ~IsNewline(src[i])
          BY <3>3
        <5> QED  BY <5>1, <5>2, NextEvent
      <4>2. Width[l] \in Nat
        BY EncodeIs
      <4> QED  BY <1>1, <2>2, <3>1, <4>1, <4>2
    <3> QED  BY <2>3, <3>4, <3>5 DEF Complete
  <2>5. ASSUME NewlinesAfter(snap, off) = {} PROVE Complete(n, S)
    <3> HIDE DEF S
    <3>1. n = Len(snap) /\ n - off > JSONL_MAX_LINE
      <4>1. off < Len(snap)
        BY <1>1, <1>3, <2>2
      <4> QED  BY <2>1, <2>5, <4>1 DEF NextOffset, Oversize, Held
    <3>2. \A i \in (off + 1)..n : ~IsNewline(src[i])
      <4>1. \A i \in (off + 1)..Len(snap) : ~IsNewline(snap[i])
        BY <2>5, Zenon DEF NewlinesAfter
      <4>2. \A i \in (off + 1)..Len(snap) : i \in 1..Len(snap)
        BY <1>1
      <4> QED  BY <1>3, <3>1, <4>1, <4>2
    <3> HIDE DEF n
    <3>3. PICK q \in 0..off : /\ q > 0 => IsNewline(src[q])
                              /\ \A i \in (q + 1)..off : ~IsNewline(src[i])
      BY <2>3 DEF Boundary
    <3>4. q \in 0..n /\ n - q > JSONL_MAX_LINE
      BY <1>1, <2>2, <3>1
    <3>5. \A i \in (q + 1)..n : i \in (q + 1)..off \/ i \in (off + 1)..n
      BY <1>1, <2>2
    <3>6. Boundary(src, n)
      BY <3>2, <3>3, <3>4, <3>5 DEF Boundary
    <3>7. ASSUME NEW l \in Lines, EventIn(src, l, n) PROVE EventIn(src, l, off)
      <4>1. n \in off..Len(src)
        BY <1>1, <1>3, <2>2
      <4> QED  BY <1>1, <2>3, <3>2, <3>7, <4>1, NoNewlineNoEvent
    <3> QED  BY <2>3, <3>6, <3>7 DEF Complete
  <2>6. Complete(n, S)
    BY <2>4, <2>5
  <2>7. pc' = "reading" => Complete(off, Members(applied) \cup Members(pending))'
    BY <1>7, <2>1, <2>6
  <2> QED  BY <1>5, <2>1, <2>7 DEF NoneMissed
<1>13. CASE Commit
  <2>1. /\ pc = "reading" /\ applied' = applied \o pending /\ UNCHANGED src
        /\ pc' = "idle" /\ stored' = IF off > start THEN off ELSE stored
    BY <1>13 DEF Commit, phone
  <2>2. stored' = off
    BY <1>1, <1>2, <2>1
  <2>3. Members(applied) \cup Members(pending) \subseteq Members(applied')
    BY <1>1, <2>1, MembersConcat
  <2>4. Complete(off, Members(applied'))
    BY <1>4, <2>1, <2>3 DEF Complete
  <2>5. Complete(stored, Members(applied))'
    BY <2>1, <2>2, <2>4 DEF Complete, Members
  <2> QED  BY <2>1, <2>5 DEF NoneMissed
<1> QED
  BY <1>8, <1>9, <1>10, <1>11, <1>12, <1>13 DEF Next, Ingest
-----------------------------------------------------------------------------
(* The abstract log.                                                       *)

\* l stands in f where the bytes of f say so.
LEMMA StandsIs ==
  ASSUME NEW f \in Seq(Bytes), NEW l \in Lines, NEW o \in Nat, o + Width[l] + 1 <= Len(f)
  PROVE  SubSeq(f, o + 1, o + Width[l] + 1) = Encode(l) <=> Stands(f, l, o)
<1> DEFINE w == Width[l]
           c == SubSeq(f, o + 1, o + w + 1)
<1>1. w \in Nat /\ Encode(l) \in Seq(Lines \X Nat) /\ Len(Encode(l)) = w + 1
  BY EncodeIs
<1> HIDE DEF w
<1>2. /\ c \in Seq(Bytes) /\ Len(c) = w + 1 /\ \A k \in 1..(w + 1) : c[k] = f[o + k]
  <2>1. \A i \in (o + 1)..(o + w + 1) : f[i] \in Bytes
    BY <1>1 DEF w
  <2>2. o + 1 \in Int /\ o + w + 1 \in Int /\ o + 1 <= o + w + 1
    BY <1>1
  <2>3. /\ c \in Seq(Bytes) /\ Len(c) = (o + w + 1) - (o + 1) + 1
        /\ \A k \in 1..((o + w + 1) - (o + 1) + 1) : c[k] = f[o + 1 + k - 1]
    BY <2>1, <2>2, SubSeqProperties
  <2>4. (o + w + 1) - (o + 1) + 1 = w + 1 /\ \A k \in 1..(w + 1) : o + 1 + k - 1 = o + k
    BY <1>1
  <2> QED  BY <2>3, <2>4
<1> HIDE DEF c
<1>3. ASSUME c = Encode(l) PROVE Stands(f, l, o)
  BY <1>2, <1>3 DEF Stands, w
<1>4. ASSUME Stands(f, l, o) PROVE c = Encode(l)
  <2>1. Len(c) = Len(Encode(l)) /\ \A k \in 1..Len(c) : c[k] = Encode(l)[k]
    BY <1>1, <1>2, <1>4 DEF Stands, w
  <2>2. c \in Seq((Lines \X Nat) \cup Bytes) /\ Encode(l) \in Seq((Lines \X Nat) \cup Bytes)
    BY <1>1, <1>2, SeqMonotonic
  <2> QED  BY <2>1, <2>2, SeqEqual
<1> QED  BY <1>3, <1>4 DEF c, w

LEMMA IsEventIs ==
  ASSUME NEW f \in Seq(Bytes), NEW l \in Lines
  PROVE  IsEvent(f, l) <=> EventIn(f, l, Len(f))
<1> DEFINE w == Width[l]
<1>1. w \in Nat /\ Len(f) \in Nat
  BY EncodeIs
<1>3. \A o \in 0..(Len(f) - w - 1) :
        SubSeq(f, o + 1, o + w + 1) = Encode(l) <=> Stands(f, l, o)
  <2> SUFFICES ASSUME NEW o \in 0..(Len(f) - w - 1)
               PROVE  SubSeq(f, o + 1, o + w + 1) = Encode(l) <=> Stands(f, l, o)
    OBVIOUS
  <2>1. o \in Nat /\ o + w + 1 <= Len(f)
    BY <1>1
  <2> QED  BY <2>1, StandsIs
<1>4. IsEvent(f, l) <=>
        /\ l \notin Rejected /\ w <= JSONL_MAX_LINE
        /\ \E o \in 0..(Len(f) - w - 1) :
             /\ o > 0 => IsNewline(f[o])
             /\ SubSeq(f, o + 1, o + w + 1) = Encode(l)
  BY DEF IsEvent
<1>5. EventIn(f, l, Len(f)) <=>
        /\ l \notin Rejected /\ w <= JSONL_MAX_LINE
        /\ \E o \in 0..Len(f) : /\ o + w + 1 <= Len(f)
                                /\ o > 0 => IsNewline(f[o])
                                /\ Stands(f, l, o)
  BY DEF EventIn
<1>6. ASSUME NEW o \in 0..(Len(f) - w - 1)
      PROVE  o \in 0..Len(f) /\ o + w + 1 <= Len(f)
  BY <1>1
<1>7. ASSUME NEW o \in 0..Len(f), o + w + 1 <= Len(f)
      PROVE  o \in 0..(Len(f) - w - 1)
  BY <1>1, <1>7
<1> HIDE DEF w
<1>8. ASSUME IsEvent(f, l) PROVE EventIn(f, l, Len(f))
  <2>1. PICK o \in 0..(Len(f) - w - 1) :
          /\ o > 0 => IsNewline(f[o])
          /\ SubSeq(f, o + 1, o + w + 1) = Encode(l)
    BY <1>4, <1>8, Zenon
  <2>2. Stands(f, l, o)
    BY <1>3, <2>1, Zenon
  <2>3. l \notin Rejected /\ w <= JSONL_MAX_LINE
    BY <1>4, <1>8, Zenon
  <2> QED  BY <1>5, <1>6, <2>1, <2>2, <2>3, Zenon
<1>9. ASSUME EventIn(f, l, Len(f)) PROVE IsEvent(f, l)
  <2>1. PICK o \in 0..Len(f) : /\ o + w + 1 <= Len(f)
                               /\ o > 0 => IsNewline(f[o])
                               /\ Stands(f, l, o)
    BY <1>5, <1>9, Zenon
  <2>2. o \in 0..(Len(f) - w - 1)
    BY <1>7, <2>1
  <2>3. SubSeq(f, o + 1, o + w + 1) = Encode(l)
    BY <1>3, <2>1, <2>2
  <2>4. l \notin Rejected /\ w <= JSONL_MAX_LINE
    BY <1>5, <1>9, Zenon
  <2> QED  BY <1>4, <2>1, <2>2, <2>3, <2>4
<1> QED  BY <1>8, <1>9

\* The lines of S are whole in f.
AllIn(f, S) == \A l \in S : \E o \in Nat : o + Width[l] + 1 <= Len(f) /\ Stands(f, l, o)

LEMMA AllInIs ==
  ASSUME NEW f \in Seq(Bytes), NEW S \in SUBSET Lines,
         \A l \in S : \E o \in 0..(Len(f) - Width[l] - 1) :
           SubSeq(f, o + 1, o + Width[l] + 1) = Encode(l)
  PROVE  AllIn(f, S)
<1> SUFFICES ASSUME NEW l \in S
             PROVE  \E o \in Nat : o + Width[l] + 1 <= Len(f) /\ Stands(f, l, o)
  BY DEF AllIn
<1>1. PICK o \in 0..(Len(f) - Width[l] - 1) : SubSeq(f, o + 1, o + Width[l] + 1) = Encode(l)
  OBVIOUS
<1>2. l \in Lines /\ Width[l] \in Nat /\ Len(f) \in Nat
  BY EncodeIs
<1>3. o \in Nat /\ o + Width[l] + 1 <= Len(f)
  BY <1>2
<1> QED  BY <1>1, <1>2, <1>3, StandsIs

LEMMA AllInIsWhole ==
  ASSUME NEW f \in Seq(Bytes), NEW S \in SUBSET Lines, AllIn(f, S), NEW l \in S
  PROVE  \E o \in 0..(Len(f) - Width[l] - 1) : SubSeq(f, o + 1, o + Width[l] + 1) = Encode(l)
<1>1. PICK o \in Nat : o + Width[l] + 1 <= Len(f) /\ Stands(f, l, o)
  BY DEF AllIn
<1>2. l \in Lines /\ Width[l] \in Nat /\ Len(f) \in Nat
  BY EncodeIs
<1>3. o \in 0..(Len(f) - Width[l] - 1)
  BY <1>1, <1>2
<1> QED  BY <1>1, <1>2, <1>3, StandsIs

\* Position i of f is the newline of an event.
Ends(f, i) == IsNewline(f[i]) /\ IsEvent(f, f[i][1])

\* g is the recursive function of Logged on the first m bytes.
Logs(g, m, f) ==
  g = [n \in 0..m |->
         IF n = 0 THEN <<>>
         ELSE IF IsNewline(f[n]) /\ IsEvent(f, f[n][1]) THEN Append(g[n - 1], f[n][1])
         ELSE g[n - 1]]

LEMMA LogsExist ==
  ASSUME NEW f, NEW m \in Nat
  PROVE  \E g : Logs(g, m, f)
<1> DEFINE Missing == {n \in Nat : ~ \E g : Logs(g, n, f)}
<1> SUFFICES ASSUME Missing # {} PROVE FALSE
  OBVIOUS
<1>1. PICK n \in Missing : \A k \in Missing : n <= k
  <2>1. Missing \in SUBSET Nat
    OBVIOUS
  <2> HIDE DEF Missing
  <2> QED  BY <2>1, Least
<1>2. n \in Nat /\ ~ \E g : Logs(g, n, f)
  BY <1>1
<1>3. n # 0
  <2>1. Logs([i \in 0..0 |-> <<>>], 0, f)
    BY DEF Logs
  <2> QED  BY <1>2, <2>1
<1>4. PICK g : Logs(g, n - 1, f)
  <2>1. n - 1 \in Nat /\ ~(n <= n - 1)
    BY <1>2, <1>3
  <2> QED  BY <1>1, <2>1
<1> DEFINE last == IF Ends(f, n) THEN Append(g[n - 1], f[n][1]) ELSE g[n - 1]
           G == [i \in 0..n |-> IF i = n THEN last ELSE g[i]]
<1>5. \A i \in 0..(n - 1) :
        g[i] = IF i = 0 THEN <<>>
               ELSE IF Ends(f, i) THEN Append(g[i - 1], f[i][1]) ELSE g[i - 1]
  BY <1>4, Zenon DEF Logs, Ends
<1>6. Logs(G, n, f)
  <2> SUFFICES ASSUME NEW i \in 0..n
               PROVE  G[i] = IF i = 0 THEN <<>>
                             ELSE IF Ends(f, i) THEN Append(G[i - 1], f[i][1]) ELSE G[i - 1]
    BY Zenon DEF Logs, Ends
  <2>1. CASE i = n
    <3>1. i - 1 \in 0..n /\ i - 1 # n /\ i # 0
      BY <1>2, <1>3, <2>1
    <3> QED  BY <2>1, <3>1
  <2>2. CASE i # n
    <3>1. i \in 0..(n - 1) /\ (i # 0 => i - 1 \in 0..n /\ i - 1 # n)
      BY <1>2, <1>3, <2>2
    <3> QED  BY <1>5, <2>2, <3>1
  <2> QED  BY <2>1, <2>2
<1> QED  BY <1>2, <1>6

LEMMA LoggedIs ==
  ASSUME NEW f \in Seq(Bytes)
  PROVE  /\ Logged(f)[0] = <<>>
         /\ \A n \in 1..Len(f) :
              Logged(f)[n] = IF Ends(f, n) THEN Append(Logged(f)[n - 1], f[n][1])
                             ELSE Logged(f)[n - 1]
<1> DEFINE g == CHOOSE h : Logs(h, Len(f), f)
<1>1. Logged(f) = g
  BY Zenon DEF Logged, Logs
<1>2. Logs(g, Len(f), f)
  <2>1. Len(f) \in Nat
    OBVIOUS
  <2>2. \E h : Logs(h, Len(f), f)
    BY ONLY <2>1, LogsExist
  <2> QED  BY <2>2, Zenon
<1> HIDE DEF g
<1>3. \A n \in 0..Len(f) :
        g[n] = IF n = 0 THEN <<>>
               ELSE IF Ends(f, n) THEN Append(g[n - 1], f[n][1]) ELSE g[n - 1]
  BY <1>2, Zenon DEF Logs, Ends
<1>4. 0 \in 0..Len(f) /\ \A n \in 1..Len(f) : n \in 0..Len(f) /\ n # 0
  OBVIOUS
<1> QED  BY <1>1, <1>3, <1>4

LEMMA LoggedType ==
  ASSUME NEW f \in Seq(Bytes), NEW m \in 0..Len(f)
  PROVE  Logged(f)[m] \in Seq(Lines)
<1> DEFINE L == Logged(f)
           Bad == {n \in 0..Len(f) : L[n] \notin Seq(Lines)}
<1>1. /\ L[0] = <<>>
      /\ \A n \in 1..Len(f) : L[n] = IF Ends(f, n) THEN Append(L[n - 1], f[n][1]) ELSE L[n - 1]
  BY LoggedIs
<1> HIDE DEF L
<1> SUFFICES ASSUME Bad # {} PROVE FALSE
  BY DEF L
<1>2. PICK n \in Bad : \A k \in Bad : n <= k
  <2>1. Bad \in SUBSET Nat
    OBVIOUS
  <2> HIDE DEF Bad
  <2> QED  BY <2>1, Least
<1>3. n \in 0..Len(f) /\ L[n] \notin Seq(Lines)
  BY <1>2
<1>4. n # 0
  <2>1. <<>> \in Seq(Lines)
    OBVIOUS
  <2> QED  BY <1>1, <1>3, <2>1, Zenon
<1>5. n \in 1..Len(f) /\ n - 1 \in 0..Len(f) /\ ~(n <= n - 1)
  BY <1>3, <1>4
<1>6. L[n - 1] \in Seq(Lines)
  BY <1>2, <1>5
<1>7. f[n][1] \in Lines
  <2>1. f[n] \in Bytes
    BY <1>5
  <2> QED  BY <2>1, BytesAre
<1>8. Append(L[n - 1], f[n][1]) \in Seq(Lines)
  BY <1>6, <1>7, AppendProperties, Zenon
<1> QED  BY <1>1, <1>3, <1>5, <1>6, <1>8

\* Nothing is logged where no event ends.
LEMMA LoggedQuiet ==
  ASSUME NEW f \in Seq(Bytes), NEW m \in 0..Len(f), NEW n \in m..Len(f),
         \A i \in (m + 1)..n : ~Ends(f, i)
  PROVE  Logged(f)[n] = Logged(f)[m]
<1> DEFINE L == Logged(f)
           Bad == {k \in m..n : L[k] # L[m]}
<1>1. \A k \in 1..Len(f) : L[k] = IF Ends(f, k) THEN Append(L[k - 1], f[k][1]) ELSE L[k - 1]
  BY LoggedIs
<1> HIDE DEF L
<1> SUFFICES ASSUME Bad # {} PROVE FALSE
  BY DEF L
<1>2. PICK k \in Bad : \A j \in Bad : k <= j
  <2>1. Bad \in SUBSET Nat
    OBVIOUS
  <2> HIDE DEF Bad
  <2> QED  BY <2>1, Least
<1>3. k \in m..n /\ L[k] # L[m]
  BY <1>2
<1>4. k \in (m + 1)..n /\ k - 1 \in m..n /\ ~(k <= k - 1) /\ k \in 1..Len(f)
  BY <1>3
<1>5. L[k - 1] = L[m]
  BY <1>2, <1>4
<1> QED  BY <1>1, <1>3, <1>4, <1>5

\* s is at the head of t.
Heads(s, t) == Len(s) <= Len(t) /\ \A i \in 1..Len(s) : s[i] = t[i]

\* What is logged up to an offset is at the head of what is logged later.
LEMMA LoggedHeads ==
  ASSUME NEW f \in Seq(Bytes), NEW m \in 0..Len(f), NEW n \in m..Len(f)
  PROVE  Heads(Logged(f)[m], Logged(f)[n])
<1> DEFINE L == Logged(f)
           Bad == {k \in m..Len(f) : ~Heads(L[m], L[k])}
<1>1. \A k \in 1..Len(f) : L[k] = IF Ends(f, k) THEN Append(L[k - 1], f[k][1]) ELSE L[k - 1]
  BY LoggedIs
<1>2. \A k \in 0..Len(f) : L[k] \in Seq(Lines)
  BY LoggedType
<1> HIDE DEF L
<1> SUFFICES ASSUME Bad # {} PROVE FALSE
  BY DEF L
<1>3. PICK k \in Bad : \A j \in Bad : k <= j
  <2>1. Bad \in SUBSET Nat
    OBVIOUS
  <2> HIDE DEF Bad
  <2> QED  BY <2>1, Least
<1>4. k \in m..Len(f) /\ ~Heads(L[m], L[k])
  BY <1>3
<1>5. k # m
  <2>1. Heads(L[m], L[m])
    BY <1>2 DEF Heads
  <2> QED  BY <1>4, <2>1
<1>6. k - 1 \in m..Len(f) /\ ~(k <= k - 1) /\ k \in 1..Len(f) /\ k - 1 \in 0..Len(f)
  BY <1>4, <1>5
<1>7. Heads(L[m], L[k - 1])
  BY <1>3, <1>6
<1>8. CASE ~Ends(f, k)
  BY <1>1, <1>4, <1>6, <1>7, <1>8
<1>9. CASE Ends(f, k)
  <2> DEFINE s == L[m]
             t == L[k - 1]
             e == f[k][1]
  <2>1. L[k] = Append(t, e) /\ s \in Seq(Lines) /\ t \in Seq(Lines)
    BY <1>1, <1>2, <1>6, <1>9
  <2>2. e \in Lines
    <3>1. f[k] \in Bytes
      BY <1>6
    <3> QED  BY <3>1, BytesAre
  <2> HIDE DEF s, t, e
  <2>3. Heads(s, t)
    BY <1>7 DEF s, t
  <2>4. Heads(s, Append(t, e))
    BY <2>1, <2>2, <2>3, AppendProperties DEF Heads
  <2> QED  BY <1>4, <2>1, <2>4 DEF s
<1> QED  BY <1>8, <1>9

\* What is logged of a file stays when it grows and its events stay events.
LEMMA LoggedGrows ==
  ASSUME NEW f \in Seq(Bytes), NEW g \in Seq(Bytes), Extends(g, f),
         \A i \in 1..Len(f) : Ends(g, i) <=> Ends(f, i), NEW m \in 0..Len(f)
  PROVE  Logged(g)[m] = Logged(f)[m]
<1> DEFINE L == Logged(f)
           M == Logged(g)
           Bad == {n \in 0..Len(f) : M[n] # L[n]}
<1>1. /\ L[0] = <<>>
      /\ \A n \in 1..Len(f) : L[n] = IF Ends(f, n) THEN Append(L[n - 1], f[n][1]) ELSE L[n - 1]
  BY LoggedIs
<1>2. /\ M[0] = <<>>
      /\ \A n \in 1..Len(g) : M[n] = IF Ends(g, n) THEN Append(M[n - 1], g[n][1]) ELSE M[n - 1]
  BY LoggedIs
<1> HIDE DEF L, M
<1> SUFFICES ASSUME Bad # {} PROVE FALSE
  BY DEF L, M
<1>3. PICK n \in Bad : \A k \in Bad : n <= k
  <2>1. Bad \in SUBSET Nat
    OBVIOUS
  <2> HIDE DEF Bad
  <2> QED  BY <2>1, Least
<1>4. n \in 0..Len(f) /\ M[n] # L[n]
  BY <1>3
<1>5. n \in 1..Len(f) /\ n - 1 \in 0..Len(f) /\ ~(n <= n - 1)
  BY <1>1, <1>2, <1>4
<1>6. M[n - 1] = L[n - 1]
  BY <1>3, <1>5
<1>7. n \in 1..Len(g) /\ g[n] = f[n]
  BY <1>5 DEF Extends
<1> QED  BY <1>1, <1>2, <1>4, <1>5, <1>6, <1>7

\* The appended bytes are a piece of a line that the file did not have.
LEMMA AppendedIs ==
  ASSUME TypeOK, NEW l \in Lines, AppendLine(l)
  PROVE  /\ src \in Seq(Bytes) /\ src' \in Seq(Bytes)
         /\ Len(src) \in Nat /\ Len(src') \in Nat /\ Width[l] \in Nat \ {0}
         /\ Len(src) < Len(src') /\ Len(src') <= Len(src) + Width[l] + 1
         /\ \A i \in 1..Len(src) : src'[i] = src[i]
         /\ \A i \in (Len(src) + 1)..Len(src') : /\ i - Len(src) \in 1..(Width[l] + 1)
                                                 /\ src'[i] = Encode(l)[i - Len(src)]
                                                 /\ src'[i][1] = l
         /\ l \notin used /\ used' = used \cup {l}
<1>1. src \in Seq(Bytes) /\ Len(src) \in Nat
  BY DEF TypeOK
<1>2. PICK n \in 1..Len(Encode(l)) : src' = src \o SubSeq(Encode(l), 1, n)
  BY DEF AppendLine
<1>3. n \in 1..(Width[l] + 1) /\ n \in Nat /\ Width[l] \in Nat \ {0}
  BY EncodeIs
<1>4. Len(src') <= MaxBytes
  BY DEF AppendLine
<1>5. /\ src' \in Seq(Bytes) /\ Len(src') = Len(src) + n
      /\ \A i \in 1..Len(src) : src'[i] = src[i]
      /\ \A k \in 1..n : src'[Len(src) + k] = Encode(l)[k]
  BY <1>1, <1>2, <1>3, <1>4, AppendIs
<1>6. ASSUME NEW i \in (Len(src) + 1)..Len(src')
      PROVE  /\ i - Len(src) \in 1..(Width[l] + 1)
             /\ src'[i] = Encode(l)[i - Len(src)]
             /\ src'[i][1] = l
  <2> DEFINE k == i - Len(src)
  <2>1. k \in 1..n /\ i = Len(src) + k
    BY <1>1, <1>3, <1>5
  <2> HIDE DEF k
  <2>2. k \in 1..(Width[l] + 1)
    BY <1>3, <2>1
  <2>3. src'[i] = Encode(l)[k]
    BY <1>5, <2>1
  <2>4. Encode(l)[k][1] = l
    BY <2>2, EncodeIs
  <2> QED  BY <2>2, <2>3, <2>4 DEF k
<1> QED  BY <1>1, <1>3, <1>5, <1>6 DEF AppendLine

\* A line that was tried before stands in the file as it was.
LEMMA OldStands ==
  ASSUME TypeOK, Fresh, NEW l \in Lines, AppendLine(l), NEW u \in used, NEW o \in Nat,
         o + Width[u] + 1 <= Len(src'), Stands(src', u, o)
  PROVE  o + Width[u] + 1 <= Len(src) /\ Stands(src, u, o)
<1> DEFINE w == Width[u]
<1>1. u \in Lines /\ w \in Nat
  BY EncodeIs DEF TypeOK
<1>2. Encode(u)[w + 1][1] = u
  <2>1. \A k \in 1..(w + 1) : Encode(u)[k][1] = u
    BY <1>1, EncodeIs
  <2> QED  BY <1>1, <2>1
<1>3. \A k \in 1..(w + 1) : src'[o + k] = Encode(u)[k]
  BY DEF Stands
<1>4. /\ Len(src) \in Nat /\ Len(src') \in Nat /\ u # l
      /\ \A i \in 1..Len(src) : src'[i] = src[i]
      /\ \A i \in (Len(src) + 1)..Len(src') : src'[i][1] = l
  BY AppendedIs
<1>5. o + w + 1 <= Len(src')
  OBVIOUS
<1> HIDE DEF w
<1>6. src'[o + w + 1][1] = u
  <2>1. w + 1 \in 1..(w + 1) /\ o + (w + 1) = o + w + 1
    BY <1>1
  <2> QED  BY <1>2, <1>3, <2>1
<1>7. o + w + 1 <= Len(src)
  BY <1>1, <1>4, <1>5, <1>6
<1>8. ASSUME NEW k \in 1..(w + 1) PROVE src[o + k] = Encode(u)[k]
  <2>1. o + k \in 1..Len(src)
    BY <1>1, <1>4, <1>7
  <2> QED  BY <1>3, <1>4, <2>1
<1> QED  BY <1>7, <1>8 DEF Stands, w

\* The appended line stands behind the file, with its newline, if it is whole.
LEMMA NewStands ==
  ASSUME TypeOK, Fresh, NEW l \in Lines, AppendLine(l), NEW o \in Nat,
         o + Width[l] + 1 <= Len(src'), Stands(src', l, o)
  PROVE  o = Len(src) /\ Len(src') = Len(src) + Width[l] + 1
<1> DEFINE w == Width[l]
<1>1. /\ Len(src) \in Nat /\ Len(src') \in Nat /\ w \in Nat \ {0} /\ l \notin used
      /\ Len(src') <= Len(src) + w + 1
      /\ \A i \in 1..Len(src) : src'[i] = src[i]
  BY AppendedIs
<1>2. \A k \in 1..(w + 1) : src'[o + k] = Encode(l)[k] /\ Encode(l)[k][1] = l
  BY EncodeIs DEF Stands
<1>3. o + w + 1 <= Len(src')
  OBVIOUS
<1> HIDE DEF w
<1>4. src'[o + 1][1] = l
  <2>1. 1 \in 1..(w + 1)
    BY <1>1
  <2> QED  BY <1>2, <2>1
<1>5. \A i \in 1..Len(src) : src'[i][1] # l
  BY <1>1 DEF Fresh
<1>6. o >= Len(src)
  <2> SUFFICES ASSUME o < Len(src) PROVE FALSE
    BY <1>1
  <2>1. o + 1 \in 1..Len(src)
    BY <1>1
  <2> QED  BY <1>4, <1>5, <2>1
<1> QED  BY <1>1, <1>3, <1>6 DEF w

\* Writes that are whole now were whole before.
LEMMA WholeBefore ==
  ASSUME TypeOK, Fresh, [Next]_vars, resets' = 0, Whole'
  PROVE  Whole
<1>1. resets = 0 /\ resets \in Nat /\ src \in Seq(Bytes) /\ src' \in Seq(Bytes)
  BY Grown DEF TypeOK
<1>2. used \subseteq Lines /\ used' \subseteq Lines
  BY TypeNext DEF TypeOK
<1>3. ASSUME NEW l \in Lines, AppendLine(l) PROVE Whole
  <2>1. \A u \in used' : \E o \in 0..(Len(src') - Width[u] - 1) :
           SubSeq(src', o + 1, o + Width[u] + 1) = Encode(u)
    BY DEF Whole
  <2>2. AllIn(src', used')
    BY <1>1, <1>2, <2>1, AllInIs
  <2>3. used \subseteq used'
    BY <1>3, AppendedIs
  <2>4. AllIn(src, used)
    <3> SUFFICES ASSUME NEW u \in used
                 PROVE  \E o \in Nat : o + Width[u] + 1 <= Len(src) /\ Stands(src, u, o)
      BY DEF AllIn
    <3>1. PICK o \in Nat : o + Width[u] + 1 <= Len(src') /\ Stands(src', u, o)
      BY <2>2, <2>3 DEF AllIn
    <3> QED  BY <1>3, <3>1, OldStands
  <2> QED  BY <1>1, <1>2, <2>4, AllInIsWhole DEF Whole
<1>4. CASE Reinstall \/ Shrink
  BY <1>1, <1>4 DEF Reinstall, Shrink
<1>5. CASE UNCHANGED phone
  BY <1>5 DEF phone, Whole
<1> QED
  BY <1>3, <1>4, <1>5
  DEF Next, Ingest, Deliver, CheckSize, OpenFile, ReadLine, SkipOversize,
      Commit, Abort, vars, phone

\* A line that is whole is appended with its newline.
LEMMA WholeAppended ==
  ASSUME TypeOK, Fresh, NEW l \in Lines, AppendLine(l), Whole'
  PROVE  Len(src') = Len(src) + Width[l] + 1
<1>1. l \in used' /\ Width[l] \in Nat /\ src' \in Seq(Bytes) /\ Len(src') \in Nat
  BY AppendedIs
<1>2. PICK o \in 0..(Len(src') - Width[l] - 1) :
        SubSeq(src', o + 1, o + Width[l] + 1) = Encode(l)
  BY <1>1 DEF Whole
<1>3. o \in Nat /\ o + Width[l] + 1 <= Len(src')
  BY <1>1
<1>4. Stands(src', l, o)
  BY <1>1, <1>2, <1>3, StandsIs
<1> QED  BY <1>3, <1>4, NewStands

\* An event stays one when the phone writes on, and no line becomes one.
LEMMA EndsGrows ==
  ASSUME TypeOK, Fresh, NEW l \in Lines, AppendLine(l), NEW i \in 1..Len(src)
  PROVE  Ends(src', i) <=> Ends(src, i)
<1> DEFINE u == src[i][1]
<1>1. /\ src \in Seq(Bytes) /\ src' \in Seq(Bytes) /\ src'[i] = src[i]
      /\ Len(src) \in Nat /\ Len(src') \in Nat /\ Len(src) <= Len(src')
      /\ \A k \in 1..Len(src) : src'[k] = src[k]
  BY AppendedIs
<1>2. u \in used /\ u \in Lines /\ Width[u] \in Nat
  <2>1. u \in used
    BY DEF Fresh
  <2>2. u \in Lines
    BY <2>1 DEF TypeOK
  <2> QED  BY <2>1, <2>2, EncodeIs
<1>3. IsEvent(src, u) <=> EventIn(src, u, Len(src))
  BY <1>1, <1>2, IsEventIs
<1>4. IsEvent(src', u) <=> EventIn(src', u, Len(src'))
  BY <1>1, <1>2, IsEventIs
<1>5. src'[i][1] = u
  BY <1>1
<1> HIDE DEF u
<1>6. ASSUME EventIn(src, u, Len(src)) PROVE EventIn(src', u, Len(src'))
  <2>1. PICK o \in 0..Len(src) : /\ o + Width[u] + 1 <= Len(src)
                                 /\ o > 0 => IsNewline(src[o])
                                 /\ Stands(src, u, o)
    BY <1>6 DEF EventIn
  <2>2. o \in 0..Len(src') /\ o + Width[u] + 1 <= Len(src')
    BY <1>1, <1>2, <2>1
  <2>3. o > 0 => IsNewline(src'[o])
    BY <1>1, <2>1
  <2>4. Stands(src', u, o)
    <3> SUFFICES ASSUME NEW k \in 1..(Width[u] + 1) PROVE src'[o + k] = Encode(u)[k]
      BY DEF Stands
    <3>1. o + k \in 1..Len(src)
      BY <1>1, <1>2, <2>1
    <3>2. src[o + k] = Encode(u)[k]
      BY <2>1 DEF Stands
    <3> QED  BY <1>1, <3>1, <3>2
  <2> QED  BY <1>6, <2>2, <2>3, <2>4 DEF EventIn
<1>7. ASSUME EventIn(src', u, Len(src')) PROVE EventIn(src, u, Len(src))
  <2>1. PICK o \in 0..Len(src') : /\ o + Width[u] + 1 <= Len(src')
                                  /\ o > 0 => IsNewline(src'[o])
                                  /\ Stands(src', u, o)
    BY <1>7 DEF EventIn
  <2>2. o + Width[u] + 1 <= Len(src) /\ Stands(src, u, o)
    BY <1>2, <2>1, OldStands
  <2>3. o \in 0..Len(src) /\ (o > 0 => IsNewline(src[o]))
    BY <1>1, <1>2, <2>1, <2>2
  <2> QED  BY <1>7, <2>2, <2>3 DEF EventIn
<1>8. IsEvent(src', u) <=> IsEvent(src, u)
  BY <1>3, <1>4, <1>6, <1>7
<1> QED  BY <1>1, <1>5, <1>8 DEF Ends, u

LEMMA StartsNext ==
  ASSUME TypeOK, Fresh, Starts, [Next]_vars, resets' = 0, Whole'
  PROVE  Starts'
<1>1. resets = 0 /\ resets \in Nat
  BY Grown DEF TypeOK
<1>2. ASSUME NEW l \in Lines, AppendLine(l) PROVE Starts'
  <2> DEFINE w == Width[l]
             m == Len(src)
  <2>1. /\ m \in Nat /\ w \in Nat \ {0}
        /\ \A i \in 1..m : src'[i] = src[i]
        /\ \A i \in (m + 1)..Len(src') : i - m \in 1..(w + 1) /\ src'[i] = Encode(l)[i - m]
    BY <1>2, AppendedIs
  <2>2. Len(src') = m + w + 1
    BY <1>2, WholeAppended
  <2>3. \A k \in 1..w : Encode(l)[k] = <<l, k>>
    BY EncodeIs
  <2>4. Encode(l)[w + 1] = <<l, 0>>
    BY EncodeIs
  <2>5. /\ \A i \in 2..m : src[i][2] = 1 => IsNewline(src[i - 1])
        /\ m > 0 => IsNewline(src[m])
    BY DEF Starts
  <2> HIDE DEF w, m
  <2>6. IsNewline(src'[Len(src')])
    <3>1. Len(src') \in (m + 1)..Len(src') /\ Len(src') - m = w + 1
      BY <2>1, <2>2
    <3> QED  BY <2>1, <2>4, <3>1 DEF IsNewline
  <2>7. ASSUME NEW i \in 2..Len(src'), src'[i][2] = 1 PROVE IsNewline(src'[i - 1])
    <3>1. CASE i <= m
      <4>1. i \in 2..m /\ i \in 1..m /\ i - 1 \in 1..m
        BY <2>1, <3>1
      <4> QED  BY <2>1, <2>5, <2>7, <4>1
    <3>2. CASE i = m + 1
      <4>1. m \in 1..m /\ m > 0 /\ i - 1 = m
        BY <2>1, <3>2
      <4> QED  BY <2>1, <2>5, <4>1
    <3>3. CASE i > m + 1
      <4> DEFINE k == i - m
      <4>1. i \in (m + 1)..Len(src') /\ k \in 2..(w + 1)
        BY <2>1, <2>2, <3>3
      <4>2. src'[i] = Encode(l)[k]
        BY <2>1, <4>1
      <4> HIDE DEF k
      <4>3. k \in 1..w \/ k = w + 1
        BY <2>1, <4>1
      <4>4. src'[i] = <<l, k>> \/ src'[i] = <<l, 0>>
        BY <2>3, <2>4, <4>2, <4>3
      <4>5. src'[i][2] # 1
        BY <4>1, <4>4
      <4> QED  BY <2>7, <4>5
    <3> QED  BY <2>1, <3>1, <3>2, <3>3
  <2> QED  BY <2>6, <2>7 DEF Starts
<1>3. CASE Reinstall \/ Shrink
  BY <1>1, <1>3 DEF Reinstall, Shrink
<1>4. CASE UNCHANGED phone
  BY <1>4 DEF phone, Starts
<1> QED
  BY <1>2, <1>3, <1>4
  DEF Next, Ingest, Deliver, CheckSize, OpenFile, ReadLine, SkipOversize,
      Commit, Abort, vars, phone

\* What the reader passes without a newline holds no end of an event.
LEMMA QuietBefore ==
  ASSUME TypeOK, Follows, pc = "reading", NEW n \in (off + 1)..(Len(snap) + 1),
         \A i \in (off + 1)..(n - 1) : ~IsNewline(snap[i])
  PROVE  /\ off \in 0..Len(src) /\ n - 1 \in off..Len(src)
         /\ \A i \in (off + 1)..(n - 1) : ~IsNewline(src[i])
         /\ Logged(src)[n - 1] = Logged(src)[off]
<1>1. /\ src \in Seq(Bytes) /\ dst \in Seq(Bytes) /\ snap \in Seq(Bytes) /\ off \in Nat
      /\ Extends(src, dst) /\ Extends(dst, snap) /\ off <= Len(snap)
  BY DEF TypeOK, Follows
<1>2. Extends(src, snap)
  BY <1>1, ExtendsTransitive
<1>3. /\ Len(src) \in Nat /\ Len(snap) \in Nat /\ Len(snap) <= Len(src)
      /\ \A i \in 1..Len(snap) : src[i] = snap[i]
  BY <1>1, <1>2 DEF Extends
<1>4. off \in 0..Len(src) /\ n - 1 \in off..Len(src)
  BY <1>1, <1>3
<1>5. \A i \in (off + 1)..(n - 1) : i \in 1..Len(snap)
  BY <1>1, <1>3
<1>6. \A i \in (off + 1)..(n - 1) : ~IsNewline(src[i])
  BY <1>3, <1>5
<1>7. \A i \in (off + 1)..(n - 1) : ~Ends(src, i)
  BY <1>6 DEF Ends
<1> DEFINE m == n - 1
<1>8. m \in off..Len(src) /\ \A i \in (off + 1)..m : ~Ends(src, i)
  BY <1>4, <1>7
<1> HIDE DEF m
<1>9. Logged(src)[m] = Logged(src)[off]
  BY <1>1, <1>4, <1>8, LoggedQuiet
<1> QED  BY <1>4, <1>6, <1>9 DEF m

\* At the first newline an event ends when the reader makes one of the line.
LEMMA EndsParses ==
  ASSUME TypeOK, Fresh, Follows, NoneMissed, pc = "reading",
         NewlinesAfter(snap, off) # {}, Ends(src, FirstNewline(snap, off))
  PROVE  /\ src[FirstNewline(snap, off)][1] \in Parsed(snap, off)
         /\ ~Oversize(snap, off)
<1> DEFINE n == FirstNewline(snap, off)
           u == src[n][1]
<1>1. /\ src \in Seq(Bytes) /\ dst \in Seq(Bytes) /\ snap \in Seq(Bytes) /\ off \in Nat
      /\ Extends(src, dst) /\ Extends(dst, snap) /\ off <= Len(snap)
      /\ Boundary(src, off)
  BY DEF TypeOK, Follows, NoneMissed, Complete
<1>2. Extends(src, snap)
  BY <1>1, ExtendsTransitive
<1>3. /\ Len(src) \in Nat /\ Len(snap) \in Nat /\ Len(snap) <= Len(src)
      /\ \A i \in 1..Len(snap) : src[i] = snap[i]
  BY <1>1, <1>2 DEF Extends
<1>4. /\ n \in (off + 1)..Len(snap)
      /\ \A i \in (off + 1)..(n - 1) : ~IsNewline(snap[i])
  BY <1>1, FirstNewlineIs
<1>5. Held(snap, off) = n - 1 - off
  BY DEF Held
<1>6. IsNewline(src[n]) /\ IsEvent(src, u)
  BY DEF Ends
<1>7. n - 1 - off = Width[u] => Held(snap, off) = Width[u]
  BY <1>5
<1> HIDE DEF n
<1>8. n \in 1..Len(src) /\ n \in (off + 1)..Len(src) /\ off \in 0..Len(src) /\ n \in Nat
  BY <1>1, <1>3, <1>4
<1>9. \A i \in (off + 1)..(n - 1) : ~IsNewline(src[i])
  <2>1. \A i \in (off + 1)..(n - 1) : i \in 1..Len(snap)
    BY <1>1, <1>3, <1>4
  <2> QED  BY <1>3, <1>4, <2>1
<1>10. u \in Lines /\ src[n] = <<u, 0>>
  <2>1. src[n] \in Lines \X (0..MaxBytes)
    BY <1>1, <1>8, BytesAre
  <2> QED  BY <1>6, <2>1 DEF IsNewline
<1> HIDE DEF u
<1> DEFINE w == Width[u]
<1>11. w \in Nat /\ Encode(u)[w + 1] = <<u, 0>>
  BY <1>10, EncodeIs
<1>12. EventIn(src, u, Len(src))
  BY <1>1, <1>6, <1>10, IsEventIs
<1>13. PICK b \in 0..Len(src) : /\ b + w + 1 <= Len(src)
                                /\ b > 0 => IsNewline(src[b])
                                /\ Stands(src, u, b)
  BY <1>12 DEF EventIn
<1>14. \A k \in 1..(w + 1) : src[b + k] = Encode(u)[k]
  BY <1>13 DEF Stands
<1>15. u \notin Rejected /\ w <= JSONL_MAX_LINE
  BY <1>12 DEF EventIn
<1> HIDE DEF w
\* Its newline is the only one of its kind in the file.
<1>16. ASSUME NEW c \in Nat, c + w + 1 <= Len(src), src[c + (w + 1)] = <<u, 0>>
       PROVE  c + w + 1 = n
  <2>1. c + (w + 1) \in 1..Len(src)
    BY <1>3, <1>11, <1>16
  <2>2. c + (w + 1) = n
    BY <1>8, <1>10, <1>16, <2>1 DEF Fresh
  <2> QED  BY <1>11, <2>2
<1>17. w + 1 \in 1..(w + 1)
  BY <1>11
<1>18. b + w + 1 = n
  BY <1>11, <1>13, <1>14, <1>16, <1>17
<1>19. EventIn(src, u, n)
  <2>1. b \in 0..n /\ b + w + 1 <= n
    BY <1>8, <1>11, <1>13, <1>18
  <2> QED  BY <1>13, <1>15, <2>1 DEF EventIn, w
<1>20. ~EventIn(src, u, off)
  <2> SUFFICES ASSUME EventIn(src, u, off) PROVE FALSE
    OBVIOUS
  <2>1. PICK c \in 0..off : c + w + 1 <= off /\ Stands(src, u, c)
    BY DEF EventIn, w
  <2>2. src[c + (w + 1)] = <<u, 0>>
    BY <1>11, <1>17, <2>1 DEF Stands, w
  <2>3. c + w + 1 = n
    BY <1>8, <1>11, <1>16, <2>1, <2>2
  <2> QED  BY <1>8, <1>11, <2>1, <2>3
<1>21. off + w + 1 = n /\ Stands(src, u, off)
  <2>1. /\ src \in Seq(Bytes) /\ off \in 0..Len(src) /\ n \in (off + 1)..Len(src)
        /\ Boundary(src, off) /\ u \in Lines
    BY <1>1, <1>8, <1>10
  <2>2. EventIn(src, u, n) /\ ~EventIn(src, u, off)
    BY <1>19, <1>20
  <2>3. off + Width[u] + 1 = n /\ Stands(src, u, off)
    BY <1>9, <2>1, <2>2, NextEvent
  <2> QED  BY <2>3 DEF w
<1>22. Stands(snap, u, off)
  <2> SUFFICES ASSUME NEW k \in 1..(w + 1) PROVE snap[off + k] = Encode(u)[k]
    BY DEF Stands, w
  <2>1. off + k \in 1..Len(snap)
    BY <1>1, <1>3, <1>4, <1>11, <1>21
  <2>2. src[off + k] = Encode(u)[k]
    BY <1>21 DEF Stands, w
  <2> QED  BY <1>3, <2>1, <2>2
<1>23. u \in Parsed(snap, off)
  <2>1. off + Width[u] + 1 = FirstNewline(snap, off)
    BY <1>21 DEF w, n
  <2> QED  BY <1>1, <1>10, <1>15, <1>22, <2>1, StandsParses
<1>24. ~Oversize(snap, off)
  <2>1. n - 1 - off = w
    BY <1>1, <1>8, <1>11, <1>21
  <2>2. Held(snap, off) = w
    BY <1>7, <2>1 DEF w
  <2> QED  BY <1>11, <1>15, <2>2, StreamAssumption DEF Oversize
<1> QED  BY <1>23, <1>24 DEF u, n

\* The line that the reader makes an event of is one that ends there.
LEMMA ParsesEnds ==
  ASSUME TypeOK, Follows, Starts, pc = "reading", HasLine(snap, off),
         NEW l \in Parsed(snap, off)
  PROVE  Ends(src, FirstNewline(snap, off)) /\ src[FirstNewline(snap, off)][1] = l
<1> DEFINE n == FirstNewline(snap, off)
           w == Width[l]
           c == SubSeq(snap, off + 1, n)
<1>1. /\ src \in Seq(Bytes) /\ dst \in Seq(Bytes) /\ snap \in Seq(Bytes) /\ off \in Nat
      /\ Extends(src, dst) /\ Extends(dst, snap) /\ off <= Len(snap)
  BY DEF TypeOK, Follows
<1>2. Extends(src, snap)
  BY <1>1, ExtendsTransitive
<1>3. /\ Len(src) \in Nat /\ Len(snap) \in Nat /\ Len(snap) <= Len(src)
      /\ \A i \in 1..Len(snap) : src[i] = snap[i]
  BY <1>1, <1>2 DEF Extends
<1>4. n \in (off + 1)..Len(snap) /\ n \in 1..Len(src) /\ src[n] = <<l, 0>>
  BY ParsedIs
<1>5. l \in Lines /\ l \notin Rejected /\ c = Encode(l)
  BY DEF Parsed
<1>6. /\ w \in Nat \ {0} /\ Len(Encode(l)) = w + 1
      /\ \A k \in 1..w : Encode(l)[k] = <<l, k>>
  BY <1>5, EncodeIs
<1>7. n - 1 - off <= JSONL_MAX_LINE
  <2>1. Held(snap, off) = n - 1 - off
    BY DEF Held, HasLine
  <2>2. n - 1 - off \in Int /\ JSONL_MAX_LINE \in Int
    BY <1>1, <1>4, StreamAssumption
  <2> QED  BY <2>1, <2>2 DEF HasLine, Oversize
<1> HIDE DEF n, w
<1>8. /\ Len(c) = n - off
      /\ \A i \in 1..(n - off) : c[i] = snap[off + i]
  <2>1. \A i \in (off + 1)..n : snap[i] \in Bytes
    BY <1>1, <1>3, <1>4
  <2>2. off + 1 \in Int /\ n \in Int /\ off + 1 <= n
    BY <1>1, <1>3, <1>4
  <2>3. /\ Len(c) = n - (off + 1) + 1
        /\ \A i \in 1..(n - (off + 1) + 1) : c[i] = snap[off + 1 + i - 1]
    BY <2>1, <2>2, SubSeqProperties
  <2>4. /\ n - (off + 1) + 1 = n - off
        /\ \A i \in 1..(n - off) : off + 1 + i - 1 = off + i
    BY <1>1, <2>2
  <2> QED  BY <2>3, <2>4
<1> HIDE DEF c
<1>9. n = off + w + 1 /\ n \in Nat
  <2>1. n - off = w + 1 /\ n \in Int
    BY <1>4, <1>5, <1>6, <1>8
  <2> QED  BY <1>1, <1>6, <2>1
<1>10. w <= JSONL_MAX_LINE
  <2>1. n - 1 - off = w
    BY <1>1, <1>6, <1>9
  <2> QED  BY <1>7, <2>1
<1>11. ASSUME NEW k \in 1..(w + 1) PROVE src[off + k] = Encode(l)[k]
  <2>1. off + k \in 1..Len(snap) /\ k \in 1..(n - off)
    BY <1>1, <1>3, <1>4, <1>6, <1>9
  <2> QED  BY <1>3, <1>5, <1>8, <2>1
<1>12. off > 0 => IsNewline(src[off])
  <2> SUFFICES ASSUME off > 0 PROVE IsNewline(src[off])
    OBVIOUS
  <2>1. 1 \in 1..w /\ 1 \in 1..(w + 1) /\ off + 1 \in 2..Len(src) /\ off + 1 - 1 = off
    BY <1>1, <1>3, <1>4, <1>6, <1>9
  <2>2. src[off + 1] = <<l, 1>>
    BY <1>6, <1>11, <2>1
  <2>3. src[off + 1][2] = 1
    BY <2>2
  <2> DEFINE j == off + 1
  <2>4. j \in 2..Len(src) /\ src[j][2] = 1 /\ j - 1 = off
    <3>1. j \in 2..Len(src)
      BY <2>1
    <3>2. src[j][2] = 1
      BY <2>3
    <3>3. j - 1 = off
      BY <1>1
    <3> QED  BY <3>1, <3>2, <3>3
  <2> HIDE DEF j
  <2>5. \A i \in 2..Len(src) : src[i][2] = 1 => IsNewline(src[i - 1])
    BY DEF Starts
  <2>6. IsNewline(src[j - 1])
    BY <2>4, <2>5
  <2> QED  BY <2>4, <2>6
<1>13. EventIn(src, l, Len(src))
  <2>1. off \in 0..Len(src) /\ off + w + 1 <= Len(src)
    BY <1>1, <1>3, <1>4, <1>9
  <2>2. Stands(src, l, off)
    BY <1>11 DEF Stands, w
  <2> QED  BY <1>5, <1>10, <1>12, <2>1, <2>2 DEF EventIn, w
<1>14. IsEvent(src, l)
  BY <1>1, <1>5, <1>13, IsEventIs
<1>15. src[n][1] = l /\ IsNewline(src[n])
  BY <1>4 DEF IsNewline
<1> QED  BY <1>14, <1>15 DEF Ends, n

\* What is processed stays what is logged up to the offset: the reader logs a
\* line where it passes the newline of an event, and nowhere else.
LEMMA MatchesNext ==
  ASSUME TypeOK, Fresh, Follows, NoneMissed, Starts, Matches, [Next]_vars,
         resets' = 0, Whole'
  PROVE  Matches'
<1>1. /\ src \in Seq(Bytes) /\ dst \in Seq(Bytes) /\ snap \in Seq(Bytes)
      /\ stored \in Nat /\ start \in Nat /\ off \in Nat
      /\ applied \in Seq(Lines) /\ pending \in Seq(Lines)
      /\ src' \in Seq(Bytes) /\ Extends(src', src) /\ resets = 0 /\ resets \in Nat
  BY Grown DEF TypeOK
<1>2. /\ Extends(src, dst) /\ Extends(dst, snap) /\ stored <= Len(dst)
      /\ pc # "idle" => start = stored
      /\ pc = "reading" => start <= off /\ off <= Len(snap)
  BY DEF Follows
<1>3. /\ Len(snap) \in Nat /\ Len(src) \in Nat
      /\ stored \in 0..Len(src) /\ Len(snap) <= Len(src)
      /\ pc = "reading" => off \in 0..Len(src)
  BY <1>1, <1>2 DEF Extends
<1>4. /\ applied = Logged(src)[stored]
      /\ pc = "reading" => applied \o pending = Logged(src)[off]
  BY DEF Matches
<1>5. ASSUME NEW l \in Lines, AppendLine(l) PROVE Matches'
  <2>1. UNCHANGED <<applied, stored, pending, off, pc>>
    BY <1>5 DEF AppendLine, pass
  <2>2. \A i \in 1..Len(src) : Ends(src', i) <=> Ends(src, i)
    BY <1>5, EndsGrows
  <2>3. \A m \in 0..Len(src) : Logged(src')[m] = Logged(src)[m]
    BY <1>1, <2>2, LoggedGrows
  <2>4. Logged(src')[stored] = Logged(src)[stored]
    BY <1>3, <2>3
  <2>5. pc = "reading" => Logged(src')[off] = Logged(src)[off]
    BY <1>3, <2>3
  <2> QED  BY <1>4, <2>1, <2>4, <2>5 DEF Matches
<1>6. CASE Reinstall \/ Shrink
  BY <1>1, <1>6 DEF Reinstall, Shrink
<1>7. CASE Deliver \/ CheckSize \/ Abort \/ UNCHANGED vars
  <2>1. UNCHANGED <<src, applied, stored>>
    BY <1>7 DEF Deliver, CheckSize, Abort, vars, phone
  <2>2. UNCHANGED <<pending, off, pc>> \/ pc' # "reading"
    BY <1>7 DEF Deliver, CheckSize, Abort, vars, pass
  <2> QED  BY <1>4, <2>1, <2>2 DEF Matches
<1>8. CASE OpenFile
  <2>1. UNCHANGED <<applied, stored, src>> /\ pending' = <<>> /\ off' = stored
    BY <1>2, <1>8 DEF OpenFile, phone
  <2>2. applied \o <<>> = applied
    BY <1>1, ConcatEmptySeq
  <2> QED  BY <1>4, <2>1, <2>2 DEF Matches
<1>9. CASE ReadLine
  <2> DEFINE n == FirstNewline(snap, off)
  <2>1. /\ pc = "reading" /\ HasLine(snap, off)
        /\ UNCHANGED <<applied, stored, src, pc>> /\ NewlinesAfter(snap, off) # {}
    BY <1>9 DEF ReadLine, HasLine, phone
  <2>2. /\ n \in (off + 1)..Len(snap) /\ n \in 1..Len(src) /\ NextOffset(snap, off) = n
        /\ \A i \in (off + 1)..(n - 1) : ~IsNewline(snap[i])
        /\ \A l \in Parsed(snap, off) : l \in Lines
    BY <2>1, ParsedIs
  <2>3. off' = n
    BY <1>9, <2>2 DEF ReadLine
  <2>4. IF Parsed(snap, off) = {} THEN pending' = pending
        ELSE \E l \in Parsed(snap, off) : pending' = Append(pending, l)
    BY <1>9 DEF ReadLine
  <2>5. Ends(src, n) => src[n][1] \in Parsed(snap, off)
    BY <2>1, EndsParses
  <2>6. \A l \in Parsed(snap, off) : Ends(src, n) /\ src[n][1] = l
    BY <2>1, ParsesEnds
  <2> HIDE DEF n
  <2>7. Logged(src)[n - 1] = Logged(src)[off]
    <3>1. n \in (off + 1)..(Len(snap) + 1)
      BY <1>1, <1>3, <2>2
    <3> QED  BY <2>1, <2>2, <3>1, QuietBefore
  <2>8. Logged(src)[n] = IF Ends(src, n) THEN Append(Logged(src)[n - 1], src[n][1])
                         ELSE Logged(src)[n - 1]
    BY <1>1, <2>2, LoggedIs
  <2>9. applied \o pending = Logged(src)[off]
    BY <1>4, <2>1
  <2>10. applied \o pending' = Logged(src)[n]
    <3>1. CASE Parsed(snap, off) = {}
      <4>1. pending' = pending /\ ~Ends(src, n)
        BY <2>4, <2>5, <3>1
      <4> QED  BY <2>7, <2>8, <2>9, <4>1
    <3>2. CASE Parsed(snap, off) # {}
      <4>1. PICK l \in Parsed(snap, off) : pending' = Append(pending, l)
        BY <2>4, <3>2
      <4>2. l \in Lines /\ Ends(src, n) /\ src[n][1] = l
        BY <2>2, <2>6
      <4>3. Logged(src)[n] = Append(applied \o pending, l)
        BY <2>7, <2>8, <2>9, <4>2
      <4>4. applied \o Append(pending, l) = Append(applied \o pending, l)
        <5>1. <<l>> \in Seq(Lines) /\ applied \o pending \in Seq(Lines)
          BY <1>1, <4>2, ConcatProperties
        <5>2. Append(pending, l) = pending \o <<l>>
          BY <1>1, <4>2, AppendIsConcat
        <5>3. Append(applied \o pending, l) = (applied \o pending) \o <<l>>
          BY <4>2, <5>1, AppendIsConcat
        <5>4. (applied \o pending) \o <<l>> = applied \o (pending \o <<l>>)
          BY <1>1, <5>1, ConcatAssociative
        <5> QED  BY <5>2, <5>3, <5>4
      <4> QED  BY <4>1, <4>3, <4>4
    <3> QED  BY <3>1, <3>2
  <2> QED  BY <1>4, <2>1, <2>3, <2>10 DEF Matches
<1>10. CASE SkipOversize
  <2>1. /\ pc = "reading" /\ Oversize(snap, off) /\ off' = NextOffset(snap, off)
        /\ UNCHANGED <<applied, stored, src, pending, pc>>
    BY <1>10 DEF SkipOversize, phone
  <2>2. Logged(src)[NextOffset(snap, off)] = Logged(src)[off]
    <3>1. CASE NewlinesAfter(snap, off) = {}
      <4> DEFINE m == Len(snap) + 1
      <4>1. NextOffset(snap, off) = m - 1 /\ m \in (off + 1)..(Len(snap) + 1)
        BY <1>1, <1>2, <1>3, <2>1, <3>1 DEF NextOffset
      <4>2. \A i \in (off + 1)..(m - 1) : ~IsNewline(snap[i])
        <5>1. \A i \in (off + 1)..Len(snap) : ~IsNewline(snap[i])
          BY <3>1, Zenon DEF NewlinesAfter
        <5> QED  BY <1>3, <5>1
      <4> HIDE DEF m
      <4> QED  BY <2>1, <4>1, <4>2, QuietBefore
    <3>2. CASE NewlinesAfter(snap, off) # {}
      <4> DEFINE n == FirstNewline(snap, off)
      <4>1. /\ n \in (off + 1)..Len(snap) /\ NextOffset(snap, off) = n
            /\ \A i \in (off + 1)..(n - 1) : ~IsNewline(snap[i])
        BY <1>1, <3>2, FirstNewlineIs DEF NextOffset
      <4>2. ~Ends(src, n)
        BY <2>1, <3>2, EndsParses
      <4> HIDE DEF n
      <4>3. n \in (off + 1)..(Len(snap) + 1) /\ n \in 1..Len(src)
        BY <1>1, <1>3, <4>1
      <4>4. Logged(src)[n - 1] = Logged(src)[off]
        BY <2>1, <4>1, <4>3, QuietBefore
      <4>5. Logged(src)[n] = Logged(src)[n - 1]
        BY <1>1, <4>2, <4>3, LoggedIs
      <4> QED  BY <4>1, <4>4, <4>5
    <3> QED  BY <3>1, <3>2
  <2> QED  BY <1>4, <2>1, <2>2 DEF Matches
<1>11. CASE Commit
  <2>1. /\ pc = "reading" /\ applied' = applied \o pending /\ UNCHANGED src
        /\ pc' = "idle" /\ stored' = IF off > start THEN off ELSE stored
    BY <1>11 DEF Commit, phone
  <2>2. stored' = off
    BY <1>1, <1>2, <2>1
  <2>3. applied' = Logged(src)[off]
    BY <1>4, <2>1
  <2> QED  BY <2>1, <2>2, <2>3 DEF Matches
<1> QED
  BY <1>5, <1>6, <1>7, <1>8, <1>9, <1>10, <1>11 DEF Next, Ingest

\* Appending a whole line logs it, or nothing when no handler accepts it.
LEMMA AppendLogs ==
  ASSUME TypeOK, Fresh, NEW l \in Lines, AppendLine(l), Whole'
  PROVE  \/ Logged(src')[Len(src')] = Append(Logged(src)[Len(src)], l)
         \/ Logged(src')[Len(src')] = Logged(src)[Len(src)]
<1> DEFINE m == Len(src)
           n == Len(src')
           w == Width[l]
<1>1. /\ src \in Seq(Bytes) /\ src' \in Seq(Bytes) /\ m \in Nat /\ w \in Nat \ {0}
      /\ \A i \in 1..m : src'[i] = src[i]
      /\ \A i \in (m + 1)..n : /\ i - m \in 1..(w + 1)
                               /\ src'[i] = Encode(l)[i - m]
                               /\ src'[i][1] = l
  BY AppendedIs
<1>2. n = m + w + 1
  BY WholeAppended
<1>3. \A k \in 1..w : ~IsNewline(Encode(l)[k])
  BY EncodeIs DEF IsNewline
<1>4. \A i \in 1..m : Ends(src', i) <=> Ends(src, i)
  BY EndsGrows
<1>5. Logged(src')[m] = Logged(src)[m]
  <2>1. Extends(src', src)
    BY <1>1, <1>2 DEF Extends
  <2>2. m \in 0..Len(src)
    BY <1>1
  <2> QED  BY <1>1, <1>4, <2>1, <2>2, LoggedGrows
<1> HIDE DEF m, w
<1>6. Logged(src')[n - 1] = Logged(src')[m]
  <2>1. \A i \in (m + 1)..(n - 1) : ~Ends(src', i)
    <3> SUFFICES ASSUME NEW i \in (m + 1)..(n - 1) PROVE ~IsNewline(src'[i])
      BY DEF Ends
    <3>1. i \in (m + 1)..n /\ i - m \in 1..w
      BY <1>1, <1>2
    <3> QED  BY <1>1, <1>3, <3>1
  <2> DEFINE j == n - 1
  <2>2. m \in 0..Len(src') /\ j \in m..Len(src') /\ \A i \in (m + 1)..j : ~Ends(src', i)
    BY <1>1, <1>2, <2>1
  <2> HIDE DEF j
  <2>3. Logged(src')[j] = Logged(src')[m]
    BY <1>1, <2>2, LoggedQuiet
  <2> QED  BY <2>3 DEF j
<1>7. n \in 1..Len(src') /\ n \in (m + 1)..n
  BY <1>1, <1>2
<1>8. src'[n][1] = l
  BY <1>1, <1>7
<1>9. Logged(src')[n] = IF Ends(src', n) THEN Append(Logged(src')[n - 1], src'[n][1])
                        ELSE Logged(src')[n - 1]
  BY <1>1, <1>7, LoggedIs
<1> HIDE DEF n
<1>10. \/ Logged(src')[n] = Append(Logged(src)[m], l)
       \/ Logged(src')[n] = Logged(src)[m]
  BY <1>5, <1>6, <1>8, <1>9
<1> QED  BY <1>10 DEF m, n

\* A sequence that is at the head of another is a prefix of it.
LEMMA HeadsPrefix ==
  ASSUME NEW s \in Seq(Lines), NEW t \in Seq(Lines), Heads(s, t)
  PROVE  Log!IsPrefix(s, t)
<1>1. Len(s) \in Nat /\ Len(t) \in Nat /\ Len(s) <= Len(t)
      /\ \A i \in 1..Len(s) : s[i] = t[i]
  BY DEF Heads
<1> DEFINE n == Len(s)
           a == SubSeq(s, 1, n)
           b == SubSeq(t, 1, n)
<1>2. /\ n \in Int /\ 1 \in Int /\ n \in Nat
      /\ \A i \in 1..n : s[i] \in Lines
      /\ \A i \in 1..n : t[i] \in Lines
  BY <1>1
<1> HIDE DEF n
<1>3. /\ a \in Seq(Lines) /\ Len(a) = n /\ \A i \in 1..n : a[i] = s[i]
  BY <1>2, SubSeqProperties
<1>4. /\ b \in Seq(Lines) /\ Len(b) = n /\ \A i \in 1..n : b[i] = t[i]
  BY <1>2, SubSeqProperties
<1> HIDE DEF a, b
<1>5. a = b
  <2>1. Len(a) = Len(b) /\ \A i \in 1..Len(a) : a[i] = b[i]
    BY <1>1, <1>3, <1>4 DEF n
  <2> QED  BY <1>3, <1>4, <2>1, SeqEqual
<1> QED  BY <1>1, <1>5 DEF Log!IsPrefix, a, b, n
-----------------------------------------------------------------------------
(* The theorems.                                                           *)

LEMMA InitIInv == Init => IInv
<1> SUFFICES ASSUME Init PROVE IInv
  OBVIOUS
<1>1. /\ src = <<>> /\ dst = <<>> /\ snap = <<>> /\ used = {}
      /\ resets = 0 /\ fails = 0 /\ stored = 0 /\ start = 0 /\ off = 0
      /\ applied = <<>> /\ pending = <<>> /\ pc = "idle"
  BY DEF Init
<1>2. TypeOK
  BY <1>1, StreamAssumption DEF TypeOK
<1>3. Fresh
  BY <1>1 DEF Fresh
<1>4. Follows
  BY <1>1 DEF Follows, Extends
<1>5. Once
  BY <1>1 DEF Once, Marks
<1>6. NoneMissed
  <2>1. Boundary(src, 0)
    BY <1>1 DEF Boundary
  <2>2. ASSUME NEW l \in Lines PROVE ~EventIn(src, l, 0)
    <3>1. Width[l] \in Nat
      BY EncodeIs
    <3> QED  BY <3>1 DEF EventIn
  <2> QED  BY <1>1, <2>1, <2>2 DEF NoneMissed, Complete
<1>7. Starts
  BY <1>1 DEF Starts
<1>8. Matches
  <2>1. src \in Seq(Bytes)
    BY <1>2 DEF TypeOK
  <2>2. Logged(src)[0] = <<>>
    BY <2>1, LoggedIs
  <2> QED  BY <1>1, <2>2 DEF Matches
<1> QED  BY <1>2, <1>3, <1>4, <1>5, <1>6, <1>7, <1>8 DEF IInv

LEMMA NextIInv == IInv /\ [Next]_vars => IInv'
<1> SUFFICES ASSUME IInv, [Next]_vars PROVE IInv'
  OBVIOUS
<1>1. /\ TypeOK /\ Fresh /\ (resets = 0 => Follows /\ Once /\ NoneMissed)
      /\ resets = 0 /\ Whole => Starts /\ Matches
  BY DEF IInv
<1>2. TypeOK' /\ Fresh'
  BY <1>1, TypeNext, FreshNext
<1>3. ASSUME resets' = 0 PROVE (Follows /\ Once /\ NoneMissed)'
  <2>1. Follows /\ Once /\ NoneMissed
    BY <1>1, <1>3, Grown
  <2> QED  BY <1>1, <1>3, <2>1, FollowsNext, OnceNext, NoneMissedNext
<1>4. ASSUME resets' = 0, Whole' PROVE (Starts /\ Matches)'
  <2>1. resets = 0 /\ Whole
    BY <1>1, <1>4, Grown, WholeBefore
  <2>2. Follows /\ NoneMissed /\ Starts /\ Matches
    BY <1>1, <2>1
  <2>3. Starts'
    BY <1>1, <1>4, <2>2, StartsNext
  <2>4. Matches'
    BY <1>1, <1>4, <2>2, MatchesNext
  <2> QED  BY <2>3, <2>4
<1> QED  BY <1>2, <1>3, <1>4 DEF IInv

\* In every reachable state the file repeats no byte, and as long as it only
\* grows its versions are prefixes of each other, the offsets stand at line
\* boundaries, and the events before them are processed, each once; if its
\* writes are whole too, they are processed in its order (ingest.c
\* ingest_one_file).
THEOREM Invariance == Spec => []IInv
BY InitIInv, NextIInv, PTL DEF Spec

\* Types, and no pass leaves its file open or its transaction behind (ingest.c
\* ingest_one_file: jsonl_close, ROLLBACK and COMMIT).
THEOREM TypeOKHolds == Spec => []TypeOK
<1>1. IInv => TypeOK
  BY DEF IInv
<1> QED  BY <1>1, Invariance, PTL

LEMMA IInvProcessedOnce == IInv => ProcessedOnce
<1> SUFFICES ASSUME IInv, resets = 0, NEW l \in Lines
             PROVE  /\ Times(l) <= 1
                    /\ IsEvent(Upto(src, stored), l) => Times(l) = 1
  BY DEF ProcessedOnce
<1>1. /\ src \in Seq(Bytes) /\ dst \in Seq(Bytes) /\ stored \in Nat
      /\ applied \in Seq(Lines) /\ Follows /\ Once /\ NoneMissed
  BY DEF IInv, TypeOK
<1>2. stored \in 0..Len(src) /\ Len(src) \in Nat
  BY <1>1 DEF Follows, Extends
<1> DEFINE I == {i \in DOMAIN applied : applied[i] = l}
<1>3. DOMAIN applied = 1..Len(applied)
  BY <1>1
<1>4. \A i, j \in I : i = j
  BY <1>1, <1>3 DEF Once, Marks
<1>5. Times(l) = Cardinality(I)
  BY DEF Times
<1>6. l \in Members(applied) => I # {}
  BY <1>3 DEF Members
<1> HIDE DEF I
<1>7. ASSUME I # {} PROVE Times(l) = 1
  <2>1. PICK i : I = {i}
    BY <1>4, <1>7
  <2> QED  BY <1>5, <2>1, FS_Singleton
<1>8. Times(l) <= 1
  <2>1. CASE I = {}
    <3>1. Cardinality(I) = 0
      BY <2>1, FS_EmptySet
    <3> QED  BY <1>5, <3>1
  <2>2. CASE I # {}
    BY <1>7, <2>2
  <2> QED  BY <2>1, <2>2
<1>9. ASSUME IsEvent(Upto(src, stored), l) PROVE EventIn(src, l, stored)
  <2> DEFINE f == SubSeq(src, 1, stored)
             w == Width[l]
  <2>1. /\ f \in Seq(Bytes) /\ Len(f) = stored
        /\ \A i \in 1..stored : f[i] = src[i]
    BY <1>1, <1>2, PrefixIs
  <2>2. Upto(src, stored) = f
    BY <1>2 DEF Upto
  <2> HIDE DEF f
  <2>3. /\ w \in Nat /\ Len(Encode(l)) = w + 1
        /\ l \notin Rejected /\ w <= JSONL_MAX_LINE
    BY <1>9, EncodeIs DEF IsEvent
  <2>4. PICK o \in 0..(Len(f) - w - 1) :
          /\ o > 0 => IsNewline(f[o])
          /\ SubSeq(f, o + 1, o + w + 1) = Encode(l)
    BY <1>9, <2>2 DEF IsEvent
  <2> HIDE DEF w
  <2>5. o \in 0..stored /\ o + w + 1 <= stored
    BY <1>1, <2>1, <2>3, <2>4
  <2>6. ASSUME NEW k \in 1..(w + 1) PROVE src[o + k] = Encode(l)[k]
    <3>1. /\ k <= (o + w + 1) - (o + 1) + 1
          /\ o + k \in 1..stored /\ o + 1 + k - 1 = o + k
      BY <1>1, <2>3, <2>5
    <3>2. SubSeq(f, o + 1, o + w + 1)[k] = f[o + 1 + k - 1]
      BY <1>1, <2>1, <2>3, <2>5, <3>1
    <3>3. Encode(l)[k] = f[o + k]
      BY <2>4, <3>1, <3>2
    <3> QED  BY <2>1, <3>1, <3>3
  <2>7. Stands(src, l, o)
    BY <2>6 DEF Stands, w
  <2>8. o > 0 => IsNewline(src[o])
    BY <1>1, <2>1, <2>4, <2>5
  <2> QED  BY <2>3, <2>5, <2>7, <2>8 DEF EventIn, w
<1>10. EventIn(src, l, stored) => l \in Members(applied)
  BY <1>1 DEF NoneMissed, Complete
<1> QED  BY <1>6, <1>7, <1>8, <1>9, <1>10

\* Offsets keep plays from being counted twice (ingest.c:23-24, jsonl-spec
\* section 7) and lose nothing: as long as the file only grows, every event up
\* to the stored offset has been processed exactly once, and no event twice,
\* whatever is torn, oversize, delivered in part, rolled back or killed.
THEOREM ProcessedOnceHolds == Spec => []ProcessedOnce
BY Invariance, IInvProcessedOnce, PTL

\* A step of the stream is a step of the log: an append produces the event, a
\* commit consumes what was read since the last one, and the rest is hidden.
LEMMA LogStep ==
  ASSUME IInv, IInv', [Next]_vars, resets' = 0, Whole'
  PROVE  [Log!Next]_(Log!vars)
<1> DEFINE made == Logged(src)[Len(src)]
<1>1. TypeOK /\ Fresh /\ resets = 0 /\ resets \in Nat
  BY Grown DEF IInv, TypeOK
<1>2. Follows /\ Matches
  BY <1>1, WholeBefore DEF IInv
<1>3. Matches'
  BY DEF IInv
<1>4. ASSUME NEW l \in Lines, AppendLine(l) PROVE [Log!Next]_(Log!vars)
  <2>1. UNCHANGED applied
    BY <1>4 DEF AppendLine
  <2>2. CASE made' = made
    BY <2>1, <2>2 DEF Log!vars
  <2>3. CASE made' = Append(made, l)
    <3>1. Log!Produce(l)
      BY <2>1, <2>3 DEF Log!Produce
    <3> QED  BY <3>1 DEF Log!Next
  <2> QED  BY <1>1, <1>4, <2>2, <2>3, AppendLogs
<1>5. CASE Commit
  <2>1. /\ src \in Seq(Bytes) /\ dst \in Seq(Bytes) /\ snap \in Seq(Bytes)
        /\ stored \in Nat /\ off \in Nat
    BY <1>1 DEF TypeOK
  <2>2. /\ pc = "reading" /\ UNCHANGED src /\ applied' = applied \o pending
    BY <1>5 DEF Commit, phone
  <2>3. /\ applied = Logged(src)[stored] /\ applied' = Logged(src)[off]
    BY <1>2, <2>2 DEF Matches
  <2>4. stored \in 0..Len(src) /\ off \in stored..Len(src) /\ off \in 0..Len(src)
        /\ Len(src) \in off..Len(src) /\ Len(src) \in 0..Len(src)
    BY <1>2, <2>1, <2>2 DEF Follows, Extends
  <2>5. applied \in Seq(Lines) /\ applied' \in Seq(Lines) /\ made \in Seq(Lines)
    BY <2>1, <2>3, <2>4, LoggedType
  <2>6. Heads(applied, applied') /\ Heads(applied', made)
    BY <2>1, <2>3, <2>4, LoggedHeads
  <2>7. Log!IsPrefix(applied, applied') /\ Log!IsPrefix(applied', made)
    BY <2>5, <2>6, HeadsPrefix
  <2>8. made' = made
    BY <2>2
  <2>9. Log!Consume
    BY <2>7, <2>8 DEF Log!Consume
  <2> QED  BY <2>9 DEF Log!Next
<1>6. CASE Reinstall \/ Shrink
  BY <1>1, <1>6 DEF Reinstall, Shrink
<1>7. CASE UNCHANGED <<src, applied>>
  BY <1>7 DEF Log!vars
<1> QED
  BY <1>4, <1>5, <1>6, <1>7
  DEF Next, Ingest, Deliver, CheckSize, OpenFile, ReadLine, SkipOversize,
      Abort, vars, phone

\* The stream, from the phone's append through the delivery to the ingest pass,
\* implements the abstract log for as long as the file only grows and the
\* phone's writes are whole: each event is consumed once, and in its order
\* (jsonl-spec section 7; JsonlFileWriter.appendLine, ingest_one_file).
THEOREM ImplementsLogHolds == Spec => ImplementsLog
<1>1. Init => Log!Init
  <2> SUFFICES ASSUME Init PROVE Log!Init
    OBVIOUS
  <2>1. src = <<>> /\ applied = <<>>
    BY DEF Init
  <2>2. src \in Seq(Bytes) /\ Len(src) = 0
    BY <2>1
  <2>3. Logged(src)[Len(src)] = <<>>
    BY <2>2, LoggedIs
  <2> QED  BY <2>1, <2>3 DEF Log!Init
<1>2. IInv /\ IInv' /\ [Next]_vars => ((resets' = 0 /\ Whole') => [Log!Next]_(Log!vars))
  BY LogStep
<1> QED  BY <1>1, <1>2, Invariance, PTL DEF Spec, ImplementsLog
=============================================================================
