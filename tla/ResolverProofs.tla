--------------------------- MODULE ResolverProofs ---------------------------
(***************************************************************************)
(* Proofs about Resolver and Discovery, for any finite library, sizes,     *)
(* cap, hysteresis, limits and plays: what the admission walk lets in and  *)
(* leaves out, that pins win, that the manifest settles, that the          *)
(* exploration bucket moves at the margin, and how the picks are spread.   *)
(***************************************************************************)
EXTENDS Resolver, FiniteSetTheorems, TLAPS

-----------------------------------------------------------------------------
(* Least elements, which stand in for induction.                           *)

\* Every nonempty set of naturals has a least element.
LEMMA Least ==
  ASSUME NEW S \in SUBSET Nat, S # {}
  PROVE  \E i \in S : \A j \in S : i <= j
<1> DEFINE R == OpToRel(<, Nat)
<1>1. \A x, y \in Nat : x < y => <<x, y>> \in R
  BY Zenon DEF OpToRel
<1>2. IsWellFoundedOn(R, Nat)
  BY NatLessThanWellFounded
<1> HIDE DEF R
<1>3. \E i \in S : \A j \in S : ~(<<j, i>> \in R)
  BY <1>2, WFMin, Zenon
<1>4. PICK i \in S : \A j \in S : ~(<<j, i>> \in R)
  BY <1>3
<1>5. \A j \in S : ~(j < i)
  BY <1>1, <1>4
<1> QED  BY <1>5

\* Every nonempty set of subsets of a finite set has a minimal one.
LEMMA MinimalSubset ==
  ASSUME NEW S, IsFiniteSet(S), NEW T \in SUBSET SUBSET S, T # {}
  PROVE  \E A \in T : \A B \in T : B \subseteq A => B = A
<1>1. T \subseteq FiniteSubsetsOf(S)
  BY FS_Subset DEF FiniteSubsetsOf
<1>2. PICK A \in T : \A B \in T : ~(<<B, A>> \in StrictSubsetOrdering(S))
  BY <1>1, FS_StrictSubsetOrderingWellFounded, WFMin
<1>3. ASSUME NEW B \in T, B \subseteq A PROVE B = A
  BY <1>2, <1>3 DEF StrictSubsetOrdering
<1> QED  BY <1>3

\* Max of a finite set of integers.
LEMMA MaxFacts ==
  ASSUME NEW S, S \subseteq Int, IsFiniteSet(S), S # {}
  PROVE  Max(S) \in S /\ \A y \in S : Max(S) >= y
<1> DEFINE Unbounded == {A \in SUBSET S : A # {} /\ ~ \E x \in A : \A y \in A : x >= y}
<1>1. Unbounded = {}
  <2> SUFFICES ASSUME Unbounded # {} PROVE FALSE
    OBVIOUS
  <2>1. PICK A \in Unbounded : \A B \in Unbounded : B \subseteq A => B = A
    <3>1. Unbounded \in SUBSET SUBSET S
      OBVIOUS
    <3>2. IsFiniteSet(S) /\ Unbounded # {}
      OBVIOUS
    <3> HIDE DEF Unbounded
    <3> QED  BY ONLY <3>1, <3>2, MinimalSubset
  <2>2. PICK x \in A : TRUE
    <3>1. A # {}
      BY <2>1
    <3> QED  BY <3>1
  <2>3. A \in SUBSET Int /\ A \subseteq S
    BY <2>1
  <2>4. A \ {x} = {} \/ \E z \in A \ {x} : \A y \in A \ {x} : z >= y
    <3> SUFFICES ASSUME A \ {x} # {}, ~ \E z \in A \ {x} : \A y \in A \ {x} : z >= y PROVE FALSE
      OBVIOUS
    <3>1. A \ {x} \in Unbounded
      BY <2>3
    <3> QED  BY <2>1, <2>2, <3>1
  <2>5. \E z \in A : \A y \in A : z >= y
    <3>1. CASE A \ {x} = {}
      BY <2>2, <2>3, <3>1
    <3>2. ASSUME NEW z \in A \ {x}, \A y \in A \ {x} : z >= y
          PROVE  \E w \in A : \A y \in A : w >= y
      <4>1. CASE x >= z
        BY <2>2, <2>3, <3>2, <4>1
      <4>2. CASE ~(x >= z)
        BY <2>2, <2>3, <3>2, <4>2
      <4> QED  BY <4>1, <4>2
    <3> QED  BY <2>4, <3>1, <3>2
  <2> QED  BY <2>1, <2>5
<1>2. \E x \in S : \A y \in S : x >= y
  BY <1>1
<1> QED  BY <1>2 DEF Max
-----------------------------------------------------------------------------
(* Sums of sizes, which Bytes takes from a fold.                           *)

Some(s) == CHOOSE x \in s : TRUE

\* g is the recursive function of the fold on the subsets of A.
Sums(g, A) ==
  g = [s \in SUBSET A |-> IF s = {} THEN 0 ELSE Size[Some(s)] + g[s \ {Some(s)}]]

LEMMA BytesDef == ASSUME NEW S PROVE Bytes(S) = (CHOOSE g : Sums(g, S))[S]
BY DEF Bytes, MapThenSumSet, MapThenFoldSet, Sums, Some

LEMMA SomeFact == ASSUME NEW s, s # {} PROVE Some(s) \in s
BY DEF Some

\* There is at most one such function.
LEMMA SumsUnique ==
  ASSUME NEW A, IsFiniteSet(A), NEW B, NEW g, NEW h, Sums(g, A), Sums(h, B),
         NEW s \in SUBSET A, s \subseteq B
  PROVE  g[s] = h[s]
<1> DEFINE Differ == {u \in SUBSET A : u \subseteq B /\ g[u] # h[u]}
<1> SUFFICES ASSUME Differ # {} PROVE FALSE
  OBVIOUS
<1>1. PICK u \in Differ : \A v \in Differ : v \subseteq u => v = u
  <2>1. Differ \in SUBSET SUBSET A
    OBVIOUS
  <2> HIDE DEF Differ
  <2> QED  BY <2>1, MinimalSubset
<1>2. u \in SUBSET A /\ u \in SUBSET B /\ g[u] # h[u]
  BY <1>1
<1>3. /\ g[u] = IF u = {} THEN 0 ELSE Size[Some(u)] + g[u \ {Some(u)}]
      /\ h[u] = IF u = {} THEN 0 ELSE Size[Some(u)] + h[u \ {Some(u)}]
  BY <1>2, Zenon DEF Sums
<1>4. u # {}
  BY <1>2, <1>3
<1>5. u \ {Some(u)} \in SUBSET A /\ u \ {Some(u)} \subseteq B /\ u \ {Some(u)} # u
  BY <1>2, <1>4, SomeFact
<1>6. g[u \ {Some(u)}] = h[u \ {Some(u)}]
  BY <1>1, <1>5
<1> QED  BY <1>2, <1>3, <1>4, <1>6

\* There is one.
LEMMA SumsExist ==
  ASSUME NEW S, IsFiniteSet(S)
  PROVE  \E g : Sums(g, S)
<1> DEFINE Missing == {A \in SUBSET S : ~ \E g : Sums(g, A)}
<1> SUFFICES ASSUME Missing # {} PROVE FALSE
  OBVIOUS
<1>1. PICK A \in Missing : \A B \in Missing : B \subseteq A => B = A
  <2>1. Missing \in SUBSET SUBSET S
    OBVIOUS
  <2> HIDE DEF Missing
  <2> QED  BY <2>1, MinimalSubset
<1>2. A \in SUBSET S /\ IsFiniteSet(A)
  BY <1>1, FS_Subset
<1> DEFINE G(B) == CHOOSE g : Sums(g, B)
           F == [s \in SUBSET A |->
                   IF s = {} THEN 0 ELSE Size[Some(s)] + G(s \ {Some(s)})[s \ {Some(s)}]]
<1>3. ASSUME NEW B \in SUBSET A, B # A PROVE Sums(G(B), B)
  <2>1. B \in SUBSET S /\ B \notin Missing
    BY <1>1, <1>2, <1>3
  <2> QED  BY <2>1
<1>4. ASSUME NEW s \in SUBSET A, s # A PROVE F[s] = G(s)[s]
  <2>1. Sums(G(s), s)
    BY <1>3, <1>4
  <2>2. G(s)[s] = IF s = {} THEN 0 ELSE Size[Some(s)] + G(s)[s \ {Some(s)}]
    <3> HIDE DEF G
    <3> QED  BY <2>1, Zenon DEF Sums
  <2>3. CASE s = {}
    <3> HIDE DEF G
    <3> QED  BY <2>2, <2>3
  <2>4. CASE s # {}
    <3> DEFINE t == s \ {Some(s)}
    <3>1. t \in SUBSET A /\ t # A /\ t \in SUBSET s /\ IsFiniteSet(s)
      BY <1>2, <1>4, <2>4, SomeFact, FS_Subset
    <3>2. Sums(G(t), t)
      BY <1>3, <3>1
    <3>3. G(s)[t] = G(t)[t]
      <4> HIDE DEF G, t
      <4> QED  BY <2>1, <3>1, <3>2, SumsUnique
    <3> HIDE DEF G
    <3> QED  BY <2>2, <2>4, <3>3
  <2> QED  BY <2>3, <2>4
<1>5. Sums(F, A)
  <2>1. ASSUME NEW s \in SUBSET A, s # {}
        PROVE  F[s \ {Some(s)}] = G(s \ {Some(s)})[s \ {Some(s)}]
    <3>1. s \ {Some(s)} \in SUBSET A /\ s \ {Some(s)} # A
      BY <2>1, SomeFact
    <3> HIDE DEF F, G
    <3> QED  BY <3>1, <1>4
  <2> HIDE DEF G
  <2> QED  BY <2>1 DEF Sums
<1> QED  BY <1>1, <1>5
\* The fold, one element unfolded.
LEMMA BytesUnfold ==
  ASSUME NEW S, IsFiniteSet(S)
  PROVE  Bytes(S) = IF S = {} THEN 0 ELSE Size[Some(S)] + Bytes(S \ {Some(S)})
<1> DEFINE G(B) == CHOOSE g : Sums(g, B)
           t == S \ {Some(S)}
<1>1. Bytes(S) = G(S)[S] /\ Bytes(t) = G(t)[t]
  BY BytesDef
<1>2. IsFiniteSet(t) /\ t \subseteq S
  BY FS_Subset
<1>3. Sums(G(S), S) /\ Sums(G(t), t)
  BY <1>2, SumsExist
<1> HIDE DEF G
<1>4. G(S)[t] = G(t)[t]
  BY <1>2, <1>3, SumsUnique
<1>5. G(S)[S] = IF S = {} THEN 0 ELSE Size[Some(S)] + G(S)[t]
  BY <1>3, Zenon DEF Sums
<1> QED  BY <1>1, <1>4, <1>5

LEMMA BytesType ==
  ASSUME NEW S \in SUBSET Tracks
  PROVE  Bytes(S) \in Nat
<1>1. IsFiniteSet(S) /\ \A A \in SUBSET S : IsFiniteSet(A) /\ A \subseteq Tracks
  BY ResolverAssumption, FS_Subset
<1> DEFINE Bad == {A \in SUBSET S : Bytes(A) \notin Nat}
<1> SUFFICES ASSUME Bad # {} PROVE FALSE
  OBVIOUS
<1>2. PICK A \in Bad : \A B \in Bad : B \subseteq A => B = A
  <2>1. Bad \in SUBSET SUBSET S
    OBVIOUS
  <2> HIDE DEF Bad
  <2> QED  BY <1>1, <2>1, MinimalSubset
<1>3. A \in SUBSET S /\ Bytes(A) \notin Nat
  BY <1>2
<1>4. A # {} /\ Bytes(A) = Size[Some(A)] + Bytes(A \ {Some(A)})
  BY <1>1, <1>3, BytesUnfold
<1>5. Some(A) \in A /\ Size[Some(A)] \in Nat
  BY <1>1, <1>3, <1>4, SomeFact, ResolverAssumption
<1>6. A \ {Some(A)} \in SUBSET S /\ A \ {Some(A)} \subseteq A /\ A \ {Some(A)} # A
  BY <1>3, <1>5
<1>7. Bytes(A \ {Some(A)}) \in Nat
  BY <1>2, <1>6
<1> QED  BY <1>3, <1>4, <1>5, <1>7

\* The sum does not depend on the order in which the fold takes the tracks.
LEMMA BytesRemove ==
  ASSUME NEW S \in SUBSET Tracks, NEW x \in S
  PROVE  Bytes(S) = Size[x] + Bytes(S \ {x})
<1>1. IsFiniteSet(S) /\ \A A \in SUBSET S : IsFiniteSet(A) /\ A \subseteq Tracks
  BY ResolverAssumption, FS_Subset
<1> DEFINE Bad == {A \in SUBSET S : \E y \in A : Bytes(A) # Size[y] + Bytes(A \ {y})}
<1> SUFFICES ASSUME Bad # {} PROVE FALSE
  OBVIOUS
<1>2. PICK A \in Bad : \A B \in Bad : B \subseteq A => B = A
  <2>1. Bad \in SUBSET SUBSET S
    OBVIOUS
  <2> HIDE DEF Bad
  <2> QED  BY <1>1, <2>1, MinimalSubset
<1>3. PICK y \in A : Bytes(A) # Size[y] + Bytes(A \ {y})
  BY <1>2
<1> DEFINE c == Some(A)
<1>4. c \in A /\ Bytes(A) = Size[c] + Bytes(A \ {c}) /\ A \in SUBSET S
  BY <1>1, <1>2, <1>3, BytesUnfold, SomeFact
<1> HIDE DEF c
<1>5. c # y
  BY <1>3, <1>4
<1>6. /\ A \ {c} \in SUBSET S /\ A \ {c} \subseteq A /\ A \ {c} # A /\ y \in A \ {c}
      /\ A \ {y} \in SUBSET S /\ A \ {y} \subseteq A /\ A \ {y} # A /\ c \in A \ {y}
      /\ (A \ {c}) \ {y} = (A \ {y}) \ {c}
  BY <1>3, <1>4, <1>5
<1>7. Bytes(A \ {c}) = Size[y] + Bytes((A \ {c}) \ {y})
  BY <1>2, <1>6
<1>8. Bytes(A \ {y}) = Size[c] + Bytes((A \ {y}) \ {c})
  BY <1>2, <1>6
<1>9. /\ Size[y] \in Nat /\ Size[c] \in Nat
      /\ Bytes((A \ {y}) \ {c}) \in Nat
  BY <1>1, <1>3, <1>4, BytesType, ResolverAssumption
<1> QED  BY <1>3, <1>4, <1>6, <1>7, <1>8, <1>9

LEMMA BytesAdd ==
  ASSUME NEW S \in SUBSET Tracks, NEW x \in Tracks \ S
  PROVE  Bytes(S \cup {x}) = Bytes(S) + Size[x]
<1>1. S \cup {x} \in SUBSET Tracks /\ x \in S \cup {x} /\ (S \cup {x}) \ {x} = S
  OBVIOUS
<1>2. Bytes(S \cup {x}) = Size[x] + Bytes(S)
  BY <1>1, BytesRemove
<1>3. Size[x] \in Nat /\ Bytes(S) \in Nat
  BY BytesType, ResolverAssumption
<1> QED  BY <1>2, <1>3

LEMMA BytesEmpty == Bytes({}) = 0
BY BytesUnfold, FS_EmptySet
-----------------------------------------------------------------------------
(* The order of the walk.                                                  *)

\* Every query joins the tracks table.
LEMMA SelectedAreTracks ==
  ASSUME TypeOK, NEW b \in Buckets
  PROVE  Selected(b) \subseteq tracks
<1>1. \A S, n, ahead : First(S, n, ahead) \subseteq S
  BY DEF First
<1>2. /\ HeardTracks \subseteq tracks /\ LovedTracks \subseteq tracks
      /\ Latest \subseteq tracks /\ Unplayed \subseteq tracks /\ pins \subseteq tracks
  BY DEF HeardTracks, LovedTracks, Latest, Unplayed, TypeOK
<1>3. Explored \subseteq Unplayed
  BY <1>1 DEF Explored
<1> HIDE DEF First, HeardTracks, LovedTracks, Latest, Unplayed, Explored
<1> QED  BY <1>1, <1>2, <1>3 DEF Selected, Buckets

\* A pin has priority 10 and every other candidate less.
LEMMA PriorityFacts ==
  ASSUME TypeOK, NEW c \in Candidates
  PROVE  /\ c \in tracks /\ Priorities[c] = Priority(c)
         /\ Priorities[c] \in 0..10 /\ (Priorities[c] >= 10 <=> c \in pins)
<1> DEFINE hits == {r \in Running : c \in Selected(r)}
           values == {BucketPriority[b] : b \in hits}
<1>1. Running \subseteq Buckets
  BY DEF Running, Buckets
<1>2. \A b \in Buckets : /\ BucketPriority[b] \in 0..10
                         /\ BucketPriority[b] >= 10 <=> b = "manual_pins"
  BY DEF Buckets, BucketPriority
<1>3. values \subseteq 0..10 /\ hits # {}
  BY <1>1, <1>2 DEF Candidates
<1>4. IsFiniteSet(values) /\ values # {} /\ values \subseteq Int
  <2>1. IsFiniteSet(0..10)
    <3>1. 0 \in Int /\ 10 \in Int
      OBVIOUS
    <3> HIDE DEF hits, values
    <3> QED  BY <3>1, FS_Interval, Zenon
  <2> QED  BY <1>3, <2>1, FS_Subset
<1>5. Max(values) \in values /\ \A y \in values : Max(values) >= y
  <2> HIDE DEF values
  <2> QED  BY <1>4, MaxFacts
<1>6. Priorities[c] = Max(values) /\ Priorities[c] = Priority(c)
  BY DEF Priorities, Priority
<1>7. "manual_pins" \in hits <=> c \in pins
  BY DEF Running, Selected, Buckets
<1>8. Priorities[c] >= 10 <=> "manual_pins" \in hits
  <2>1. ASSUME "manual_pins" \in hits PROVE Priorities[c] >= 10
    <3>1. 10 \in values
      BY <2>1 DEF BucketPriority, Buckets
    <3> QED  BY <3>1, <1>5, <1>6
  <2>2. ASSUME Priorities[c] >= 10 PROVE "manual_pins" \in hits
    <3>1. PICK b \in hits : Priorities[c] = BucketPriority[b]
      BY <1>5, <1>6
    <3> QED  BY <3>1, <2>2, <1>1, <1>2
  <2> QED  BY <2>1, <2>2
<1>9. c \in tracks
  <2>1. PICK b \in Running : c \in Selected(b)
    BY DEF Candidates
  <2>2. b \in Buckets
    BY <1>1
  <2>3. Selected(b) \subseteq tracks
    BY ONLY TypeOK, <2>2, SelectedAreTracks
  <2> QED  BY <2>1, <2>3
<1> QED  BY <1>3, <1>5, <1>6, <1>7, <1>8, <1>9

LEMMA CandidatesAreTracks ==
  ASSUME TypeOK
  PROVE  /\ Candidates \subseteq tracks /\ Candidates \subseteq Tracks
         /\ pins \subseteq Candidates /\ IsFiniteSet(Candidates)
<1>1. Candidates \subseteq tracks /\ tracks \subseteq Tracks
  BY PriorityFacts DEF TypeOK
<1>2. pins \subseteq Candidates
  <2>1. "manual_pins" \in Running /\ Selected("manual_pins") = pins
    BY DEF Running, Buckets, Selected
  <2> QED  BY <2>1 DEF Candidates
<1>3. IsFiniteSet(Candidates)
  BY <1>1, ResolverAssumption, FS_Subset
<1> QED  BY <1>1, <1>2, <1>3

\* cmp_cand_priority is a strict total order on the candidates.
LEMMA OrderFacts ==
  ASSUME TypeOK, NEW a \in Candidates, NEW b \in Candidates
  PROVE  /\ ~(Precedes(Priorities, a, b) /\ Precedes(Priorities, b, a))
         /\ a # b => Precedes(Priorities, a, b) \/ Precedes(Priorities, b, a)
         /\ \A c \in Candidates : Precedes(Priorities, a, b) /\ Precedes(Priorities, b, c)
                                    => Precedes(Priorities, a, c)
<1>1. ASSUME NEW c \in Candidates PROVE Priorities[c] \in Int /\ c \in Int
  <2>1. Priorities[c] \in 0..10
    BY PriorityFacts
  <2>2. c \in Nat
    BY CandidatesAreTracks, ResolverAssumption
  <2> QED  BY <2>1, <2>2
<1> HIDE DEF Priorities, Candidates
<1> QED  BY <1>1 DEF Precedes

\* A nonempty set of candidates has a first one.
LEMMA FirstExists ==
  ASSUME TypeOK, NEW T, T \subseteq Candidates, T # {}
  PROVE  \E c \in T : \A d \in T \ {c} : Precedes(Priorities, c, d)
<1>1. ASSUME NEW c \in T PROVE Priorities[c] \in 0..10 /\ c \in Nat
  BY PriorityFacts, CandidatesAreTracks, ResolverAssumption
<1> HIDE DEF Priorities, Candidates
<1> DEFINE low == {10 - Priorities[c] : c \in T}
<1>2. low \in SUBSET Nat /\ low # {}
  BY <1>1
<1>3. PICK i \in low : \A j \in low : i <= j
  <2> HIDE DEF low
  <2> QED  BY <1>2, Least
<1> DEFINE top == {c \in T : 10 - Priorities[c] = i}
<1>4. top \in SUBSET Nat /\ top # {}
  BY <1>1, <1>3
<1>5. PICK c \in top : \A d \in top : c <= d
  <2> HIDE DEF top
  <2> QED  BY <1>4, Least
<1>6. ASSUME NEW d \in T \ {c} PROVE Precedes(Priorities, c, d)
  <2>1. 10 - Priorities[d] \in low /\ i <= 10 - Priorities[d] /\ 10 - Priorities[c] = i
    BY <1>3, <1>5, <1>6
  <2>2. CASE 10 - Priorities[d] = i
    <3>1. d \in top /\ c <= d /\ c # d
      BY <1>5, <1>6, <2>2
    <3> QED  BY <1>1, <1>5, <2>1, <2>2, <3>1 DEF Precedes
  <2>3. CASE 10 - Priorities[d] # i
    BY <1>1, <1>5, <2>1, <2>3 DEF Precedes
  <2> QED  BY <2>2, <2>3
<1> QED  BY <1>5, <1>6

\* The walk takes a candidate, and one that no other precedes.
LEMMA ForemostFacts ==
  ASSUME TypeOK, prio = Priorities, todo \subseteq Candidates, todo # {}
  PROVE  Foremost \in todo /\ \A d \in todo \ {Foremost} : Before(Foremost, d)
<1>1. \E c \in todo : \A d \in todo \ {c} : Before(c, d)
  BY FirstExists DEF Before
<1> QED  BY <1>1 DEF Foremost
-----------------------------------------------------------------------------
(* What a DELETE leaves of a table.                                        *)

\* f is the recursive function of Without on the first n rows.
Keeps(f, n, s, gone) ==
  f = [i \in 0..n |->
         IF i = 0 THEN <<>>
         ELSE IF s[i] \in gone THEN f[i - 1] ELSE Append(f[i - 1], s[i])]

LEMMA KeepsExist ==
  ASSUME NEW s, NEW gone, NEW m \in Nat
  PROVE  \E f : Keeps(f, m, s, gone)
<1> DEFINE Missing == {n \in Nat : ~ \E f : Keeps(f, n, s, gone)}
<1> SUFFICES ASSUME Missing # {} PROVE FALSE
  OBVIOUS
<1>1. PICK n \in Missing : \A k \in Missing : n <= k
  <2>1. Missing \in SUBSET Nat
    OBVIOUS
  <2> HIDE DEF Missing
  <2> QED  BY <2>1, Least
<1>2. n \in Nat /\ ~ \E f : Keeps(f, n, s, gone)
  BY <1>1
<1>3. n # 0
  <2>1. Keeps([i \in 0..0 |-> <<>>], 0, s, gone)
    BY DEF Keeps
  <2> QED  BY <1>2, <2>1
<1>4. PICK g : Keeps(g, n - 1, s, gone)
  <2>1. n - 1 \in Nat /\ ~(n <= n - 1)
    BY <1>2, <1>3
  <2> QED  BY <1>1, <2>1
<1> DEFINE last == IF s[n] \in gone THEN g[n - 1] ELSE Append(g[n - 1], s[n])
           F == [i \in 0..n |-> IF i = n THEN last ELSE g[i]]
<1>5. \A i \in 0..(n - 1) :
        g[i] = IF i = 0 THEN <<>>
               ELSE IF s[i] \in gone THEN g[i - 1] ELSE Append(g[i - 1], s[i])
  BY <1>4, Zenon DEF Keeps
<1>6. Keeps(F, n, s, gone)
  <2> SUFFICES ASSUME NEW i \in 0..n
               PROVE  F[i] = IF i = 0 THEN <<>>
                             ELSE IF s[i] \in gone THEN F[i - 1] ELSE Append(F[i - 1], s[i])
    BY Zenon DEF Keeps
  <2>1. CASE i = n
    <3>1. i - 1 \in 0..n /\ i - 1 # n /\ i # 0
      BY <1>2, <1>3, <2>1
    <3> QED  BY <2>1, <3>1
  <2>2. CASE i # n
    <3>1. i \in 0..(n - 1) /\ (i # 0 => i - 1 \in 0..n /\ i - 1 # n)
      BY <1>2, <1>3, <2>2
    <3> QED  BY <1>5, <2>2, <3>1
  <2> QED  BY <2>1, <2>2
<1> QED  BY <1>2, <1>6

LEMMA WithoutFacts ==
  ASSUME NEW E, NEW s \in Seq(E), NEW gone
  PROVE  /\ Without(s, gone) \in Seq(E)
         /\ \A e : (\E i \in DOMAIN Without(s, gone) : Without(s, gone)[i] = e)
                     <=> (e \notin gone /\ \E i \in DOMAIN s : s[i] = e)
<1> DEFINE f == CHOOSE g : Keeps(g, Len(s), s, gone)
<1>1. Without(s, gone) = f[Len(s)]
  BY Zenon DEF Without, Keeps
<1>2. Keeps(f, Len(s), s, gone)
  <2>1. Len(s) \in Nat
    OBVIOUS
  <2>2. \E g : Keeps(g, Len(s), s, gone)
    BY ONLY <2>1, KeepsExist
  <2> QED  BY <2>2, Zenon
<1> HIDE DEF f
<1>3. \A i \in 0..Len(s) :
        f[i] = IF i = 0 THEN <<>>
               ELSE IF s[i] \in gone THEN f[i - 1] ELSE Append(f[i - 1], s[i])
  BY <1>2, Zenon DEF Keeps
<1> DEFINE Good(n) ==
      /\ f[n] \in Seq(E)
      /\ \A e : (\E i \in 1..Len(f[n]) : f[n][i] = e)
                  <=> (e \notin gone /\ \E i \in 1..n : s[i] = e)
           Bad == {n \in 0..Len(s) : ~Good(n)}
<1>4. Bad = {}
  <2> SUFFICES ASSUME Bad # {} PROVE FALSE
    OBVIOUS
  <2>1. PICK n \in Bad : \A k \in Bad : n <= k
    <3>1. Bad \in SUBSET Nat
      OBVIOUS
    <3> HIDE DEF Bad
    <3> QED  BY <3>1, Least
  <2>2. n \in 0..Len(s) /\ ~Good(n)
    BY <2>1
  <2>3. n # 0
    <3>1. f[0] = <<>> /\ 0 \in 0..Len(s)
      BY <1>3
    <3>2. Good(0)
      BY <3>1
    <3> QED  BY <2>2, <3>2
  <2>4. Good(n - 1)
    <3>1. n - 1 \in 0..Len(s) /\ ~(n <= n - 1)
      BY <2>2, <2>3
    <3>2. n - 1 \notin Bad
      BY <2>1, <3>1
    <3> HIDE DEF Good
    <3> QED  BY <3>1, <3>2
  <2>5. s[n] \in E /\ 1..n = (1..(n - 1)) \cup {n}
    BY <2>2, <2>3
  <2>6. CASE s[n] \in gone
    <3>1. f[n] = f[n - 1]
      BY <1>3, <2>2, <2>3, <2>6
    <3> QED  BY <2>2, <2>4, <2>5, <2>6, <3>1
  <2>7. CASE s[n] \notin gone
    <3> DEFINE w == f[n - 1]
    <3>1. f[n] = Append(w, s[n])
      BY <1>3, <2>2, <2>3, <2>7
    <3>2. w \in Seq(E) /\ \A e : (\E i \in 1..Len(w) : w[i] = e)
                              <=> (e \notin gone /\ \E i \in 1..(n - 1) : s[i] = e)
      BY <2>4
    <3> HIDE DEF w
    <3>3. /\ f[n] \in Seq(E) /\ Len(f[n]) = Len(w) + 1
          /\ f[n][Len(w) + 1] = s[n] /\ \A i \in 1..Len(w) : f[n][i] = w[i]
          /\ 1..Len(f[n]) = (1..Len(w)) \cup {Len(w) + 1}
      BY <2>5, <3>1, <3>2
    <3>4. \A e : (\E i \in 1..Len(f[n]) : f[n][i] = e)
                   <=> (\E i \in 1..Len(w) : w[i] = e) \/ e = s[n]
      BY <3>3
    <3>5. \A e : (\E i \in 1..n : s[i] = e) <=> (\E i \in 1..(n - 1) : s[i] = e) \/ e = s[n]
      BY <2>5
    <3>6. Good(n)
      BY <2>7, <3>2, <3>3, <3>4, <3>5
    <3> QED  BY <2>2, <3>6
  <2> QED  BY <2>6, <2>7
<1>5. Good(Len(s))
  <2>1. Len(s) \in 0..Len(s) /\ Len(s) \notin Bad
    BY <1>4
  <2> HIDE DEF Good
  <2> QED  BY <2>1
<1> DEFINE w == f[Len(s)]
<1>6. /\ w \in Seq(E)
      /\ \A e : (\E i \in 1..Len(w) : w[i] = e)
                  <=> (e \notin gone /\ \E i \in 1..Len(s) : s[i] = e)
  BY <1>5
<1> HIDE DEF w
<1>7. DOMAIN w = 1..Len(w) /\ DOMAIN s = 1..Len(s)
  BY <1>6
<1>8. Without(s, gone) = w
  BY <1>1 DEF w
<1> QED  BY <1>6, <1>7, <1>8
-----------------------------------------------------------------------------
(* The weights.                                                            *)

LEMMA DivFacts ==
  ASSUME NEW s \in Nat, NEW h \in 0..100
  PROVE  /\ (s * (100 - h)) \div 100 \in Int /\ (s * (100 + h)) \div 100 \in Int
         /\ s * (100 - h) \in Int /\ s * (100 + h) \in Int
         /\ (s * (100 - h)) \div 100 <= s /\ s <= (s * (100 + h)) \div 100
<1> DEFINE x == s * h
<1>1. x \in Nat /\ s * (100 - h) = 100 * s - x /\ s * (100 + h) = 100 * s + x
  BY Z3
<1> HIDE DEF x
<1> QED  BY <1>1

\* Slack bounds what a discount takes off the size of a track.
LEMMA SlackFacts ==
  ASSUME NEW c \in Tracks
  PROVE  Slack \in Nat /\ Size[c] - (Size[c] * (100 - Hysteresis)) \div 100 <= Slack
<1> DEFINE off == [t \in Tracks |-> Size[t] - (Size[t] * (100 - Hysteresis)) \div 100]
           T == {off[t] : t \in Tracks}
<1>1. ASSUME NEW t \in Tracks PROVE off[t] \in Int
  <2>1. Size[t] \in Nat /\ Hysteresis \in 0..100
    BY ResolverAssumption
  <2>2. (Size[t] * (100 - Hysteresis)) \div 100 \in Int
    BY <2>1, DivFacts
  <2> QED  BY <2>1, <2>2
<1>2. Slack = Max({0} \cup T)
  BY DEF Slack
<1>3. off \in Surjection(Tracks, T)
  <2>1. off \in [Tracks -> T]
    OBVIOUS
  <2> HIDE DEF off
  <2> QED  BY <2>1 DEF Surjection
<1>4. IsFiniteSet(T)
  <2> HIDE DEF T, off
  <2> QED  BY <1>3, FS_Surjection, ResolverAssumption
<1>5. {0} \cup T \subseteq Int /\ {0} \cup T # {} /\ IsFiniteSet({0} \cup T)
  <2>1. T \subseteq Int
    BY <1>1
  <2>2. IsFiniteSet(T \cup {0})
    <3> HIDE DEF T
    <3> QED  BY <1>4, FS_AddElement
  <2>3. T \cup {0} = {0} \cup T
    OBVIOUS
  <2> HIDE DEF T
  <2> QED  BY <2>1, <2>2, <2>3
<1>6. Slack \in {0} \cup T /\ \A y \in {0} \cup T : Slack >= y
  <2> HIDE DEF T
  <2> QED  BY <1>2, <1>5, MaxFacts
<1>7. off[c] \in T /\ off[c] \in Int /\ Slack \in Int /\ Slack >= 0
  <2>1. off[c] \in T
    OBVIOUS
  <2> HIDE DEF T, off
  <2> QED  BY <2>1, <1>5, <1>6
<1>8. Slack >= off[c]
  <2> HIDE DEF T, off
  <2> QED  BY <1>6, <1>7
<1>9. off[c] = Size[c] - (Size[c] * (100 - Hysteresis)) \div 100
  OBVIOUS
<1> HIDE DEF off
<1> QED  BY <1>7, <1>8, <1>9

\* A resident never weighs more than another track, and what is admitted passes
\* its weight by the slack at the most.
LEMMA WeightFacts ==
  ASSUME NEW c \in Tracks
  PROVE  /\ Weight(c, TRUE) \in Int /\ Weight(c, FALSE) \in Int /\ Slack \in Nat
         /\ Weight(c, TRUE) <= Weight(c, FALSE)
         /\ Size[c] <= Weight(c, TRUE) + Slack /\ Size[c] <= Weight(c, FALSE) + Slack
         /\ Effective(c) = IF c \in manifest THEN Weight(c, TRUE) ELSE Weight(c, FALSE)
<1>1. Size[c] \in Nat /\ Hysteresis \in 0..100
  BY ResolverAssumption
<1> DEFINE d == (Size[c] * (100 - Hysteresis)) \div 100
           e == (Size[c] * (100 + Hysteresis)) \div 100
<1>2. d \in Int /\ e \in Int /\ d <= Size[c] /\ Size[c] <= e
  BY <1>1, DivFacts
<1>3. Slack \in Nat /\ Size[c] - d <= Slack
  BY SlackFacts
<1>4. Weight(c, TRUE) = d /\ Weight(c, FALSE) = e
  BY DEF Weight
<1>5. Effective(c) = IF c \in manifest THEN Weight(c, TRUE) ELSE Weight(c, FALSE)
  BY DEF Effective, Weight
<1> HIDE DEF d, e
<1>6. /\ d \in Int /\ e \in Int /\ Slack \in Nat /\ d <= e
      /\ Size[c] <= d + Slack /\ Size[c] <= e + Slack
  BY <1>1, <1>2, <1>3
<1> QED  BY <1>4, <1>5, <1>6

\* The weight in a walk lies between the one of a resident and that of another
\* track; an unsynced track that is not resident stays the latter.
LEMMA WeightBounds ==
  ASSUME NEW c \in Tracks
  PROVE  /\ Effective(c) \in Int /\ Weight(c, FALSE) \in Int
         /\ Weight(c, c \notin unsynced) \in Int
         /\ Effective(c) <= Weight(c, FALSE)
         /\ (c \in unsynced => c \notin manifest) => Weight(c, c \notin unsynced) <= Effective(c)
<1> DEFINE d == Weight(c, TRUE)
           e == Weight(c, FALSE)
           w == Weight(c, c \notin unsynced)
<1>1. d \in Int /\ e \in Int /\ d <= e
  BY WeightFacts
<1>2. Effective(c) = IF c \in manifest THEN d ELSE e
  BY WeightFacts
<1>3. w = IF c \in unsynced THEN e ELSE d
  BY DEF Weight
<1> HIDE DEF d, e, w
<1>4. /\ Effective(c) \in Int /\ e \in Int /\ w \in Int /\ Effective(c) <= e
      /\ (c \in unsynced => c \notin manifest) => w <= Effective(c)
  BY <1>1, <1>2, <1>3
<1> QED  BY <1>4 DEF e, w

-----------------------------------------------------------------------------
(* The walk.                                                               *)

\* While the tables stay as they are, so do the candidates and their order.
LEMMA SameTables ==
  ASSUME UNCHANGED inputs
  PROVE  Candidates' = Candidates /\ Priorities' = Priorities /\ Cold' = Cold
<1> USE DEF inputs
<1>1. HeardTracks' = HeardTracks /\ LovedTracks' = LovedTracks /\ Latest' = Latest
  BY DEF HeardTracks, LovedTracks, Latest, Heard
<1>2. Explored' = Explored
  BY DEF Explored, Unplayed, First, LowerRank
<1>3. ASSUME NEW b PROVE Selected(b)' = Selected(b)
  BY <1>1, <1>2 DEF Selected, First, MorePlays, Later, Heard, LikedAt
<1>4. Running' = Running /\ Cold' = Cold
  BY DEF Running, Cold
<1>5. Candidates' = Candidates
  BY <1>3, <1>4 DEF Candidates
<1>6. ASSUME NEW c PROVE Priority(c)' = Priority(c)
  BY <1>3, <1>4 DEF Priority
<1> QED  BY <1>4, <1>5, <1>6 DEF Priorities

LEMMA InitIInv == Init => IInv
<1> SUFFICES ASSUME Init PROVE IInv
  OBVIOUS
<1>1. TypeOK
  <2>1. /\ history \in Seq([track : Tracks, skip : BOOLEAN]) /\ loved \in Seq(Tracks)
        /\ picks \in Seq(SUBSET Tracks)
    BY DEF Init
  <2>2. picks # <<>>
    BY DEF Init
  <2>3. /\ tracks \subseteq Tracks /\ manifest \subseteq Tracks /\ pins \subseteq tracks
        /\ unsynced \subseteq tracks /\ seed \in Seeds
    BY DEF Init
  <2>4. walking \in BOOLEAN
    BY Zenon DEF Init
  <2>5. quiet \in 0..2
    BY DEF Init
  <2> QED  BY <2>1, <2>2, <2>3, <2>4, <2>5 DEF TypeOK
<1>2. NeverBoth /\ PinsResident /\ WalkOK /\ SettledOK
  BY DEF Init, NeverBoth, PinsResident, WalkOK, SettledOK
<1> QED  BY <1>1, <1>2 DEF IInv

\* After a change of the tables nothing is claimed of the manifest.
LEMMA ChangeInv ==
  ASSUME Changes, TypeOK', NeverBoth'
  PROVE  IInv'
<1>1. quiet' = 0 /\ walking' = walking /\ ~walking
  BY DEF Changes
<1>2. PinsResident' /\ WalkOK' /\ SettledOK'
  BY <1>1 DEF PinsResident, WalkOK, SettledOK
<1> QED  BY <1>2 DEF IInv

\* A resolve begins with every candidate ahead of it.
LEMMA BeginInv ==
  ASSUME IInv, Begin
  PROVE  IInv'
<1>1. UNCHANGED <<inputs, manifest, quiet>> /\ UNCHANGED <<tracks, history, loved, pins, picks, unsynced, seed>>
  BY DEF Begin, inputs
<1>2. Candidates' = Candidates /\ Priorities' = Priorities
  BY <1>1, SameTables
<1>3. walking' = TRUE /\ prio' = Priorities /\ todo' = Candidates /\ admitted' = {} /\ used' = 0
  BY DEF Begin, Priorities
<1>4. TypeOK' /\ NeverBoth' /\ PinsResident'
  BY <1>1, <1>3 DEF IInv, TypeOK, NeverBoth, PinsResident
<1>5. WalkOK'
  BY <1>2, <1>3, BytesEmpty DEF WalkOK
<1>6. SettledOK'
  <2>1. \A S : Fixpoint(S)' <=> Fixpoint(S)
    BY <1>1, <1>2 DEF Fixpoint, Ahead
  <2> QED  BY <1>1, <1>2, <2>1 DEF IInv, SettledOK, Settled
<1> QED  BY <1>4, <1>5, <1>6 DEF IInv

\* What the walk has admitted so far comes before what it takes next.
LEMMA WalkFacts ==
  ASSUME IInv, Walk
  PROVE  /\ TypeOK /\ prio = Priorities /\ Foremost \in todo
         /\ todo \subseteq Candidates /\ admitted \subseteq Candidates \ todo
         /\ Candidates \subseteq Tracks /\ Foremost \in Tracks \ admitted
         /\ used = Bytes(admitted) /\ used \in Nat
         /\ \A d \in todo \ {Foremost} : Precedes(Priorities, Foremost, d)
         /\ \A c \in Candidates \ todo : \A d \in todo : Precedes(Priorities, c, d)
         /\ prio[Foremost] >= 10 <=> Foremost \in pins
<1>1. /\ TypeOK /\ prio = Priorities /\ todo # {} /\ used = Bytes(admitted)
      /\ todo \subseteq Candidates /\ admitted \subseteq Candidates \ todo
      /\ \A c \in Candidates \ todo : \A d \in todo : Before(c, d)
  BY DEF IInv, WalkOK, Walk
<1>2. Foremost \in todo /\ \A d \in todo \ {Foremost} : Before(Foremost, d)
  BY <1>1, ForemostFacts
<1>3. Candidates \subseteq Tracks
  BY <1>1, CandidatesAreTracks
<1>4. used \in Nat
  BY <1>1, <1>3, BytesType
<1>5. prio[Foremost] >= 10 <=> Foremost \in pins
  BY <1>1, <1>2, PriorityFacts
<1>6. Foremost \in Tracks \ admitted
  BY <1>1, <1>2, <1>3
<1> QED  BY <1>1, <1>2, <1>3, <1>4, <1>5, <1>6 DEF Before

\* What comes before a candidate the walk is through with does not change when
\* another one is admitted, and the next one comes after everything admitted.
LEMMA AheadFacts ==
  ASSUME IInv, Walk
  PROVE  /\ \A c \in Candidates \ todo : Ahead(admitted \cup {Foremost}, c) = Ahead(admitted, c)
         /\ Ahead(admitted, Foremost) = used
         /\ Ahead(admitted \cup {Foremost}, Foremost) = used
<1> DEFINE f == Foremost
<1>1. /\ TypeOK /\ f \in todo /\ todo \subseteq Candidates /\ admitted \subseteq Candidates \ todo
      /\ used = Bytes(admitted)
      /\ \A c \in Candidates \ todo : \A d \in todo : Precedes(Priorities, c, d)
  BY WalkFacts
<1> HIDE DEF f
<1>2. ASSUME NEW c \in Candidates \ todo
      PROVE  Ahead(admitted \cup {f}, c) = Ahead(admitted, c)
  <2>1. ~Precedes(Priorities, f, c)
    BY <1>1, <1>2, OrderFacts
  <2>2. {a \in admitted \cup {f} : Precedes(Priorities, a, c)}
          = {a \in admitted : Precedes(Priorities, a, c)}
    BY <2>1
  <2> QED  BY <2>2 DEF Ahead
<1>3. ~Precedes(Priorities, f, f)
  BY <1>1, OrderFacts
<1>4. /\ {a \in admitted : Precedes(Priorities, a, f)} = admitted
      /\ {a \in admitted \cup {f} : Precedes(Priorities, a, f)} = admitted
  BY <1>1, <1>3
<1>5. Ahead(admitted, f) = used /\ Ahead(admitted \cup {f}, f) = used
  BY <1>1, <1>4 DEF Ahead
<1> QED  BY <1>2, <1>5 DEF f

\* A step of the walk leaves the tables, the manifest and the verdicts' terms.
LEMMA WalkKeeps ==
  ASSUME IInv, Walk
  PROVE  /\ Candidates' = Candidates /\ Priorities' = Priorities
         /\ UNCHANGED <<tracks, history, loved, pins, picks, unsynced, seed, manifest, walking, prio, quiet>>
         /\ \A S, c : Ahead(S, c)' = Ahead(S, c)
         /\ \A c : Effective(c)' = Effective(c)
         /\ TypeOK' /\ NeverBoth' /\ PinsResident' /\ SettledOK' /\ walking'
<1>1. UNCHANGED <<inputs, manifest, walking, prio, quiet>> /\ walking
  BY DEF Walk
<1>2. UNCHANGED <<tracks, history, loved, pins, picks, unsynced, seed>>
  BY <1>1 DEF inputs
<1>3. Candidates' = Candidates /\ Priorities' = Priorities
  BY <1>1, SameTables
<1>4. \A S, c : Ahead(S, c)' = Ahead(S, c)
  BY <1>3 DEF Ahead
<1>5. \A c : Effective(c)' = Effective(c)
  BY <1>1 DEF Effective
<1>6. TypeOK' /\ NeverBoth' /\ PinsResident'
  BY <1>1, <1>2 DEF IInv, TypeOK, NeverBoth, PinsResident
<1>7. SettledOK'
  <2>1. \A S : Fixpoint(S)' <=> Fixpoint(S)
    BY <1>2, <1>3, <1>4 DEF Fixpoint
  <2> QED  BY <1>1, <1>2, <1>3, <2>1 DEF IInv, SettledOK, Settled
<1> QED  BY <1>1, <1>2, <1>3, <1>4, <1>5, <1>6, <1>7

LEMMA AdmitInv ==
  ASSUME IInv, Admit
  PROVE  IInv'
<1> DEFINE f == Foremost
<1>1. /\ Walk /\ admitted' = admitted \cup {f} /\ todo' = todo \ {f} /\ used' = used + Size[f]
      /\ used + Effective(f) <= CapEffective \/ prio[f] >= 10
  BY DEF Admit, Fits
<1>2. /\ Candidates' = Candidates /\ Priorities' = Priorities
      /\ UNCHANGED <<pins, manifest, prio>>
      /\ \A S, c : Ahead(S, c)' = Ahead(S, c)
      /\ \A c : Effective(c)' = Effective(c)
      /\ TypeOK' /\ NeverBoth' /\ PinsResident' /\ SettledOK' /\ walking'
  BY <1>1, WalkKeeps
<1>3. /\ TypeOK /\ prio = Priorities /\ f \in todo
      /\ todo \subseteq Candidates /\ admitted \subseteq Candidates \ todo
      /\ Candidates \subseteq Tracks /\ f \in Tracks \ admitted
      /\ used = Bytes(admitted) /\ used \in Nat
      /\ \A d \in todo \ {f} : Precedes(Priorities, f, d)
      /\ \A c \in Candidates \ todo : \A d \in todo : Precedes(Priorities, c, d)
      /\ prio[f] >= 10 <=> f \in pins
  BY <1>1, WalkFacts
<1>4. /\ \A c \in Candidates \ todo : Ahead(admitted \cup {f}, c) = Ahead(admitted, c)
      /\ Ahead(admitted \cup {f}, f) = used
  BY <1>1, AheadFacts
<1>5. /\ used <= CapEffective + Slack \/ admitted \subseteq pins
      /\ \A c \in Candidates \ todo : c \in admitted <=> Verdict(c)
  BY <1>1 DEF IInv, WalkOK, Walk
<1>6. /\ Size[f] \in Nat /\ Slack \in Nat /\ CapEffective \in Nat /\ Effective(f) \in Int
      /\ Size[f] <= Effective(f) + Slack
  BY <1>3, WeightFacts, ResolverAssumption
<1> HIDE DEF f
<1>7. todo' \subseteq Candidates' /\ admitted' \subseteq Candidates' \ todo'
  BY <1>1, <1>2, <1>3
<1>8. \A c \in Candidates' \ todo' : \A d \in todo' : Before(c, d)'
  <2> SUFFICES ASSUME NEW c \in Candidates \ (todo \ {f}), NEW d \in todo \ {f}
               PROVE  Precedes(Priorities, c, d)
    BY <1>1, <1>2, <1>3 DEF Before
  <2> QED  BY <1>3
<1>9. used' = Bytes(admitted')
  <2>1. Bytes(admitted \cup {f}) = Bytes(admitted) + Size[f]
    BY <1>3, BytesAdd
  <2> QED  BY <1>1, <1>3, <2>1
<1>10. used' <= CapEffective + Slack' \/ admitted' \subseteq pins'
  <2>0. Slack' = Slack
    BY DEF Slack
  <2>1. CASE f \notin pins
    <3>1. used + Effective(f) <= CapEffective
      BY <1>1, <1>3, <2>1
    <3> QED  BY <1>1, <1>3, <1>6, <2>0, <3>1
  <2>2. CASE f \in pins
    <3>1. ASSUME NEW a \in admitted PROVE a \in pins
      <4>1. Precedes(Priorities, a, f) /\ a \in Candidates
        BY <1>3
      <4>2. /\ Priorities[a] \in 0..10 /\ (Priorities[a] >= 10 <=> a \in pins)
            /\ Priorities[f] \in 0..10 /\ Priorities[f] >= 10
        BY <1>3, <2>2, <4>1, PriorityFacts
      <4> QED  BY <4>1, <4>2 DEF Precedes
    <3> QED  BY <1>1, <1>2, <2>2, <3>1
  <2> QED  BY <2>1, <2>2
<1>11. ASSUME NEW c \in Candidates \ (todo \ {f})
       PROVE  c \in admitted' <=> Verdict(c)'
  <2>1. Verdict(c)' <=> (c \in pins \/ Ahead(admitted \cup {f}, c) + Effective(c) <= CapEffective)
    BY <1>1, <1>2 DEF Verdict
  <2>2. CASE c = f
    BY <1>1, <1>3, <1>4, <2>1, <2>2
  <2>3. CASE c # f
    <3>1. c \in Candidates \ todo
      BY <1>11, <2>3
    <3> QED  BY <1>1, <1>4, <1>5, <2>1, <2>3, <3>1 DEF Verdict
  <2> QED  BY <2>2, <2>3
<1>12. WalkOK'
  BY <1>1, <1>2, <1>3, <1>7, <1>8, <1>9, <1>10, <1>11 DEF WalkOK
<1> QED  BY <1>2, <1>12 DEF IInv

LEMMA SkipInv ==
  ASSUME IInv, Skip
  PROVE  IInv'
<1> DEFINE f == Foremost
<1>1. /\ Walk /\ admitted' = admitted /\ todo' = todo \ {f} /\ used' = used
      /\ ~(used + Effective(f) <= CapEffective) /\ ~(prio[f] >= 10)
  BY DEF Skip, Fits
<1>2. /\ Candidates' = Candidates /\ Priorities' = Priorities
      /\ UNCHANGED <<pins, manifest, prio>>
      /\ \A S, c : Ahead(S, c)' = Ahead(S, c)
      /\ \A c : Effective(c)' = Effective(c)
      /\ TypeOK' /\ NeverBoth' /\ PinsResident' /\ SettledOK' /\ walking'
  BY <1>1, WalkKeeps
<1>3. /\ TypeOK /\ prio = Priorities /\ f \in todo
      /\ todo \subseteq Candidates /\ admitted \subseteq Candidates \ todo
      /\ used = Bytes(admitted)
      /\ \A d \in todo \ {f} : Precedes(Priorities, f, d)
      /\ \A c \in Candidates \ todo : \A d \in todo : Precedes(Priorities, c, d)
      /\ prio[f] >= 10 <=> f \in pins
  BY <1>1, WalkFacts
<1>4. Ahead(admitted, f) = used
  BY <1>1, AheadFacts
<1>5. /\ used <= CapEffective + Slack \/ admitted \subseteq pins
      /\ \A c \in Candidates \ todo : c \in admitted <=> Verdict(c)
  BY <1>1 DEF IInv, WalkOK, Walk
<1> HIDE DEF f
<1>6. \A c \in Candidates' \ todo' : \A d \in todo' : Before(c, d)'
  <2> SUFFICES ASSUME NEW c \in Candidates \ (todo \ {f}), NEW d \in todo \ {f}
               PROVE  Precedes(Priorities, c, d)
    BY <1>1, <1>2, <1>3 DEF Before
  <2> QED  BY <1>3
<1>7. used' <= CapEffective + Slack' \/ admitted' \subseteq pins'
  BY <1>1, <1>2, <1>5 DEF Slack
<1>8. ASSUME NEW c \in Candidates \ (todo \ {f})
      PROVE  c \in admitted' <=> Verdict(c)'
  <2>1. Verdict(c)' <=> Verdict(c)
    BY <1>1, <1>2 DEF Verdict
  <2>2. CASE c = f
    BY <1>1, <1>3, <1>4, <2>1, <2>2 DEF Verdict
  <2>3. CASE c # f
    <3>1. c \in Candidates \ todo
      BY <1>8, <2>3
    <3> QED  BY <1>1, <1>5, <2>1, <3>1
  <2> QED  BY <2>2, <2>3
<1>9. WalkOK'
  BY <1>1, <1>2, <1>3, <1>6, <1>7, <1>8 DEF WalkOK
<1> QED  BY <1>2, <1>9 DEF IInv

\* What the walk has come to, when it is over.
LEMMA WalkedFacts ==
  ASSUME IInv, Walked
  PROVE  /\ TypeOK /\ prio = Priorities /\ admitted \subseteq Candidates /\ pins \subseteq admitted
         /\ used = Bytes(admitted) /\ (used <= CapEffective + Slack \/ admitted \subseteq pins)
         /\ \A c \in Candidates : c \in admitted <=> Verdict(c)
<1>1. /\ TypeOK /\ prio = Priorities /\ admitted \subseteq Candidates /\ used = Bytes(admitted)
      /\ used <= CapEffective + Slack \/ admitted \subseteq pins
      /\ \A c \in Candidates : c \in admitted <=> Verdict(c)
  BY DEF IInv, WalkOK, Walked
<1>2. pins \subseteq admitted
  BY <1>1, CandidatesAreTracks DEF Verdict
<1> QED  BY <1>1, <1>2

\* What an unsynced track weighs does not depend on the manifest before the walk.
LEMMA CommitInv ==
  ASSUME IInv, Commit
  PROVE  IInv'
<1>1. /\ Walked /\ walking' = FALSE /\ manifest' = admitted \ unsynced
      /\ UNCHANGED <<tracks, history, loved, pins, picks, unsynced, seed>> /\ UNCHANGED inputs
  BY DEF Commit, Walked, inputs
<1>2. /\ TypeOK /\ NeverBoth /\ PinsResident
      /\ admitted \subseteq Candidates /\ pins \subseteq admitted
      /\ \A c \in Candidates : c \in admitted <=> Verdict(c)
  BY <1>1, WalkedFacts DEF IInv
<1>3. Candidates' = Candidates /\ Priorities' = Priorities /\ Candidates \subseteq Tracks
  BY <1>1, <1>2, SameTables, CandidatesAreTracks
<1>4. quiet \in 0..2 /\ quiet' \in 0..2 /\ (quiet' = 2 => quiet >= 1)
  <2>1. quiet' = Min({quiet + 1, 2}) /\ quiet \in 0..2
    BY <1>2 DEF Commit, TypeOK
  <2>2. quiet' = IF quiet + 1 <= 2 THEN quiet + 1 ELSE 2
    BY <2>1 DEF Min
  <2> QED  BY <2>1, <2>2
<1>5. TypeOK'
  BY <1>1, <1>2, <1>3, <1>4 DEF TypeOK
<1>6. NeverBoth' /\ PinsResident'
  BY <1>1, <1>2 DEF NeverBoth, PinsResident
<1>7. WalkOK'
  BY <1>1 DEF WalkOK
<1>8. SettledOK'
  <2> SUFFICES ASSUME quiet' = 2 \/ (quiet' = 1 /\ unsynced \cap Candidates = {})
               PROVE  Settled'
    BY <1>1, <1>3 DEF SettledOK
  <2>1. \A c \in Candidates : c \in unsynced => c \notin manifest
    BY <1>2, <1>4 DEF PinsResident
  <2>2. \A S, c : Ahead(S, c)' = Ahead(S, c)
    BY <1>3 DEF Ahead
  <2>3. ASSUME NEW c \in admitted \ pins
        PROVE  Ahead(admitted, c) + Weight(c, c \notin unsynced) <= CapEffective
    <3>1. c \in Candidates /\ c \in Tracks /\ Ahead(admitted, c) + Effective(c) <= CapEffective
      BY <1>2, <1>3, <2>3 DEF Verdict
    <3>2. Weight(c, c \notin unsynced) <= Effective(c) /\ Weight(c, c \notin unsynced) \in Int
      BY <2>1, <3>1, WeightBounds
    <3>3. Ahead(admitted, c) \in Nat /\ Effective(c) \in Int
      BY <1>2, <1>3, <3>1, BytesType, WeightBounds DEF Ahead
    <3> QED  BY <3>1, <3>2, <3>3, ResolverAssumption
  <2>4. ASSUME NEW c \in Candidates \ admitted
        PROVE  Ahead(admitted, c) + Weight(c, FALSE) > CapEffective
    <3>1. c \in Tracks /\ ~(Ahead(admitted, c) + Effective(c) <= CapEffective)
      BY <1>2, <1>3, <2>4 DEF Verdict
    <3> DEFINE e == Weight(c, FALSE)
    <3>2. Effective(c) <= e /\ e \in Int /\ Effective(c) \in Int
      BY <3>1, WeightBounds
    <3>3. Ahead(admitted, c) \in Nat
      BY <1>2, <1>3, BytesType DEF Ahead
    <3> HIDE DEF e
    <3>4. Ahead(admitted, c) + e > CapEffective
      BY <3>1, <3>2, <3>3, ResolverAssumption
    <3> QED  BY <3>4 DEF e
  <2>5. Fixpoint(admitted)
    BY <1>2, <2>3, <2>4 DEF Fixpoint
  <2>6. \A S : Fixpoint(S)' <=> Fixpoint(S)
    BY <1>1, <1>3, <2>2 DEF Fixpoint, Weight
  <2> QED  BY <1>1, <1>2, <1>3, <2>5, <2>6 DEF Settled
<1> QED  BY <1>5, <1>6, <1>7, <1>8 DEF IInv
-----------------------------------------------------------------------------
(* The picks.                                                              *)

\* take_from_pool, and what the four calls of it come to: tracks of the library
\* and of no excluded album, spread over the albums, and as many as were asked
\* for unless every other track is refused.
LEMMA PicksFacts ==
  ASSUME NEW all, IsFiniteSet(all), NEW unplayed \in SUBSET all, NEW old \in SUBSET all,
         NEW pinned, NEW P \in Picks(all, unplayed, old, pinned)
  PROVE  /\ P \subseteq Listed(all) /\ Listed(all) \subseteq all /\ Spread(P)
         /\ Cardinality(P) < DiscoverCount =>
              \A t \in all \ P : Album[t] \in Excluded \/ ~Spread(P \cup {t})
<1>1. PICK N \in Takes(Listed(unplayed), {}, Quota(50)) :
        P \in UNION {UNION {
          LET had  == N \cup A \cup L
              left == IF Cardinality(had) < DiscoverCount
                      THEN DiscoverCount - Cardinality(had) ELSE 0
          IN  {had \cup F : F \in Takes(Listed(all), had, left)}
          : L \in Takes(Listed(NearLoved(unplayed, pinned)), N \cup A, Quota(15))}
          : A \in Takes(Listed(old), N, Quota(25))}
  BY DEF Picks
<1>2. PICK A \in Takes(Listed(old), N, Quota(25)) :
        P \in UNION {
          LET had  == N \cup A \cup L
              left == IF Cardinality(had) < DiscoverCount
                      THEN DiscoverCount - Cardinality(had) ELSE 0
          IN  {had \cup F : F \in Takes(Listed(all), had, left)}
          : L \in Takes(Listed(NearLoved(unplayed, pinned)), N \cup A, Quota(15))}
  BY <1>1
<1>3. PICK L \in Takes(Listed(NearLoved(unplayed, pinned)), N \cup A, Quota(15)) :
        P \in LET had  == N \cup A \cup L
                  left == IF Cardinality(had) < DiscoverCount
                          THEN DiscoverCount - Cardinality(had) ELSE 0
              IN  {had \cup F : F \in Takes(Listed(all), had, left)}
  BY <1>2
<1> DEFINE had  == N \cup A \cup L
           left == IF Cardinality(had) < DiscoverCount
                   THEN DiscoverCount - Cardinality(had) ELSE 0
<1>4. PICK F \in Takes(Listed(all), had, left) : P = had \cup F
  BY <1>3
<1>5. had \subseteq Listed(all) /\ Listed(all) \subseteq all
  <2>1. N \subseteq Listed(unplayed) /\ A \subseteq Listed(old) /\ L \subseteq Listed(NearLoved(unplayed, pinned))
    BY DEF Takes, Untaken
  <2>2. NearLoved(unplayed, pinned) \subseteq unplayed
    BY DEF NearLoved
  <2> QED  BY <2>1, <2>2 DEF Listed
<1> HIDE DEF had, left
<1>6. /\ F \subseteq Listed(all) \ had /\ Spread(had \cup F)
      /\ Cardinality(F) <= left
      /\ Cardinality(F) = left \/ \A t \in (Listed(all) \ had) \ F : ~Spread(had \cup F \cup {t})
  BY DEF Takes, Untaken
<1>7. P \subseteq Listed(all) /\ Spread(P)
  BY <1>4, <1>5, <1>6
<1>8. ASSUME Cardinality(P) < DiscoverCount, NEW t \in all \ P
      PROVE  Album[t] \in Excluded \/ ~Spread(P \cup {t})
  <2>1. had \in SUBSET all /\ F \in SUBSET all
    BY <1>5, <1>6
  <2>2. IsFiniteSet(had) /\ IsFiniteSet(F)
    BY <2>1, FS_Subset
  <2>3. had \cap F = {}
    BY <1>6
  <2>4. Cardinality(P) = Cardinality(had) + Cardinality(F)
    <3>1. Cardinality(had \cup F) = Cardinality(had) + Cardinality(F) - Cardinality({})
      BY <2>2, <2>3, FS_Union
    <3>2. Cardinality({}) = 0 /\ Cardinality(had) \in Nat /\ Cardinality(F) \in Nat
      BY <2>2, FS_EmptySet, FS_CardinalityType
    <3> QED  BY <1>4, <3>1, <3>2
  <2>5. Cardinality(had) \in Nat /\ Cardinality(F) \in Nat
    BY <2>2, FS_CardinalityType
  <2>6. Cardinality(F) # left
    BY <1>8, <2>4, <2>5, DiscoveryAssumption DEF left
  <2>7. \A u \in (Listed(all) \ had) \ F : ~Spread(had \cup F \cup {u})
    BY <1>6, <2>6
  <2>8. Album[t] \notin Excluded => t \in (Listed(all) \ had) \ F
    BY <1>4, <1>8 DEF Listed
  <2> QED  BY <1>4, <2>7, <2>8
<1> QED  BY <1>5, <1>7, <1>8

\* The picks of this resolve's tables.
LEMMA DiscoverFacts ==
  ASSUME TypeOK, Discover
  PROVE  \E P \in SUBSET tracks :
           /\ picks' = [picks EXCEPT ![Len(picks)] = @ \cup P]
           /\ Spread(P) /\ \A t \in P : Album[t] \notin Excluded
           /\ Cardinality(P) < DiscoverCount =>
                \A t \in tracks \ P : Album[t] \in Excluded \/ ~Spread(P \cup {t})
<1>1. PICK old \in AgedOut : \E P \in Picks(tracks, Unplayed, old, pins) :
        picks' = [picks EXCEPT ![Len(picks)] = @ \cup P]
  BY DEF Discover
<1>2. PICK P \in Picks(tracks, Unplayed, old, pins) :
        picks' = [picks EXCEPT ![Len(picks)] = @ \cup P]
  BY <1>1
<1>3. IsFiniteSet(tracks) /\ Unplayed \in SUBSET tracks /\ old \in SUBSET tracks
  BY FS_Subset, ResolverAssumption DEF TypeOK, Unplayed, AgedOut
<1>4. /\ P \subseteq Listed(tracks) /\ Listed(tracks) \subseteq tracks /\ Spread(P)
      /\ Cardinality(P) < DiscoverCount =>
           \A t \in tracks \ P : Album[t] \in Excluded \/ ~Spread(P \cup {t})
  BY <1>2, <1>3, PicksFacts
<1>5. \A t \in P : Album[t] \notin Excluded
  BY <1>4 DEF Listed
<1>6. P \in SUBSET tracks
  BY <1>4
<1> QED  BY <1>2, <1>4, <1>5, <1>6
-----------------------------------------------------------------------------
(* The tables.                                                             *)

LEMMA PlayInv ==
  ASSUME IInv, NEW t \in Tracks, NEW skip \in BOOLEAN, Play(t, skip)
  PROVE  IInv'
<1>1. [track |-> t, skip |-> skip] \in [track : Tracks, skip : BOOLEAN]
  OBVIOUS
<1>2. history' \in Seq([track : Tracks, skip : BOOLEAN])
  <2>1. history \in Seq([track : Tracks, skip : BOOLEAN])
    BY DEF IInv, TypeOK
  <2>2. history' = Append(history, [track |-> t, skip |-> skip])
    BY DEF Play
  <2> DEFINE row == [track |-> t, skip |-> skip]
             Rows == [track : Tracks, skip : BOOLEAN]
  <2> HIDE DEF row, Rows
  <2> QED  BY <1>1, <2>1, <2>2 DEF row, Rows
<1>3. TypeOK' /\ NeverBoth'
  BY <1>2 DEF Play, Changes, IInv, TypeOK, NeverBoth
<1> QED  BY <1>3, ChangeInv DEF Play

LEMMA LikeInv ==
  ASSUME IInv, NEW t \in Tracks, NEW liked \in BOOLEAN, Like(t, liked)
  PROVE  IInv'
<1>1. Without(loved, {t}) \in Seq(Tracks)
  <2>1. loved \in Seq(Tracks)
    BY DEF IInv, TypeOK
  <2> QED  BY <2>1, WithoutFacts
<1>2. loved' \in Seq(Tracks)
  <2>1. loved' = IF liked THEN Append(Without(loved, {t}), t) ELSE Without(loved, {t})
    BY DEF Like
  <2> QED  BY <1>1, <2>1
<1>3. TypeOK' /\ NeverBoth'
  BY <1>2 DEF Like, Changes, IInv, TypeOK, NeverBoth
<1> QED  BY <1>3, ChangeInv DEF Like

LEMMA PinsInv ==
  ASSUME IInv, NEW t \in Tracks, Pin(t) \/ Unpin(t) \/ Unsync(t) \/ Arrive(t)
  PROVE  IInv'
<1>1. TypeOK' /\ NeverBoth'
  BY DEF Pin, Unpin, Unsync, Arrive, Changes, IInv, TypeOK, NeverBoth
<1> QED  BY <1>1, ChangeInv DEF Pin, Unpin, Unsync, Arrive

LEMMA LeaveInv ==
  ASSUME IInv, NEW t \in Tracks, Leave(t)
  PROVE  IInv'
<1>1. /\ history \in Seq([track : Tracks, skip : BOOLEAN]) /\ loved \in Seq(Tracks)
      /\ picks \in Seq(SUBSET Tracks) /\ picks # <<>>
  BY DEF IInv, TypeOK
<1>2. loved' \in Seq(Tracks)
  BY <1>1, WithoutFacts DEF Leave
<1>3. history' \in Seq([track : Tracks, skip : BOOLEAN])
  BY <1>1, WithoutFacts DEF Leave
<1>4. picks' \in Seq(SUBSET Tracks) /\ picks' # <<>>
  <2>1. picks' = [w \in 1..Len(picks) |-> picks[w] \ {t}]
    BY <1>1 DEF Leave
  <2>2. \A w \in 1..Len(picks) : picks[w] \ {t} \in SUBSET Tracks
    BY <1>1
  <2>3. Len(picks) \in Nat /\ Len(picks) # 0
    BY <1>1
  <2>4. picks' \in Seq(SUBSET Tracks) /\ Len(picks') = Len(picks)
    BY <2>1, <2>2, <2>3
  <2> QED  BY <2>3, <2>4
<1>5. TypeOK' /\ NeverBoth'
  BY <1>2, <1>3, <1>4 DEF Leave, Changes, IInv, TypeOK, NeverBoth
<1> QED  BY <1>5, ChangeInv DEF Leave

LEMMA DiscoverInv ==
  ASSUME IInv, Discover
  PROVE  IInv'
<1>1. TypeOK /\ picks \in Seq(SUBSET Tracks) /\ picks # <<>> /\ tracks \subseteq Tracks
  BY DEF IInv, TypeOK
<1>2. PICK P \in SUBSET tracks : picks' = [picks EXCEPT ![Len(picks)] = @ \cup P]
  BY <1>1, DiscoverFacts
<1>3. picks' \in Seq(SUBSET Tracks) /\ picks' # <<>>
  <2>1. Len(picks) \in DOMAIN picks /\ picks[Len(picks)] \cup P \in SUBSET Tracks
    BY <1>1
  <2>2. picks' \in Seq(SUBSET Tracks) /\ Len(picks') = Len(picks)
    BY <1>1, <1>2, <2>1
  <2> QED  BY <1>1, <2>2
<1>4. TypeOK' /\ NeverBoth'
  BY <1>3 DEF Discover, Changes, IInv, TypeOK, NeverBoth
<1> QED  BY <1>4, ChangeInv DEF Discover

LEMMA ReseedInv ==
  ASSUME IInv, NEW s \in Seeds, Reseed(s)
  PROVE  IInv'
<1>1. picks' \in Seq(SUBSET Tracks) /\ picks' # <<>>
  <2>1. picks \in Seq(SUBSET Tracks) /\ {} \in SUBSET Tracks /\ picks' = Append(picks, {})
    BY DEF IInv, TypeOK, Reseed
  <2> QED  BY <2>1
<1>2. TypeOK' /\ NeverBoth'
  BY <1>1 DEF Reseed, Changes, IInv, TypeOK, NeverBoth
<1> QED  BY <1>2, ChangeInv DEF Reseed
-----------------------------------------------------------------------------
\* The invariant is inductive.
LEMMA NextIInv == IInv /\ [Next]_vars => IInv'
<1> SUFFICES ASSUME IInv, [Next]_vars PROVE IInv'
  OBVIOUS
<1>1. ASSUME NEW t \in Tracks,
             \/ \E yes \in BOOLEAN : Play(t, yes) \/ Like(t, yes)
             \/ Pin(t) \/ Unpin(t) \/ Unsync(t) \/ Arrive(t) \/ Leave(t)
      PROVE  IInv'
  <2>1. ASSUME NEW yes \in BOOLEAN, Play(t, yes) \/ Like(t, yes) PROVE IInv'
    BY <2>1, PlayInv, LikeInv
  <2>2. CASE Pin(t) \/ Unpin(t) \/ Unsync(t) \/ Arrive(t)
    BY <2>2, PinsInv
  <2>3. CASE Leave(t)
    BY <2>3, LeaveInv
  <2> QED  BY <1>1, <2>1, <2>2, <2>3
<1>2. CASE Discover
  BY <1>2, DiscoverInv
<1>3. ASSUME NEW s \in Seeds, Reseed(s) PROVE IInv'
  BY <1>3, ReseedInv
<1>4. CASE Begin
  BY <1>4, BeginInv
<1>5. CASE Admit
  BY <1>5, AdmitInv
<1>6. CASE Skip
  BY <1>6, SkipInv
<1>7. CASE Commit
  BY <1>7, CommitInv
<1>8. CASE UNCHANGED vars
  <2>1. /\ UNCHANGED <<inputs, manifest, walking, loop, changes, quiet>>
        /\ UNCHANGED <<tracks, history, loved, pins, picks, unsynced, seed>>
        /\ UNCHANGED <<prio, todo, admitted, used>>
    BY <1>8 DEF vars, inputs, loop
  <2>2. Candidates' = Candidates /\ Priorities' = Priorities
    BY <2>1, SameTables
  <2>3. TypeOK' /\ NeverBoth' /\ PinsResident'
    BY <2>1 DEF IInv, TypeOK, NeverBoth, PinsResident
  <2>4. WalkOK'
    <3>1. \A c : Verdict(c)' <=> Verdict(c)
      BY <2>1, <2>2 DEF Verdict, Ahead, Effective
    <3>2. \A c, d : Before(c, d)' <=> Before(c, d)
      BY <2>1 DEF Before
    <3> QED  BY <2>1, <2>2, <3>1, <3>2 DEF IInv, WalkOK, Slack
  <2>5. SettledOK'
    <3>1. \A S : Fixpoint(S)' <=> Fixpoint(S)
      BY <2>1, <2>2 DEF Fixpoint, Ahead
    <3> QED  BY <2>1, <2>2, <3>1 DEF IInv, SettledOK, Settled
  <2> QED  BY <2>3, <2>4, <2>5 DEF IInv
<1> QED  BY <1>1, <1>2, <1>3, <1>4, <1>5, <1>6, <1>7, <1>8 DEF Next

\* The invariant holds in every state: the tables are well formed, the walk
\* keeps the running total right and its verdicts follow from what comes
\* before, pins are resident, and the manifest is a fixpoint once it may be.
THEOREM Invariance == Spec => []IInv
<1> QED  BY InitIInv, NextIInv, PTL DEF Spec
-----------------------------------------------------------------------------
(* The walk's promises.                                                    *)

\* The manifest passes the effective cap by the discount of one track at the
\* most, unless it is the pins alone.
THEOREM CapWithinDiscountHolds == Spec => []CapWithinDiscount
<1>1. IInv => CapWithinDiscount
  <2> SUFFICES ASSUME IInv, Walked
               PROVE  Bytes(admitted) <= CapEffective + Slack \/ Bytes(admitted) = Bytes(pins)
    BY DEF CapWithinDiscount
  <2>1. /\ pins \subseteq admitted /\ used = Bytes(admitted)
        /\ used <= CapEffective + Slack \/ admitted \subseteq pins
    BY WalkedFacts
  <2>2. CASE admitted \subseteq pins
    <3>1. admitted = pins
      BY <2>1, <2>2
    <3> QED  BY <3>1
  <2> QED  BY <2>1, <2>2
<1> QED  BY Invariance, <1>1, PTL

\* A candidate is left out only for want of room behind what comes before it.
THEOREM LeftOutForSpaceHolds == Spec => []LeftOutForSpace
<1>1. IInv => LeftOutForSpace
  <2> SUFFICES ASSUME IInv, Walked, NEW c \in DOMAIN prio \ admitted
               PROVE  /\ c \notin pins
                      /\ Bytes({a \in admitted : Before(a, c)}) + Effective(c) > CapEffective
    BY DEF LeftOutForSpace
  <2>1. /\ TypeOK /\ prio = Priorities /\ admitted \subseteq Candidates
        /\ \A d \in Candidates : d \in admitted <=> Verdict(d)
    BY WalkedFacts
  <2>2. c \in Candidates /\ c \in Tracks /\ Candidates \subseteq Tracks
    BY <2>1, CandidatesAreTracks DEF Priorities
  <2>3. c \notin pins /\ ~(Ahead(admitted, c) + Effective(c) <= CapEffective)
    BY <2>1, <2>2 DEF Verdict
  <2>4. Ahead(admitted, c) \in Nat /\ Effective(c) \in Int
    BY <2>1, <2>2, BytesType, WeightBounds DEF Ahead
  <2>5. Ahead(admitted, c) = Bytes({a \in admitted : Before(a, c)})
    BY <2>1 DEF Ahead, Before
  <2> QED  BY <2>3, <2>4, <2>5, ResolverAssumption
<1> QED  BY Invariance, <1>1, PTL

\* After a resolve every pinned track is resident and nothing unsynced is.
THEOREM PinsResidentHolds == Spec => []PinsResident
<1>1. IInv => PinsResident
  BY DEF IInv
<1> QED  BY Invariance, <1>1, PTL

\* Two sets that both hold what fits behind their own earlier members are one.
LEMMA GreedyUnique ==
  ASSUME TypeOK, NEW X, NEW Y, X \subseteq Candidates, Y \subseteq Candidates,
         \A c \in Candidates : c \in X <=> (c \in pins \/ Ahead(X, c) + Effective(c) <= CapEffective),
         \A c \in Candidates : c \in Y <=> (c \in pins \/ Ahead(Y, c) + Effective(c) <= CapEffective)
  PROVE  X = Y
<1> DEFINE Differ == (X \ Y) \cup (Y \ X)
<1> SUFFICES ASSUME Differ # {} PROVE FALSE
  OBVIOUS
<1>1. PICK c \in Differ : \A d \in Differ \ {c} : Precedes(Priorities, c, d)
  <2>1. Differ \subseteq Candidates
    OBVIOUS
  <2> HIDE DEF Differ
  <2> QED  BY <2>1, FirstExists
<1>2. ASSUME NEW a \in Candidates, Precedes(Priorities, a, c)
      PROVE  a \notin Differ
  <2>1. c \in Candidates
    OBVIOUS
  <2>2. ~Precedes(Priorities, c, a) /\ a # c
    BY <1>2, <2>1, OrderFacts
  <2> QED  BY <1>1, <2>2
<1>3. {a \in X : Precedes(Priorities, a, c)} = {a \in Y : Precedes(Priorities, a, c)}
  BY <1>2
<1>4. Ahead(X, c) = Ahead(Y, c)
  BY <1>3 DEF Ahead
<1>5. c \in Candidates
  OBVIOUS
<1>6. c \in X <=> c \in Y
  BY <1>4, <1>5
<1> QED  BY <1>6

\* A walk over unchanged tables comes to the set it started from.
LEMMA CommitSettles ==
  ASSUME IInv, Commit, Settled
  PROVE  manifest' = manifest
<1>1. Walked /\ manifest' = admitted \ unsynced
  BY DEF Commit, Walked
<1>2. /\ TypeOK /\ admitted \subseteq Candidates
      /\ \A c \in Candidates : c \in admitted <=> Verdict(c)
  BY <1>1, WalkedFacts
<1>3. PICK S \in SUBSET Candidates : Fixpoint(S) /\ manifest = S \ unsynced
  BY DEF Settled
<1>4. ASSUME NEW c \in Candidates
      PROVE  c \in S <=> (c \in pins \/ Ahead(S, c) + Effective(c) <= CapEffective)
  <2>1. c \in Tracks /\ S \subseteq Tracks /\ Ahead(S, c) \in Nat
    BY <1>2, <1>3, CandidatesAreTracks, BytesType DEF Ahead
  <2>2. pins \subseteq S
    BY <1>3 DEF Fixpoint
  <2>3. CASE c \in S
    <3>1. Effective(c) = Weight(c, c \notin unsynced)
      <4>1. c \in manifest <=> c \notin unsynced
        BY <1>3, <2>3
      <4> QED  BY <4>1 DEF Effective, Weight
    <3>2. c \in pins \/ Ahead(S, c) + Weight(c, c \notin unsynced) <= CapEffective
      BY <1>3, <2>3 DEF Fixpoint
    <3> QED  BY <2>3, <3>1, <3>2
  <2>4. CASE c \notin S
    <3>1. Effective(c) = Weight(c, FALSE)
      <4>1. c \notin manifest
        BY <1>3, <2>4
      <4> QED  BY <4>1 DEF Effective, Weight
    <3>2. Ahead(S, c) + Weight(c, FALSE) > CapEffective
      BY <1>3, <2>4 DEF Fixpoint
    <3>3. Ahead(S, c) + Effective(c) > CapEffective /\ Effective(c) \in Int
      BY <2>1, <3>1, <3>2, WeightBounds
    <3>4. ~(Ahead(S, c) + Effective(c) <= CapEffective)
      BY <2>1, <3>3, ResolverAssumption
    <3> QED  BY <2>2, <2>4, <3>4
  <2> QED  BY <2>3, <2>4
<1>5. admitted = S
  <2>1. \A c \in Candidates :
          c \in admitted <=> (c \in pins \/ Ahead(admitted, c) + Effective(c) <= CapEffective)
    BY <1>2 DEF Verdict
  <2> QED  BY <1>2, <1>3, <1>4, <2>1, GreedyUnique
<1> QED  BY <1>1, <1>3, <1>5

\* While the tables do not change the manifest settles.
THEOREM SettlesHolds == Spec => Settles
<1>1. IInv /\ [Next]_vars =>
        [Commit /\ (quiet = 2 \/ (quiet = 1 /\ unsynced \cap DOMAIN prio = {}))
           => manifest' = manifest]_vars
  <2> SUFFICES ASSUME IInv, Commit, quiet = 2 \/ (quiet = 1 /\ unsynced \cap DOMAIN prio = {})
               PROVE  manifest' = manifest
    OBVIOUS
  <2>1. DOMAIN prio = Candidates
    <3>1. Walked
      BY DEF Commit, Walked
    <3> QED  BY <3>1, WalkedFacts DEF Priorities
  <2>2. Settled
    BY <2>1 DEF IInv, SettledOK
  <2> QED  BY <2>2, CommitSettles
<1> QED  BY Invariance, <1>1, PTL DEF Spec, Settles
-----------------------------------------------------------------------------
(* The picks of a week.                                                    *)

\* The first picks of a week are spread, of no excluded album, and as many as
\* were asked for unless no other track may be picked.
THEOREM PicksSpreadHolds == Spec => PicksSpread
<1> DEFINE was == picks[Len(picks)]
           now == picks'[Len(picks)]
           Full == was = {} /\ now # {} =>
             /\ Spread(now) /\ \A t \in now : Album[t] \notin Excluded
             /\ Cardinality(now) < DiscoverCount =>
                  \A t \in tracks \ now : Album[t] \in Excluded \/ ~Spread(now \cup {t})
<1>1. IInv /\ [Next]_vars => Full
  <2> SUFFICES ASSUME IInv, [Next]_vars, was = {}, now # {}
               PROVE  /\ Spread(now) /\ \A t \in now : Album[t] \notin Excluded
                      /\ Cardinality(now) < DiscoverCount =>
                           \A t \in tracks \ now : Album[t] \in Excluded \/ ~Spread(now \cup {t})
    OBVIOUS
  <2>1. TypeOK /\ picks \in Seq(SUBSET Tracks) /\ picks # <<>>
    BY DEF IInv, TypeOK
  <2>2. Len(picks) \in DOMAIN picks /\ Len(picks) \in Nat
    BY <2>1
  <2>3. picks' # picks
    OBVIOUS
  <2>4. CASE Discover
    <3>1. PICK P \in SUBSET tracks :
             /\ picks' = [picks EXCEPT ![Len(picks)] = @ \cup P]
             /\ Spread(P) /\ \A t \in P : Album[t] \notin Excluded
             /\ Cardinality(P) < DiscoverCount =>
                  \A t \in tracks \ P : Album[t] \in Excluded \/ ~Spread(P \cup {t})
      BY <2>1, <2>4, DiscoverFacts
    <3>2. now = P
      BY <2>2, <3>1
    <3> HIDE DEF now
    <3> QED  BY <3>1, <3>2
  <2>5. ASSUME NEW t \in Tracks, Leave(t) PROVE FALSE
    BY <2>2, <2>5 DEF Leave
  <2>6. ASSUME NEW s \in Seeds, Reseed(s) PROVE FALSE
    <3>1. picks' = Append(picks, {})
      BY <2>6 DEF Reseed
    <3> QED  BY <2>1, <2>2, <3>1
  <2> QED
    BY <2>3, <2>4, <2>5, <2>6
    DEF Next, Play, Like, Pin, Unpin, Unsync, Arrive, Begin, Admit, Skip, Walk, Commit, inputs, vars
<1>2. IInv /\ [Next]_vars => [Full]_vars
  BY <1>1
<1>3. Spec => [][Full]_vars
  BY Invariance, <1>2, PTL DEF Spec
<1> QED  BY <1>3 DEF PicksSpread
-----------------------------------------------------------------------------
(* The exploration bucket.                                                 *)

\* The members of U that come before t, and the first n of U.
Lower(r, U, t) == {u \in U : r[u] < r[t]}
Top(r, n, U) == {t \in U : Cardinality(Lower(r, U, t)) < n}

LEMMA LowerFinite ==
  ASSUME NEW r, NEW U \in SUBSET Tracks, NEW t
  PROVE  IsFiniteSet(Lower(r, U, t)) /\ Cardinality(Lower(r, U, t)) \in Nat
<1>1. Lower(r, U, t) \in SUBSET Tracks
  BY DEF Lower
<1>2. IsFiniteSet(Lower(r, U, t))
  BY <1>1, FS_Subset, ResolverAssumption
<1> QED  BY <1>2, FS_CardinalityType

\* A newcomer displaces others; none but it comes in.
LEMMA TopGrows ==
  ASSUME NEW r, NEW n \in Nat, NEW U \in SUBSET Tracks, NEW x \in Tracks
  PROVE  Top(r, n, U \cup {x}) \ Top(r, n, U) \subseteq {x}
<1> SUFFICES ASSUME NEW t \in Top(r, n, U \cup {x}), t # x PROVE t \in Top(r, n, U)
  OBVIOUS
<1>1. t \in U /\ Cardinality(Lower(r, U \cup {x}, t)) < n
  BY DEF Top
<1>2. Lower(r, U, t) \in SUBSET Lower(r, U \cup {x}, t)
  BY DEF Lower
<1>3. /\ IsFiniteSet(Lower(r, U \cup {x}, t)) /\ Cardinality(Lower(r, U \cup {x}, t)) \in Nat
      /\ Cardinality(Lower(r, U, t)) \in Nat
  BY LowerFinite
<1>4. Cardinality(Lower(r, U, t)) <= Cardinality(Lower(r, U \cup {x}, t))
  BY <1>2, <1>3, FS_Subset
<1>5. Cardinality(Lower(r, U, t)) < n
  BY <1>1, <1>3, <1>4
<1> QED  BY <1>1, <1>5 DEF Top

\* What takes the place of one that went had exactly n others before it.
LEMMA TopShrinks ==
  ASSUME NEW r, NEW n \in Nat, NEW U \in SUBSET Tracks, NEW x,
         NEW t \in Top(r, n, U \ {x}) \ Top(r, n, U)
  PROVE  t \in U \ {x} /\ Cardinality(Lower(r, U \ {x}, t)) = n - 1
<1> DEFINE L == Lower(r, U, t)
           M == Lower(r, U \ {x}, t)
<1>1. t \in U \ {x} /\ Cardinality(M) < n /\ ~(Cardinality(L) < n)
  BY DEF Top
<1>2. M = L \ {x}
  BY DEF Lower
<1>3. IsFiniteSet(L) /\ Cardinality(L) \in Nat /\ Cardinality(M) \in Nat
  BY LowerFinite
<1>4. Cardinality(L \ {x}) = IF x \in L THEN Cardinality(L) - 1 ELSE Cardinality(L)
  <2> HIDE DEF L
  <2> QED  BY <1>3, FS_RemoveElement
<1> HIDE DEF L, M
<1>5. Cardinality(M) = n - 1
  BY <1>1, <1>2, <1>3, <1>4
<1> QED  BY <1>1, <1>5 DEF M

\* One track more or less moves one pick at the most, the ranks being different.
LEMMA TopMoves ==
  ASSUME NEW r, NEW n \in Nat, NEW U \in SUBSET Tracks, NEW V \in SUBSET Tracks, NEW x \in Tracks,
         \A t \in Tracks : r[t] \in Nat,
         \A t, u \in Tracks : r[t] = r[u] => t = u,
         V = U \/ V = U \cup {x} \/ V = U \ {x}
  PROVE  Cardinality(Top(r, n, V) \ Top(r, n, U)) <= 1
<1> DEFINE new == Top(r, n, V) \ Top(r, n, U)
<1>1. ASSUME NEW t \in new, NEW u \in new, r[t] < r[u] PROVE FALSE
  <2>1. CASE V = U
    BY <1>1, <2>1
  <2>2. CASE V = U \cup {x}
    <3>1. t = x /\ u = x
      BY <2>2, TopGrows
    <3>2. r[x] \in Nat
      OBVIOUS
    <3> QED  BY <1>1, <3>1, <3>2
  <2>3. CASE V = U \ {x}
    <3> DEFINE A == Lower(r, V, t)
               B == Lower(r, V, u)
    <3>1. /\ t \in V /\ u \in V /\ Cardinality(A) = n - 1 /\ Cardinality(B) = n - 1
      BY <2>3, TopShrinks
    <3>2. t \in Tracks /\ u \in Tracks
      BY <3>1
    <3>3. A \in SUBSET B /\ t \in B /\ t \notin A
      <4>1. r[t] \in Nat /\ r[u] \in Nat /\ \A w \in V : r[w] \in Nat
        BY <3>2
      <4> QED  BY <1>1, <3>1, <4>1 DEF Lower
    <3>4. IsFiniteSet(B)
      BY LowerFinite
    <3>5. A = B
      <4> HIDE DEF A, B
      <4> QED  BY <3>1, <3>3, <3>4, FS_Subset
    <3> QED  BY <3>3, <3>5
  <2> QED  BY <2>1, <2>2, <2>3
<1>2. ASSUME NEW t \in new, NEW u \in new PROVE t = u
  <2>1. t \in Tracks /\ u \in Tracks
    BY DEF Top
  <2>2. r[t] \in Nat /\ r[u] \in Nat /\ (r[t] = r[u] => t = u)
    BY <2>1
  <2>3. ~(r[t] < r[u]) /\ ~(r[u] < r[t])
    BY <1>1
  <2> QED  BY <2>2, <2>3
<1> HIDE DEF new
<1>3. new = {} \/ \E t : new = {t}
  BY <1>2
<1>4. Cardinality(new) = 0 \/ Cardinality(new) = 1
  BY <1>3, FS_EmptySet, FS_Singleton, Zenon
<1>5. Cardinality(new) <= 1
  BY <1>4
<1> QED  BY <1>5 DEF new

LEMMA ExploredIsTop ==
  ASSUME TypeOK
  PROVE  Explored = Top(Rank[seed], Count["exploration"], Unplayed)
BY DEF Explored, First, Top, Lower, LowerRank

\* A step adds one track to what was never played, or takes one away.
LEMMA UnplayedSteps ==
  ASSUME IInv, Next
  PROVE  \/ Unplayed' = Unplayed
         \/ \E x \in Tracks : Unplayed' = Unplayed \cup {x} \/ Unplayed' = Unplayed \ {x}
<1>1. TypeOK
  BY DEF IInv
<1>2. CASE UNCHANGED <<tracks, history>>
  BY <1>2 DEF Unplayed
<1>3. ASSUME NEW t \in Tracks, NEW skip \in BOOLEAN, Play(t, skip)
      PROVE  Unplayed' = Unplayed \ {t}
  <2> DEFINE row == [track |-> t, skip |-> skip]
             Rows == [track : Tracks, skip : BOOLEAN]
  <2>1. /\ history' = Append(history, row) /\ tracks' = tracks
        /\ history \in Seq(Rows) /\ row \in Rows /\ row.track = t
    BY <1>1, <1>3 DEF Play, TypeOK
  <2> HIDE DEF row, Rows
  <2>2. /\ DOMAIN history' = (DOMAIN history) \cup {Len(history) + 1}
        /\ \A i \in DOMAIN history : history'[i] = history[i]
        /\ history'[Len(history) + 1] = row
    BY <2>1
  <2> QED  BY <2>1, <2>2 DEF Unplayed
<1>4. ASSUME NEW t \in Tracks, Arrive(t)
      PROVE  Unplayed' = Unplayed \/ Unplayed' = Unplayed \cup {t}
  BY <1>4 DEF Arrive, Unplayed
<1>5. ASSUME NEW t \in Tracks, Leave(t)
      PROVE  Unplayed' = Unplayed \ {t}
  <2> DEFINE Rows == [track : Tracks, skip : BOOLEAN]
             gone == [track : {t}, skip : BOOLEAN]
  <2>1. /\ history' = Without(history, gone) /\ tracks' = tracks \ {t} /\ history \in Seq(Rows)
    BY <1>1, <1>5 DEF Leave, TypeOK
  <2>2. \A e \in Rows : e \in gone <=> e.track = t
    OBVIOUS
  <2> HIDE DEF Rows, gone
  <2>3. /\ history' \in Seq(Rows)
        /\ \A e : (\E i \in DOMAIN history' : history'[i] = e)
                    <=> (e \notin gone /\ \E i \in DOMAIN history : history[i] = e)
    BY <2>1, WithoutFacts
  <2>4. ASSUME NEW u \in tracks, u # t
        PROVE  (\E i \in DOMAIN history' : history'[i].track = u)
                 <=> (\E i \in DOMAIN history : history[i].track = u)
    <3>1. \A i \in DOMAIN history : history[i] \in Rows
      BY <2>1
    <3>2. ASSUME NEW i \in DOMAIN history', history'[i].track = u
          PROVE  \E j \in DOMAIN history : history[j].track = u
      <4>1. PICK j \in DOMAIN history : history[j] = history'[i]
        BY <2>3
      <4> QED  BY <3>2, <4>1
    <3>3. ASSUME NEW i \in DOMAIN history, history[i].track = u
          PROVE  \E j \in DOMAIN history' : history'[j].track = u
      <4>1. history[i] \notin gone
        BY <2>2, <2>4, <3>1, <3>3
      <4>2. PICK j \in DOMAIN history' : history'[j] = history[i]
        BY <2>3, <4>1
      <4> QED  BY <3>3, <4>2
    <3> QED  BY <3>2, <3>3
  <2> QED  BY <2>1, <2>4 DEF Unplayed
<1>6. ASSUME NEW t \in Tracks,
             \/ \E yes \in BOOLEAN : Play(t, yes) \/ Like(t, yes)
             \/ Pin(t) \/ Unpin(t) \/ Unsync(t) \/ Arrive(t) \/ Leave(t)
      PROVE  \/ UNCHANGED <<tracks, history>>
             \/ \E yes \in BOOLEAN : Play(t, yes)
             \/ Arrive(t) \/ Leave(t)
  BY <1>6 DEF Like, Pin, Unpin, Unsync
<1>7. CASE Discover \/ (\E s \in Seeds : Reseed(s)) \/ Begin \/ Admit \/ Skip \/ Commit
  <2>1. UNCHANGED <<tracks, history>>
    BY <1>7 DEF Discover, Reseed, Begin, Admit, Skip, Walk, Commit, inputs
  <2> QED  BY <1>2, <2>1
<1> QED  BY <1>2, <1>3, <1>4, <1>5, <1>6, <1>7 DEF Next

\* One change of the library or of the plays moves one pick of the exploration
\* bucket at the most.
THEOREM ExplorationAtMarginHolds == Spec => ExplorationAtMargin
<1>1. IInv /\ IInv' /\ [Next]_vars =>
        [seed' = seed => Cardinality(Explored' \ Explored) <= 1]_vars
  <2> SUFFICES ASSUME IInv, IInv', Next, seed' = seed
               PROVE  Cardinality(Explored' \ Explored) <= 1
    OBVIOUS
  <2> DEFINE r == Rank[seed]
             n == Count["exploration"]
  <2>1. seed \in Seeds /\ tracks \subseteq Tracks /\ tracks' \subseteq Tracks
    BY DEF IInv, TypeOK
  <2>2. Unplayed \in SUBSET Tracks /\ Unplayed' \in SUBSET Tracks
    BY <2>1 DEF Unplayed
  <2>3. /\ n \in Nat /\ \A t \in Tracks : r[t] \in Nat
        /\ \A t, u \in Tracks : r[t] = r[u] => t = u
    <3>1. n \in Nat
      BY ResolverAssumption DEF Buckets
    <3>2. r \in [Tracks -> Nat]
      BY <2>1, ResolverAssumption
    <3>3. \A t, u \in Tracks : r[t] = r[u] => t = u
      BY <2>1, ResolverAssumption
    <3> QED  BY <3>1, <3>2, <3>3
  <2>4. Explored = Top(r, n, Unplayed)
    BY ExploredIsTop DEF IInv
  <2>5. Explored' = Top(r, n, Unplayed')
    BY DEF Explored, First, Top, Lower, LowerRank
  <2> HIDE DEF r, n
  <2>6. CASE Unplayed' = Unplayed
    <3>1. Explored' \ Explored = {}
      BY <2>4, <2>5, <2>6
    <3> QED  BY <3>1, FS_EmptySet
  <2>7. ASSUME NEW x \in Tracks, Unplayed' = Unplayed \cup {x} \/ Unplayed' = Unplayed \ {x}
        PROVE  Cardinality(Explored' \ Explored) <= 1
    BY <2>2, <2>3, <2>4, <2>5, <2>7, TopMoves
  <2> QED  BY <2>6, <2>7, UnplayedSteps
<1> QED  BY Invariance, <1>1, PTL DEF Spec, ExplorationAtMargin
=============================================================================
