------------------------------ MODULE WatchMap ------------------------------
(***************************************************************************)
(* The watcher's table from watch numbers to paths (watch.c, struct        *)
(* wd_map): open addressing with linear probes, doubled when it is half    *)
(* full, and a removal that puts the entries behind the hole back in.      *)
(***************************************************************************)
EXTENDS Integers, FiniteSets
LOCAL INSTANCE SequencesExt

CONSTANTS None,
          InitialSlots   \* a power of two; 64 in wdm_grow

NoEntry == [wd |-> -1, path |-> None]
EmptyMap == [n \in {} |-> NoEntry]

\* A table is a function on its slots 0 .. capacity - 1.
Capacity(m) == Cardinality(DOMAIN m)
Entries(m) == {n \in DOMAIN m : m[n].wd >= 0}

\* The low 16 bits of 2654435761, which are all that a capacity of up to 2^16
\* leaves of the product.
Mix == 31153
wdm_hash(w, cap) == (w * Mix) % cap

\* The slots from the hash of w on, round the table.
Probe(m, w, k) == (wdm_hash(w, Capacity(m)) + k) % Capacity(m)

\* The first slot on the way that has w or nothing.
Found(m, w) ==
  LET ends(k) == m[Probe(m, w, k)].wd \in {-1, w}
  IN  Probe(m, w, CHOOSE k \in 0..Capacity(m) - 1 :
                    ends(k) /\ \A l \in 0..k - 1 : ~ends(l))

\* The member of a singleton.  {F(x) : x \in {e}} evaluates e once, where the
\* expansion of F(e) would evaluate it at each use.
The(S) == CHOOSE x \in S : TRUE

Insert(m, e) == The({[t EXCEPT ![Found(t, e.wd)] = e] : t \in {m}})

wdm_grow(m) ==
  LET cap == IF m = EmptyMap THEN InitialSlots ELSE 2 * Capacity(m)
      old == SetToSortSeq(Entries(m), <)
  IN  FoldLeft(LAMBDA t, n : Insert(t, m[n]), [n \in 0..cap - 1 |-> NoEntry], old)

wdm_set(m, w, path) ==
  LET half == 2 * Cardinality(Entries(m)) >= Capacity(m)
  IN  Insert(IF half THEN wdm_grow(m) ELSE m, [wd |-> w, path |-> path])

wdm_get(m, w) == IF m = EmptyMap THEN None
                 ELSE LET e == m[Found(m, w)] IN IF e.wd = w THEN e.path ELSE None

\* The slots behind n up to the next empty one.
Cluster(m, n) ==
  LET slot(k) == (n + k) % Capacity(m)
      long == CHOOSE k \in 0..Capacity(m) - 1 :
                m[slot(k + 1)].wd < 0 /\ \A l \in 1..k : m[slot(l)].wd >= 0
  IN  [k \in 1..long |-> slot(k)]

Clear(m, n) == [m EXCEPT ![n] = NoEntry]

Reinsert(m, n) ==
  The({wdm_set(Clear(t, k), t[k].wd, t[k].path) : t \in {m}, k \in {n}})

\* Mutant: the entries behind the hole stay where they are.
RemoveAlone(m, w) ==
  IF wdm_get(m, w) = None THEN m ELSE Clear(m, Found(m, w))

wdm_remove(m, w) ==
  IF wdm_get(m, w) = None THEN m
  ELSE The({FoldLeft(Reinsert, Clear(m, n), c) :
              <<n, c>> \in {<<h, Cluster(m, h)>> : h \in {Found(m, w)}}})
=============================================================================
