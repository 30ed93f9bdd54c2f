------------------------- MODULE TableStoreProofs -------------------------
(***************************************************************************)
(* Proofs about TableStore, for every set of keys and values and every     *)
(* hash function: the type invariant, the three invariants of the storage, *)
(* what a pairs loop promises, and that the storage implements LuaTable.   *)
(*                                                                         *)
(* All of it rests on StoreInv.  For the hash part that is BufInv: every   *)
(* live entry is in the bucket where the probe for its key stops (Good),   *)
(* the buckets that are not empty are counted, and there are fewer than    *)
(* buckets.  The last part gives every probe an empty bucket to end at, so *)
(* that Probe is well defined (ProbeIs); the first makes a lookup find     *)
(* what was stored.  Storing fills the first empty bucket of one probe and *)
(* erasing leaves a tombstone: neither opens a gap in the path of another  *)
(* probe (ProbeKept).  A rehash moves the live buckets one by one into a   *)
(* buffer with room for them (RehashMoves, over the finite prefixes of its *)
(* recursive function).                                                    *)
(*                                                                         *)
(* For the array part StoreInv says which slots may be junk while an       *)
(* insertion evaluates its value, and that only the innermost callback can *)
(* be one.  TravInv adds the state of a loop: one place parts the entries  *)
(* it has yielded from those it owes.                                      *)
(***************************************************************************)
EXTENDS TableStore, NatLemmas, SequenceTheorems, TLAPS

-----------------------------------------------------------------------------
(* Probes, in one buffer.                                                  *)

\* A buffer of the hash part.
IsBuf(buf) ==
    /\ buf = [cap |-> buf.cap, count |-> buf.count, key |-> buf.key, value |-> buf.value]
    /\ buf.cap \in Nat /\ buf.cap >= 4 /\ buf.count \in Nat
    /\ buf.key \in [Bucket(buf) -> Key \cup {Nil, Deleted}]
    /\ buf.value \in [Bucket(buf) -> Value \cup {Nil, Junk}]

\* The probe for k takes i steps.
Path(buf, k, i) ==
    i \in Bucket(buf) /\ Stops(buf, k, i) /\ \A j \in 0 .. i - 1 : ~Stops(buf, k, j)

HashOK == hash \in [Key -> Nat]

LEMMA AtBucket ==
    ASSUME HashOK, NEW buf, IsBuf(buf), NEW k \in Key, NEW i \in Nat
    PROVE  At(buf, k, i) \in Bucket(buf)
<1>1. hash[k] + i \in Nat /\ buf.cap \in Nat /\ buf.cap > 0
  BY DEF HashOK, IsBuf
<1> QED
  BY <1>1 DEF At, Bucket

LEMMA BufNotNull ==
    ASSUME NEW buf, IsBuf(buf)
    PROVE  buf # Null
BY DEF IsBuf, Null

LEMMA ProbeIs ==
    ASSUME NEW buf, IsBuf(buf), NEW k \in Key, NEW i, Path(buf, k, i)
    PROVE  Probe(buf, k) = At(buf, k, i)
<1> DEFINE P(x) == Stops(buf, k, x) /\ \A j \in 0 .. x - 1 : ~Stops(buf, k, j)
           y == CHOOSE x \in Bucket(buf) : P(x)
<1>1. i \in Bucket(buf) /\ P(i)
  BY DEF Path
<1>2. y \in Bucket(buf) /\ P(y)
  BY <1>1
<1>3. Bucket(buf) \subseteq Nat
  BY DEF Bucket, IsBuf
<1> HIDE DEF y
<1>4. y = i
  <2>1. CASE y < i
    BY <1>1, <1>2, <1>3, <2>1
  <2>2. CASE i < y
    BY <1>1, <1>2, <1>3, <2>2
  <2> QED
    BY <1>1, <1>2, <1>3, <2>1, <2>2
<1>5. Probe(buf, k) = At(buf, k, y)
  BY DEF Probe, y
<1> QED
  BY <1>4, <1>5

\* A probe ends where there is a bucket for it to end at.
LEMMA ProbeEnds ==
    ASSUME HashOK, NEW buf, IsBuf(buf), NEW k \in Key,
           NEW b \in Bucket(buf), buf.key[b] \in {Nil, k}
    PROVE  \E i : Path(buf, k, i) /\ Probe(buf, k) = At(buf, k, i)
<1> DEFINE stop == {i \in Bucket(buf) : Stops(buf, k, i)}
<1>1. buf.cap \in Nat /\ buf.cap > 0 /\ hash[k] \in Nat /\ b \in 0 .. buf.cap - 1
  BY DEF IsBuf, HashOK, Bucket
<1>2. PICK i \in 0 .. buf.cap - 1 : (hash[k] + i) % buf.cap = b
  BY <1>1, RingCovered
<1>3. i \in stop
  BY <1>2 DEF Stops, At, Bucket
<1>4. stop \in SUBSET Nat /\ stop \subseteq Bucket(buf)
  BY <1>1 DEF Bucket
<1>5. PICK n \in stop : \A x \in stop : n <= x
  BY <1>3, <1>4, LeastNat
<1>6. \A j \in 0 .. n - 1 : j \in Bucket(buf) /\ ~ (n <= j)
  BY <1>1, <1>4, <1>5 DEF Bucket
<1>7. Path(buf, k, n)
  BY <1>4, <1>5, <1>6 DEF Path
<1> QED
  BY <1>7, ProbeIs

LEMMA ProbeBucket ==
    ASSUME HashOK, NEW buf, IsBuf(buf), NEW k \in Key,
           NEW b \in Bucket(buf), buf.key[b] \in {Nil, k}
    PROVE  Probe(buf, k) \in Bucket(buf) /\ buf.key[Probe(buf, k)] \in {Nil, k}
<1>1. PICK i : Path(buf, k, i) /\ Probe(buf, k) = At(buf, k, i)
  BY ProbeEnds
<1>2. i \in Nat
  BY <1>1 DEF Path, Bucket, IsBuf
<1> QED
  BY <1>1, <1>2, AtBucket DEF Path, Stops

\* A change of keys that fills or empties no bucket on the way of a probe, and
\* leaves it its end, does not divert it.
LEMMA ProbeKept ==
    ASSUME NEW buf, IsBuf(buf), NEW new, IsBuf(new), new.cap = buf.cap, NEW k \in Key,
           HashOK, NEW e \in Bucket(buf), buf.key[e] \in {Nil, k},
           \A b \in Bucket(buf) : buf.key[b] \notin {Nil, k} => new.key[b] \notin {Nil, k},
           new.key[Probe(buf, k)] \in {Nil, k}
    PROVE  Probe(new, k) = Probe(buf, k)
<1>1. PICK i : Path(buf, k, i) /\ Probe(buf, k) = At(buf, k, i)
  BY ProbeEnds
<1>2. \A j : At(new, k, j) = At(buf, k, j)
  BY DEF At
<1>3. i \in Nat /\ Bucket(new) = Bucket(buf)
  BY <1>1 DEF Path, Bucket, IsBuf
<1>4. \A j \in 0 .. i - 1 : j \in Nat /\ At(buf, k, j) \in Bucket(buf)
  BY <1>3, AtBucket
<1>5. \A j \in 0 .. i - 1 : ~Stops(new, k, j)
  BY <1>1, <1>2, <1>4 DEF Path, Stops
<1>6. Path(new, k, i)
  BY <1>1, <1>2, <1>3, <1>5 DEF Path, Stops
<1> QED
  BY <1>1, <1>2, <1>6, ProbeIs

-----------------------------------------------------------------------------
(* A buffer that works: what the hash part keeps to.                       *)

Filled(buf) == {b \in Bucket(buf) : buf.key[b] # Nil}

\* Every live entry is where its probe stops, so there is one of each key.
Good(buf) == \A b \in Live(buf) : Probe(buf, buf.key[b]) = b

BufInv(buf) ==
    /\ IsBuf(buf) /\ Good(buf)
    /\ Cardinality(Filled(buf)) <= buf.count /\ buf.count < buf.cap
    /\ \A b \in Live(buf) : buf.value[b] # Junk

LEMMA LiveIs ==
    ASSUME NEW buf, IsBuf(buf)
    PROVE  /\ \A b : b \in Live(buf) <=> b \in Bucket(buf) /\ buf.key[b] \in Key
           /\ Live(buf) \subseteq Filled(buf)
BY BufNotNull, TableStoreAssumption DEF Live, Filled

LEMMA FilledFinite ==
    ASSUME NEW buf, IsBuf(buf)
    PROVE  /\ IsFiniteSet(Filled(buf)) /\ Cardinality(Filled(buf)) \in Nat
           /\ Cardinality(Bucket(buf)) = buf.cap
<1>1. IsFiniteSet(Bucket(buf)) /\ Cardinality(Bucket(buf)) = buf.cap
  <2>1. 0 \in Int /\ buf.cap - 1 \in Int /\ 0 <= buf.cap - 1
    BY DEF IsBuf
  <2>2. IsFiniteSet(0 .. buf.cap - 1)
        /\ Cardinality(0 .. buf.cap - 1) = IF 0 > buf.cap - 1 THEN 0 ELSE (buf.cap - 1) - 0 + 1
    BY <2>1, FS_Interval
  <2> QED
    BY <2>1, <2>2 DEF Bucket, IsBuf
<1>2. IsFiniteSet(Filled(buf))
  BY <1>1, FS_Subset DEF Filled
<1> QED
  BY <1>1, <1>2, FS_CardinalityType

\* A buffer that is not full has an empty bucket.
LEMMA Gap ==
    ASSUME NEW buf, IsBuf(buf), Cardinality(Filled(buf)) < buf.cap
    PROVE  \E b \in Bucket(buf) : buf.key[b] = Nil
<1> SUFFICES ASSUME \A b \in Bucket(buf) : buf.key[b] # Nil PROVE FALSE
  OBVIOUS
<1>1. Filled(buf) = Bucket(buf)
  BY DEF Filled
<1>2. Cardinality(Filled(buf)) = buf.cap
  BY <1>1, FilledFinite, Zenon
<1> QED
  BY <1>2 DEF IsBuf

LEMMA ProbeInGap ==
    ASSUME HashOK, NEW buf, IsBuf(buf), Cardinality(Filled(buf)) < buf.cap, NEW k \in Key
    PROVE  Probe(buf, k) \in Bucket(buf) /\ buf.key[Probe(buf, k)] \in {Nil, k}
BY Gap, ProbeBucket

LEMMA OneOfEach ==
    ASSUME NEW buf, Good(buf), NEW a \in Live(buf), NEW b \in Live(buf),
           buf.key[a] = buf.key[b]
    PROVE  a = b
BY DEF Good

\* What a lookup finds.
LEMMA LookupLive ==
    ASSUME NEW buf, IsBuf(buf), Good(buf), NEW b \in Live(buf)
    PROVE  Lookup(buf, buf.key[b]) = buf.value[b]
BY BufNotNull DEF Lookup, Good

LEMMA LookupAbsent ==
    ASSUME HashOK, NEW buf, IsBuf(buf), Cardinality(Filled(buf)) < buf.cap, NEW k \in Key,
           \A b \in Live(buf) : buf.key[b] # k
    PROVE  Lookup(buf, k) = Nil
<1>1. Probe(buf, k) \in Bucket(buf)
  BY ProbeInGap
<1>2. buf.key[Probe(buf, k)] # k
  BY <1>1, LiveIs
<1> QED
  BY <1>2, BufNotNull DEF Lookup

\* A store at the bucket where the probe of its key stops.
LEMMA PutBuf ==
    ASSUME HashOK, NEW buf, IsBuf(buf), Cardinality(Filled(buf)) < buf.cap,
           NEW k \in Key, NEW v \in Value \cup {Nil, Junk}, NEW new, new = Put(buf, k, v),
           NEW p, p = Probe(buf, k)
    PROVE  /\ IsBuf(new) /\ new.cap = buf.cap /\ new.count = buf.count
           /\ new.key[p] = k /\ new.value[p] = v
           /\ \A b \in Bucket(buf) : b # p => new.key[b] = buf.key[b] /\ new.value[b] = buf.value[b]
           /\ Bucket(new) = Bucket(buf) /\ p \in Bucket(buf) /\ buf.key[p] \in {Nil, k}
           /\ Filled(new) = Filled(buf) \cup {p}
           /\ Live(new) = Live(buf) \cup {p}
<1>1. p \in Bucket(buf) /\ buf.key[p] \in {Nil, k}
  BY ProbeInGap
<1>2. new = [buf EXCEPT !.key[p] = k, !.value[p] = v]
  BY DEF Put
<1>3. /\ new.cap = buf.cap /\ new.count = buf.count
      /\ new.key = [buf.key EXCEPT ![p] = k] /\ new.value = [buf.value EXCEPT ![p] = v]
      /\ new = [cap |-> new.cap, count |-> new.count, key |-> new.key, value |-> new.value]
  BY <1>2 DEF IsBuf
<1>4. Bucket(new) = Bucket(buf)
  BY <1>3 DEF Bucket
<1>5. IsBuf(new)
  <2>1. new.cap \in Nat /\ new.cap >= 4 /\ new.count \in Nat
    BY <1>3 DEF IsBuf
  <2>2. new.key \in [Bucket(new) -> Key \cup {Nil, Deleted}]
    <3>1. buf.key \in [Bucket(buf) -> Key \cup {Nil, Deleted}]
      BY DEF IsBuf
    <3> QED
      BY <1>3, <1>4, <3>1
  <2>3. new.value \in [Bucket(new) -> Value \cup {Nil, Junk}]
    <3>1. buf.value \in [Bucket(buf) -> Value \cup {Nil, Junk}]
      BY DEF IsBuf
    <3> QED
      BY <1>3, <1>4, <3>1
  <2> QED
    BY <1>3, <2>1, <2>2, <2>3, Zenon DEF IsBuf
<1>6. k # Nil
  BY TableStoreAssumption
<1>7. Filled(new) = Filled(buf) \cup {p}
  BY <1>1, <1>3, <1>4, <1>6 DEF Filled, IsBuf
<1>8. Live(new) = Live(buf) \cup {p}
  BY <1>1, <1>3, <1>4, <1>5, LiveIs DEF IsBuf
<1>9. new.key[p] = k /\ new.value[p] = v
  BY <1>1, <1>3 DEF IsBuf
<1>10. \A b \in Bucket(buf) : b # p => new.key[b] = buf.key[b] /\ new.value[b] = buf.value[b]
  BY <1>3 DEF IsBuf
<1> QED
  BY <1>1, <1>3, <1>4, <1>5, <1>7, <1>8, <1>9, <1>10

LEMMA PutGood ==
    ASSUME HashOK, NEW buf, IsBuf(buf), Cardinality(Filled(buf)) < buf.cap, Good(buf),
           NEW k \in Key, NEW v \in Value \cup {Nil, Junk}, NEW new, new = Put(buf, k, v)
    PROVE  Good(new)
<1>1. PICK p : p = Probe(buf, k)
  OBVIOUS
<1>2. /\ IsBuf(new) /\ new.cap = buf.cap
      /\ new.key[p] = k /\ \A b \in Bucket(buf) : b # p => new.key[b] = buf.key[b]
      /\ p \in Bucket(buf) /\ buf.key[p] \in {Nil, k}
      /\ Live(new) = Live(buf) \cup {p}
  BY <1>1, PutBuf
<1>3. k \notin {Nil, Deleted} /\ Nil \notin Key
  BY TableStoreAssumption
<1>4. Probe(new, k) = p
  <2>1. \A b \in Bucket(buf) : buf.key[b] \notin {Nil, k} => new.key[b] \notin {Nil, k}
    BY <1>2
  <2>2. new.key[Probe(buf, k)] \in {Nil, k}
    BY <1>1, <1>2
  <2>3. Probe(new, k) = Probe(buf, k)
    BY <1>2, <2>1, <2>2, ProbeKept
  <2> QED
    BY <1>1, <2>3
<1>5. ASSUME NEW b \in Live(buf), b # p PROVE Probe(new, new.key[b]) = b
  <2>1. b \in Bucket(buf) /\ buf.key[b] \in Key /\ Probe(buf, buf.key[b]) = b
    BY LiveIs DEF Good
  <2>2. new.key[b] = buf.key[b]
    BY <1>2, <1>5, <2>1
  <2>3. buf.key[b] # k
    BY <1>1, <1>5, <2>1
  <2>4. \A x \in Bucket(buf) :
           buf.key[x] \notin {Nil, buf.key[b]} => new.key[x] \notin {Nil, buf.key[b]}
    BY <1>2, <1>3, <2>3
  <2>5. new.key[Probe(buf, buf.key[b])] \in {Nil, buf.key[b]}
    BY <2>1, <2>2
  <2>6. Probe(new, buf.key[b]) = Probe(buf, buf.key[b])
    <3>1. PICK k2 \in Key : k2 = buf.key[b]
      BY <2>1
    <3> QED
      BY <1>2, <2>1, <2>4, <2>5, <3>1, ProbeKept
  <2> QED
    BY <2>1, <2>2, <2>6
<1> QED
  BY <1>2, <1>4, <1>5 DEF Good

LEMMA Fresh ==
    ASSUME NEW cap \in Nat, cap >= 4, NEW count \in Nat, NEW buf, buf = FreshBuf(cap, count)
    PROVE  /\ IsBuf(buf) /\ buf.cap = cap /\ buf.count = count
           /\ Filled(buf) = {} /\ Live(buf) = {} /\ Good(buf) /\ Cardinality(Filled(buf)) = 0
<1>1. IsBuf(buf) /\ buf.cap = cap /\ buf.count = count /\ \A b \in Bucket(buf) : buf.key[b] = Nil
  BY DEF FreshBuf, IsBuf, Bucket
<1>2. Filled(buf) = {}
  BY <1>1 DEF Filled
<1>3. Live(buf) = {}
  BY <1>1, <1>2, LiveIs
<1>4. Cardinality(Filled(buf)) = 0
  BY <1>2, FS_EmptySet, Zenon
<1> QED
  BY <1>1, <1>2, <1>3, <1>4 DEF Good

-----------------------------------------------------------------------------
(* Rehashing.                                                              *)

\* One bucket of the old buffer into the new one.
Move(buf, to, b) == IF b \in Live(buf) THEN Put(to, buf.key[b], buf.value[b]) ELSE to

\* The buffer after n buckets, as Rehashed computes it.
Moves(buf, m) ==
    \A n \in 0 .. buf.cap :
        m[n] = IF n = 0 THEN FreshBuf(2 * buf.cap, buf.count) ELSE Move(buf, m[n - 1], n - 1)

LEMMA RehashUnfold ==
    ASSUME NEW buf, IsBuf(buf)
    PROVE  \E m : Moves(buf, m) /\ Rehashed(buf) = m[buf.cap]
<1> DEFINE N == buf.cap
           first == FreshBuf(2 * N, buf.count)
           Step(f, n) == IF n = 0 THEN first ELSE Move(buf, f[n - 1], n - 1)
           Upto(f, n) == \A i \in 0 .. n : f[i] = Step(f, i)
           bad == {n \in 0 .. N : ~ \E f : Upto(f, n)}
           Whole(f) == [n \in 0 .. N |-> IF n = 0 THEN first ELSE Move(buf, f[n - 1], n - 1)]
<1>1. N \in Nat
  BY DEF IsBuf
<1> HIDE DEF N, Upto, Step
<1>2. bad = {}
  <2>1. SUFFICES ASSUME bad # {} PROVE FALSE
    OBVIOUS
  <2>2. bad \in SUBSET Nat
    BY <1>1
  <2>3. PICK n \in bad : \A x \in bad : n <= x
    BY <2>1, <2>2, LeastNat
  <2>4. n \in 0 .. N /\ n \in Nat
    BY <2>2, <2>3
  <2>5. n # 0
    <3>1. Upto([i \in {0} |-> first], 0)
      BY DEF Upto, Step
    <3> QED
      BY <2>3, <3>1
  <2>6. n - 1 \in 0 .. N /\ n - 1 \notin bad
    BY <1>1, <2>3, <2>4, <2>5
  <2>7. PICK f : Upto(f, n - 1)
    BY <2>6
  <2> DEFINE g == [i \in 0 .. n |-> IF i < n THEN f[i] ELSE Step(f, n)]
  <2>8. \A i \in 0 .. n - 1 : g[i] = f[i] /\ f[i] = Step(f, i)
    BY <2>4, <2>7 DEF Upto
  <2>9. g[n] = Step(f, n)
    BY <2>4
  <2> HIDE DEF g
  <2>10. ASSUME NEW i \in 0 .. n PROVE g[i] = Step(g, i)
    <3>1. CASE i = 0
      BY <2>4, <2>5, <2>8, <3>1 DEF Step
    <3>2. CASE i \in 1 .. n - 1
      <4>1. g[i] = f[i] /\ g[i - 1] = f[i - 1] /\ f[i] = Step(f, i)
        BY <2>4, <2>8, <3>2
      <4> QED
        BY <3>2, <4>1 DEF Step
    <3>3. CASE i = n
      <4>1. g[i - 1] = f[i - 1]
        BY <2>4, <2>5, <2>8, <3>3
      <4> QED
        BY <2>5, <2>9, <3>3, <4>1 DEF Step
    <3> QED
      BY <2>4, <3>1, <3>2, <3>3
  <2>11. Upto(g, n)
    BY <2>10 DEF Upto
  <2> QED
    BY <2>3, <2>11
<1>3. PICK f : Upto(f, N)
  <2>1. N \in 0 .. N
    BY <1>1
  <2> QED
    BY <1>2, <2>1
<1> DEFINE h == [n \in 0 .. N |-> f[n]]
<1>4. h = Whole(h)
  <2>1. ASSUME NEW n \in 0 .. N PROVE h[n] = Whole(h)[n]
    <3>1. CASE n = 0
      BY <1>3, <3>1 DEF Upto, Step
    <3>2. CASE n # 0
      <4>1. n - 1 \in 0 .. N
        BY <1>1, <3>2
      <4>2. h[n - 1] = f[n - 1] /\ h[n] = f[n]
        BY <4>1
      <4>3. f[n] = Move(buf, f[n - 1], n - 1)
        BY <1>3, <3>2 DEF Upto, Step
      <4>4. Whole(h)[n] = Move(buf, h[n - 1], n - 1)
        BY <3>2
      <4> HIDE DEF h
      <4> QED
        BY <4>2, <4>3, <4>4
    <3> QED
      BY <3>1, <3>2
  <2> QED
    BY <2>1
<1>5. Rehashed(buf) = (CHOOSE m : m = Whole(m))[N]
  BY DEF Rehashed, Move, N
<1> HIDE DEF h
<1>6. PICK m : m = (CHOOSE w : w = Whole(w))
  OBVIOUS
<1>7. m = Whole(m)
  BY <1>4, <1>6
<1>8. Moves(buf, m)
  BY <1>7 DEF Moves, N
<1> QED
  BY <1>5, <1>6, <1>8 DEF N

\* The same entries, wherever they are, among those before bucket n of buf.
Copies(buf, new, n) ==
    /\ \A x \in Live(new) : \E b \in Live(buf) :
          b < n /\ new.key[x] = buf.key[b] /\ new.value[x] = buf.value[b]
    /\ \A b \in Live(buf) : b < n =>
          \E x \in Live(new) : new.key[x] = buf.key[b] /\ new.value[x] = buf.value[b]

Before(buf, n) == {b \in Filled(buf) : b < n}

Moved(buf, new, n) ==
    /\ IsBuf(new) /\ new.cap = 2 * buf.cap /\ new.count = buf.count /\ Good(new)
    /\ Cardinality(Filled(new)) <= Cardinality(Before(buf, n))
    /\ Copies(buf, new, n)

LEMMA BeforeCount ==
    ASSUME NEW buf, IsBuf(buf), NEW n \in Bucket(buf)
    PROVE  /\ Cardinality(Before(buf, n)) \in Nat
           /\ Cardinality(Before(buf, n)) <= Cardinality(Filled(buf))
           /\ Cardinality(Before(buf, n + 1))
                 = Cardinality(Before(buf, n)) + IF n \in Filled(buf) THEN 1 ELSE 0
<1>1. Before(buf, n) \subseteq Filled(buf) /\ n \notin Before(buf, n)
  BY DEF Before, Bucket, IsBuf
<1>2. IsFiniteSet(Before(buf, n))
  BY <1>1, FilledFinite, FS_Subset
<1>3. Cardinality(Before(buf, n)) <= Cardinality(Filled(buf)) /\ Cardinality(Before(buf, n)) \in Nat
  BY <1>1, <1>2, FilledFinite, FS_Subset, FS_CardinalityType
<1>4. n \in Nat /\ Filled(buf) \subseteq Nat
  BY DEF Bucket, Filled, IsBuf
<1>5. CASE n \in Filled(buf)
  <2>1. Before(buf, n + 1) = Before(buf, n) \cup {n}
    BY <1>4, <1>5 DEF Before
  <2>2. Cardinality(Before(buf, n) \cup {n}) = Cardinality(Before(buf, n)) + 1
    BY <1>1, <1>2, FS_AddElement
  <2>3. Cardinality(Before(buf, n + 1)) = Cardinality(Before(buf, n)) + 1
    BY <2>1, <2>2, Zenon
  <2> QED
    BY <1>3, <1>5, <2>3
<1>6. CASE n \notin Filled(buf)
  <2>1. Before(buf, n + 1) = Before(buf, n)
    BY <1>4, <1>6 DEF Before
  <2>2. Cardinality(Before(buf, n + 1)) = Cardinality(Before(buf, n))
    BY <2>1, Zenon
  <2> QED
    BY <1>3, <1>6, <2>2
<1> QED
  BY <1>5, <1>6

LEMMA MoveStep ==
    ASSUME HashOK, NEW buf, BufInv(buf), NEW n \in Bucket(buf), NEW to, Moved(buf, to, n)
    PROVE  Moved(buf, Move(buf, to, n), n + 1)
<1>1. IsBuf(buf) /\ Good(buf) /\ buf.cap \in Nat /\ buf.count \in Nat /\ n \in Nat
  BY DEF BufInv, IsBuf, Bucket
<1>2. /\ Cardinality(Before(buf, n)) \in Nat
      /\ Cardinality(Before(buf, n)) <= Cardinality(Filled(buf))
      /\ Cardinality(Before(buf, n + 1))
            = Cardinality(Before(buf, n)) + IF n \in Filled(buf) THEN 1 ELSE 0
  BY <1>1, BeforeCount
<1>3. /\ IsBuf(to) /\ to.cap = 2 * buf.cap /\ to.count = buf.count /\ Good(to)
      /\ Cardinality(Filled(to)) <= Cardinality(Before(buf, n))
  BY DEF Moved
<1>4. Cardinality(Filled(to)) \in Nat /\ Cardinality(Filled(buf)) \in Nat
      /\ IsFiniteSet(Filled(to))
  BY <1>1, <1>3, FilledFinite
<1>5. Live(buf) \subseteq Filled(buf) /\ Filled(buf) \subseteq Bucket(buf) /\ Bucket(buf) \subseteq Nat
  BY <1>1, LiveIs DEF Bucket, Filled
<1>6. CASE n \notin Live(buf)
  <2>1. Move(buf, to, n) = to
    BY <1>6 DEF Move
  <2>2. \A b \in Live(buf) : b < n + 1 <=> b < n
    BY <1>1, <1>5, <1>6
  <2>3. Copies(buf, to, n + 1)
    BY <2>2 DEF Moved, Copies
  <2>4. Cardinality(Filled(to)) <= Cardinality(Before(buf, n + 1))
    BY <1>2, <1>3, <1>4
  <2> QED
    BY <1>3, <2>1, <2>3, <2>4 DEF Moved
<1>7. CASE n \in Live(buf)
  <2>1. PICK k \in Key : k = buf.key[n]
    BY <1>1, <1>7, LiveIs
  <2>2. PICK v \in Value \cup {Nil, Junk} : v = buf.value[n]
    BY <1>1, <1>5, <1>7 DEF IsBuf
  <2>3. PICK new : new = Put(to, k, v)
    OBVIOUS
  <2>4. Move(buf, to, n) = new
    BY <1>7, <2>1, <2>2, <2>3 DEF Move
  <2>5. PICK p : p = Probe(to, k)
    OBVIOUS
  <2>6. Cardinality(Filled(to)) < to.cap
    BY <1>1, <1>2, <1>3, <1>4 DEF BufInv
  <2>7. /\ IsBuf(new) /\ new.cap = to.cap /\ new.count = to.count
        /\ new.key[p] = k /\ new.value[p] = v
        /\ \A b \in Bucket(to) : b # p => new.key[b] = to.key[b] /\ new.value[b] = to.value[b]
        /\ p \in Bucket(to) /\ to.key[p] \in {Nil, k}
        /\ Filled(new) = Filled(to) \cup {p}
        /\ Live(new) = Live(to) \cup {p}
    BY <1>3, <2>3, <2>5, <2>6, PutBuf
  <2>8. Good(new)
    BY <1>3, <2>3, <2>6, PutGood
  <2>9. Cardinality(Filled(new)) <= Cardinality(Before(buf, n + 1))
    <3>1. Cardinality(Filled(to) \cup {p}) <= Cardinality(Filled(to)) + 1
      <4>1. Cardinality(Filled(to) \cup {p})
               = IF p \in Filled(to) THEN Cardinality(Filled(to)) ELSE Cardinality(Filled(to)) + 1
        BY <1>4, FS_AddElement, Zenon
      <4> QED
        BY <1>4, <4>1
    <3>2. Cardinality(Filled(new)) = Cardinality(Filled(to) \cup {p})
      BY <2>7, Zenon
    <3>3. IsFiniteSet(Filled(new)) /\ Cardinality(Filled(new)) \in Nat
      BY <2>7, FilledFinite
    <3>4. n \in Filled(buf)
      BY <1>5, <1>7
    <3> QED
      BY <1>2, <1>3, <1>4, <3>1, <3>2, <3>3, <3>4
  <2>10. \A x \in Live(to) : x \in Bucket(to)
    BY <1>3, LiveIs
  <2>11. ASSUME NEW x \in Live(new)
         PROVE  \E b \in Live(buf) :
                   b < n + 1 /\ new.key[x] = buf.key[b] /\ new.value[x] = buf.value[b]
    <3>1. CASE x = p
      BY <1>1, <1>7, <2>1, <2>2, <2>7, <3>1
    <3>2. CASE x # p
      <4>1. x \in Live(to) /\ new.key[x] = to.key[x] /\ new.value[x] = to.value[x]
        BY <2>7, <2>10, <2>11, <3>2
      <4>2. PICK b \in Live(buf) : b < n /\ to.key[x] = buf.key[b] /\ to.value[x] = buf.value[b]
        BY <4>1 DEF Moved, Copies
      <4>3. b < n + 1
        BY <1>1, <1>5, <4>2
      <4> QED
        BY <4>1, <4>2, <4>3
    <3> QED
      BY <3>1, <3>2
  <2>12. ASSUME NEW b \in Live(buf), b < n + 1
         PROVE  \E x \in Live(new) : new.key[x] = buf.key[b] /\ new.value[x] = buf.value[b]
    <3>1. CASE b = n
      BY <2>1, <2>2, <2>7, <3>1
    <3>2. CASE b # n
      <4>1. b < n
        BY <1>1, <1>5, <2>12, <3>2
      <4>2. PICK x \in Live(to) : to.key[x] = buf.key[b] /\ to.value[x] = buf.value[b]
        BY <4>1 DEF Moved, Copies
      <4>3. buf.key[b] # k /\ buf.key[b] # Nil
        BY <1>1, <1>7, <2>1, <3>2, OneOfEach, LiveIs, TableStoreAssumption
      <4>4. x # p
        BY <2>7, <4>2, <4>3
      <4> QED
        BY <2>7, <2>10, <4>2, <4>4
    <3> QED
      BY <3>1, <3>2
  <2>13. Copies(buf, new, n + 1)
    BY <2>11, <2>12 DEF Copies
  <2> QED
    BY <1>3, <2>4, <2>7, <2>8, <2>9, <2>13 DEF Moved
<1> QED
  BY <1>6, <1>7

LEMMA RehashMoves ==
    ASSUME HashOK, NEW buf, BufInv(buf)
    PROVE  Moved(buf, Rehashed(buf), buf.cap)
<1>1. IsBuf(buf) /\ buf.cap \in Nat /\ buf.cap >= 4 /\ buf.count \in Nat
  BY DEF BufInv, IsBuf
<1>2. PICK m : Moves(buf, m) /\ Rehashed(buf) = m[buf.cap]
  BY <1>1, RehashUnfold
<1> DEFINE bad == {n \in 0 .. buf.cap : ~Moved(buf, m[n], n)}
<1>3. bad = {}
  <2>1. SUFFICES ASSUME bad # {} PROVE FALSE
    OBVIOUS
  <2>2. bad \in SUBSET Nat
    BY <1>1
  <2>3. PICK n \in bad : \A x \in bad : n <= x
    BY <2>1, <2>2, LeastNat
  <2>4. n \in 0 .. buf.cap /\ n \in Nat /\ ~Moved(buf, m[n], n)
    BY <2>2, <2>3
  <2>5. CASE n = 0
    <3>1. m[0] = FreshBuf(2 * buf.cap, buf.count)
      BY <1>1, <1>2 DEF Moves
    <3>2. 2 * buf.cap \in Nat /\ 2 * buf.cap >= 4
      BY <1>1
    <3>3. /\ IsBuf(m[0]) /\ m[0].cap = 2 * buf.cap /\ m[0].count = buf.count
          /\ Live(m[0]) = {} /\ Good(m[0]) /\ Cardinality(Filled(m[0])) = 0
      BY <1>1, <3>1, <3>2, Fresh
    <3>4. Before(buf, 0) = {} /\ \A b \in Live(buf) : ~ (b < 0)
      <4>1. Filled(buf) \subseteq Nat /\ Live(buf) \subseteq Filled(buf)
        BY <1>1, LiveIs DEF Filled, Bucket
      <4> QED
        BY <4>1 DEF Before
    <3>5. Cardinality(Before(buf, 0)) = 0
      BY <3>4, FS_EmptySet, Zenon
    <3>6. Moved(buf, m[0], 0)
      BY <3>3, <3>4, <3>5 DEF Moved, Copies
    <3> QED
      BY <2>4, <2>5, <3>6
  <2>6. CASE n # 0
    <3>1. n - 1 \in 0 .. buf.cap /\ n - 1 \in Bucket(buf) /\ (n - 1) + 1 = n /\ n - 1 < n
      BY <1>1, <2>4, <2>6 DEF Bucket
    <3>2. n - 1 \notin bad
      BY <2>3, <2>4, <3>1
    <3>3. Moved(buf, m[n - 1], n - 1)
      BY <3>1, <3>2
    <3>4. Moved(buf, Move(buf, m[n - 1], n - 1), (n - 1) + 1)
      BY <3>1, <3>3, MoveStep
    <3>5. m[n] = Move(buf, m[n - 1], n - 1)
      BY <1>2, <2>4, <2>6 DEF Moves
    <3> QED
      BY <2>4, <3>1, <3>4, <3>5
  <2> QED
    BY <2>5, <2>6
<1>4. buf.cap \in 0 .. buf.cap
  BY <1>1
<1>5. Moved(buf, m[buf.cap], buf.cap)
  BY <1>3, <1>4
<1> QED
  BY <1>2, <1>5

\* Rehashing doubles the buckets and keeps the entries.
LEMMA RehashInv ==
    ASSUME HashOK, NEW buf, BufInv(buf), NEW new, new = Rehashed(buf)
    PROVE  /\ BufInv(new) /\ new.cap = 2 * buf.cap /\ new.count = buf.count
           /\ \A k \in Key : Lookup(new, k) = Lookup(buf, k)
<1>1. IsBuf(buf) /\ Good(buf) /\ buf.cap \in Nat /\ buf.cap >= 4 /\ buf.count \in Nat
  BY DEF BufInv, IsBuf
<1>2. Moved(buf, new, buf.cap)
  BY RehashMoves
<1>3. /\ IsBuf(new) /\ new.cap = 2 * buf.cap /\ new.count = buf.count /\ Good(new)
      /\ Copies(buf, new, buf.cap)
  BY <1>2 DEF Moved
<1>4. Live(buf) \subseteq Filled(buf) /\ Filled(buf) \subseteq Bucket(buf)
  BY <1>1, LiveIs DEF Filled
<1>5. \A b \in Live(buf) : b \in Nat /\ b < buf.cap
  BY <1>1, <1>4 DEF Bucket
<1>6. Before(buf, buf.cap) = Filled(buf)
  BY <1>1, <1>4 DEF Bucket, Before
<1>7. Cardinality(Filled(new)) <= Cardinality(Filled(buf))
  <2>1. Cardinality(Before(buf, buf.cap)) = Cardinality(Filled(buf))
    BY <1>6, Zenon
  <2> QED
    BY <1>2, <2>1 DEF Moved
<1>8. Cardinality(Filled(new)) \in Nat /\ Cardinality(Filled(buf)) \in Nat
  BY <1>1, <1>3, FilledFinite
<1>9. /\ Cardinality(Filled(new)) <= new.count /\ new.count < new.cap
      /\ Cardinality(Filled(new)) < new.cap
      /\ Cardinality(Filled(buf)) < buf.cap
  BY <1>1, <1>3, <1>7, <1>8 DEF BufInv
<1>10. \A x \in Live(new) : new.value[x] # Junk
  BY <1>3 DEF BufInv, Copies
<1>11. ASSUME NEW k \in Key PROVE Lookup(new, k) = Lookup(buf, k)
  <2>1. CASE \E b \in Live(buf) : buf.key[b] = k
    <3>1. PICK b \in Live(buf) : buf.key[b] = k
      BY <2>1
    <3>2. PICK x \in Live(new) : new.key[x] = buf.key[b] /\ new.value[x] = buf.value[b]
      BY <1>3, <1>5 DEF Copies
    <3>3. Lookup(buf, buf.key[b]) = buf.value[b] /\ Lookup(new, new.key[x]) = new.value[x]
      BY <1>1, <1>3, LookupLive
    <3> QED
      BY <3>1, <3>2, <3>3
  <2>2. CASE \A b \in Live(buf) : buf.key[b] # k
    <3>1. \A x \in Live(new) : new.key[x] # k
      BY <1>3, <2>2 DEF Copies
    <3>2. Lookup(new, k) = Nil
      BY <1>3, <1>9, <3>1, LookupAbsent
    <3>3. Lookup(buf, k) = Nil
      BY <1>1, <1>9, <2>2, LookupAbsent
    <3> QED
      BY <3>2, <3>3
  <2> QED
    BY <2>1, <2>2
<1> QED
  BY <1>3, <1>9, <1>10, <1>11 DEF BufInv

\* The buffer an assignment works on: that of the table, a first one, or one
\* of twice the size.  It has room for an entry.
LEMMA GrownInv ==
    ASSUME HashOK, hash_buf # Null => BufInv(hash_buf), NEW buf, buf = Grown
    PROVE  /\ BufInv(buf) /\ buf.count + 1 < buf.cap
           /\ \A k \in Key : Lookup(buf, k) = Lookup(hash_buf, k)
           /\ hash_buf # Null /\ buf.cap = hash_buf.cap => buf = hash_buf
           /\ hash_buf = Null => Live(buf) = {}
<1>1. PICK old : old = Ensured
  OBVIOUS
<1>2. /\ BufInv(old)
      /\ \A k \in Key : Lookup(old, k) = Lookup(hash_buf, k)
      /\ hash_buf # Null => old = hash_buf
      /\ hash_buf = Null => Live(old) = {} /\ old.count = 0
  <2>1. CASE hash_buf # Null
    BY <1>1, <2>1 DEF Ensured
  <2>2. CASE hash_buf = Null
    <3>1. old = FreshBuf(HASH_INITIAL_CAP, 0) /\ 0 \in Nat
      BY <1>1, <2>2 DEF Ensured
    <3>2. /\ IsBuf(old) /\ old.cap = HASH_INITIAL_CAP /\ old.count = 0
          /\ Live(old) = {} /\ Good(old) /\ Cardinality(Filled(old)) = 0
      BY <3>1, Fresh, TableStoreAssumption
    <3>3. BufInv(old)
      BY <3>2, TableStoreAssumption DEF BufInv
    <3>4. ASSUME NEW k \in Key PROVE Lookup(old, k) = Lookup(hash_buf, k)
      <4>1. Cardinality(Filled(old)) < old.cap
        BY <3>2, TableStoreAssumption
      <4>2. Lookup(old, k) = Nil
        BY <3>2, <4>1, LookupAbsent
      <4> QED
        BY <2>2, <4>2 DEF Lookup
    <3> QED
      BY <2>2, <3>2, <3>3, <3>4
  <2> QED
    BY <2>1, <2>2
<1>3. old.cap \in Nat /\ old.cap >= 4 /\ old.count \in Nat /\ old.count < old.cap
  BY <1>2 DEF BufInv, IsBuf
<1>4. CASE NeedsGrow(old)
  <2>1. buf = Rehashed(old)
    BY <1>1, <1>4 DEF Grown
  <2>2. /\ BufInv(buf) /\ buf.cap = 2 * old.cap /\ buf.count = old.count
        /\ \A k \in Key : Lookup(buf, k) = Lookup(old, k)
    BY <1>2, <2>1, RehashInv
  <2>3. buf.count + 1 < buf.cap /\ buf.cap # old.cap /\ old.count # 0
    BY <1>3, <1>4, <2>2 DEF NeedsGrow
  <2> QED
    BY <1>2, <2>2, <2>3
<1>5. CASE ~NeedsGrow(old)
  <2>1. buf = old
    BY <1>1, <1>5 DEF Grown
  <2>2. old.count + 1 < old.cap
    BY <1>3, <1>5 DEF NeedsGrow
  <2> QED
    BY <1>2, <2>1, <2>2
<1> QED
  BY <1>4, <1>5

-----------------------------------------------------------------------------
(* Storing and erasing one entry.                                          *)

LEMMA SameProbe ==
    ASSUME HashOK, NEW buf, IsBuf(buf), Cardinality(Filled(buf)) < buf.cap,
           NEW new, IsBuf(new), new.cap = buf.cap, new.key = buf.key, NEW k \in Key
    PROVE  Probe(new, k) = Probe(buf, k)
<1>1. PICK e \in Bucket(buf) : buf.key[e] = Nil
  BY Gap
<1>2. buf.key[Probe(buf, k)] \in {Nil, k}
  BY ProbeInGap
<1> QED
  BY <1>1, <1>2, ProbeKept

\* What an entry for k becomes, the others as they were.
Entered(buf, new, k, v) ==
    /\ BufInv(new) /\ new.cap = buf.cap
    /\ Lookup(new, k) = v
    /\ \A x \in Key \ {k} : Lookup(new, x) = Lookup(buf, x)

\* Where the entries are.
Placed(buf, new, p, k) ==
    /\ Bucket(new) = Bucket(buf) /\ p \in Bucket(buf)
    /\ new.key[p] = k
    /\ \A b \in Bucket(buf) : b # p => new.key[b] = buf.key[b] /\ new.value[b] = buf.value[b]

LEMMA OthersFound ==
    ASSUME HashOK, NEW buf, BufInv(buf), NEW new, BufInv(new), NEW k, NEW p, NEW new_k,
           Placed(buf, new, p, new_k), buf.key[p] \in {Nil, k}, new_k \in {k, Deleted}
    PROVE  \A x \in Key \ {k} : Lookup(new, x) = Lookup(buf, x)
<1> SUFFICES ASSUME NEW x \in Key, x # k PROVE Lookup(new, x) = Lookup(buf, x)
  OBVIOUS
<1>1. /\ IsBuf(buf) /\ Good(buf) /\ Cardinality(Filled(buf)) < buf.cap
      /\ IsBuf(new) /\ Good(new) /\ Cardinality(Filled(new)) < new.cap
  BY FilledFinite DEF BufInv, IsBuf
<1>2. x \notin {Nil, Deleted}
  BY TableStoreAssumption
<1>3. CASE \E b \in Live(buf) : buf.key[b] = x
  <2>1. PICK b \in Live(buf) : buf.key[b] = x
    BY <1>3
  <2>2. b \in Bucket(buf) /\ b # p
    BY <1>1, <1>2, <2>1, LiveIs
  <2>3. new.key[b] = x /\ new.value[b] = buf.value[b] /\ b \in Bucket(new)
    BY <2>1, <2>2 DEF Placed
  <2>4. b \in Live(new)
    BY <1>1, <2>3, LiveIs
  <2>5. Lookup(buf, buf.key[b]) = buf.value[b] /\ Lookup(new, new.key[b]) = new.value[b]
    BY <1>1, <2>1, <2>4, LookupLive
  <2> QED
    BY <2>1, <2>3, <2>5
<1>4. CASE \A b \in Live(buf) : buf.key[b] # x
  <2>1. ASSUME NEW b \in Live(new) PROVE new.key[b] # x
    <3>1. b \in Bucket(new) /\ new.key[b] \in Key
      BY <1>1, LiveIs
    <3>2. CASE b = p
      BY <1>2, <3>2 DEF Placed
    <3>3. CASE b # p
      BY <1>1, <1>4, <3>1, <3>3, LiveIs DEF Placed
    <3> QED
      BY <3>2, <3>3
  <2>2. Lookup(buf, x) = Nil
    BY <1>1, <1>4, LookupAbsent
  <2>3. Lookup(new, x) = Nil
    BY <1>1, <2>1, LookupAbsent
  <2> QED
    BY <2>2, <2>3
<1> QED
  BY <1>3, <1>4

\* Storing under k; an entry that was not there is counted.
LEMMA StoreEntry ==
    ASSUME HashOK, NEW buf, BufInv(buf), buf.count + 1 < buf.cap,
           NEW k \in Key, NEW v \in Value \cup {Nil}, NEW p, p = Probe(buf, k),
           NEW n, n = IF buf.key[p] = k THEN buf.count ELSE buf.count + 1,
           NEW new, new = [Put(buf, k, v) EXCEPT !.count = n]
    PROVE  Entered(buf, new, k, v) /\ Placed(buf, new, p, k) /\ buf.key[p] \in {Nil, k}
<1>0. PICK w : w = new
  OBVIOUS
<1>1. /\ IsBuf(buf) /\ Good(buf) /\ Cardinality(Filled(buf)) \in Nat
      /\ Cardinality(Filled(buf)) < buf.cap /\ Cardinality(Filled(buf)) <= buf.count
      /\ buf.cap \in Nat /\ buf.count \in Nat /\ IsFiniteSet(Filled(buf))
  BY FilledFinite DEF BufInv, IsBuf
<1>2. PICK put : put = Put(buf, k, v)
  OBVIOUS
<1>3. /\ IsBuf(put) /\ put.cap = buf.cap
      /\ put.key[p] = k /\ put.value[p] = v
      /\ \A b \in Bucket(buf) : b # p => put.key[b] = buf.key[b] /\ put.value[b] = buf.value[b]
      /\ Bucket(put) = Bucket(buf) /\ p \in Bucket(buf) /\ buf.key[p] \in {Nil, k}
      /\ Filled(put) = Filled(buf) \cup {p}
      /\ Live(put) = Live(buf) \cup {p}
  BY <1>1, <1>2, PutBuf
<1>4. Good(put)
  BY <1>1, <1>2, PutGood
<1>5. /\ w.cap = put.cap /\ w.key = put.key /\ w.value = put.value /\ w.count = n
      /\ n \in Nat
      /\ w = [cap |-> w.cap, count |-> w.count, key |-> w.key, value |-> w.value]
  BY <1>0, <1>1, <1>2, <1>3 DEF IsBuf
<1>6. IsBuf(w) /\ Bucket(w) = Bucket(put)
  BY <1>3, <1>5 DEF IsBuf, Bucket
<1>7. Filled(w) = Filled(put) /\ Live(w) = Live(put)
  BY <1>3, <1>5, <1>6, LiveIs DEF Filled
<1>8. Cardinality(Filled(w)) <= n
  <2>1. Cardinality(Filled(buf) \cup {p})
           = IF p \in Filled(buf) THEN Cardinality(Filled(buf)) ELSE Cardinality(Filled(buf)) + 1
    BY <1>1, FS_AddElement, Zenon
  <2>2. Cardinality(Filled(w)) = Cardinality(Filled(buf) \cup {p})
    BY <1>3, <1>7, Zenon
  <2>3. buf.key[p] = k => p \in Filled(buf)
    BY <1>3, TableStoreAssumption DEF Filled
  <2> QED
    BY <1>1, <2>1, <2>2, <2>3
<1>9. Cardinality(Filled(put)) < put.cap
  <2>1. Cardinality(Filled(put)) = Cardinality(Filled(w))
    BY <1>7, Zenon
  <2>2. Cardinality(Filled(w)) \in Nat
    BY <1>6, FilledFinite
  <2> QED
    BY <1>1, <1>3, <1>8, <2>1, <2>2
<1>10. Good(w)
  <2>1. ASSUME NEW b \in Live(w) PROVE Probe(w, w.key[b]) = Probe(put, w.key[b])
    <3>1. PICK x \in Key : x = w.key[b]
      BY <1>6, LiveIs
    <3>2. Probe(w, x) = Probe(put, x)
      BY <1>3, <1>5, <1>6, <1>9, SameProbe
    <3> QED
      BY <3>1, <3>2
  <2> QED
    BY <1>4, <1>5, <1>7, <2>1 DEF Good
<1>11. \A b \in Live(w) : w.value[b] # Junk
  <2>1. v # Junk
    BY TableStoreAssumption
  <2>2. \A b \in Live(buf) : b \in Bucket(buf)
    BY <1>1, LiveIs
  <2> QED
    BY <1>3, <1>5, <1>7, <2>1, <2>2 DEF BufInv
<1>12. BufInv(w)
  BY <1>1, <1>3, <1>5, <1>6, <1>8, <1>10, <1>11 DEF BufInv
<1>13. Placed(buf, w, p, k)
  BY <1>3, <1>5, <1>6 DEF Placed
<1>14. Lookup(w, k) = v
  <2>1. p \in Live(w) /\ w.key[p] = k /\ w.value[p] = v
    BY <1>3, <1>5, <1>7
  <2>2. Lookup(w, w.key[p]) = w.value[p]
    BY <1>6, <1>10, <2>1, LookupLive
  <2> QED
    BY <2>1, <2>2
<1>15. \A x \in Key \ {k} : Lookup(w, x) = Lookup(buf, x)
  <2>1. buf.key[p] \in {Nil, k} /\ k \in {k, Deleted}
    BY <1>3
  <2> QED
    BY <1>12, <1>13, <2>1, OthersFound, Zenon
<1> QED
  BY <1>0, <1>3, <1>5, <1>12, <1>13, <1>14, <1>15 DEF Entered

Erased(buf, p) == [buf EXCEPT !.key[p] = Deleted, !.value[p] = Nil]

\* Erasing leaves a tombstone, which probes pass.
LEMMA EraseEntry ==
    ASSUME HashOK, NEW buf, BufInv(buf), NEW k \in Key, NEW p, p = Probe(buf, k),
           buf.key[p] # Nil, NEW new, new = Erased(buf, p)
    PROVE  Entered(buf, new, k, Nil) /\ Placed(buf, new, p, Deleted) /\ buf.key[p] = k
<1>0. PICK w : w = new
  OBVIOUS
<1>1. /\ IsBuf(buf) /\ Good(buf) /\ Cardinality(Filled(buf)) \in Nat
      /\ Cardinality(Filled(buf)) < buf.cap /\ Cardinality(Filled(buf)) <= buf.count
      /\ buf.cap \in Nat /\ buf.count \in Nat
  BY FilledFinite DEF BufInv, IsBuf
<1>2. p \in Bucket(buf) /\ buf.key[p] = k
  BY <1>1, ProbeInGap
<1>3. Nil # Deleted /\ Deleted \notin Key /\ Nil \notin Key
  BY TableStoreAssumption
<1>4. /\ w.cap = buf.cap /\ w.count = buf.count
      /\ w.key = [buf.key EXCEPT ![p] = Deleted] /\ w.value = [buf.value EXCEPT ![p] = Nil]
      /\ w = [cap |-> w.cap, count |-> w.count, key |-> w.key, value |-> w.value]
  BY <1>0, <1>1 DEF IsBuf, Erased
<1>5. IsBuf(w) /\ Bucket(w) = Bucket(buf)
  BY <1>1, <1>4 DEF IsBuf, Bucket
<1>6. /\ w.key[p] = Deleted
      /\ \A b \in Bucket(buf) : b # p => w.key[b] = buf.key[b] /\ w.value[b] = buf.value[b]
  BY <1>1, <1>2, <1>4 DEF IsBuf
<1>7. Filled(w) = Filled(buf)
  BY <1>2, <1>3, <1>5, <1>6 DEF Filled
<1>8. Live(w) = Live(buf) \ {p}
  <2>1. \A b : b \in Live(w) <=> b \in Bucket(buf) /\ w.key[b] \in Key
    BY <1>5, LiveIs
  <2>2. \A b : b \in Live(buf) <=> b \in Bucket(buf) /\ buf.key[b] \in Key
    BY <1>1, LiveIs
  <2>3. \A b : b \in Live(w) <=> b \in Live(buf) /\ b # p
    BY <1>3, <1>6, <2>1, <2>2
  <2> QED
    BY <2>3
<1>9. Cardinality(Filled(w)) = Cardinality(Filled(buf))
  BY <1>7, Zenon
<1>10. ASSUME NEW b \in Live(w) PROVE Probe(w, w.key[b]) = b
  <2>1. b \in Live(buf) /\ b # p /\ b \in Bucket(buf)
    BY <1>1, <1>8, LiveIs
  <2>2. PICK x \in Key : x = buf.key[b]
    BY <1>1, <2>1, LiveIs
  <2>3. w.key[b] = x /\ Probe(buf, x) = b /\ x # k
    BY <1>1, <1>2, <1>6, <2>1, <2>2 DEF Good
  <2>4. \A y \in Bucket(buf) : buf.key[y] \notin {Nil, x} => w.key[y] \notin {Nil, x}
    BY <1>3, <1>6
  <2>5. w.key[Probe(buf, x)] \in {Nil, x} /\ buf.key[b] \in {Nil, x}
    BY <2>2, <2>3
  <2>6. Probe(w, x) = Probe(buf, x)
    <3>1. IsBuf(buf) /\ IsBuf(w) /\ w.cap = buf.cap
      BY <1>1, <1>4, <1>5
    <3> QED
      BY <2>1, <2>4, <2>5, <3>1, ProbeKept
  <2> QED
    BY <2>3, <2>6
<1>11. \A b \in Live(w) : w.value[b] # Junk
  BY <1>1, <1>6, <1>8, LiveIs DEF BufInv
<1>12. BufInv(w)
  BY <1>1, <1>4, <1>5, <1>9, <1>10, <1>11 DEF BufInv, Good
<1>13. Placed(buf, w, p, Deleted)
  BY <1>2, <1>5, <1>6 DEF Placed
<1>14. Lookup(w, k) = Nil
  <2>1. \A b \in Live(w) : w.key[b] # k
    <3>1. \A b \in Live(buf) : b # p => buf.key[b] # k
      BY DEF BufInv, Good
    <3> QED
      BY <1>1, <1>6, <1>8, <3>1, LiveIs
  <2>2. Cardinality(Filled(w)) < w.cap
    BY <1>1, <1>4, <1>9
  <2> QED
    BY <1>5, <2>1, <2>2, LookupAbsent
<1>15. \A x \in Key \ {k} : Lookup(w, x) = Lookup(buf, x)
  <2>1. buf.key[p] \in {Nil, k} /\ Deleted \in {k, Deleted}
    BY <1>2
  <2> QED
    BY <1>12, <1>13, <2>1, OthersFound, Zenon
<1> QED
  BY <1>0, <1>2, <1>4, <1>12, <1>13, <1>14, <1>15 DEF Entered

-----------------------------------------------------------------------------
(* The table between two steps.                                            *)

ArrayValue == Elem \cup {Nil, Junk}

\* The two kinds of callback.
Waiting == [op : {"newindex"}, key : Key, bucket : Nat]
             \cup [op : {"insert"}, pos : Nat, len : Nat, cap : Nat]

\* table.insert has shifted the elements and evaluates its value.
Inserting == pending # <<>> /\ Last(pending).op = "insert"

PendingInv ==
    /\ pending \in Seq(Waiting) /\ Len(pending) <= MaxDepth
    /\ \A i \in 1 .. Len(pending) - 1 : pending[i].op = "newindex"
    /\ Inserting => LET top == Last(pending) IN
          /\ top.len = len /\ top.cap = Len(array_buf)
          /\ top.pos \in 1 .. len + 1 /\ len + 1 <= Len(array_buf) /\ len < MaxLen

ArrayInv ==
    /\ array_buf \in Seq(ArrayValue) /\ len \in 0 .. Len(array_buf) /\ len <= MaxLen
    /\ ~Inserting => \A i \in 1 .. len : array_buf[i] # Junk
    /\ Inserting => \A i \in 1 .. len + 1 : i # Last(pending).pos => array_buf[i] # Junk

LoopKey == Key \cup (1 .. MaxLen)
Loops == [on : {TRUE}, followed : BOOLEAN, prev : LoopKey \cup {Nil},
          seen : SUBSET LoopKey, owed : SUBSET LoopKey]

StoreInv ==
    /\ hash \in Hashes
    /\ hash_buf # Null => BufInv(hash_buf)
    /\ PendingInv /\ ArrayInv
    /\ trav \in Loops \cup {Idle}

LEMMA StoreImplies ==
    ASSUME StoreInv
    PROVE  TypeOK /\ ProbesEnd /\ Findable /\ NoJunk /\ HashOK
<1>1. hash \in Hashes /\ HashOK
  BY TableStoreAssumption DEF StoreInv, HashOK
<1>2. TypeOK
  <2>1. /\ len \in 0 .. Len(array_buf) /\ array_buf \in Seq(Elem \cup {Nil, Junk})
        /\ Len(pending) <= MaxDepth
    BY DEF StoreInv, PendingInv, ArrayInv, ArrayValue
  <2>2. hash_buf # Null =>
          /\ hash_buf.cap \in Nat /\ hash_buf.count \in Nat
          /\ hash_buf.key \in [Bucket(hash_buf) -> Key \cup {Nil, Deleted}]
          /\ hash_buf.value \in [Bucket(hash_buf) -> Value \cup {Nil, Junk}]
    BY DEF StoreInv, BufInv, IsBuf
  <2>3. trav.on => /\ trav.prev \in Key \cup (1 .. MaxLen) \cup {Nil}
                   /\ trav.seen \cup trav.owed \subseteq Key \cup 1 .. MaxLen
    <3>1. CASE trav = Idle
      BY <3>1 DEF Idle
    <3>2. CASE trav \in Loops
      BY <3>2 DEF Loops, LoopKey
    <3> QED
      BY <3>1, <3>2 DEF StoreInv
  <2> QED
    BY <1>1, <2>1, <2>2, <2>3 DEF TypeOK
<1>3. ProbesEnd
  BY DEF StoreInv, ProbesEnd, BufInv, Filled
<1>4. Findable
  BY DEF StoreInv, Findable, BufInv, Good, Live
<1>5. NoJunk
  BY DEF StoreInv, NoJunk, ArrayInv, Inserting, BufInv, Live
<1> QED
  BY <1>1, <1>2, <1>3, <1>4, <1>5

-----------------------------------------------------------------------------
(* Sequences.                                                              *)

LEMMA FunSeq ==
    ASSUME NEW S, NEW n \in Nat, NEW f \in [1 .. n -> S]
    PROVE  f \in Seq(S) /\ Len(f) = n
<1>1. f \in Seq(S)
  BY SeqDef
<1>2. Len(f) \in Nat /\ DOMAIN f = 1 .. Len(f)
  BY <1>1, LenProperties
<1> QED
  BY <1>1, <1>2

LEMMA Max2 ==
    ASSUME NEW a \in Nat, NEW b \in Nat
    PROVE  Max({a, b}) \in Nat /\ Max({a, b}) >= a /\ Max({a, b}) >= b
<1>1. \E x \in {a, b} : \A y \in {a, b} : x >= y
  <2>1. a >= b \/ b >= a
    OBVIOUS
  <2> QED
    BY <2>1
<1>2. Max({a, b}) \in {a, b} /\ \A y \in {a, b} : Max({a, b}) >= y
  BY <1>1 DEF Max
<1> QED
  BY <1>2

\* Room for n elements, those there are in place.
LEMMA EnlargedIs ==
    ASSUME ArrayInv, NEW n \in Nat, NEW buf, buf = Enlarged(n)
    PROVE  /\ Len(buf) \in Nat /\ Len(buf) >= n /\ len \in 0 .. Len(buf)
           /\ buf \in [1 .. Len(buf) -> ArrayValue]
           /\ \A i \in 1 .. len : buf[i] = array_buf[i]
<1>1. /\ Len(array_buf) \in Nat /\ array_buf \in [1 .. Len(array_buf) -> ArrayValue]
      /\ len \in 0 .. Len(array_buf)
  BY LenProperties DEF ArrayInv
<1>2. CASE n <= Len(array_buf)
  BY <1>1, <1>2 DEF Enlarged
<1>3. CASE n > Len(array_buf)
  <2>1. PICK m \in Nat : m = Max({2 * Len(array_buf), n}) /\ m >= n
    BY <1>1, Max2
  <2>2. buf = [i \in 1 .. m |-> IF i <= len THEN array_buf[i] ELSE Junk]
    BY <1>1, <1>3, <2>1 DEF Enlarged
  <2>3. buf \in [1 .. m -> ArrayValue]
    BY <1>1, <2>2 DEF ArrayValue
  <2>4. Len(buf) = m
    BY <2>1, <2>3, FunSeq
  <2>5. len \in Nat /\ len <= m /\ \A i \in 1 .. len : i \in 1 .. m
    <3>1. PICK a \in Nat : a = Len(array_buf)
      BY <1>1
    <3>2. PICK l \in Nat : l = len
      BY <1>1
    <3>3. l <= a /\ a < n /\ n <= m
      BY <1>1, <1>3, <2>1, <3>1, <3>2
    <3> QED
      BY <3>2, <3>3
  <2>6. \A i \in 1 .. len : buf[i] = array_buf[i]
    BY <1>1, <2>2, <2>5
  <2>7. buf \in [1 .. Len(buf) -> ArrayValue]
    BY <2>3, <2>4
  <2>8. Len(buf) \in Nat /\ Len(buf) >= n /\ len \in 0 .. Len(buf)
    BY <2>1, <2>4, <2>5
  <2> QED
    BY <2>6, <2>7, <2>8
<1> QED
  BY <1>1, <1>2, <1>3

LEMMA PendingTop ==
    ASSUME PendingInv, pending # <<>>
    PROVE  /\ Len(pending) \in Nat /\ Len(pending) >= 1 /\ Last(pending) \in Waiting
           /\ Front(pending) \in Seq(Waiting) /\ Len(Front(pending)) = Len(pending) - 1
           /\ \A i \in 1 .. Len(pending) - 1 : Front(pending)[i] = pending[i]
           /\ Front(pending) # <<>> => Last(Front(pending)).op = "newindex"
<1>1. pending \in Seq(Waiting)
  BY DEF PendingInv
<1>2. Len(pending) \in Nat /\ Len(pending) >= 1
  BY <1>1, EmptySeq
<1>3. \A i \in 1 .. Len(pending) : pending[i] \in Waiting
  BY <1>1, ElementOfSeq
<1>4. PICK n \in Nat : n = Len(pending) - 1
  BY <1>2
<1>5. PICK f : f = Front(pending)
  OBVIOUS
<1>6. f = SubSeq(pending, 1, n)
  BY <1>4, <1>5 DEF Front
<1>7. \A i \in 1 .. n : pending[i] \in Waiting
  BY <1>2, <1>3, <1>4
<1>8. /\ f \in Seq(Waiting) /\ Len(f) = IF 1 <= n THEN n - 1 + 1 ELSE 0
      /\ \A i \in 1 .. n - 1 + 1 : f[i] = pending[1 + i - 1]
  BY <1>6, <1>7, SubSeqProperties
<1>9. Len(f) = n
  BY <1>8
<1>10. \A i \in 1 .. n : f[i] = pending[i]
  BY <1>8
<1>11. f # <<>> => Last(f).op = "newindex"
  <2>1. SUFFICES ASSUME f # <<>> PROVE Last(f).op = "newindex"
    OBVIOUS
  <2>2. n >= 1
    BY <1>8, <1>9, <2>1, EmptySeq
  <2>3. Last(f) = pending[n]
    BY <1>9, <1>10, <2>2 DEF Last
  <2> QED
    BY <1>4, <2>2, <2>3 DEF PendingInv
<1> QED
  BY <1>2, <1>3, <1>4, <1>5, <1>8, <1>9, <1>10, <1>11 DEF Last

LEMMA ProbePrime ==
    ASSUME hash' = hash, NEW buf, hash_buf' = buf, NEW k
    PROVE  Probe(hash_buf, k)' = Probe(buf, k)
BY DEF Probe, At, Stops, Bucket

LEMMA BufPrime ==
    ASSUME hash' = hash, NEW buf, hash_buf' = buf, BufInv(buf)
    PROVE  BufInv(hash_buf)'
<1>1. \A k : Probe(hash_buf, k)' = Probe(buf, k)
  BY ProbePrime
<1> QED
  BY <1>1 DEF BufInv, IsBuf, Good, Live, Filled, Bucket

LEMMA WatchType ==
    ASSUME StoreInv, Watch
    PROVE  trav' \in Loops \cup {Idle}
<1>1. CASE ~trav.on
  BY <1>1 DEF Watch
<1>2. CASE trav.on
  <2>1. trav \in Loops
    BY <1>2 DEF StoreInv, Idle
  <2>2. PICK K : K = {KeyAt(p)' : p \in Entries'}
    OBVIOUS
  <2>3. PICK P : P = Present'
    OBVIOUS
  <2>4. trav' \in {Loop(trav.prev, trav.seen \cap K, trav.owed \cap P), Lost}
    BY <1>2, <2>2, <2>3 DEF Watch
  <2>5. Loop(trav.prev, trav.seen \cap K, trav.owed \cap P) \in Loops
    BY <2>1 DEF Loop, Loops
  <2>6. Lost \in Loops
    BY <2>1 DEF Lost, Loops
  <2> QED
    BY <2>4, <2>5, <2>6
<1> QED
  BY <1>1, <1>2

\* What the three assignments to a field do to the hash part.
LEMMA FieldBuf ==
    ASSUME StoreInv, NEW k \in Key, NEW v \in Value \cup {Nil}, NEW buf, buf = Grown,
           NEW p, p = Probe(buf, k)
    PROVE  /\ BufInv(buf) /\ p \in Bucket(buf) /\ buf.key[p] \in {Nil, k}
           /\ Overwrite(k, v) => /\ Entered(buf, hash_buf', k, v)
                                 /\ Placed(buf, hash_buf', p, k) /\ buf.key[p] = k
           /\ Add(k, v) => /\ Entered(buf, hash_buf', k, v)
                           /\ Placed(buf, hash_buf', p, k) /\ buf.key[p] = Nil
           /\ EraseField(k) => \/ hash_buf' = buf /\ buf.key[p] = Nil
                               \/ /\ Entered(buf, hash_buf', k, Nil)
                                  /\ Placed(buf, hash_buf', p, Deleted) /\ buf.key[p] = k
<1>1. HashOK /\ (hash_buf # Null => BufInv(hash_buf))
  BY StoreImplies DEF StoreInv
<1>2. BufInv(buf) /\ buf.count + 1 < buf.cap
  BY <1>1, GrownInv
<1>3. IsBuf(buf) /\ Cardinality(Filled(buf)) < buf.cap /\ k # Nil
  BY <1>2, FilledFinite, TableStoreAssumption DEF BufInv, IsBuf
<1>4. p \in Bucket(buf) /\ buf.key[p] \in {Nil, k}
  BY <1>1, <1>3, ProbeInGap
<1>5. ASSUME Overwrite(k, v)
      PROVE  Entered(buf, hash_buf', k, v) /\ Placed(buf, hash_buf', p, k) /\ buf.key[p] = k
  <2>1. PICK put : put = Put(buf, k, v)
    OBVIOUS
  <2>2. hash_buf' = put /\ buf.key[p] = k
    BY <1>5, <2>1 DEF Overwrite
  <2>3. IsBuf(put) /\ put.count = buf.count
    BY <1>1, <1>3, <2>1, PutBuf
  <2>4. put = [put EXCEPT !.count = buf.count]
    BY <2>3 DEF IsBuf
  <2>5. put = [Put(buf, k, v) EXCEPT !.count = buf.count]
    BY <2>1, <2>4
  <2>6. Entered(buf, put, k, v) /\ Placed(buf, put, p, k)
    BY <1>1, <1>2, <2>2, <2>5, StoreEntry
  <2> QED
    BY <2>2, <2>6
<1>6. ASSUME Add(k, v)
      PROVE  Entered(buf, hash_buf', k, v) /\ Placed(buf, hash_buf', p, k) /\ buf.key[p] = Nil
  <2>1. PICK new : new = hash_buf'
    OBVIOUS
  <2>2. new = [Put(buf, k, v) EXCEPT !.count = @ + 1] /\ buf.key[p] = Nil
    BY <1>6, <2>1 DEF Add
  <2>3. PICK put : put = Put(buf, k, v)
    OBVIOUS
  <2>4. put.count = buf.count
    BY <1>1, <1>3, <2>3, PutBuf
  <2>5. new = [Put(buf, k, v) EXCEPT !.count = buf.count + 1]
    BY <2>2, <2>3, <2>4
  <2>6. Entered(buf, new, k, v) /\ Placed(buf, new, p, k)
    BY <1>1, <1>2, <1>3, <2>2, <2>5, StoreEntry
  <2> QED
    BY <2>1, <2>2, <2>6
<1>7. ASSUME EraseField(k)
      PROVE  \/ hash_buf' = buf /\ buf.key[p] = Nil
             \/ Entered(buf, hash_buf', k, Nil) /\ Placed(buf, hash_buf', p, Deleted) /\ buf.key[p] = k
  <2>1. CASE buf.key[p] = Nil
    BY <1>7, <2>1 DEF EraseField
  <2>2. CASE buf.key[p] # Nil
    <3>1. PICK new : new = hash_buf'
      OBVIOUS
    <3>2. new = Erased(buf, p)
      BY <1>7, <2>2, <3>1 DEF EraseField, Erased
    <3>3. Entered(buf, new, k, Nil) /\ Placed(buf, new, p, Deleted) /\ buf.key[p] = k
      BY <1>1, <1>2, <2>2, <3>2, EraseEntry
    <3> QED
      BY <3>1, <3>3
  <2> QED
    BY <2>1, <2>2
<1> QED
  BY <1>2, <1>4, <1>5, <1>6, <1>7

-----------------------------------------------------------------------------
(* What the operations do to the array part.                               *)

LEMMA ArrayFun ==
    ASSUME ArrayInv
    PROVE  /\ Len(array_buf) \in Nat /\ DOMAIN array_buf = 1 .. Len(array_buf)
           /\ array_buf \in [1 .. Len(array_buf) -> ArrayValue]
           /\ len \in Nat /\ len <= Len(array_buf)
BY LenProperties DEF ArrayInv

Assigned(i, v) == [FillNil(Enlarged(i), i) EXCEPT ![i] = v]

LEMMA AssignElemIs ==
    ASSUME ArrayInv, NEW i \in 1 .. MaxLen, NEW v \in Elem \cup {Nil},
           NEW new, new = Assigned(i, v)
    PROVE  /\ new \in Seq(ArrayValue) /\ Len(new) \in Nat /\ Len(new) >= i /\ Len(new) >= len
           /\ new[i] = v
           /\ \A j \in 1 .. len : j # i => new[j] = array_buf[j]
           /\ \A j \in len + 1 .. i - 1 : new[j] = Nil
<1>1. PICK buf : buf = Enlarged(i)
  OBVIOUS
<1>2. i \in Nat /\ i >= 1
  BY TableStoreAssumption
<1>3. /\ Len(buf) \in Nat /\ Len(buf) >= i /\ len \in 0 .. Len(buf)
      /\ buf \in [1 .. Len(buf) -> ArrayValue]
      /\ \A j \in 1 .. len : buf[j] = array_buf[j]
  BY <1>1, <1>2, EnlargedIs
<1>4. PICK m \in Nat : m = Len(buf)
  BY <1>3
<1>5. new = [[j \in 1 .. m |-> IF j > len /\ j < i THEN Nil ELSE buf[j]] EXCEPT ![i] = v]
  BY <1>1, <1>3, <1>4 DEF FillNil, Assigned
<1>6. PICK w : w = new
  OBVIOUS
<1>7. w \in [1 .. m -> ArrayValue] /\ w[i] = v
      /\ \A j \in 1 .. m : j # i => w[j] = IF j > len /\ j < i THEN Nil ELSE buf[j]
  BY <1>2, <1>3, <1>4, <1>5, <1>6 DEF ArrayValue
<1>8. w \in Seq(ArrayValue) /\ Len(w) = m
  BY <1>7, FunSeq
<1>9. \A j \in 1 .. len : j \in 1 .. m /\ ~ (j > len)
  BY <1>3, <1>4
<1>10. \A j \in len + 1 .. i - 1 : j \in 1 .. m /\ j > len /\ j < i
  BY <1>2, <1>3, <1>4
<1>11. \A j \in 1 .. len : j # i => w[j] = array_buf[j]
  BY <1>3, <1>7, <1>9
<1>12. \A j \in len + 1 .. i - 1 : w[j] = Nil
  BY <1>2, <1>7, <1>10
<1>13. m >= i /\ m >= len
  BY <1>3, <1>4
<1> QED
  BY <1>6, <1>7, <1>8, <1>11, <1>12, <1>13

Opened(buf, pos) ==
    [i \in DOMAIN buf |-> IF i > pos /\ i <= len + 1 THEN buf[i - 1] ELSE buf[i]]

LEMMA InsertBeginsIs ==
    ASSUME ArrayInv, NEW pos \in 1 .. len + 1, NEW buf, buf = Enlarged(len + 1),
           NEW new, new = Opened(buf, pos)
    PROVE  /\ new \in Seq(ArrayValue) /\ Len(new) \in Nat /\ Len(new) >= len + 1
           /\ \A j \in 1 .. len + 1 :
                 /\ j < pos => new[j] = array_buf[j]
                 /\ j > pos => new[j] = array_buf[j - 1]
<1>1. len \in Nat /\ len + 1 \in Nat
  BY ArrayFun
<1>2. /\ Len(buf) \in Nat /\ Len(buf) >= len + 1
      /\ buf \in [1 .. Len(buf) -> ArrayValue]
      /\ \A j \in 1 .. len : buf[j] = array_buf[j]
  BY <1>1, EnlargedIs
<1>3. PICK m \in Nat : m = Len(buf) /\ m >= len + 1
  BY <1>2
<1>4. PICK w : w = new
  OBVIOUS
<1>5. w = [i \in 1 .. m |-> IF i > pos /\ i <= len + 1 THEN buf[i - 1] ELSE buf[i]]
  BY <1>2, <1>3, <1>4 DEF Opened
<1>6. \A i \in 1 .. m : buf[i] \in ArrayValue /\ (i > pos => buf[i - 1] \in ArrayValue)
  BY <1>1, <1>2, <1>3
<1>7. w \in [1 .. m -> ArrayValue]
  BY <1>5, <1>6
<1>8. w \in Seq(ArrayValue) /\ Len(w) = m
  BY <1>7, FunSeq
<1>9. ASSUME NEW j \in 1 .. len + 1
      PROVE  /\ j < pos => w[j] = array_buf[j]
             /\ j > pos => w[j] = array_buf[j - 1]
  <2>1. j \in 1 .. m /\ j <= len + 1
    BY <1>1, <1>3
  <2>2. CASE j < pos
    <3>1. j \in 1 .. len /\ ~ (j > pos)
      BY <1>1, <2>2
    <3> QED
      BY <1>2, <1>5, <2>1, <2>2, <3>1
  <2>3. CASE j > pos
    <3>1. j - 1 \in 1 .. len
      BY <1>1, <2>3
    <3> QED
      BY <1>1, <1>2, <1>5, <2>1, <2>3, <3>1
  <2> QED
    BY <2>2, <2>3
<1> QED
  BY <1>3, <1>4, <1>8, <1>9

LEMMA RemoveElemIs ==
    ASSUME ArrayInv, NEW pos \in 1 .. len,
           NEW new, new = [i \in DOMAIN array_buf |->
                             IF i >= pos /\ i < len THEN array_buf[i + 1] ELSE array_buf[i]]
    PROVE  /\ new \in Seq(ArrayValue) /\ Len(new) = Len(array_buf)
           /\ \A j \in 1 .. len - 1 :
                 /\ j < pos => new[j] = array_buf[j]
                 /\ j >= pos => new[j] = array_buf[j + 1]
<1>1. PICK m \in Nat : m = Len(array_buf)
  BY ArrayFun
<1>2. /\ len \in Nat /\ len <= m /\ DOMAIN array_buf = 1 .. m
      /\ array_buf \in [1 .. m -> ArrayValue]
  BY <1>1, ArrayFun
<1>3. PICK w : w = new
  OBVIOUS
<1>4. w = [i \in 1 .. m |-> IF i >= pos /\ i < len THEN array_buf[i + 1] ELSE array_buf[i]]
  BY <1>2, <1>3
<1>5. \A i \in 1 .. m : array_buf[i] \in ArrayValue /\ (i < len => array_buf[i + 1] \in ArrayValue)
  BY <1>2
<1>6. w \in [1 .. m -> ArrayValue]
  BY <1>4, <1>5
<1>7. w \in Seq(ArrayValue) /\ Len(w) = m
  BY <1>6, FunSeq
<1>8. \A j \in 1 .. len - 1 : j \in 1 .. m /\ j < len
  BY <1>2
<1> QED
  BY <1>1, <1>3, <1>4, <1>7, <1>8

-----------------------------------------------------------------------------
(* The invariant of the storage.                                           *)

LEMMA StoreInit == Init => StoreInv
<1> SUFFICES ASSUME Init PROVE StoreInv
  OBVIOUS
<1>1. ~Inserting /\ Len(pending) = 0 /\ Len(array_buf) = 0 /\ len = 0
  BY EmptySeq DEF Init, Inserting
<1>2. PendingInv
  BY <1>1, EmptySeq, TableStoreAssumption DEF Init, PendingInv
<1>3. ArrayInv
  BY <1>1, EmptySeq, TableStoreAssumption DEF Init, ArrayInv
<1> QED
  BY <1>2, <1>3 DEF Init, StoreInv

\* A step that leaves the array part and the callbacks alone.
LEMMA HashStep ==
    ASSUME StoreInv, UNCHANGED <<hash, len, array_buf, pending>>,
           NEW new, hash_buf' = new, new # Null => BufInv(new), trav' \in Loops \cup {Idle}
    PROVE  StoreInv'
<1>1. hash_buf' # Null => BufInv(hash_buf)'
  BY BufPrime
<1>2. Inserting' = Inserting /\ PendingInv'
  BY DEF StoreInv, PendingInv, Inserting, Last
<1>3. ArrayInv'
  BY <1>2 DEF StoreInv, ArrayInv, Last
<1> QED
  BY <1>1, <1>2, <1>3 DEF StoreInv

\* A callback begins.
LEMMA PendingPush ==
    ASSUME PendingInv, Runs, Len(pending) < MaxDepth, NEW top \in Waiting,
           pending' = Append(pending, top)
    PROVE  /\ pending' \in Seq(Waiting) /\ Len(pending') <= MaxDepth
           /\ \A i \in 1 .. Len(pending') - 1 : pending'[i].op = "newindex"
           /\ pending' # <<>> /\ Last(pending') = top /\ ~Inserting
<1>1. pending \in Seq(Waiting) /\ Len(pending) \in Nat
  BY LenProperties DEF PendingInv
<1>2. /\ pending' \in Seq(Waiting) /\ Len(pending') = Len(pending) + 1
      /\ \A i \in 1 .. Len(pending) : pending'[i] = pending[i]
      /\ pending'[Len(pending) + 1] = top
  BY <1>1, AppendProperties
<1>3. Last(pending') = top
  BY <1>2 DEF Last
<1>4. pending' # <<>> /\ Len(pending') <= MaxDepth
  BY <1>1, <1>2, EmptySeq, TableStoreAssumption
<1>5. \A i \in 1 .. Len(pending) : pending[i].op = "newindex"
  <2>1. CASE pending = <<>>
    BY <2>1, EmptySeq
  <2>2. CASE pending # <<>>
    <3>1. pending[Len(pending)].op = "newindex"
      BY <2>2 DEF Runs, Last
    <3> QED
      BY <1>1, <3>1 DEF PendingInv
  <2> QED
    BY <2>1, <2>2
<1> QED
  BY <1>1, <1>2, <1>3, <1>4, <1>5 DEF Runs, Inserting

\* A callback has returned.
LEMMA PendingPop ==
    ASSUME PendingInv, pending # <<>>, pending' = Front(pending)
    PROVE  PendingInv' /\ ~Inserting'
<1>1. /\ Len(pending) \in Nat /\ Len(pending) >= 1
      /\ Front(pending) \in Seq(Waiting) /\ Len(Front(pending)) = Len(pending) - 1
      /\ \A i \in 1 .. Len(pending) - 1 : Front(pending)[i] = pending[i]
      /\ Front(pending) # <<>> => Last(Front(pending)).op = "newindex"
  BY PendingTop
<1>2. ~Inserting'
  BY <1>1 DEF Inserting
<1>3. \A i \in 1 .. Len(pending') - 1 : pending'[i].op = "newindex"
  BY <1>1 DEF PendingInv
<1>4. Len(pending') <= MaxDepth
  BY <1>1, TableStoreAssumption DEF PendingInv
<1> QED
  BY <1>1, <1>2, <1>3, <1>4 DEF PendingInv

\* The array part and the length after a step of an assignment t[i] = v.
LEMMA StoreAssignElem ==
    ASSUME StoreInv, NEW i \in 1 .. MaxLen, NEW v \in Elem \cup {Nil}, AssignElem(i, v)
    PROVE  PendingInv' /\ ArrayInv'
<1>1. ArrayInv /\ PendingInv /\ ~Inserting /\ pending' = pending
  BY DEF StoreInv, AssignElem, Runs, Inserting
<1>2. PICK new : new = array_buf'
  OBVIOUS
<1>3. new = Assigned(i, v)
  BY <1>2 DEF AssignElem, Assigned
<1>4. /\ new \in Seq(ArrayValue) /\ Len(new) \in Nat /\ Len(new) >= i /\ Len(new) >= len
      /\ new[i] = v
      /\ \A j \in 1 .. len : j # i => new[j] = array_buf[j]
      /\ \A j \in len + 1 .. i - 1 : new[j] = Nil
  BY <1>1, <1>3, AssignElemIs
<1>5. len \in Nat /\ len <= MaxLen /\ i \in Nat /\ i <= MaxLen /\ len' = IF i > len THEN i ELSE len
  BY <1>1, ArrayFun, TableStoreAssumption DEF AssignElem, ArrayInv
<1>6. v # Junk /\ Nil # Junk
  BY TableStoreAssumption
<1>7. \A j \in 1 .. len' : new[j] # Junk
  <2>1. ASSUME NEW j \in 1 .. len' PROVE new[j] # Junk
    <3>1. CASE j = i
      BY <1>4, <1>6, <3>1
    <3>2. CASE j \in 1 .. len /\ j # i
      BY <1>1, <1>4, <3>2 DEF ArrayInv
    <3>3. CASE j > len /\ j # i
      <4>1. j \in len + 1 .. i - 1
        BY <1>5, <3>3
      <4> QED
        BY <1>4, <1>6, <4>1
    <3> QED
      BY <1>5, <3>1, <3>2, <3>3
  <2> QED
    BY <2>1
<1>8. ~Inserting'
  BY <1>1 DEF Inserting, Last
<1>9. PendingInv'
  BY <1>1, <1>8 DEF PendingInv
<1>10. len' \in 0 .. Len(new) /\ len' <= MaxLen
  BY <1>4, <1>5
<1>11. ArrayInv'
  BY <1>2, <1>4, <1>7, <1>8, <1>10 DEF ArrayInv
<1> QED
  BY <1>9, <1>11

LEMMA StoreInsertBegins ==
    ASSUME StoreInv, NEW pos \in 1 .. len + 1, InsertBegins(pos)
    PROVE  PendingInv' /\ ArrayInv'
<1>1. /\ ArrayInv /\ PendingInv /\ Runs /\ len < MaxLen /\ Len(pending) < MaxDepth
      /\ UNCHANGED len
  BY DEF StoreInv, InsertBegins
<1>2. PICK new : new = array_buf'
  OBVIOUS
<1>3. PICK buf : buf = Enlarged(len + 1)
  OBVIOUS
<1>4. new = Opened(buf, pos)
  BY <1>2, <1>3 DEF InsertBegins, Opened
<1>5. /\ new \in Seq(ArrayValue) /\ Len(new) \in Nat /\ Len(new) >= len + 1
      /\ \A j \in 1 .. len + 1 :
            /\ j < pos => new[j] = array_buf[j]
            /\ j > pos => new[j] = array_buf[j - 1]
  BY <1>1, <1>3, <1>4, InsertBeginsIs
<1>6. PICK top : top = [op |-> "insert", pos |-> pos, len |-> len, cap |-> Len(new)]
  OBVIOUS
<1>7. len \in Nat /\ pos \in Nat /\ len <= Len(array_buf) /\ Len(array_buf) \in Nat
  BY <1>1, ArrayFun
<1>8. top \in Waiting /\ pending' = Append(pending, top)
  BY <1>2, <1>5, <1>6, <1>7 DEF Waiting, InsertBegins
<1>9. /\ pending' \in Seq(Waiting) /\ Len(pending') <= MaxDepth
      /\ \A i \in 1 .. Len(pending') - 1 : pending'[i].op = "newindex"
      /\ pending' # <<>> /\ Last(pending') = top /\ ~Inserting
  BY <1>1, <1>8, PendingPush
<1>10. Inserting'
  BY <1>6, <1>9 DEF Inserting
<1>11. PendingInv'
  BY <1>1, <1>2, <1>5, <1>6, <1>7, <1>9 DEF PendingInv
<1>12. \A j \in 1 .. len + 1 : j # pos => new[j] # Junk
  <2>1. ASSUME NEW j \in 1 .. len + 1, j # pos PROVE new[j] # Junk
    <3>1. CASE j < pos
      <4>1. j \in 1 .. len
        BY <1>7, <3>1
      <4> QED
        BY <1>1, <1>5, <1>9, <3>1, <4>1 DEF ArrayInv
    <3>2. CASE j > pos
      <4>1. j - 1 \in 1 .. len
        BY <1>7, <3>2
      <4> QED
        BY <1>1, <1>5, <1>9, <3>2, <4>1 DEF ArrayInv
    <3> QED
      BY <1>7, <2>1, <3>1, <3>2
  <2> QED
    BY <2>1
<1>13. Last(pending').pos = pos
  BY <1>6, <1>9
<1>14. ArrayInv'
  BY <1>1, <1>2, <1>5, <1>7, <1>10, <1>12, <1>13 DEF ArrayInv
<1> QED
  BY <1>11, <1>14

LEMMA StoreInsertReturns ==
    ASSUME StoreInv, NEW v \in Elem \cup {Nil}, InsertReturns(v)
    PROVE  PendingInv' /\ ArrayInv'
<1>1. /\ ArrayInv /\ PendingInv /\ pending # <<>> /\ Inserting /\ pending' = Front(pending)
  BY DEF StoreInv, InsertReturns, Inserting
<1>2. PICK pos : pos = Last(pending).pos
  OBVIOUS
<1>3. /\ Last(pending).len = len /\ Last(pending).cap = Len(array_buf)
      /\ pos \in 1 .. len + 1 /\ len + 1 <= Len(array_buf) /\ len < MaxLen
  BY <1>1, <1>2 DEF PendingInv
<1>4. PendingInv' /\ ~Inserting'
  BY <1>1, PendingPop
<1>5. PICK m \in Nat : m = Len(array_buf)
  BY <1>1, ArrayFun
<1>6. /\ len \in Nat /\ array_buf \in [1 .. m -> ArrayValue] /\ len + 1 <= m
  BY <1>1, <1>3, <1>5, ArrayFun
<1>7. PICK new : new = array_buf'
  OBVIOUS
<1>8. new = [array_buf EXCEPT ![pos] = v] /\ len' = len + 1
  BY <1>2, <1>3, <1>7 DEF InsertReturns
<1>9. v \in ArrayValue /\ v # Junk
  BY TableStoreAssumption DEF ArrayValue
<1>10. new \in [1 .. m -> ArrayValue]
  BY <1>6, <1>8, <1>9
<1>11. new \in Seq(ArrayValue) /\ Len(new) = m
  BY <1>10, FunSeq
<1>12. \A j \in 1 .. len + 1 : j \in 1 .. m /\ (new[j] = IF j = pos THEN v ELSE array_buf[j])
  BY <1>3, <1>6, <1>8
<1>13. \A j \in 1 .. len' : new[j] # Junk
  BY <1>1, <1>2, <1>8, <1>9, <1>12 DEF ArrayInv
<1>14. len' \in 0 .. Len(new) /\ len' <= MaxLen
  BY <1>3, <1>5, <1>6, <1>8, <1>11, TableStoreAssumption
<1>15. ArrayInv'
  BY <1>4, <1>7, <1>11, <1>13, <1>14 DEF ArrayInv
<1> QED
  BY <1>4, <1>15

LEMMA StoreRemoveElem ==
    ASSUME StoreInv, NEW pos \in 1 .. len, RemoveElem(pos)
    PROVE  PendingInv' /\ ArrayInv'
<1>1. ArrayInv /\ PendingInv /\ ~Inserting /\ pending' = pending /\ len' = len - 1
  BY DEF StoreInv, RemoveElem, Runs, Inserting
<1>2. PICK new : new = array_buf'
  OBVIOUS
<1>3. new = [i \in DOMAIN array_buf |->
               IF i >= pos /\ i < len THEN array_buf[i + 1] ELSE array_buf[i]]
  BY <1>2 DEF RemoveElem
<1>4. /\ new \in Seq(ArrayValue) /\ Len(new) = Len(array_buf)
      /\ \A j \in 1 .. len - 1 :
            /\ j < pos => new[j] = array_buf[j]
            /\ j >= pos => new[j] = array_buf[j + 1]
  BY <1>1, <1>3, RemoveElemIs
<1>5. len \in Nat /\ len <= MaxLen /\ len <= Len(array_buf) /\ Len(array_buf) \in Nat /\ len >= 1
  BY <1>1, ArrayFun DEF ArrayInv
<1>6. \A j \in 1 .. len - 1 : new[j] # Junk
  <2>1. ASSUME NEW j \in 1 .. len - 1 PROVE new[j] # Junk
    <3>1. j \in 1 .. len /\ j + 1 \in 1 .. len /\ (j < pos \/ j >= pos)
      BY <1>5
    <3>2. array_buf[j] # Junk /\ array_buf[j + 1] # Junk
      BY <1>1, <3>1 DEF ArrayInv
    <3> QED
      BY <1>4, <3>1, <3>2
  <2> QED
    BY <2>1
<1>7. ~Inserting'
  BY <1>1 DEF Inserting, Last
<1>8. PendingInv'
  BY <1>1, <1>7 DEF PendingInv
<1>9. len' \in 0 .. Len(new) /\ len' <= MaxLen
  BY <1>1, <1>4, <1>5, TableStoreAssumption
<1>10. ArrayInv'
  BY <1>1, <1>2, <1>4, <1>6, <1>7, <1>9 DEF ArrayInv
<1> QED
  BY <1>8, <1>10

-----------------------------------------------------------------------------
(* Entries and their keys.                                                 *)

\* An entry is an element, its own key, or a live bucket.
LEMMA EntryIs ==
    ASSUME StoreInv, NEW p \in Entries
    PROVE  /\ p \in Nat /\ p >= 1 /\ len \in Nat
           /\ \/ p \in 1 .. len /\ KeyAt(p) = p /\ KeyAt(p) \in 1 .. MaxLen
              \/ /\ p > len /\ hash_buf # Null
                 /\ \E b \in Live(hash_buf) :
                       /\ p = len + 1 + b /\ b \in Nat /\ KeyAt(p) = hash_buf.key[b]
                       /\ KeyAt(p) \in Key /\ Probe(hash_buf, KeyAt(p)) = b
<1>1. len \in Nat /\ len <= MaxLen /\ MaxLen \in Nat
  BY ArrayFun, TableStoreAssumption DEF StoreInv, ArrayInv
<1>2. CASE p \in {i \in 1 .. len : array_buf[i] # Nil}
  BY <1>1, <1>2 DEF KeyAt
<1>3. CASE p \in {len + 1 + b : b \in Live(hash_buf)}
  <2>1. PICK b \in Live(hash_buf) : p = len + 1 + b
    BY <1>3
  <2>2. hash_buf # Null /\ BufInv(hash_buf)
    BY <2>1 DEF Live, StoreInv
  <2>3. IsBuf(hash_buf) /\ Good(hash_buf)
    BY <2>2 DEF BufInv
  <2>4. b \in Bucket(hash_buf) /\ hash_buf.key[b] \in Key
    BY <2>1, <2>3, LiveIs
  <2>5. b \in Nat
    BY <2>4 DEF Bucket
  <2>6. p \in Nat /\ p >= 1 /\ p > len /\ ~ (p <= len) /\ p - len - 1 = b
    BY <1>1, <2>1, <2>5
  <2>7. KeyAt(p) = hash_buf.key[b]
    BY <2>6 DEF KeyAt
  <2>8. Probe(hash_buf, KeyAt(p)) = b
    BY <2>1, <2>3, <2>7 DEF Good
  <2> QED
    BY <1>1, <2>1, <2>2, <2>4, <2>5, <2>6, <2>7, <2>8
<1> QED
  BY <1>2, <1>3 DEF Entries

\* The least of a set of positions.
LEMMA MinIs ==
    ASSUME NEW S, S \subseteq Nat, S # {}
    PROVE  Min(S) \in S /\ \A x \in S : Min(S) <= x
<1>1. \E x \in S : \A y \in S : x <= y
  BY LeastNat
<1> QED
  BY <1>1 DEF Min

\* What is present is owed; a loop goes on to the key of an entry.
LEMMA TraverseType ==
    ASSUME StoreInv, Traverse \/ Advance \/ Leave
    PROVE  trav' \in Loops \cup {Idle}
<1>1. \A p \in Entries : p \in Nat /\ KeyAt(p) \in LoopKey
  BY EntryIs DEF LoopKey
<1>2. CASE Traverse
  <2>1. Present \subseteq LoopKey
    BY <1>1 DEF Present
  <2> QED
    BY <1>2, <2>1 DEF Traverse, Loop, Loops
<1>3. CASE Advance
  <2>1. PICK after : after = NextEntry(trav.prev)
    OBVIOUS
  <2>2. PICK k : k = KeyAt(Min(after))
    OBVIOUS
  <2>3. trav.on /\ trav' = IF after = {} THEN Idle
                           ELSE IF trav.followed THEN Loop(k, trav.seen \cup {k}, trav.owed \ {k})
                           ELSE [Lost EXCEPT !.prev = k]
    BY <1>3, <2>1, <2>2 DEF Advance
  <2>4. trav \in Loops
    BY <2>3 DEF StoreInv, Idle
  <2>5. CASE after = {}
    BY <2>3, <2>5
  <2>6. CASE after # {}
    <3>1. after \subseteq Entries /\ after \subseteq Nat
      BY <1>1, <2>1 DEF NextEntry
    <3>2. Min(after) \in Entries
      BY <2>6, <3>1, MinIs
    <3>3. k \in LoopKey
      BY <1>1, <2>2, <3>2
    <3>4. PICK lost : lost = Lost
      OBVIOUS
    <3>5. [Lost EXCEPT !.prev = k] \in Loops
      <4>1. lost \in Loops
        BY <2>4, <3>4 DEF Lost, Loops
      <4>2. [lost EXCEPT !.prev = k] \in Loops
        BY <3>3, <4>1 DEF Loops
      <4> QED
        BY <3>4, <4>2
    <3>6. Loop(k, trav.seen \cup {k}, trav.owed \ {k}) \in Loops
      BY <2>4, <3>3 DEF Loop, Loops
    <3> QED
      BY <2>3, <2>6, <3>5, <3>6
  <2> QED
    BY <2>5, <2>6
<1>4. CASE Leave
  BY <1>4 DEF Leave
<1> QED
  BY <1>2, <1>3, <1>4

\* A step that leaves the hash part alone.
LEMMA HashKept ==
    ASSUME StoreInv, UNCHANGED <<hash, hash_buf>>
    PROVE  hash' \in Hashes /\ (hash_buf' # Null => BufInv(hash_buf)')
BY BufPrime DEF StoreInv

LEMMA StoreNext == StoreInv /\ [Next]_vars => StoreInv'
<1> SUFFICES ASSUME StoreInv, [Next]_vars PROVE StoreInv'
  OBVIOUS
<1>1. ASSUME NEW k \in Key, NEW v \in Value \cup {Nil}, AssignField(k, v) PROVE StoreInv'
  <2>1. /\ UNCHANGED <<hash, len, array_buf, pending>> /\ Watch
        /\ Overwrite(k, v) \/ Add(k, v)
    BY <1>1 DEF AssignField, Overwrite, Add
  <2>2. BufInv(hash_buf')
    BY <2>1, FieldBuf DEF Entered
  <2> QED
    BY <2>1, <2>2, WatchType, HashStep
<1>2. ASSUME NEW k \in Key, EraseField(k) PROVE StoreInv'
  <2>1. UNCHANGED <<hash, len, array_buf, pending>> /\ Watch
    BY <1>2 DEF EraseField
  <2>2. BufInv(hash_buf')
    BY <1>2, FieldBuf DEF Entered
  <2> QED
    BY <2>1, <2>2, WatchType, HashStep
<1>3. ASSUME NEW k \in Key, CallNewindex(k) PROVE StoreInv'
  <2>1. PICK buf : buf = Grown
    OBVIOUS
  <2>2. /\ HashOK /\ (hash_buf # Null => BufInv(hash_buf)) /\ PendingInv /\ ArrayInv
        /\ hash \in Hashes
    BY StoreImplies DEF StoreInv
  <2>3. BufInv(buf)
    BY <2>1, <2>2, GrownInv
  <2>4. PICK p : p = Probe(buf, k)
    OBVIOUS
  <2>5. /\ Runs /\ Len(pending) < MaxDepth /\ hash_buf' = buf
        /\ pending' = Append(pending, [op |-> "newindex", key |-> k, bucket |-> p])
        /\ UNCHANGED <<hash, len, array_buf>> /\ Watch
    BY <1>3, <2>1, <2>4 DEF CallNewindex
  <2>6. p \in Bucket(buf)
    BY <2>1, <2>4, FieldBuf, \E v : v \in Value \cup {Nil}
  <2>7. [op |-> "newindex", key |-> k, bucket |-> p] \in Waiting
    BY <2>6 DEF Waiting, Bucket
  <2>8. /\ pending' \in Seq(Waiting) /\ Len(pending') <= MaxDepth
        /\ \A i \in 1 .. Len(pending') - 1 : pending'[i].op = "newindex"
        /\ Last(pending').op = "newindex" /\ ~Inserting
    BY <2>2, <2>5, <2>7, PendingPush
  <2>9. ~Inserting'
    BY <2>8 DEF Inserting
  <2>10. PendingInv'
    BY <2>8, <2>9 DEF PendingInv
  <2>11. ArrayInv'
    BY <2>2, <2>5, <2>8, <2>9 DEF ArrayInv
  <2>12. BufInv(hash_buf)'
    BY <2>3, <2>5, BufPrime
  <2> QED
    BY <2>2, <2>5, <2>10, <2>11, <2>12, WatchType DEF StoreInv
<1>4. CASE NewindexReturns
  <2>1. /\ pending # <<>> /\ ~Inserting /\ pending' = Front(pending)
        /\ UNCHANGED <<hash, len, array_buf, hash_buf, trav>>
    BY <1>4 DEF NewindexReturns, Inserting, table
  <2>2. PendingInv' /\ ~Inserting'
    BY <2>1, PendingPop DEF StoreInv
  <2>3. ArrayInv'
    BY <2>1, <2>2 DEF StoreInv, ArrayInv
  <2> QED
    BY <2>1, <2>2, <2>3, HashKept DEF StoreInv
<1>5. ASSUME NEW i \in 1 .. MaxLen, NEW v \in Elem \cup {Nil}, AssignElem(i, v) PROVE StoreInv'
  <2>1. UNCHANGED <<hash, hash_buf>> /\ Watch
    BY <1>5 DEF AssignElem
  <2> QED
    BY <1>5, <2>1, StoreAssignElem, HashKept, WatchType DEF StoreInv
<1>6. ASSUME NEW pos \in 1 .. len + 1, InsertBegins(pos) PROVE StoreInv'
  <2>1. UNCHANGED <<hash, hash_buf, trav>>
    BY <1>6 DEF InsertBegins
  <2> QED
    BY <1>6, <2>1, StoreInsertBegins, HashKept DEF StoreInv
<1>7. ASSUME Shifted PROVE trav' \in Loops \cup {Idle}
  <2>1. CASE ~trav.on
    BY <1>7, <2>1 DEF Shifted
  <2>2. CASE trav.on
    <3>1. trav \in Loops
      BY <2>2 DEF StoreInv, Idle
    <3>2. Lost \in Loops
      BY <3>1 DEF Lost, Loops
    <3> QED
      BY <1>7, <2>2, <3>2 DEF Shifted
  <2> QED
    BY <2>1, <2>2
<1>8. ASSUME NEW v \in Elem \cup {Nil}, InsertReturns(v) PROVE StoreInv'
  <2>1. UNCHANGED <<hash, hash_buf>> /\ Shifted
    BY <1>8 DEF InsertReturns
  <2> QED
    BY <1>7, <1>8, <2>1, StoreInsertReturns, HashKept DEF StoreInv
<1>9. ASSUME NEW pos \in 1 .. len, RemoveElem(pos) PROVE StoreInv'
  <2>1. UNCHANGED <<hash, hash_buf>> /\ Shifted
    BY <1>9 DEF RemoveElem
  <2> QED
    BY <1>7, <1>9, <2>1, StoreRemoveElem, HashKept DEF StoreInv
<1>10. CASE Traverse \/ Advance \/ Leave
  <2>1. UNCHANGED <<hash, table, pending>>
    BY <1>10 DEF Traverse, Advance, Leave
  <2>2. trav' \in Loops \cup {Idle}
    BY <1>10, TraverseType
  <2> QED
    BY <2>1, <2>2, HashStep DEF table, StoreInv
<1>11. CASE UNCHANGED vars
  <2>1. UNCHANGED <<hash, len, array_buf, pending, hash_buf, trav>>
    BY <1>11 DEF vars, table
  <2> QED
    BY <2>1, HashStep DEF StoreInv
<1> QED
  BY <1>1, <1>2, <1>3, <1>4, <1>5, <1>6, <1>8, <1>9, <1>10, <1>11 DEF Next

\* The storage keeps to its types, its buffers to their order, always.
THEOREM StoreAlways == Spec => []StoreInv
BY StoreInit, StoreNext, PTL DEF Spec

\* Type correctness.
THEOREM TableTypes == Spec => []TypeOK
BY StoreAlways, StoreImplies, PTL

\* Every probe ends: the buckets that are not empty are counted, and the growth
\* test keeps an empty one.
THEOREM ProbesAlwaysEnd == Spec => []ProbesEnd
BY StoreAlways, StoreImplies, PTL

\* A live entry is where its probe stops: no tombstone, rehash or callback
\* hides it or doubles it.
THEOREM AlwaysFindable == Spec => []Findable
BY StoreAlways, StoreImplies, PTL

\* Nothing that can be reached in a table was never written.
THEOREM NeverJunk == Spec => []NoJunk
BY StoreAlways, StoreImplies, PTL

-----------------------------------------------------------------------------
(* The storage implements the table of LuaTable.                           *)

\* What the program sees: n elements, those from p on one slot further.
View(a, n, p) == [i \in 1 .. n |-> IF i < p THEN a[i] ELSE a[i + 1]]

LEMMA ItemsAre ==
    /\ ~Inserting => items = View(array_buf, len, len + 1)
    /\ ~Inserting' => items' = View(array_buf', len', len' + 1)
    /\ Inserting => items = View(array_buf, len, Last(pending).pos)
    /\ Inserting' => items' = View(array_buf', len', Last(pending').pos)
BY DEF items, Inserting, View

LEMMA ViewWhole ==
    ASSUME NEW a \in Seq(ArrayValue), NEW n \in Nat, n <= Len(a), NEW s, s = View(a, n, n + 1)
    PROVE  s \in Seq(ArrayValue) /\ Len(s) = n /\ \A i \in 1 .. n : s[i] = a[i]
<1>1. PICK m \in Nat : m = Len(a)
  BY LenProperties
<1>2. a \in [1 .. m -> ArrayValue] /\ n <= m
  BY <1>1, LenProperties
<1>3. s \in [1 .. n -> ArrayValue] /\ \A i \in 1 .. n : s[i] = a[i]
  BY <1>2 DEF View
<1> QED
  BY <1>3, FunSeq

LEMMA ViewShifted ==
    ASSUME NEW a \in Seq(ArrayValue), NEW n \in Nat, n + 1 <= Len(a), NEW p \in 1 .. n + 1,
           NEW s, s = View(a, n, p)
    PROVE  /\ s \in Seq(ArrayValue) /\ Len(s) = n
           /\ \A i \in 1 .. n : s[i] = IF i < p THEN a[i] ELSE a[i + 1]
<1>1. PICK m \in Nat : m = Len(a)
  BY LenProperties
<1>2. a \in [1 .. m -> ArrayValue] /\ n + 1 <= m
  BY <1>1, LenProperties
<1>3. \A i \in 1 .. n : i \in 1 .. m /\ i + 1 \in 1 .. m
  BY <1>2
<1>4. s \in [1 .. n -> ArrayValue] /\ \A i \in 1 .. n : s[i] = IF i < p THEN a[i] ELSE a[i + 1]
  BY <1>2, <1>3 DEF View
<1> QED
  BY <1>4, FunSeq

\* What InsertAt and RemoveAt do, element by element.
Inserted(S, s, pos, v, t) ==
    /\ t \in Seq(S) /\ Len(t) = Len(s) + 1
    /\ \A j \in 1 .. Len(s) + 1 :
          t[j] = IF j < pos THEN s[j] ELSE IF j = pos THEN v ELSE s[j - 1]

LEMMA InsertAtIs ==
    ASSUME NEW S, NEW s \in Seq(S), NEW pos \in 1 .. Len(s) + 1, NEW v \in S,
           NEW t, t = InsertAt(s, pos, v)
    PROVE  Inserted(S, s, pos, v, t)
<1>1. PICK n \in Nat : n = Len(s)
  BY LenProperties
<1>2. \A j \in 1 .. n : s[j] \in S
  BY <1>1, ElementOfSeq
<1>3. pos \in Nat /\ pos >= 1 /\ pos <= n + 1 /\ pos - 1 \in Int /\ n \in Int
  BY <1>1
<1>4. PICK a : a = SubSeq(s, 1, pos - 1)
  OBVIOUS
<1>5. PICK b : b = SubSeq(s, pos, n)
  OBVIOUS
<1>6. \A j \in 1 .. pos - 1 : s[j] \in S
  BY <1>2, <1>3
<1>7. /\ a \in Seq(S) /\ Len(a) = IF 1 <= pos - 1 THEN pos - 1 - 1 + 1 ELSE 0
      /\ \A i \in 1 .. pos - 1 - 1 + 1 : a[i] = s[1 + i - 1]
  BY <1>3, <1>4, <1>6, SubSeqProperties
<1>8. Len(a) = pos - 1 /\ \A i \in 1 .. pos - 1 : a[i] = s[i]
  BY <1>3, <1>7
<1>9. \A j \in pos .. n : s[j] \in S
  BY <1>2, <1>3
<1>10. /\ b \in Seq(S) /\ Len(b) = IF pos <= n THEN n - pos + 1 ELSE 0
       /\ \A i \in 1 .. n - pos + 1 : b[i] = s[pos + i - 1]
  BY <1>3, <1>5, <1>9, SubSeqProperties
<1>11. Len(b) = n - pos + 1
  BY <1>3, <1>10
<1>12. PICK c : c = <<v>>
  OBVIOUS
<1>13. c \in Seq(S) /\ Len(c) = 1 /\ c[1] = v
  BY <1>12
<1>14. PICK d : d = a \o c
  OBVIOUS
<1>15. /\ d \in Seq(S) /\ Len(d) = Len(a) + Len(c)
       /\ \A i \in 1 .. Len(a) + Len(c) : d[i] = IF i <= Len(a) THEN a[i] ELSE c[i - Len(a)]
  BY <1>7, <1>13, <1>14, ConcatProperties
<1>16. Len(d) = pos /\ d[pos] = v /\ \A i \in 1 .. pos - 1 : d[i] = s[i]
  BY <1>3, <1>8, <1>13, <1>15
<1>17. PICK u : u = d \o b
  OBVIOUS
<1>18. /\ u \in Seq(S) /\ Len(u) = Len(d) + Len(b)
       /\ \A i \in 1 .. Len(d) + Len(b) : u[i] = IF i <= Len(d) THEN d[i] ELSE b[i - Len(d)]
  <2>1. d \in Seq(S) /\ b \in Seq(S)
    BY <1>10, <1>15
  <2> QED
    BY <1>17, <2>1, ConcatProperties
<1>19. ASSUME NEW j \in 1 .. n + 1
       PROVE  u[j] = IF j < pos THEN s[j] ELSE IF j = pos THEN v ELSE s[j - 1]
  <2>1. u[j] = IF j <= pos THEN d[j] ELSE b[j - pos]
    BY <1>3, <1>11, <1>16, <1>18
  <2>2. CASE j <= pos
    BY <1>3, <1>16, <2>1, <2>2
  <2>3. CASE j > pos
    <3>1. j - pos \in 1 .. n - pos + 1 /\ pos + (j - pos) - 1 = j - 1
      BY <1>3, <2>3
    <3> QED
      BY <1>3, <1>10, <2>1, <2>3, <3>1
  <2> QED
    BY <1>3, <2>2, <2>3
<1>20. t = u
  BY <1>1, <1>4, <1>5, <1>12, <1>14, <1>17 DEF InsertAt
<1>21. Len(u) = n + 1
  BY <1>3, <1>11, <1>16, <1>18
<1> QED
  BY <1>1, <1>18, <1>19, <1>20, <1>21 DEF Inserted

LEMMA RemoveAtIs ==
    ASSUME NEW S, NEW s \in Seq(S), NEW pos \in 1 .. Len(s), NEW t, t = RemoveAt(s, pos)
    PROVE  /\ t \in Seq(S) /\ Len(t) = Len(s) - 1
           /\ \A j \in 1 .. Len(s) - 1 : t[j] = IF j < pos THEN s[j] ELSE s[j + 1]
<1>1. PICK n \in Nat : n = Len(s)
  BY LenProperties
<1>2. \A j \in 1 .. n : s[j] \in S
  BY <1>1, ElementOfSeq
<1>3. pos \in Nat /\ pos >= 1 /\ pos <= n /\ pos - 1 \in Int /\ pos + 1 \in Int /\ n \in Int
  BY <1>1
<1>4. PICK a : a = SubSeq(s, 1, pos - 1)
  OBVIOUS
<1>5. PICK b : b = SubSeq(s, pos + 1, n)
  OBVIOUS
<1>6. \A j \in 1 .. pos - 1 : s[j] \in S
  BY <1>2, <1>3
<1>7. /\ a \in Seq(S) /\ Len(a) = IF 1 <= pos - 1 THEN pos - 1 - 1 + 1 ELSE 0
      /\ \A i \in 1 .. pos - 1 - 1 + 1 : a[i] = s[1 + i - 1]
  BY <1>3, <1>4, <1>6, SubSeqProperties
<1>8. Len(a) = pos - 1 /\ \A i \in 1 .. pos - 1 : a[i] = s[i]
  BY <1>3, <1>7
<1>9. \A j \in pos + 1 .. n : s[j] \in S
  BY <1>2, <1>3
<1>10. /\ b \in Seq(S) /\ Len(b) = IF pos + 1 <= n THEN n - (pos + 1) + 1 ELSE 0
       /\ \A i \in 1 .. n - (pos + 1) + 1 : b[i] = s[pos + 1 + i - 1]
  BY <1>3, <1>5, <1>9, SubSeqProperties
<1>11. Len(b) = n - pos
  BY <1>3, <1>10
<1>12. PICK u : u = a \o b
  OBVIOUS
<1>13. /\ u \in Seq(S) /\ Len(u) = Len(a) + Len(b)
       /\ \A i \in 1 .. Len(a) + Len(b) : u[i] = IF i <= Len(a) THEN a[i] ELSE b[i - Len(a)]
  BY <1>7, <1>10, <1>12, ConcatProperties
<1>14. ASSUME NEW j \in 1 .. n - 1 PROVE u[j] = IF j < pos THEN s[j] ELSE s[j + 1]
  <2>1. u[j] = IF j <= pos - 1 THEN a[j] ELSE b[j - (pos - 1)]
    BY <1>3, <1>8, <1>11, <1>13
  <2>2. CASE j < pos
    BY <1>3, <1>8, <2>1, <2>2
  <2>3. CASE j >= pos
    <3>1. /\ j - (pos - 1) \in 1 .. n - (pos + 1) + 1
          /\ pos + 1 + (j - (pos - 1)) - 1 = j + 1 /\ ~ (j <= pos - 1)
      BY <1>3, <2>3
    <3> QED
      BY <1>10, <2>1, <2>3, <3>1
  <2> QED
    BY <1>3, <2>2, <2>3
<1>15. t = u
  BY <1>1, <1>4, <1>5, <1>12 DEF RemoveAt
<1>16. Len(u) = n - 1
  BY <1>3, <1>8, <1>11, <1>13
<1> QED
  BY <1>1, <1>13, <1>14, <1>15, <1>16

\* A step of the hash part.
LEMMA FieldsStep ==
    ASSUME StoreInv, hash' = hash, UNCHANGED items, NEW k \in Key, NEW v \in Value \cup {Nil},
           NEW buf, hash_buf' = buf, Lookup(buf, k) = v,
           \A x \in Key \ {k} : Lookup(buf, x) = Lookup(hash_buf, x)
    PROVE  Promise!Next
<1>1. \A x : Lookup(hash_buf, x)' = Lookup(buf, x)
  BY ProbePrime DEF Lookup
<1>2. [x \in Key |-> Lookup(hash_buf, x)]' = [x \in Key |-> IF x = k THEN v ELSE Lookup(hash_buf, x)]
  BY <1>1
<1>3. [x \in Key |-> Lookup(hash_buf, x)]'
        = [[x \in Key |-> Lookup(hash_buf, x)] EXCEPT ![k] = v]
  BY <1>2
<1>4. Promise!Assign(k, v)
  BY <1>3 DEF Promise!Assign
<1> QED
  BY <1>4 DEF Promise!Next

\* A step that changes no field.
LEMMA FieldsKept ==
    ASSUME hash' = hash, NEW buf, hash_buf' = buf,
           \A x \in Key : Lookup(buf, x) = Lookup(hash_buf, x)
    PROVE  [x \in Key |-> Lookup(hash_buf, x)]' = [x \in Key |-> Lookup(hash_buf, x)]
<1>1. \A x : Lookup(hash_buf, x)' = Lookup(buf, x)
  BY ProbePrime DEF Lookup
<1> QED
  BY <1>1

\* The elements as the program sees them.
LEMMA ItemsNow ==
    ASSUME StoreInv, NEW s, s = items
    PROVE  /\ s \in Seq(ArrayValue) /\ Len(s) = len /\ len \in Nat
           /\ ~Inserting => \A i \in 1 .. len : s[i] = array_buf[i]
           /\ Inserting => \A i \in 1 .. len :
                 s[i] = IF i < Last(pending).pos THEN array_buf[i] ELSE array_buf[i + 1]
<1>1. array_buf \in Seq(ArrayValue) /\ len \in Nat /\ len <= Len(array_buf)
  BY ArrayFun DEF StoreInv, ArrayInv
<1>2. CASE ~Inserting
  BY <1>1, <1>2, ItemsAre, ViewWhole
<1>3. CASE Inserting
  <2>1. Last(pending).pos \in 1 .. len + 1 /\ len + 1 <= Len(array_buf)
    BY <1>3 DEF StoreInv, PendingInv
  <2> QED
    BY <1>1, <1>3, <2>1, ItemsAre, ViewShifted
<1> QED
  BY <1>2, <1>3

\* The elements after a step.
LEMMA ItemsThen ==
    ASSUME StoreInv', NEW s, s = items'
    PROVE  /\ s \in Seq(ArrayValue) /\ Len(s) = len' /\ len' \in Nat
           /\ ~Inserting' => \A i \in 1 .. len' : s[i] = array_buf'[i]
           /\ Inserting' => \A i \in 1 .. len' :
                 s[i] = IF i < Last(pending').pos THEN array_buf'[i] ELSE array_buf'[i + 1]
<1>1. array_buf' \in Seq(ArrayValue) /\ len' \in Nat /\ len' <= Len(array_buf')
  BY LenProperties DEF StoreInv, ArrayInv
<1>2. CASE ~Inserting'
  BY <1>1, <1>2, ItemsAre, ViewWhole
<1>3. CASE Inserting'
  <2>1. Last(pending').pos \in 1 .. len' + 1 /\ len' + 1 <= Len(array_buf')
    BY <1>3 DEF StoreInv, PendingInv
  <2> QED
    BY <1>1, <1>3, <2>1, ItemsAre, ViewShifted
<1> QED
  BY <1>2, <1>3

\* The four operations on the array part, on the elements the program sees.
LEMMA AssignElemStep ==
    ASSUME StoreInv, StoreInv', NEW i \in 1 .. MaxLen, NEW v \in Elem \cup {Nil}, AssignElem(i, v)
    PROVE  Promise!AssignIndex(i, v) /\ i \in 1 .. Len(items')
<1>1. PICK s : s = items
  OBVIOUS
<1>2. PICK t : t = items'
  OBVIOUS
<1>3. PICK new : new = array_buf'
  OBVIOUS
<1>4. ~Inserting /\ ~Inserting' /\ ArrayInv /\ len' = IF i > len THEN i ELSE len
  BY DEF AssignElem, Runs, Inserting, StoreInv
<1>5. s \in Seq(ArrayValue) /\ Len(s) = len /\ \A j \in 1 .. len : s[j] = array_buf[j]
  BY <1>1, <1>4, ItemsNow
<1>6. t \in Seq(ArrayValue) /\ Len(t) = len' /\ \A j \in 1 .. len' : t[j] = new[j]
  BY <1>2, <1>3, <1>4, ItemsThen
<1>7. new = Assigned(i, v)
  BY <1>3 DEF AssignElem, Assigned
<1>8. /\ new[i] = v
      /\ \A j \in 1 .. len : j # i => new[j] = array_buf[j]
      /\ \A j \in len + 1 .. i - 1 : new[j] = Nil
  BY <1>4, <1>7, AssignElemIs
<1>9. PICK m \in Nat : m = len' /\ i \in 1 .. m /\ len \in Nat /\ i \in Nat /\ i >= 1
  BY <1>4, ArrayFun, TableStoreAssumption
<1>10. ASSUME NEW j \in 1 .. m
       PROVE  t[j] = IF j = i THEN v ELSE IF j <= len THEN s[j] ELSE Nil
  <2>1. t[j] = new[j]
    BY <1>6, <1>9
  <2>2. CASE j = i
    BY <1>8, <2>1, <2>2
  <2>3. CASE j # i /\ j <= len
    <3>1. j \in 1 .. len
      BY <1>9, <2>3
    <3> QED
      BY <1>5, <1>8, <2>1, <2>3, <3>1
  <2>4. CASE j # i /\ j > len
    <3>1. j \in len + 1 .. i - 1
      BY <1>4, <1>9, <2>4
    <3> QED
      BY <1>8, <1>9, <2>1, <2>4, <3>1
  <2> QED
    BY <1>9, <2>2, <2>3, <2>4
<1>11. t \in [1 .. m -> ArrayValue]
  BY <1>6, <1>9, LenProperties
<1>12. t = [j \in 1 .. m |-> IF j = i THEN v ELSE IF j <= len THEN s[j] ELSE Nil]
  BY <1>10, <1>11
<1>13. m = IF i > Len(s) THEN i ELSE Len(s)
  BY <1>4, <1>5, <1>9
<1>14. t = [j \in 1 .. IF i > Len(s) THEN i ELSE Len(s) |->
              IF j = i THEN v ELSE IF j <= Len(s) THEN s[j] ELSE Nil]
  BY <1>5, <1>12, <1>13
<1> QED
  BY <1>1, <1>2, <1>6, <1>9, <1>14 DEF Promise!AssignIndex

LEMMA InsertBeginsStep ==
    ASSUME StoreInv, StoreInv', NEW pos \in 1 .. len + 1, InsertBegins(pos)
    PROVE  UNCHANGED items
<1>1. PICK s : s = items
  OBVIOUS
<1>2. PICK t : t = items'
  OBVIOUS
<1>3. PICK new : new = array_buf'
  OBVIOUS
<1>4. ~Inserting /\ ArrayInv /\ len' = len /\ PendingInv
  BY DEF InsertBegins, Runs, Inserting, StoreInv
<1>5. pending' # <<>> /\ Last(pending').op = "insert" /\ Last(pending').pos = pos
  <2>1. PICK top : top = [op |-> "insert", pos |-> pos, len |-> len, cap |-> Len(array_buf')]
    OBVIOUS
  <2>2. pending' = Append(pending, top)
    BY <2>1 DEF InsertBegins
  <2>3. pending \in Seq(Waiting) /\ Len(pending) \in Nat
    BY <1>4, LenProperties DEF PendingInv
  <2>4. Len(array_buf') \in Nat /\ len \in Nat /\ pos \in Nat
    BY <1>4, ArrayFun, LenProperties DEF StoreInv, ArrayInv
  <2>5. top \in Waiting
    BY <2>1, <2>4 DEF Waiting
  <2>6. Len(pending') = Len(pending) + 1 /\ pending'[Len(pending) + 1] = top
    BY <2>2, <2>3, <2>5, AppendProperties
  <2>7. Last(pending') = top
    BY <2>6 DEF Last
  <2>8. pending' # <<>>
    BY <2>3, <2>6, EmptySeq
  <2> QED
    BY <2>1, <2>7, <2>8
<1>6. Inserting'
  BY <1>5 DEF Inserting
<1>7. /\ s \in Seq(ArrayValue) /\ Len(s) = len /\ len \in Nat
      /\ \A j \in 1 .. len : s[j] = array_buf[j]
  BY <1>1, <1>4, ItemsNow
<1>8. /\ t \in Seq(ArrayValue) /\ Len(t) = len
      /\ \A j \in 1 .. len : t[j] = IF j < pos THEN new[j] ELSE new[j + 1]
  BY <1>2, <1>3, <1>4, <1>5, <1>6, ItemsThen
<1>9. PICK buf : buf = Enlarged(len + 1)
  OBVIOUS
<1>10. new = Opened(buf, pos)
  BY <1>3, <1>9 DEF InsertBegins, Opened
<1>11. \A j \in 1 .. len + 1 :
          /\ j < pos => new[j] = array_buf[j]
          /\ j > pos => new[j] = array_buf[j - 1]
  BY <1>4, <1>9, <1>10, InsertBeginsIs
<1>12. ASSUME NEW j \in 1 .. len PROVE t[j] = s[j]
  <2>1. j \in 1 .. len + 1 /\ j + 1 \in 1 .. len + 1 /\ j + 1 - 1 = j /\ pos \in Nat
    BY <1>7
  <2>2. CASE j < pos
    <3>1. new[j] = array_buf[j]
      BY <1>11, <2>1, <2>2
    <3> QED
      BY <1>7, <1>8, <2>2, <3>1
  <2>3. CASE j >= pos
    <3>1. j + 1 > pos /\ ~ (j < pos)
      BY <2>1, <2>3
    <3>2. new[j + 1] = array_buf[j]
      BY <1>11, <2>1, <3>1
    <3> QED
      BY <1>7, <1>8, <3>1, <3>2
  <2> QED
    BY <2>1, <2>2, <2>3
<1>13. t = s
  BY <1>7, <1>8, <1>12, SeqEqual
<1> QED
  BY <1>1, <1>2, <1>13

LEMMA InsertReturnsStep ==
    ASSUME StoreInv, StoreInv', NEW v \in Elem \cup {Nil}, InsertReturns(v)
    PROVE  \E pos \in 1 .. Len(items) + 1 : items' = InsertAt(items, pos, v)
<1>1. PICK s : s = items
  OBVIOUS
<1>2. PICK t : t = items'
  OBVIOUS
<1>3. PICK new : new = array_buf'
  OBVIOUS
<1>4. PICK pos : pos = Last(pending).pos
  OBVIOUS
<1>5. /\ Inserting /\ ArrayInv /\ PendingInv /\ pending # <<>> /\ pending' = Front(pending)
  BY DEF InsertReturns, Inserting, StoreInv
<1>6. ~Inserting'
  BY <1>5, PendingPop
<1>7. /\ Last(pending).len = len /\ Last(pending).cap = Len(array_buf)
      /\ pos \in 1 .. len + 1 /\ len + 1 <= Len(array_buf)
  BY <1>4, <1>5 DEF PendingInv
<1>8. new = [array_buf EXCEPT ![pos] = v] /\ len' = len + 1
  BY <1>3, <1>4, <1>7 DEF InsertReturns
<1>9. /\ s \in Seq(ArrayValue) /\ Len(s) = len /\ len \in Nat
      /\ \A j \in 1 .. len : s[j] = IF j < pos THEN array_buf[j] ELSE array_buf[j + 1]
  BY <1>1, <1>4, <1>5, ItemsNow
<1>10. /\ t \in Seq(ArrayValue) /\ Len(t) = len + 1
       /\ \A j \in 1 .. len + 1 : t[j] = new[j]
  BY <1>2, <1>3, <1>6, <1>8, ItemsThen
<1>11. PICK m \in Nat : m = Len(array_buf) /\ array_buf \in [1 .. m -> ArrayValue] /\ len + 1 <= m
  BY <1>5, <1>7, ArrayFun
<1>12. \A j \in 1 .. len + 1 : new[j] = IF j = pos THEN v ELSE array_buf[j]
  BY <1>7, <1>8, <1>9, <1>11
<1>13. PICK u : u = InsertAt(s, pos, v)
  OBVIOUS
<1>14. v \in ArrayValue /\ pos \in 1 .. Len(s) + 1
  BY <1>7, <1>9 DEF ArrayValue
<1>15. /\ u \in Seq(ArrayValue) /\ Len(u) = Len(s) + 1
       /\ \A j \in 1 .. Len(s) + 1 :
             u[j] = IF j < pos THEN s[j] ELSE IF j = pos THEN v ELSE s[j - 1]
  <2>1. s \in Seq(ArrayValue)
    BY <1>9
  <2>2. Inserted(ArrayValue, s, pos, v, u)
    BY <1>13, <1>14, <2>1, InsertAtIs
  <2> QED
    BY <2>2 DEF Inserted
<1>16. ASSUME NEW j \in 1 .. len + 1 PROVE t[j] = u[j]
  <2>1. t[j] = IF j = pos THEN v ELSE array_buf[j]
    BY <1>10, <1>12
  <2>2. u[j] = IF j < pos THEN s[j] ELSE IF j = pos THEN v ELSE s[j - 1]
    BY <1>9, <1>15
  <2>3. pos \in Nat /\ pos >= 1 /\ pos <= len + 1
    BY <1>7, <1>9
  <2>4. CASE j < pos
    <3>1. j \in 1 .. len
      BY <1>9, <2>3, <2>4
    <3> QED
      BY <1>9, <2>1, <2>2, <2>3, <2>4, <3>1
  <2>5. CASE j = pos
    BY <2>1, <2>2, <2>3, <2>5
  <2>6. CASE j > pos
    <3>1. j - 1 \in 1 .. len /\ ~ (j - 1 < pos) /\ j - 1 + 1 = j /\ ~ (j < pos) /\ j # pos
      BY <1>9, <2>3, <2>6
    <3> QED
      BY <1>9, <2>1, <2>2, <3>1
  <2> QED
    BY <2>3, <2>4, <2>5, <2>6
<1>17. t = u
  BY <1>9, <1>10, <1>15, <1>16, SeqEqual
<1> QED
  BY <1>1, <1>2, <1>13, <1>14, <1>17

LEMMA RemoveElemStep ==
    ASSUME StoreInv, StoreInv', NEW pos \in 1 .. len, RemoveElem(pos)
    PROVE  pos \in 1 .. Len(items) /\ items' = RemoveAt(items, pos)
<1>1. PICK s : s = items
  OBVIOUS
<1>2. PICK t : t = items'
  OBVIOUS
<1>3. PICK new : new = array_buf'
  OBVIOUS
<1>4. ~Inserting /\ ~Inserting' /\ ArrayInv /\ len' = len - 1
  BY DEF RemoveElem, Runs, Inserting, StoreInv
<1>5. /\ s \in Seq(ArrayValue) /\ Len(s) = len /\ len \in Nat
      /\ \A j \in 1 .. len : s[j] = array_buf[j]
  BY <1>1, <1>4, ItemsNow
<1>6. /\ t \in Seq(ArrayValue) /\ Len(t) = len - 1
      /\ \A j \in 1 .. len - 1 : t[j] = new[j]
  BY <1>2, <1>3, <1>4, ItemsThen
<1>7. new = [i \in DOMAIN array_buf |->
               IF i >= pos /\ i < len THEN array_buf[i + 1] ELSE array_buf[i]]
  BY <1>3 DEF RemoveElem
<1>8. \A j \in 1 .. len - 1 :
         /\ j < pos => new[j] = array_buf[j]
         /\ j >= pos => new[j] = array_buf[j + 1]
  BY <1>4, <1>7, RemoveElemIs
<1>9. PICK u : u = RemoveAt(s, pos)
  OBVIOUS
<1>10. pos \in 1 .. Len(s)
  BY <1>5
<1>11. /\ u \in Seq(ArrayValue) /\ Len(u) = Len(s) - 1
       /\ \A j \in 1 .. Len(s) - 1 : u[j] = IF j < pos THEN s[j] ELSE s[j + 1]
  BY <1>5, <1>9, <1>10, RemoveAtIs
<1>12. ASSUME NEW j \in 1 .. len - 1 PROVE t[j] = u[j]
  <2>1. j \in 1 .. len /\ j + 1 \in 1 .. len /\ (j < pos \/ (j >= pos /\ ~ (j < pos)))
    BY <1>5
  <2>2. t[j] = new[j] /\ u[j] = IF j < pos THEN s[j] ELSE s[j + 1]
    BY <1>5, <1>6, <1>11
  <2>3. s[j] = array_buf[j] /\ s[j + 1] = array_buf[j + 1]
    BY <1>5, <2>1
  <2>4. CASE j < pos
    BY <1>8, <2>2, <2>3, <2>4
  <2>5. CASE j >= pos /\ ~ (j < pos)
    BY <1>8, <2>2, <2>3, <2>5
  <2> QED
    BY <2>1, <2>4, <2>5
<1>13. t = u
  BY <1>5, <1>6, <1>11, <1>12, SeqEqual
<1> QED
  BY <1>1, <1>2, <1>9, <1>10, <1>13

\* Elements are what array_buf, len and the callbacks say.
LEMMA ItemsKept ==
    ASSUME UNCHANGED <<len, array_buf, pending>>
    PROVE  UNCHANGED items
BY DEF items, Last

LEMMA PromiseInit == Init => Promise!Init
<1> SUFFICES ASSUME Init PROVE Promise!Init
  OBVIOUS
<1>1. [k \in Key |-> Lookup(hash_buf, k)] = [k \in Key |-> Nil]
  BY DEF Init, Lookup
<1>2. items = <<>>
  <2>1. StoreInv /\ len = 0
    BY StoreInit DEF Init
  <2>2. PICK s : s = items
    OBVIOUS
  <2>3. s \in Seq(ArrayValue) /\ Len(s) = 0
    BY <2>1, <2>2, ItemsNow
  <2>4. s = <<>>
    BY <2>3, EmptySeq
  <2> QED
    BY <2>2, <2>4
<1> QED
  BY <1>1, <1>2 DEF Promise!Init

LEMMA PromiseNext == StoreInv /\ [Next]_vars => [Promise!Next]_(Promise!vars)
<1> SUFFICES ASSUME StoreInv, [Next]_vars PROVE [Promise!Next]_(Promise!vars)
  OBVIOUS
<1>1. StoreInv'
  BY StoreNext
<1>2. HashOK /\ (hash_buf # Null => BufInv(hash_buf))
  BY StoreImplies DEF StoreInv
<1>3. PICK grown : grown = Grown
  OBVIOUS
<1>4. \A k \in Key : Lookup(grown, k) = Lookup(hash_buf, k)
  BY <1>2, <1>3, GrownInv
<1>5. ASSUME UNCHANGED <<hash, hash_buf>>
      PROVE  UNCHANGED [x \in Key |-> Lookup(hash_buf, x)]
  BY <1>5, FieldsKept
<1>6. ASSUME NEW k \in Key, NEW v \in Value \cup {Nil}, AssignField(k, v) PROVE Promise!Next
  <2>1. /\ UNCHANGED <<hash, len, array_buf, pending>>
        /\ Overwrite(k, v) \/ Add(k, v)
    BY <1>6 DEF AssignField, Overwrite, Add
  <2>2. PICK buf : buf = hash_buf'
    OBVIOUS
  <2>3. Lookup(buf, k) = v /\ \A x \in Key \ {k} : Lookup(buf, x) = Lookup(grown, x)
    BY <1>3, <2>1, <2>2, FieldBuf DEF Entered
  <2> QED
    BY <1>4, <2>1, <2>2, <2>3, ItemsKept, FieldsStep
<1>7. ASSUME NEW k \in Key, EraseField(k) PROVE Promise!Next
  <2>1. UNCHANGED <<hash, len, array_buf, pending>>
    BY <1>7 DEF EraseField
  <2>2. PICK buf : buf = hash_buf'
    OBVIOUS
  <2>3. PICK p : p = Probe(grown, k)
    OBVIOUS
  <2>4. /\ BufInv(grown) /\ k # Nil
        /\ \/ buf = grown /\ grown.key[p] = Nil
           \/ Entered(grown, buf, k, Nil)
    BY <1>3, <1>7, <2>2, <2>3, FieldBuf, TableStoreAssumption
  <2>5. Lookup(buf, k) = Nil /\ \A x \in Key \ {k} : Lookup(buf, x) = Lookup(grown, x)
    <3>1. CASE buf = grown /\ grown.key[p] = Nil
      BY <2>3, <2>4, <3>1 DEF Lookup
    <3>2. CASE Entered(grown, buf, k, Nil)
      BY <3>2 DEF Entered
    <3> QED
      BY <2>4, <3>1, <3>2
  <2> QED
    BY <1>4, <2>1, <2>2, <2>5, ItemsKept, FieldsStep
<1>8. ASSUME NEW k \in Key, CallNewindex(k)
      PROVE  UNCHANGED <<[x \in Key |-> Lookup(hash_buf, x)], items>>
  <2>1. hash' = hash /\ hash_buf' = grown /\ UNCHANGED <<len, array_buf>> /\ ~Inserting
    BY <1>3, <1>8 DEF CallNewindex, Runs, Inserting
  <2>2. UNCHANGED [x \in Key |-> Lookup(hash_buf, x)]
    BY <1>4, <2>1, FieldsKept
  <2>3. ~Inserting'
    <3>1. PICK top : top = [op |-> "newindex", key |-> k, bucket |-> Probe(grown, k)]
      OBVIOUS
    <3>2. pending' = Append(pending, top) /\ Runs /\ Len(pending) < MaxDepth
      BY <1>3, <1>8, <3>1 DEF CallNewindex
    <3>3. Probe(grown, k) \in Nat
      BY <1>3, FieldBuf DEF Bucket
    <3>4. top \in Waiting /\ top.op = "newindex"
      BY <3>1, <3>3 DEF Waiting
    <3>5. Last(pending') = top
      BY <3>2, <3>4, PendingPush DEF StoreInv
    <3> QED
      BY <3>4, <3>5 DEF Inserting
  <2>4. UNCHANGED items
    BY <2>1, <2>3, ItemsAre
  <2> QED
    BY <2>2, <2>4
<1>9. CASE NewindexReturns
  <2>1. /\ UNCHANGED <<hash, hash_buf, len, array_buf>> /\ ~Inserting
        /\ pending # <<>> /\ pending' = Front(pending) /\ PendingInv
    BY <1>9 DEF NewindexReturns, table, Inserting, StoreInv
  <2>2. ~Inserting'
    BY <2>1, PendingPop
  <2>3. UNCHANGED items
    BY <2>1, <2>2, ItemsAre
  <2> QED
    BY <1>5, <2>1, <2>3 DEF Promise!vars
<1>10. ASSUME NEW i \in 1 .. MaxLen, NEW v \in Elem \cup {Nil}, AssignElem(i, v) PROVE Promise!Next
  <2>1. UNCHANGED [x \in Key |-> Lookup(hash_buf, x)]
    BY <1>5, <1>10 DEF AssignElem
  <2>2. Promise!AssignIndex(i, v) /\ i \in 1 .. Len(items')
    BY <1>1, <1>10, AssignElemStep
  <2> QED
    BY <2>1, <2>2 DEF Promise!Next
<1>11. ASSUME NEW pos \in 1 .. len + 1, InsertBegins(pos)
       PROVE  UNCHANGED <<[x \in Key |-> Lookup(hash_buf, x)], items>>
  <2>1. UNCHANGED [x \in Key |-> Lookup(hash_buf, x)]
    BY <1>5, <1>11 DEF InsertBegins
  <2> QED
    BY <1>1, <1>11, <2>1, InsertBeginsStep
<1>12. ASSUME NEW v \in Elem \cup {Nil}, InsertReturns(v) PROVE Promise!Next
  <2>1. UNCHANGED [x \in Key |-> Lookup(hash_buf, x)]
    BY <1>5, <1>12 DEF InsertReturns
  <2>2. \E pos \in 1 .. Len(items) + 1 : Promise!InsertItem(pos, v)
    BY <1>1, <1>12, InsertReturnsStep DEF Promise!InsertItem, Promise!InsertAt, InsertAt
  <2> QED
    BY <2>1, <2>2 DEF Promise!Next
<1>13. ASSUME NEW pos \in 1 .. len, RemoveElem(pos) PROVE Promise!Next
  <2>1. UNCHANGED [x \in Key |-> Lookup(hash_buf, x)]
    BY <1>5, <1>13 DEF RemoveElem
  <2>2. pos \in 1 .. Len(items) /\ Promise!RemoveItem(pos)
    BY <1>1, <1>13, RemoveElemStep DEF Promise!RemoveItem, Promise!RemoveAt, RemoveAt
  <2> QED
    BY <2>1, <2>2 DEF Promise!Next
<1>14. CASE Traverse \/ Advance \/ Leave \/ UNCHANGED vars
  <2>1. UNCHANGED <<hash, hash_buf, len, array_buf, pending>>
    BY <1>14 DEF Traverse, Advance, Leave, vars, table
  <2> QED
    BY <1>5, <2>1, ItemsKept DEF Promise!vars
<1> QED
  BY <1>6, <1>7, <1>8, <1>9, <1>10, <1>11, <1>12, <1>13, <1>14 DEF Next, Promise!vars

\* The open-addressing hash part and the growable array part are a map from keys
\* to values and a list of elements, whatever is erased, rehashed, shifted or
\* done by a callback in the middle of an assignment.
THEOREM StoreIsTable == Spec => ImplementsLuaTable
BY PromiseInit, PromiseNext, StoreAlways, PTL DEF Spec, ImplementsLuaTable, Promise!Spec

-----------------------------------------------------------------------------
(* A loop yields every entry that stays, once.                             *)

\* What EntryIs says of an entry.
EntryShape(p) ==
    /\ p \in Nat /\ p >= 1 /\ len \in Nat
    /\ \/ p \in 1 .. len /\ KeyAt(p) = p
       \/ /\ p > len /\ KeyAt(p) \in Key /\ hash_buf # Null
          /\ p = len + 1 + Probe(hash_buf, KeyAt(p))
          /\ Probe(hash_buf, KeyAt(p)) \in Live(hash_buf) /\ Probe(hash_buf, KeyAt(p)) \in Nat
          /\ hash_buf.key[Probe(hash_buf, KeyAt(p))] = KeyAt(p)

LEMMA EntryShapes == StoreInv => \A p \in Entries : EntryShape(p)
BY EntryIs DEF EntryShape

LEMMA EntryShapesThen == StoreInv' => \A p \in Entries' : EntryShape(p)'
<1>1. (StoreInv => \A p \in Entries : EntryShape(p))'
  BY EntryShapes, PTL
<1> QED
  BY <1>1

\* One entry for each key.
LEMMA KeyOnce ==
    ASSUME StoreInv, NEW p \in Entries, NEW q \in Entries, KeyAt(p) = KeyAt(q)
    PROVE  p = q
<1>1. EntryShape(p) /\ EntryShape(q) /\ Key \cap Nat = {}
  BY EntryShapes, TableStoreAssumption
<1>2. CASE p \in 1 .. len /\ KeyAt(p) = p
  BY <1>1, <1>2 DEF EntryShape
<1>3. CASE q \in 1 .. len /\ KeyAt(q) = q
  BY <1>1, <1>3 DEF EntryShape
<1>4. CASE /\ p = len + 1 + Probe(hash_buf, KeyAt(p))
           /\ q = len + 1 + Probe(hash_buf, KeyAt(q))
  BY <1>4
<1> QED
  BY <1>1, <1>2, <1>3, <1>4 DEF EntryShape

\* One place to resume at.
LEMMA ResumeOnce ==
    ASSUME StoreInv, NEW prev, NEW r \in ResumeAt(prev), NEW s \in ResumeAt(prev)
    PROVE  r = s
<1>1. CASE prev = Nil
  BY <1>1 DEF ResumeAt
<1>2. CASE prev # Nil
  <2>1. ASSUME NEW t \in ResumeAt(prev), prev \in Nat PROVE t = prev
    <3>1. t = prev \/ (t \in Entries /\ KeyAt(t) = prev)
      BY <1>2 DEF ResumeAt
    <3> QED
      BY <2>1, <3>1, EntryShapes, TableStoreAssumption DEF EntryShape
  <2>2. len \in Nat
    BY ArrayFun DEF StoreInv
  <2>3. ASSUME NEW t \in ResumeAt(prev), prev \notin Nat PROVE t \in Entries /\ KeyAt(t) = prev
    BY <1>2, <2>2, <2>3 DEF ResumeAt
  <2>4. CASE prev \in Nat
    BY <2>1, <2>4
  <2>5. CASE prev \notin Nat
    BY <2>3, <2>5, KeyOnce
  <2> QED
    BY <2>4, <2>5
<1> QED
  BY <1>1, <1>2

Keys == {KeyAt(p) : p \in Entries}

\* r parts what the loop has yielded from what it owes.
Parts(r) ==
    /\ r \in ResumeAt(trav.prev) /\ r \in Nat
    /\ \A p \in Entries : /\ KeyAt(p) \in trav.seen => p <= r
                          /\ KeyAt(p) \in trav.owed => p > r

TravInv ==
    trav.on /\ trav.followed /\ ~Inserting =>
        trav.seen \subseteq Keys /\ trav.owed \subseteq Keys /\ \E r : Parts(r)

\* A step of the loop, from a state that keeps to the invariant.
LEMMA AdvanceExact ==
    ASSUME StoreInv, TravInv, Advance, trav.followed
    PROVE  Yields /\ TravInv'
<1>1. trav.on /\ ~Inserting
  BY DEF Advance, Runs, Inserting
<1>2. trav.seen \subseteq Keys /\ trav.owed \subseteq Keys
  BY <1>1 DEF TravInv
<1>3. PICK r : Parts(r)
  BY <1>1 DEF TravInv
<1>4. r \in Nat /\ \A p \in Entries : /\ KeyAt(p) \in trav.seen => p <= r
                                      /\ KeyAt(p) \in trav.owed => p > r
  BY <1>3 DEF Parts
<1>5. PICK after : after = NextEntry(trav.prev)
  OBVIOUS
<1>6. \A p : p \in after <=> p \in Entries /\ p > r
  BY <1>3, <1>5, ResumeOnce DEF NextEntry, Parts
<1>7. PICK m : m = Min(after)
  OBVIOUS
<1>8. PICK k : k = KeyAt(m)
  OBVIOUS
<1>9. /\ trav' = IF after = {} THEN Idle ELSE Loop(k, trav.seen \cup {k}, trav.owed \ {k})
      /\ UNCHANGED <<hash, table, pending>>
  BY <1>5, <1>7, <1>8 DEF Advance
<1>10. CASE after = {}
  <2>1. trav' = Idle /\ ~trav'.on
    BY <1>9, <1>10 DEF Idle
  <2>2. trav.owed = {}
    BY <1>2, <1>4, <1>6, <1>10 DEF Keys
  <2> QED
    BY <2>1, <2>2 DEF Yields, TravInv
<1>11. CASE after # {}
  <2>1. \A p \in Entries : p \in Nat
    BY EntryShapes DEF EntryShape
  <2>2. m \in after /\ \A p \in after : m <= p
    <3>1. after \subseteq Nat
      BY <1>6, <2>1
    <3> QED
      BY <1>7, <1>11, <3>1, MinIs
  <2>3. m \in Entries /\ m > r /\ m \in Nat
    BY <1>6, <2>1, <2>2
  <2>4. k \notin trav.seen
    BY <1>4, <1>8, <2>3
  <2>5. trav' = Loop(k, trav.seen \cup {k}, trav.owed \ {k})
    BY <1>9, <1>11
  <2>6. /\ trav'.on /\ trav'.prev = k /\ trav'.seen = trav.seen \cup {k}
        /\ trav'.owed = trav.owed \ {k}
    BY <2>5 DEF Loop
  <2>7. Yields
    BY <2>4, <2>6 DEF Yields
  <2>8. /\ Entries' = Entries /\ \A p : KeyAt(p)' = KeyAt(p)
        /\ Inserting' = Inserting /\ len' = len
    BY <1>9 DEF table, Entries, KeyAt, Live, Bucket, Inserting, Last
  <2>9. Keys' = Keys
    BY <2>8 DEF Keys
  <2>10. trav'.seen \subseteq Keys' /\ trav'.owed \subseteq Keys'
    BY <1>2, <1>8, <2>3, <2>6, <2>9 DEF Keys
  <2>11. k # Nil
    BY <1>8, <2>3, EntryShapes, TableStoreAssumption DEF EntryShape
  <2>12. m \in ResumeAt(trav.prev)'
    BY <1>8, <2>3, <2>6, <2>8, <2>11 DEF ResumeAt
  <2>13. ASSUME NEW p \in Entries
         PROVE  /\ KeyAt(p) \in trav.seen \cup {k} => p <= m
                /\ KeyAt(p) \in trav.owed \ {k} => p > m
    <3>1. p \in Nat
      BY <2>1
    <3>2. KeyAt(p) \in trav.seen => p <= m
      BY <1>4, <2>3, <3>1
    <3>3. KeyAt(p) = k => p = m
      BY <1>8, <2>3, KeyOnce
    <3>4. KeyAt(p) \in trav.owed /\ KeyAt(p) # k => p > m
      <4>1. SUFFICES ASSUME KeyAt(p) \in trav.owed, KeyAt(p) # k PROVE p > m
        OBVIOUS
      <4>2. p \in after /\ p # m
        BY <1>4, <1>6, <1>8, <4>1
      <4> QED
        BY <2>2, <2>3, <3>1, <4>2
    <3> QED
      BY <2>3, <3>2, <3>3, <3>4
  <2>14. Parts(m)'
    BY <2>3, <2>6, <2>8, <2>12, <2>13 DEF Parts
  <2> QED
    BY <2>7, <2>10, <2>14 DEF TravInv
<1> QED
  BY <1>10, <1>11

\* Where an entry goes when the array part grows: the buckets come after it.
Pushed(q) == IF q <= len THEN q ELSE q + (len' - len)

SamePlaces ==
    \A p \in Entries' : \A q \in Entries : KeyAt(p)' = KeyAt(q) => p = Pushed(q)

\* An assignment the loop watches keeps what was yielded before what is owed,
\* as long as entries keep their places.
LEMMA WatchExact ==
    ASSUME StoreInv, StoreInv', TravInv, Watch, ~Inserting, len' >= len, SamePlaces
    PROVE  TravInv'
<1>1. PICK keys : keys = {KeyAt(p)' : p \in Entries'}
  OBVIOUS
<1>2. PICK present : present = Present'
  OBVIOUS
<1>3. \/ trav' \in {Idle, Lost}
      \/ /\ trav.on /\ trav.followed /\ trav.prev \in {Nil} \cup keys \cup 1 .. len'
         /\ trav' = Loop(trav.prev, trav.seen \cap keys, trav.owed \cap present)
  BY <1>1, <1>2 DEF Watch
<1>4. CASE trav' \in {Idle, Lost}
  BY <1>4 DEF Idle, Lost, TravInv
<1>5. CASE /\ trav.on /\ trav.followed /\ trav.prev \in {Nil} \cup keys \cup 1 .. len'
           /\ trav' = Loop(trav.prev, trav.seen \cap keys, trav.owed \cap present)
  <2>1. trav.seen \subseteq Keys /\ trav.owed \subseteq Keys
    BY <1>5 DEF TravInv
  <2>2. PICK r : Parts(r)
    BY <1>5 DEF TravInv
  <2>3. r \in Nat /\ r \in ResumeAt(trav.prev) /\ len \in Nat /\ len' \in Nat
    BY <2>2, ArrayFun, LenProperties DEF Parts, StoreInv, ArrayInv
  <2>4. \A p \in Entries : p \in Nat
    BY EntryShapes DEF EntryShape
  <2>5. \A p \in Entries' : EntryShape(p)'
    BY EntryShapesThen
  <2>6. trav'.prev = trav.prev /\ trav'.seen = trav.seen \cap keys /\ trav'.owed = trav.owed \cap present
    BY <1>5 DEF Loop
  <2>7. present \subseteq keys /\ keys = Keys'
    BY <1>1, <1>2 DEF Present, Keys
  <2>8. trav'.seen \subseteq Keys' /\ trav'.owed \subseteq Keys'
    BY <2>6, <2>7
  <2>9. PICK s : s = Pushed(r)
    OBVIOUS
  <2>14. \E d \in Nat : len' = len + d
    <3>1. PICK a \in Nat : a = len
      BY <2>3
    <3>2. PICK b \in Nat : b = len'
      BY <2>3
    <3>3. b >= a
      BY <3>1, <3>2
    <3>4. b - a \in Nat /\ b = a + (b - a)
      BY <3>3
    <3> QED
      BY <3>1, <3>2, <3>4
  <2>10. s \in Nat
    <3>1. PICK d \in Nat : len' = len + d
      BY <2>14
    <3>2. s = IF r <= len THEN r ELSE r + d
      BY <2>3, <2>9, <3>1 DEF Pushed
    <3> QED
      BY <2>3, <3>2
  <2>11. s \in ResumeAt(trav.prev)'
    <3>1. CASE trav.prev = Nil
      <4>1. r = 0
        BY <2>3, <3>1 DEF ResumeAt
      <4>2. s = 0
        BY <2>3, <2>9, <4>1 DEF Pushed
      <4> QED
        BY <2>6, <3>1, <4>2 DEF ResumeAt
    <3>2. CASE trav.prev # Nil /\ r \in 1 .. len /\ r = trav.prev
      <4>1. s = r /\ r \in 1 .. len'
        BY <2>3, <2>9, <3>2 DEF Pushed
      <4> QED
        BY <2>6, <3>2, <4>1 DEF ResumeAt
    <3>3. CASE trav.prev # Nil /\ r \in Entries /\ KeyAt(r) = trav.prev /\ r \notin 1 .. len
      <4>1. trav.prev \in Key /\ trav.prev \notin Nat
        BY <3>3, EntryShapes, TableStoreAssumption DEF EntryShape
      <4>2. trav.prev \in keys
        BY <1>5, <2>3, <3>3, <4>1
      <4>3. PICK p \in Entries' : KeyAt(p)' = trav.prev
        BY <1>1, <4>2
      <4>4. p = s
        BY <2>9, <3>3, <4>3 DEF SamePlaces
      <4> QED
        BY <2>6, <3>3, <4>3, <4>4 DEF ResumeAt
    <3>4. CASE trav.prev # Nil /\ r \in Entries /\ KeyAt(r) = trav.prev /\ r \in 1 .. len
      <4>1. r = trav.prev
        BY <2>3, <3>4 DEF KeyAt
      <4> QED
        BY <3>2, <3>4, <4>1
    <3> QED
      BY <2>3, <3>1, <3>2, <3>3, <3>4 DEF ResumeAt
  <2>12. ASSUME NEW p \in Entries'
         PROVE  /\ KeyAt(p)' \in trav'.seen => p <= s
                /\ KeyAt(p)' \in trav'.owed => p > s
    <3>1. ASSUME NEW q \in Entries, KeyAt(p)' = KeyAt(q)
          PROVE  /\ p = Pushed(q) /\ q \in Nat
                 /\ q <= r => p <= s
                 /\ q > r => p > s
      <4>1. p = Pushed(q) /\ q \in Nat
        BY <2>4, <3>1 DEF SamePlaces
      <4>2. PICK d \in Nat : len' = len + d
        BY <2>14
      <4>3. p = (IF q <= len THEN q ELSE q + d) /\ s = (IF r <= len THEN r ELSE r + d)
        BY <2>3, <2>9, <4>1, <4>2 DEF Pushed
      <4> QED
        BY <2>3, <4>1, <4>3
    <3>2. CASE KeyAt(p)' \in trav'.seen
      <4>1. KeyAt(p)' \in trav.seen
        BY <2>6, <3>2
      <4>2. PICK q \in Entries : KeyAt(p)' = KeyAt(q)
        BY <2>1, <4>1 DEF Keys
      <4>3. q <= r
        BY <2>2, <4>1, <4>2 DEF Parts
      <4>4. p <= s /\ ~ (q > r)
        BY <2>3, <2>4, <3>1, <4>2, <4>3
      <4>5. KeyAt(p)' \notin trav.owed
        BY <2>2, <4>2, <4>4 DEF Parts
      <4> QED
        BY <2>6, <4>4, <4>5
    <3>3. CASE KeyAt(p)' \notin trav'.seen
      <4>1. SUFFICES ASSUME KeyAt(p)' \in trav'.owed PROVE p > s
        BY <3>3
      <4>2. KeyAt(p)' \in trav.owed
        BY <2>6, <4>1
      <4>3. PICK q \in Entries : KeyAt(p)' = KeyAt(q)
        BY <2>1, <4>2 DEF Keys
      <4>4. q > r
        BY <2>2, <4>2, <4>3 DEF Parts
      <4> QED
        BY <3>1, <4>3, <4>4
    <3> QED
      BY <3>2, <3>3
  <2>13. Parts(s)'
    BY <2>6, <2>10, <2>11, <2>12 DEF Parts
  <2> QED
    BY <2>8, <2>13 DEF TravInv
<1> QED
  BY <1>3, <1>4, <1>5

\* A key in the buckets of two buffers is in the same one of both.
SameBuckets(new, old) ==
    \A b \in Live(new), c \in Live(old) : new.key[b] = old.key[c] => b = c

LEMMA BucketsPlace ==
    ASSUME StoreInv, StoreInv', hash' = hash, NEW new, hash_buf' = new,
           SameBuckets(new, hash_buf), len' >= len
    PROVE  SamePlaces
<1> SUFFICES ASSUME NEW p \in Entries', NEW q \in Entries, KeyAt(p)' = KeyAt(q)
             PROVE  p = Pushed(q)
  BY DEF SamePlaces
<1>1. EntryShape(p)' /\ EntryShape(q) /\ Key \cap Nat = {}
  BY EntryShapesThen, EntryShapes, TableStoreAssumption
<1>2. len \in Nat /\ len' \in Nat
  BY <1>1 DEF EntryShape
<1>3. CASE q \in 1 .. len /\ KeyAt(q) = q
  <2>1. KeyAt(p)' = q /\ q \notin Key
    BY <1>1, <1>3
  <2>2. p = KeyAt(p)'
    BY <1>1, <2>1 DEF EntryShape
  <2> QED
    BY <1>2, <1>3, <2>1, <2>2 DEF Pushed
<1>4. CASE q > len /\ KeyAt(q) \in Key
  <2>1. PICK c : c = Probe(hash_buf, KeyAt(q))
    OBVIOUS
  <2>2. c \in Live(hash_buf) /\ c \in Nat /\ q = len + 1 + c /\ hash_buf.key[c] = KeyAt(q)
    BY <1>1, <1>2, <1>4, <2>1 DEF EntryShape
  <2>3. PICK b : b = Probe(hash_buf, KeyAt(p))'
    OBVIOUS
  <2>4. b \in Live(hash_buf)' /\ b \in Nat /\ p = len' + 1 + b /\ hash_buf'.key[b] = KeyAt(p)'
    BY <1>1, <1>2, <1>4, <2>3 DEF EntryShape
  <2>5. b \in Live(new)
    BY <2>4 DEF Live, Bucket
  <2>6. b = c
    BY <2>2, <2>4, <2>5 DEF SameBuckets
  <2>7. PICK l \in Nat, m \in Nat : l = len /\ m = len'
    BY <1>2
  <2>8. p = m + 1 + c /\ q = l + 1 + c /\ p = q + (m - l) /\ ~ (q <= l)
    BY <2>2, <2>4, <2>6, <2>7
  <2> QED
    BY <2>7, <2>8 DEF Pushed
<1> QED
  BY <1>1, <1>3, <1>4 DEF EntryShape

\* An entry stored or erased leaves the others where they are.
LEMMA PlacedSame ==
    ASSUME NEW buf, BufInv(buf), NEW new, BufInv(new), NEW k \in Key, NEW p, NEW new_k,
           Placed(buf, new, p, new_k), buf.key[p] \in {Nil, k}, new_k \in {k, Deleted}
    PROVE  SameBuckets(new, buf)
<1> SUFFICES ASSUME NEW b \in Live(new), NEW c \in Live(buf), new.key[b] = buf.key[c], b # c
             PROVE  FALSE
  BY DEF SameBuckets
<1>1. IsBuf(buf) /\ Good(buf) /\ IsBuf(new) /\ Good(new)
  BY DEF BufInv
<1>2. /\ b \in Bucket(new) /\ new.key[b] \in Key /\ c \in Bucket(buf) /\ buf.key[c] \in Key
      /\ Bucket(new) = Bucket(buf)
  BY <1>1, LiveIs DEF Placed
<1>3. CASE c # p
  <2>1. new.key[c] = buf.key[c]
    BY <1>2, <1>3 DEF Placed
  <2>2. c \in Live(new)
    BY <1>1, <1>2, <2>1, LiveIs
  <2> QED
    BY <1>1, <2>1, <2>2, OneOfEach
<1>4. CASE c = p
  <2>1. buf.key[b] = new.key[b]
    BY <1>2, <1>4 DEF Placed
  <2>2. b \in Live(buf)
    BY <1>1, <1>2, <2>1, LiveIs
  <2> QED
    BY <1>1, <2>1, <2>2, OneOfEach
<1> QED
  BY <1>3, <1>4

\* An assignment to the hash part.
LEMMA WatchHash ==
    ASSUME StoreInv, StoreInv', TravInv, Watch, ~Inserting, hash' = hash, len' = len,
           NEW new, hash_buf' = new, NEW grown, grown = Grown, new.cap = grown.cap,
           SameBuckets(new, grown)
    PROVE  TravInv'
<1>1. HashOK /\ (hash_buf # Null => BufInv(hash_buf))
  BY StoreImplies DEF StoreInv
<1>2. len' >= len
  BY ArrayFun DEF StoreInv
<1>3. CASE hash_buf # Null /\ new.cap # hash_buf.cap
  <2>1. trav' \in {Idle, Lost}
    BY <1>3 DEF Watch
  <2> QED
    BY <2>1 DEF Idle, Lost, TravInv
<1>4. CASE hash_buf # Null /\ new.cap = hash_buf.cap
  <2>1. grown = hash_buf
    BY <1>1, <1>4, GrownInv
  <2>2. SamePlaces
    BY <1>2, <2>1, BucketsPlace
  <2> QED
    BY <1>2, <2>2, WatchExact
<1>5. CASE hash_buf = Null
  <2>1. SameBuckets(new, hash_buf)
    BY <1>5 DEF SameBuckets, Live
  <2>2. SamePlaces
    BY <1>2, <2>1, BucketsPlace
  <2> QED
    BY <1>2, <2>2, WatchExact
<1> QED
  BY <1>3, <1>4, <1>5

LEMMA TravInit == Init => TravInv
BY DEF Init, TravInv, Idle

\* A step that leaves the table, the callbacks and the loop alone.
LEMMA TravKept ==
    ASSUME TravInv, UNCHANGED <<len, array_buf, hash_buf, trav>>, ~Inserting
    PROVE  TravInv'
<1>1. /\ Entries' = Entries /\ \A p : KeyAt(p)' = KeyAt(p)
      /\ \A prev : ResumeAt(prev)' = ResumeAt(prev)
  BY DEF Entries, KeyAt, ResumeAt, Live, Bucket
<1>2. Keys' = Keys
  BY <1>1 DEF Keys
<1>3. \A r : Parts(r)' = Parts(r)
  BY <1>1 DEF Parts
<1> QED
  BY <1>2, <1>3 DEF TravInv

LEMMA TravNext == StoreInv /\ TravInv /\ [Next]_vars => TravInv'
<1> SUFFICES ASSUME StoreInv, TravInv, [Next]_vars PROVE TravInv'
  OBVIOUS
<1>1. StoreInv'
  BY StoreNext
<1>2. PICK grown : grown = Grown
  OBVIOUS
<1>3. HashOK /\ (hash_buf # Null => BufInv(hash_buf))
  BY StoreImplies DEF StoreInv
<1>4. BufInv(grown) /\ IsBuf(grown) /\ Good(grown)
  BY <1>2, <1>3, GrownInv DEF BufInv
<1>5. SameBuckets(grown, grown)
  BY <1>4, OneOfEach DEF SameBuckets
<1>6. ASSUME Shifted PROVE TravInv'
  BY <1>6 DEF Shifted, Lost, Idle, TravInv
<1>7. ASSUME NEW k \in Key, NEW v \in Value \cup {Nil}, AssignField(k, v) PROVE TravInv'
  <2>1. /\ UNCHANGED <<hash, len>> /\ Watch /\ ~Inserting
        /\ Overwrite(k, v) \/ Add(k, v)
    BY <1>7 DEF AssignField, Overwrite, Add, Runs, Inserting
  <2>2. PICK new : new = hash_buf'
    OBVIOUS
  <2>3. PICK p : p = Probe(grown, k)
    OBVIOUS
  <2>4. Entered(grown, new, k, v) /\ Placed(grown, new, p, k) /\ grown.key[p] \in {Nil, k}
    BY <1>2, <2>1, <2>2, <2>3, FieldBuf
  <2>5. BufInv(new) /\ new.cap = grown.cap
    BY <2>4 DEF Entered
  <2>6. SameBuckets(new, grown)
    BY <1>4, <2>4, <2>5, PlacedSame
  <2> QED
    BY <1>1, <1>2, <2>1, <2>2, <2>5, <2>6, WatchHash
<1>8. ASSUME NEW k \in Key, EraseField(k) PROVE TravInv'
  <2>1. UNCHANGED <<hash, len>> /\ Watch /\ ~Inserting
    BY <1>8 DEF EraseField, Runs, Inserting
  <2>2. PICK new : new = hash_buf'
    OBVIOUS
  <2>3. PICK p : p = Probe(grown, k)
    OBVIOUS
  <2>4. /\ grown.key[p] \in {Nil, k}
        /\ \/ new = grown
           \/ Entered(grown, new, k, Nil) /\ Placed(grown, new, p, Deleted)
    BY <1>2, <1>8, <2>2, <2>3, FieldBuf
  <2>5. new.cap = grown.cap /\ SameBuckets(new, grown)
    <3>1. CASE new = grown
      BY <1>5, <3>1
    <3>2. CASE Entered(grown, new, k, Nil) /\ Placed(grown, new, p, Deleted)
      <4>1. BufInv(new) /\ new.cap = grown.cap
        BY <3>2 DEF Entered
      <4> QED
        BY <1>4, <2>4, <3>2, <4>1, PlacedSame
    <3> QED
      BY <2>4, <3>1, <3>2
  <2> QED
    BY <1>1, <1>2, <2>1, <2>2, <2>5, WatchHash
<1>9. ASSUME NEW k \in Key, CallNewindex(k) PROVE TravInv'
  <2>1. UNCHANGED <<hash, len>> /\ Watch /\ ~Inserting /\ hash_buf' = grown
    BY <1>2, <1>9 DEF CallNewindex, Runs, Inserting
  <2> QED
    BY <1>1, <1>2, <1>5, <2>1, WatchHash
<1>10. CASE NewindexReturns
  <2>1. UNCHANGED <<len, array_buf, hash_buf, trav>> /\ ~Inserting
    BY <1>10 DEF NewindexReturns, table, Inserting
  <2> QED
    BY <2>1, TravKept
<1>11. ASSUME NEW i \in 1 .. MaxLen, NEW v \in Elem \cup {Nil}, AssignElem(i, v) PROVE TravInv'
  <2>1. /\ UNCHANGED <<hash, hash_buf>> /\ Watch /\ ~Inserting
        /\ len' = IF i > len THEN i ELSE len
    BY <1>11 DEF AssignElem, Runs, Inserting
  <2>2. len' >= len
    BY <2>1, ArrayFun, TableStoreAssumption DEF StoreInv
  <2>3. SameBuckets(hash_buf, hash_buf)
    <3>1. CASE hash_buf = Null
      BY <3>1 DEF SameBuckets, Live
    <3>2. CASE hash_buf # Null
      BY <1>3, <3>2, OneOfEach DEF SameBuckets, BufInv
    <3> QED
      BY <3>1, <3>2
  <2>4. SamePlaces
    BY <1>1, <2>1, <2>2, <2>3, BucketsPlace
  <2> QED
    BY <1>1, <2>1, <2>2, <2>4, WatchExact
<1>12. ASSUME NEW pos \in 1 .. len + 1, InsertBegins(pos) PROVE TravInv'
  <2>1. PICK top : top = [op |-> "insert", pos |-> pos, len |-> len, cap |-> Len(array_buf')]
    OBVIOUS
  <2>2. pending' = Append(pending, top) /\ Runs /\ Len(pending) < MaxDepth /\ PendingInv
    BY <1>12, <2>1 DEF InsertBegins, StoreInv
  <2>3. Len(array_buf') \in Nat /\ len \in Nat /\ pos \in Nat
    BY <1>1, ArrayFun, LenProperties DEF StoreInv, ArrayInv
  <2>4. top \in Waiting /\ top.op = "insert"
    BY <2>1, <2>3 DEF Waiting
  <2>5. pending' # <<>> /\ Last(pending') = top
    BY <2>2, <2>4, PendingPush
  <2>6. Inserting'
    BY <2>4, <2>5 DEF Inserting
  <2> QED
    BY <2>6 DEF TravInv
<1>13. ASSUME NEW v \in Elem \cup {Nil}, InsertReturns(v) PROVE TravInv'
  BY <1>6, <1>13 DEF InsertReturns
<1>14. ASSUME NEW pos \in 1 .. len, RemoveElem(pos) PROVE TravInv'
  BY <1>6, <1>14 DEF RemoveElem
<1>15. CASE Traverse
  <2>1. UNCHANGED <<hash, len, array_buf, hash_buf, pending>> /\ trav' = Loop(Nil, {}, Present)
    BY <1>15 DEF Traverse, table
  <2>2. /\ Entries' = Entries /\ \A p : KeyAt(p)' = KeyAt(p)
    BY <2>1 DEF Entries, KeyAt, Live, Bucket
  <2>3. trav'.prev = Nil /\ trav'.seen = {} /\ trav'.owed = Present
    BY <2>1 DEF Loop
  <2>4. Present \subseteq Keys /\ Keys' = Keys
    BY <2>2 DEF Present, Keys
  <2>5. ResumeAt(trav.prev)' = {0}
    BY <2>3 DEF ResumeAt
  <2>6. \A p \in Entries : p \in Nat /\ p >= 1 /\ p > 0
    BY EntryShapes DEF EntryShape
  <2>7. Parts(0)'
    BY <2>2, <2>3, <2>5, <2>6 DEF Parts
  <2> QED
    BY <2>3, <2>4, <2>7 DEF TravInv
<1>16. CASE Advance
  <2>1. CASE trav.followed
    BY <1>16, <2>1, AdvanceExact
  <2>2. CASE ~trav.followed
    <3>1. PICK k : trav' = Idle \/ trav' = [Lost EXCEPT !.prev = k]
      BY <1>16, <2>2 DEF Advance
    <3>2. ~trav'.on \/ ~trav'.followed
      BY <3>1 DEF Idle, Lost
    <3> QED
      BY <3>2 DEF TravInv
  <2> QED
    BY <2>1, <2>2
<1>17. CASE Leave
  BY <1>17 DEF Leave, Idle, TravInv
<1>18. CASE UNCHANGED vars
  <2>1. UNCHANGED <<len, array_buf, hash_buf, trav, pending>>
    BY <1>18 DEF vars, table
  <2>2. CASE ~Inserting
    BY <2>1, <2>2, TravKept
  <2>3. CASE Inserting
    BY <2>1, <2>3 DEF TravInv, Inserting, Last
  <2> QED
    BY <2>2, <2>3
<1> QED
  BY <1>7, <1>8, <1>9, <1>10, <1>11, <1>12, <1>13, <1>14, <1>15, <1>16, <1>17, <1>18 DEF Next

\* A pairs loop whose buckets did not move and whose current entry was not
\* removed yields nothing twice, and when it ends it has yielded every entry
\* that was there all along.
THEOREM LoopIsExact == Spec => TraversalExact
<1>1. Spec => [](StoreInv /\ TravInv)
  <2>1. Init => StoreInv /\ TravInv
    BY StoreInit, TravInit
  <2>2. StoreInv /\ TravInv /\ [Next]_vars => StoreInv' /\ TravInv'
    BY StoreNext, TravNext
  <2> QED
    BY <2>1, <2>2, PTL DEF Spec
<1>2. StoreInv /\ TravInv /\ [Next]_vars => [Advance /\ trav.followed => Yields]_vars
  BY AdvanceExact
<1> QED
  BY <1>1, <1>2, PTL DEF Spec, TraversalExact
=============================================================================
