--------------------------- MODULE GcSweepProofs ---------------------------
(***************************************************************************)
(* Proofs about GcSweep, for any number of addresses, any sizes, any       *)
(* threshold and any nesting of collections inside finalizers.             *)
(*                                                                         *)
(* Safe, the types and the accounting of bytes, is inductive for every     *)
(* program.  What holds of the list needs a program whose finalizers do    *)
(* not collect, and OrderlyInv: some numbering p[m], ..., p[1] of the      *)
(* list, of which a collection under way has p[k], ..., p[1] before it.    *)
(* Nth is recursive: a function that solves its equation is given, and a   *)
(* least argument at which another solution differs refuted.               *)
(***************************************************************************)
EXTENDS GcSweep, NatLemmas, FunctionTheorems, FiniteSetTheorems,
        SequenceTheorems, TLAPS

-----------------------------------------------------------------------------
(* Sums of sizes.                                                          *)

LEMMA BytesNat ==
    ASSUME NEW S, IsFiniteSet(S), NEW sizes, \A o \in S : sizes[o] \in Nat
    PROVE  Bytes(sizes, S) \in Nat
BY SumIsCells, CellsFinite, FS_CardinalityType DEF Bytes

LEMMA BytesAdd ==
    ASSUME NEW S, IsFiniteSet(S), NEW sizes, \A o \in S : sizes[o] \in Nat,
           NEW x, x \notin S, sizes[x] \in Nat
    PROVE  Bytes(sizes, S \cup {x}) = Bytes(sizes, S) + sizes[x]
BY SumAdd DEF Bytes

LEMMA BytesSame ==
    ASSUME NEW S, IsFiniteSet(S), NEW sizes, \A o \in S : sizes[o] \in Nat,
           NEW sizes2, \A o \in S : sizes2[o] = sizes[o]
    PROVE  Bytes(sizes2, S) = Bytes(sizes, S)
<1>1. Cells(sizes2, S) = Cells(sizes, S)
  BY DEF Cells
<1>2. Bytes(sizes2, S) = Cardinality(Cells(sizes2, S))
  BY SumIsCells DEF Bytes
<1>3. Bytes(sizes, S) = Cardinality(Cells(sizes, S))
  BY SumIsCells DEF Bytes
<1> QED
  BY <1>1, <1>2, <1>3, Zenon

-----------------------------------------------------------------------------
(* Types and the accounting of bytes, for every program.                   *)

Safe == TypeOK /\ BytesAreAccounted

LEMMA StackTop ==
    ASSUME TypeOK, sweeps # <<>>
    PROVE  /\ Top \in Activation /\ Pop \in Seq(Activation)
           /\ Len(sweeps) \in Nat /\ Len(sweeps) >= 1 /\ Len(Pop) = Len(sweeps) - 1
           /\ \A i \in 1 .. Len(Pop) : Pop[i] = sweeps[i]
<1>1. sweeps \in Seq(Activation)
  BY DEF TypeOK
<1>2. Len(sweeps) \in Nat /\ Len(sweeps) >= 1
  BY <1>1, EmptySeq
<1>3. \A i \in 1 .. Len(sweeps) : sweeps[i] \in Activation
  BY <1>1, ElementOfSeq
<1>4. \A i \in 1 .. Len(sweeps) - 1 : sweeps[i] \in Activation
  BY <1>2, <1>3
<1>5. /\ Pop \in Seq(Activation) /\ Len(Pop) = Len(sweeps) - 1
      /\ \A i \in 1 .. (Len(sweeps) - 1) - 1 + 1 : Pop[i] = sweeps[1 + i - 1]
  <2>1. 1 \in Int /\ Len(sweeps) - 1 \in Int
    BY <1>2
  <2>2. Len(Pop) = IF 1 <= Len(sweeps) - 1 THEN (Len(sweeps) - 1) - 1 + 1 ELSE 0
    BY <1>4, <2>1, SubSeqProperties DEF Pop
  <2>3. Pop \in Seq(Activation) /\ \A i \in 1 .. (Len(sweeps) - 1) - 1 + 1 : Pop[i] = sweeps[1 + i - 1]
    BY <1>4, <2>1, SubSeqProperties DEF Pop
  <2>4. Len(Pop) = Len(sweeps) - 1
    <3>1. CASE Len(sweeps) = 1
      BY <2>2, <3>1
    <3>2. CASE Len(sweeps) > 1
      BY <1>2, <2>2, <3>2
    <3> QED
      BY <1>2, <3>1, <3>2
  <2> QED
    BY <2>3, <2>4
<1>6. \A i \in 1 .. Len(Pop) : Pop[i] = sweeps[i]
  BY <1>2, <1>5
<1> QED
  BY <1>2, <1>3, <1>5, <1>6 DEF Top

LEMMA MemFinite ==
    ASSUME NEW S \in SUBSET Obj
    PROVE  IsFiniteSet(S)
BY FS_Subset, GcSweepAssumption

LEMMA PushSafe ==
    ASSUME Safe, NEW o \in Obj, o \notin Mem, NEW n \in Size, Push(o, n),
           finalizer' = finalizer, g_gc_pause' = g_gc_pause, g_gc_threshold' \in Nat,
           sweeps' \in Seq(Activation), pc' \in {"run", "exit", "undefined"}
    PROVE  Safe'
<1>1. n \in Nat \ {0}
  BY GcSweepAssumption
<1>2. TypeOK
  BY DEF Safe
<1>3. size' = [size EXCEPT ![o] = n] /\ size' \in [Obj -> Size \cup {0}]
  BY <1>2 DEF TypeOK, Push
<1>4. g_gc_total_bytes \in Nat /\ g_gc_total_bytes' = g_gc_total_bytes + n
  BY <1>2 DEF TypeOK, Push
<1>5. TypeOK'
  BY <1>1, <1>2, <1>3, <1>4 DEF TypeOK, Push, Ptr
<1>6. Mem' = Mem \cup {o} /\ \A x \in Mem : size'[x] = size[x]
  BY <1>1, <1>2, <1>3 DEF TypeOK, Mem
<1>7. IsFiniteSet(Mem) /\ \A x \in Mem : size[x] \in Nat /\ size'[x] \in Nat
  BY <1>2, <1>6, MemFinite, GcSweepAssumption DEF TypeOK, Mem
<1>8. Bytes(size', Mem \cup {o}) = Bytes(size', Mem) + size'[o]
  BY <1>1, <1>2, <1>3, <1>7, BytesAdd DEF TypeOK
<1>9. Bytes(size', Mem) = Bytes(size, Mem)
  BY <1>6, <1>7, BytesSame
<1>10. size'[o] = n
  BY <1>2, <1>3 DEF TypeOK
<1>11. g_gc_total_bytes' = Bytes(size', Mem \cup {o})
  BY <1>4, <1>8, <1>9, <1>10 DEF Safe, BytesAreAccounted
<1>12. BytesAreAccounted'
  BY <1>6, <1>11, Zenon DEF BytesAreAccounted
<1> QED
  BY <1>5, <1>12 DEF Safe

LEMMA ReleaseSafe ==
    ASSUME Safe, sweeps # <<>>, Top.cur \in Mem, Sound(Top.prev),
           NEW nxt \in Ptr, Release(nxt),
           UNCHANGED <<finalizer, black, g_gc_threshold, g_gc_pause, held, pc>>
    PROVE  Safe' /\ size'[Top.cur] = 0 /\ Mem' = Mem \ {Top.cur}
<1> DEFINE o == Top.cur
<1>1. TypeOK /\ o \in Obj /\ size[o] # 0
  BY DEF Safe, Mem
<1>2. size' = [size EXCEPT ![o] = 0] /\ size' \in [Obj -> Size \cup {0}]
  BY <1>1 DEF TypeOK, Release
<1>3. size[o] \in Nat \ {0} /\ size'[o] = 0 /\ g_gc_total_bytes' = g_gc_total_bytes - size[o]
  BY <1>1, <1>2, GcSweepAssumption DEF TypeOK, Release
<1>4. Mem' = Mem \ {o} /\ \A x \in Mem' : size'[x] = size[x]
  BY <1>1, <1>2 DEF TypeOK, Mem
<1> DEFINE rest == Mem \ {o}
<1>5. IsFiniteSet(rest) /\ \A x \in rest : size[x] \in Nat /\ size'[x] = size[x]
  BY <1>1, <1>4, MemFinite, GcSweepAssumption DEF TypeOK, Mem
<1>6. o \notin rest /\ rest \cup {o} = Mem /\ rest = Mem'
  BY <1>4
<1> HIDE DEF rest
<1>7. Bytes(size, rest \cup {o}) = Bytes(size, rest) + size[o]
  BY <1>3, <1>5, <1>6, BytesAdd
<1>8. Bytes(size', rest) = Bytes(size, rest) /\ Bytes(size, rest) \in Nat
  BY <1>5, BytesSame, BytesNat
<1>9. Bytes(size, Mem) = Bytes(size, rest) + size[o]
  BY <1>6, <1>7, Zenon
<1>10. g_gc_total_bytes' = Bytes(size', rest) /\ g_gc_total_bytes' \in Nat
  BY <1>3, <1>8, <1>9 DEF Safe, BytesAreAccounted
<1>11. BytesAreAccounted'
  BY <1>6, <1>10, Zenon DEF BytesAreAccounted
<1>12. sweeps' \in Seq(Activation)
  <2>1. [Top EXCEPT !.at = "walk", !.cur = nxt] \in Activation
    BY <1>1, StackTop DEF Activation
  <2> QED
    BY <1>1, <2>1, StackTop, AppendProperties DEF Release
<1>13. g_gc_head' \in Ptr /\ next' \in [Obj -> Ptr]
  BY <1>1 DEF Release, TypeOK, Ptr, Sound, Mem
<1>14. TypeOK'
  BY <1>1, <1>2, <1>10, <1>12, <1>13 DEF TypeOK, Release
<1> QED
  BY <1>3, <1>4, <1>11, <1>14 DEF Safe

LEMMA SafeInit == Init => Safe
<1> SUFFICES ASSUME Init PROVE Safe
  OBVIOUS
<1>1. Mem = {}
  BY DEF Init, Mem
<1>2. Bytes(size, {}) = 0
  BY FS_EmptySet, SumIsCells DEF Bytes, Cells
<1>3. TypeOK
  BY GcSweepAssumption, EmptySeq DEF Init, TypeOK, Ptr
<1>4. BytesAreAccounted
  BY <1>1, <1>2, Zenon DEF Init, BytesAreAccounted
<1> QED
  BY <1>3, <1>4 DEF Safe

\* What is left of the state when the list is not touched.
LEMMA SafeSame ==
    ASSUME Safe, g_gc_total_bytes' = g_gc_total_bytes, size' = size, next' = next,
           g_gc_head' = g_gc_head, finalizer' = finalizer, gc_field' = gc_field,
           black' \subseteq Obj, held' \subseteq Obj,
           g_gc_threshold' = g_gc_threshold, g_gc_pause' \in Nat,
           sweeps' \in Seq(Activation), pc' \in {"run", "exit", "undefined"}
    PROVE  Safe'
<1>1. TypeOK'
  BY DEF Safe, TypeOK
<1>2. Mem' = Mem
  BY DEF Mem
<1>3. BytesAreAccounted'
  BY <1>2, Zenon DEF Safe, BytesAreAccounted
<1> QED
  BY <1>1, <1>3 DEF Safe

LEMMA SafeBegin ==
    ASSUME Safe, NEW pending \in Size \cup {0}, Begin(pending)
    PROVE  Safe'
<1>1. Sweep(pending) \in Activation
  BY DEF Sweep, Activation, Safe, TypeOK, Ptr
<1>2. sweeps' \in Seq(Activation)
  BY <1>1, AppendProperties DEF Begin, Safe, TypeOK
<1> QED
  BY <1>2, SafeSame DEF Begin, Safe, TypeOK, tuning

LEMMA SafeNext ==
    ASSUME Safe, [Next]_vars
    PROVE  Safe'
<1> USE DEF Safe
<1>1. ASSUME NEW o \in Obj, NEW n \in Size, Allocate(o, n) PROVE Safe'
  BY <1>1, PushSafe DEF Allocate, TypeOK
<1>2. CASE Collect
  BY <1>2, SafeBegin DEF Collect
<1>3. ASSUME NEW n \in Size, Trigger(n) PROVE Safe'
  BY <1>3, SafeBegin DEF Trigger
<1>4. ASSUME NEW p \in Pauses, SetPause(p) PROVE Safe'
  BY <1>4, SafeSame, GcSweepAssumption DEF SetPause, TypeOK, list
<1>5. ASSUME NEW o \in Obj, Drop(o) PROVE Safe'
  BY <1>5, SafeSame DEF Drop, TypeOK, list, tuning
<1>6. ASSUME NEW k \in 0 .. Len(sweeps) - 1, Raise(k) PROVE Safe'
  <2>1. SubSeq(sweeps, 1, k) \in Seq(Activation)
    <3>1. \A i \in 1 .. k : sweeps[i] \in Activation
      BY LenProperties, ElementOfSeq DEF TypeOK
    <3> QED
      BY <3>1, SubSeqProperties
  <2> QED
    BY <1>6, <2>1, SafeSame DEF Raise, TypeOK, list, tuning
<1>7. CASE Keep
  <2>1. [Top EXCEPT !.prev = Top.cur, !.cur = next[Top.cur]] \in Activation
    BY <1>7, StackTop DEF Keep, Walking, Activation, TypeOK, Mem, Ptr
  <2>2. sweeps' \in Seq(Activation)
    BY <1>7, <2>1, StackTop, AppendProperties DEF Keep, Walking
  <2> QED
    BY <1>7, <2>2, SafeSame DEF Keep, TypeOK, tuning
<1>8. CASE Finalize
  <2>1. [Top EXCEPT !.at = "finalizer", !.nxt = next[Top.cur]] \in Activation
    BY <1>8, StackTop DEF Finalize, Walking, Activation, TypeOK, Mem, Ptr
  <2>2. sweeps' \in Seq(Activation)
    BY <1>8, <2>1, StackTop, AppendProperties DEF Finalize, Walking
  <2> QED
    BY <1>8, <2>2, SafeSame DEF Finalize, TypeOK, list, tuning
<1>9. CASE Free
  <2>1. next[Top.cur] \in Ptr
    BY <1>9 DEF Free, TypeOK, Mem
  <2> QED
    BY <1>9, <2>1, ReleaseSafe DEF Free, Walking
<1>10. CASE FinalizerReturns
  <2>1. Top.nxt \in Ptr
    BY <1>10, StackTop DEF FinalizerReturns, InFinalizer, Activation
  <2> QED
    BY <1>10, <2>1, ReleaseSafe DEF FinalizerReturns, InFinalizer
<1>11. CASE UseAfterFree
  BY <1>11, SafeSame DEF UseAfterFree, TypeOK, list, tuning
<1>12. CASE EndCollect
  BY <1>12, StackTop, SafeSame DEF EndCollect, Walking, TypeOK, list, tuning
<1>13. ASSUME NEW o \in Obj, EndTrigger(o) PROVE Safe'
  <2>1. sweeps' \in Seq(Activation) /\ Top.pending \in Size
    BY <1>13, StackTop DEF EndTrigger, Walking, Activation
  <2>2. Scaled \in Nat
    <3>1. g_gc_total_bytes * g_gc_pause \in Nat
      BY DEF TypeOK
    <3> QED
      BY <3>1 DEF Scaled
  <2>3. g_gc_threshold' \in Nat
    <3>1. Min({Scaled, ThresholdCap}) \in Nat
      BY <2>2, GcSweepAssumption DEF Min
    <3> QED
      BY <1>13, <3>1 DEF EndTrigger, TypeOK
  <2> QED
    BY <1>13, <2>1, <2>3, PushSafe DEF EndTrigger, TypeOK
<1>14. CASE OutOfMemory
  BY <1>14, SafeSame DEF OutOfMemory, TypeOK, list, tuning
<1>15. CASE UNCHANGED vars
  BY <1>15, SafeSame DEF vars, TypeOK, list, tuning
<1> QED
  BY <1>1, <1>2, <1>3, <1>4, <1>5, <1>6, <1>7, <1>8, <1>9, <1>10, <1>11, <1>12, <1>13,
     <1>14, <1>15 DEF Next, SweepStep

\* Types and the byte count, whatever a finalizer does to the walk above it.
THEOREM SafeAlways == FairSpec => []Safe
BY SafeInit, SafeNext, PTL DEF FairSpec

-----------------------------------------------------------------------------
(* The list of an orderly program.                                         *)

\* The list is p[m], ..., p[1]: numbered from its end, so that an allocation
\* adds the highest number and cutting the list off removes the highest ones.
Link(p, i) == IF i = 0 THEN Null ELSE p[i]
UpTo(p, k) == {p[i] : i \in 1 .. k}

Chain(p, m) ==
    /\ p \in [1 .. m -> Obj]
    /\ \A i, j \in 1 .. m : p[i] = p[j] => i = j
    /\ g_gc_head = Link(p, m)
    /\ \A i \in 1 .. m : next[p[i]] = Link(p, i - 1)

\* A collection that has p[k], ..., p[1] before it: what it has passed is WHITE,
\* what it has before it is BLACK if it is held, and doomed only if it is WHITE.
\* It stands behind prev; without a prev, at the head or behind what its first
\* finalizer has allocated.
WalkAt(p, m, k, t) ==
    /\ t.cur = Link(p, k)
    /\ black \subseteq UpTo(p, k)
    /\ held \cap UpTo(p, k) \subseteq black
    /\ doomed \subseteq UpTo(p, k) \ black
    /\ t.prev = Null => (t.at = "walk" \/ "alloc" \notin finalizer => k = m)
    /\ t.prev # Null => k < m /\ t.prev = p[k + 1]
    /\ t.at = "finalizer" => k >= 1 /\ p[k] \notin black /\ t.nxt = Link(p, k - 1)
    /\ pc = "run" => ran = IF t.at = "finalizer" THEN {t.cur} ELSE {}

HeapAt(p, m) ==
    /\ Chain(p, m)
    /\ UpTo(p, m) \subseteq Mem
    /\ "alloc" \notin finalizer => Mem \subseteq UpTo(p, m)
    /\ held \subseteq Mem
    /\ black \subseteq UpTo(p, m)

SweepAt(p, m) ==
    /\ sweeps = <<>> => (pc = "run" => ran = {}) /\ (~abandoned => black = {} /\ doomed = {})
    /\ sweeps # <<>> => Len(sweeps) = 1 /\ ~abandoned /\ \E k \in 0 .. m : WalkAt(p, m, k, sweeps[1])

OrderlyInv ==
    Orderly =>
        /\ pc # "undefined"
        /\ \E m \in Nat : \E p \in [1 .. m -> Obj] : HeapAt(p, m) /\ SweepAt(p, m)

\* A list is no longer than there are addresses.
LEMMA ChainShort ==
    ASSUME NEW m \in Nat, NEW p \in [1 .. m -> Obj], Chain(p, m)
    PROVE  m <= Cardinality(Obj) /\ Cardinality(Obj) \in Nat
<1>1. p \in Injection(1 .. m, Obj)
  BY Fun_IsInj DEF Chain
<1>2. Cardinality(1 .. m) <= Cardinality(Obj)
  BY <1>1, FS_Injection, GcSweepAssumption
<1>3. Cardinality(1 .. m) = m
  BY FS_Interval
<1> QED
  BY <1>2, <1>3, FS_CardinalityType, GcSweepAssumption

\* Nth walks the chain: the chain solves its equation, and nothing else does.
LEMMA NthIsChain ==
    ASSUME TypeOK, NEW m \in Nat, NEW p \in [1 .. m -> Obj], Chain(p, m)
    PROVE  \A n \in 0 .. Cardinality(Obj) : Nth[n] = IF n < m THEN p[m - n] ELSE Null
<1> DEFINE N == Cardinality(Obj)
           Walk(f) == [n \in 0 .. N |->
                          IF n = 0 THEN g_gc_head
                          ELSE IF f[n - 1] = Null THEN Null ELSE next[f[n - 1]]]
           nth == [n \in 0 .. N |-> IF n < m THEN p[m - n] ELSE Null]
<1>1. N \in Nat /\ m <= N /\ Null \notin Obj
  BY ChainShort, GcSweepAssumption
<1> HIDE DEF N
<1>2. ASSUME NEW n \in 0 .. N PROVE nth[n] = Walk(nth)[n]
  <2>1. CASE n = 0
    BY <1>1, <2>1 DEF Chain, Link
  <2>2. CASE n > 0 /\ n - 1 < m
    <3>1. nth[n - 1] = p[m - (n - 1)] /\ m - (n - 1) \in 1 .. m
      BY <1>1, <2>2
    <3>2. nth[n - 1] # Null
      BY <1>1, <3>1
    <3>3. next[p[m - (n - 1)]] = Link(p, m - (n - 1) - 1)
      BY <3>1 DEF Chain
    <3>4. Link(p, m - (n - 1) - 1) = IF n < m THEN p[m - n] ELSE Null
      BY <2>2, <1>1 DEF Link
    <3>5. Walk(nth)[n] = next[nth[n - 1]]
      BY <2>2, <3>2
    <3> QED
      BY <3>1, <3>3, <3>4, <3>5
  <2>3. CASE n > 0 /\ n - 1 >= m
    <3>1. nth[n - 1] = Null /\ nth[n] = Null
      BY <1>1, <2>3
    <3> HIDE DEF nth
    <3> QED
      BY <2>3, <3>1
  <2> QED
    BY <1>1, <2>1, <2>2, <2>3
<1>3. nth = Walk(nth)
  BY <1>2
<1>4. ASSUME NEW f, f = Walk(f), NEW x \in 0 .. N, f[x] # nth[x] PROVE FALSE
  <2> DEFINE wrong == {n \in 0 .. N : f[n] # nth[n]}
  <2>1. wrong \in SUBSET Nat /\ x \in wrong
    BY <1>1, <1>4
  <2>2. PICK n \in wrong : \A k \in wrong : n <= k
    BY <2>1, LeastNat
  <2>3. n \in 0 .. N /\ f[n] # nth[n]
    BY <2>2
  <2>4. f[n] = Walk(f)[n]
    BY <1>4
  <2>5. nth[n] = Walk(nth)[n]
    BY <1>2, <2>3
  <2> HIDE DEF nth
  <2>6. n # 0
    BY <1>1, <2>3, <2>4, <2>5
  <2>7. f[n - 1] = nth[n - 1]
    BY <1>1, <2>2, <2>3, <2>6
  <2> QED
    BY <2>3, <2>4, <2>5, <2>6, <2>7
<1>5. Nth = CHOOSE f : f = Walk(f)
  BY DEF Nth, N
<1> HIDE DEF Walk
<1>6. Nth = Walk(Nth)
  BY <1>3, <1>5
<1>7. \A n \in 0 .. N : Nth[n] = nth[n]
  BY <1>4, <1>6
<1> QED
  BY <1>7 DEF N, nth

LEMMA TrackedIsChain ==
    ASSUME TypeOK, NEW m \in Nat, NEW p \in [1 .. m -> Obj], Chain(p, m)
    PROVE  Tracked = UpTo(p, m) /\ Nth[Cardinality(Obj)] = Null
<1> DEFINE N == Cardinality(Obj)
<1>1. N \in Nat /\ m <= N /\ Null \notin Obj
  BY ChainShort, GcSweepAssumption
<1>2. \A n \in 0 .. N : Nth[n] = IF n < m THEN p[m - n] ELSE Null
  BY NthIsChain
<1> HIDE DEF N
<1>3. ASSUME NEW i \in 1 .. m PROVE p[i] \in {Nth[n] : n \in 0 .. N} /\ p[i] # Null
  <2>1. m - i \in 0 .. N /\ m - i < m /\ m - (m - i) = i
    BY <1>1
  <2>2. Nth[m - i] = p[i]
    BY <1>2, <2>1
  <2> QED
    BY <1>1, <2>1, <2>2
<1>4. ASSUME NEW n \in 0 .. N, Nth[n] # Null PROVE Nth[n] \in UpTo(p, m)
  <2>1. n < m /\ Nth[n] = p[m - n] /\ m - n \in 1 .. m
    BY <1>1, <1>2, <1>4
  <2> QED
    BY <2>1 DEF UpTo
<1>5. Tracked = UpTo(p, m)
  BY <1>3, <1>4 DEF Tracked, UpTo, N
<1> QED
  BY <1>1, <1>2, <1>5 DEF N

\* An orderly program has no collection inside a collection.
LEMMA OneTop ==
    ASSUME TypeOK, sweeps # <<>>, Len(sweeps) = 1
    PROVE  /\ Top = sweeps[1] /\ Pop = <<>>
           /\ \A a : Append(Pop, a) # <<>> /\ Len(Append(Pop, a)) = 1 /\ Append(Pop, a)[1] = a
<1>1. Top = sweeps[1]
  BY DEF Top
<1>2. Pop \in Seq(Activation) /\ Len(Pop) = 0
  BY StackTop
<1>3. Pop = <<>>
  BY <1>2, EmptySeq
<1> QED
  BY <1>1, <1>3

LEMMA OrderlyInit == Init => OrderlyInv
<1> SUFFICES ASSUME Init PROVE OrderlyInv
  OBVIOUS
<1> DEFINE p == [i \in 1 .. 0 |-> Null]
<1>1. p \in [1 .. 0 -> Obj]
  OBVIOUS
<1>2. Mem = {}
  BY DEF Init, Mem
<1>3. UpTo(p, 0) = {}
  BY DEF UpTo
<1>4. HeapAt(p, 0)
  BY <1>1, <1>2, <1>3 DEF HeapAt, Chain, Link, Init
<1>5. SweepAt(p, 0)
  BY DEF SweepAt, Init
<1>6. \E m \in Nat : \E q \in [1 .. m -> Obj] : HeapAt(q, m) /\ SweepAt(q, m)
  BY <1>1, <1>4, <1>5
<1> QED
  BY <1>6 DEF OrderlyInv, Init

\* An allocation adds the highest number.
LEMMA PushHeap ==
    ASSUME Safe, NEW m \in Nat, NEW p \in [1 .. m -> Obj], HeapAt(p, m),
           NEW o \in Obj, o \notin Mem, NEW n \in Size, Push(o, n), finalizer' = finalizer,
           NEW q, q = [i \in 1 .. m + 1 |-> IF i = m + 1 THEN o ELSE p[i]]
    PROVE  /\ q \in [1 .. m + 1 -> Obj]
           /\ \A i \in 1 .. m : q[i] = p[i]
           /\ HeapAt(q, m + 1)'
<1>1. q \in [1 .. m + 1 -> Obj] /\ q[m + 1] = o /\ \A i \in 1 .. m : q[i] = p[i]
  OBVIOUS
<1>2. TypeOK /\ n # 0
  BY GcSweepAssumption DEF Safe
<1>3. Mem' = Mem \cup {o}
  BY <1>2 DEF Mem, Push, TypeOK
<1>4. \A i \in 1 .. m : p[i] \in Mem
  BY DEF HeapAt, UpTo
<1>5. UpTo(q, m + 1) = UpTo(p, m) \cup {o}
  <2>1. \A i \in 1 .. m + 1 : i \in 1 .. m \/ i = m + 1
    OBVIOUS
  <2> QED
    BY <1>1, <2>1 DEF UpTo
<1>6. Chain(q, m + 1)'
  <2>1. \A i, j \in 1 .. m + 1 : q[i] = q[j] => i = j
    BY <1>1, <1>4 DEF HeapAt, Chain
  <2>2. g_gc_head' = Link(q, m + 1)
    BY <1>1 DEF Push, Link
  <2>3. ASSUME NEW i \in 1 .. m + 1 PROVE next'[q[i]] = Link(q, i - 1)
    <3>1. CASE i = m + 1
      <4>1. next'[q[i]] = g_gc_head
        BY <1>1, <1>2, <3>1 DEF Push, TypeOK
      <4>2. g_gc_head = Link(p, m) /\ Link(p, m) = Link(q, m)
        BY <1>1 DEF HeapAt, Chain, Link
      <4> QED
        BY <3>1, <4>1, <4>2
    <3>2. CASE i \in 1 .. m
      <4>1. next'[q[i]] = next[p[i]]
        BY <1>1, <1>2, <1>4, <3>2 DEF Push, TypeOK
      <4>2. next[p[i]] = Link(p, i - 1) /\ Link(p, i - 1) = Link(q, i - 1)
        BY <1>1, <3>2 DEF HeapAt, Chain, Link
      <4> QED
        BY <4>1, <4>2
    <3> QED
      BY <3>1, <3>2
  <2> QED
    BY <1>1, <2>1, <2>2, <2>3 DEF Chain
<1>7. HeapAt(q, m + 1)'
  BY <1>3, <1>5, <1>6 DEF HeapAt, Push
<1> QED
  BY <1>1, <1>7

\* Freeing p[k] behind a predecessor closes the gap; without one, it cuts off
\* all that is numbered higher.
LEMMA ReleaseHeap ==
    ASSUME Safe, pc = "run", sweeps # <<>>, Len(sweeps) = 1,
           NEW m \in Nat, NEW p \in [1 .. m -> Obj], HeapAt(p, m),
           NEW k \in 1 .. m, WalkAt(p, m, k, Top), p[k] \notin black,
           Top.cur \in Mem, Sound(Top.prev), Release(Link(p, k - 1)),
           UNCHANGED <<finalizer, black, g_gc_threshold, g_gc_pause, held, pc, abandoned>>,
           NEW t, t = [Top EXCEPT !.at = "walk", !.cur = Link(p, k - 1)]
    PROVE  \E m2 \in Nat : \E q \in [1 .. m2 -> Obj] :
              HeapAt(q, m2)' /\ WalkAt(q, m2, k - 1, t)' /\ k - 1 <= m2
<1>1. TypeOK /\ Null \notin Obj
  BY GcSweepAssumption DEF Safe
<1>2. Top.cur = p[k] /\ p[k] \in Obj
  BY DEF WalkAt, Link
<1>3. Mem' = Mem \ {p[k]}
  <2>1. Link(p, k - 1) \in Ptr
    BY DEF Link, Ptr
  <2> QED
    BY <1>2, <2>1, ReleaseSafe
<1>4. t.at = "walk" /\ t.cur = Link(p, k - 1) /\ t.prev = Top.prev
  BY <1>1, StackTop DEF Activation
<1>5. held \cap UpTo(p, k) \subseteq black /\ black \subseteq UpTo(p, k) /\ p[k] \notin held
  BY DEF WalkAt, UpTo
<1>6. UpTo(p, k) = UpTo(p, k - 1) \cup {p[k]} /\ p[k] \notin UpTo(p, k - 1)
  <2>1. \A i \in 1 .. k : i \in 1 .. k - 1 \/ i = k
    OBVIOUS
  <2>2. \A i \in 1 .. k - 1 : p[i] # p[k]
    BY DEF HeapAt, Chain
  <2> QED
    BY <2>1, <2>2 DEF UpTo
<1>7. doomed' = doomed \ {p[k]} /\ ran' = {}
  BY <1>2 DEF Release, WalkAt
<1>8. ASSUME NEW m2 \in Nat, NEW q \in [1 .. m2 -> Obj],
             \A i \in 1 .. k - 1 : q[i] = p[i], k - 1 <= m2,
             t.prev = Null => k - 1 = m2,
             t.prev # Null => k - 1 < m2 /\ t.prev = q[k]
      PROVE  WalkAt(q, m2, k - 1, t)'
  <2>1. UpTo(q, k - 1) = UpTo(p, k - 1)
    BY <1>8 DEF UpTo
  <2>2. Link(q, k - 1) = Link(p, k - 1)
    BY <1>8 DEF Link
  <2>3. /\ black' \subseteq UpTo(q, k - 1)
        /\ held' \cap UpTo(q, k - 1) \subseteq black'
        /\ doomed' \subseteq UpTo(q, k - 1) \ black'
    BY <1>5, <1>6, <1>7, <2>1 DEF WalkAt
  <2> QED
    BY <1>4, <1>7, <1>8, <2>2, <2>3 DEF WalkAt
<1>9. \A i, j \in 1 .. m : p[i] = p[j] => i = j
  BY DEF HeapAt, Chain
<1>10. /\ UpTo(p, m) \subseteq Mem /\ held \subseteq Mem
       /\ "alloc" \notin finalizer => Mem \subseteq UpTo(p, m)
       /\ \A i \in 1 .. m : next[p[i]] = Link(p, i - 1)
       /\ g_gc_head = Link(p, m)
  BY DEF HeapAt, Chain
<1>11. CASE Top.prev = Null
  <2> DEFINE q == [i \in 1 .. k - 1 |-> p[i]]
  <2>1. q \in [1 .. k - 1 -> Obj] /\ \A i \in 1 .. k - 1 : q[i] = p[i]
    OBVIOUS
  <2>2. UpTo(q, k - 1) = UpTo(p, k - 1)
    BY DEF UpTo
  <2> HIDE DEF q
  <2>3. g_gc_head' = Link(p, k - 1) /\ next' = [next EXCEPT ![p[k]] = Null]
    BY <1>2, <1>11 DEF Release
  <2>4. \A i \in 1 .. k - 1 : next'[q[i]] = Link(q, i - 1)
    BY <1>1, <1>9, <1>10, <2>1, <2>3 DEF Link, TypeOK
  <2>5. Chain(q, k - 1)'
    BY <1>9, <2>1, <2>3, <2>4 DEF Chain, Link
  <2>6. "alloc" \notin finalizer => k = m
    BY <1>11 DEF WalkAt
  <2>7. UpTo(q, k - 1) \subseteq Mem'
    <3>1. \A i \in 1 .. k - 1 : i \in 1 .. m /\ p[i] # p[k]
      BY <1>9
    <3>2. \A i \in 1 .. k - 1 : p[i] \in Mem'
      BY <1>3, <1>10, <3>1 DEF UpTo
    <3>3. UpTo(p, k - 1) \subseteq Mem'
      BY <3>2 DEF UpTo
    <3> QED
      BY <2>2, <3>3, Zenon
  <2>8. "alloc" \notin finalizer => Mem' \subseteq UpTo(q, k - 1)
    BY <1>3, <1>6, <1>10, <2>2, <2>6
  <2>9. HeapAt(q, k - 1)'
    BY <1>3, <1>5, <1>6, <1>10, <2>2, <2>5, <2>7, <2>8 DEF HeapAt
  <2>10. WalkAt(q, k - 1, k - 1, t)'
    BY <1>4, <1>8, <1>11, <2>1
  <2> QED
    BY <2>1, <2>9, <2>10
<1>12. CASE Top.prev # Null
  <2> DEFINE q == [i \in 1 .. m - 1 |-> IF i < k THEN p[i] ELSE p[i + 1]]
  <2>1. k < m /\ Top.prev = p[k + 1]
    BY <1>12 DEF WalkAt
  <2>2. /\ q \in [1 .. m - 1 -> Obj]
        /\ \A i \in 1 .. k - 1 : q[i] = p[i]
        /\ \A i \in k .. m - 1 : q[i] = p[i + 1]
    BY <2>1
  <2> HIDE DEF q
  <2>3. UpTo(q, m - 1) = UpTo(p, m) \ {p[k]}
    <3>1. ASSUME NEW i \in 1 .. m - 1 PROVE q[i] \in UpTo(p, m) \ {p[k]}
      BY <1>9, <2>1, <2>2 DEF UpTo
    <3>2. ASSUME NEW i \in 1 .. m, p[i] # p[k] PROVE p[i] \in UpTo(q, m - 1)
      <4>1. CASE i < k
        BY <2>1, <2>2, <4>1 DEF UpTo
      <4>2. CASE i > k
        <5>1. i - 1 \in k .. m - 1 /\ q[i - 1] = p[(i - 1) + 1] /\ (i - 1) + 1 = i
          BY <2>2, <4>2
        <5> QED
          BY <5>1 DEF UpTo
      <4> QED
        BY <3>2, <4>1, <4>2
    <3> QED
      BY <3>1, <3>2 DEF UpTo
  <2>4. /\ g_gc_head' = g_gc_head
        /\ next' = [next EXCEPT ![p[k + 1]] = Link(p, k - 1), ![p[k]] = Null]
    BY <1>2, <1>12, <2>1 DEF Release
  <2>5. \A i \in 1 .. m : i # k => next'[p[i]] = IF i = k + 1 THEN Link(p, k - 1) ELSE Link(p, i - 1)
    BY <1>1, <1>9, <1>10, <2>1, <2>4 DEF TypeOK
  <2>6. ASSUME NEW i \in 1 .. m - 1 PROVE next'[q[i]] = Link(q, i - 1)
    <3>1. CASE i < k
      <4>1. q[i] = p[i] /\ next'[p[i]] = Link(p, i - 1)
        BY <2>2, <2>5, <3>1
      <4>2. Link(p, i - 1) = Link(q, i - 1)
        <5>1. i = 1 \/ i - 1 \in 1 .. k - 1
          BY <3>1
        <5> QED
          BY <2>2, <5>1 DEF Link
      <4> QED
        BY <4>1, <4>2
    <3>2. CASE i = k
      <4>1. next'[q[i]] = Link(p, k - 1)
        BY <2>1, <2>2, <2>5, <3>2
      <4> QED
        BY <2>2, <3>2, <4>1 DEF Link
    <3>3. CASE i > k
      <4>1. q[i] = p[i + 1] /\ q[i - 1] = p[i] /\ i - 1 # 0
        <5>1. i \in k .. m - 1 /\ i - 1 \in k .. m - 1 /\ (i - 1) + 1 = i /\ i - 1 # 0
          BY <3>3
        <5>2. q[i - 1] = p[(i - 1) + 1]
          BY <2>2, <5>1
        <5> QED
          BY <2>2, <5>1, <5>2
      <4>2. next'[p[i + 1]] = Link(p, i + 1 - 1) /\ i + 1 - 1 = i
        BY <2>5, <3>3
      <4> QED
        BY <4>1, <4>2 DEF Link
    <3> QED
      BY <3>1, <3>2, <3>3
  <2>7. \A i, j \in 1 .. m - 1 : q[i] = q[j] => i = j
    <3>1. \A i \in 1 .. m - 1 : \E a \in 1 .. m : q[i] = p[a] /\ a = IF i < k THEN i ELSE i + 1
      BY <2>2
    <3> QED
      BY <1>9, <3>1
  <2>8. g_gc_head' = Link(q, m - 1)
    BY <1>10, <2>1, <2>2, <2>4 DEF Link
  <2>9. Chain(q, m - 1)'
    BY <2>2, <2>6, <2>7, <2>8 DEF Chain
  <2>10. HeapAt(q, m - 1)'
    <3>1. black \subseteq UpTo(p, m)
      BY DEF HeapAt
    <3> QED
      BY <1>3, <1>5, <1>10, <2>3, <2>9, <3>1 DEF HeapAt
  <2>11. WalkAt(q, m - 1, k - 1, t)'
    <3>1. k - 1 < m - 1 /\ k - 1 <= m - 1 /\ m - 1 \in Nat /\ k \in k .. m - 1
      BY <2>1
    <3>2. t.prev = q[k] /\ t.prev # Null
      BY <1>4, <1>12, <2>1, <2>2, <3>1
    <3> QED
      BY <1>8, <2>2, <3>1, <3>2
  <2>12. m - 1 \in Nat /\ k - 1 <= m - 1
    OBVIOUS
  <2> QED
    BY <2>2, <2>10, <2>11, <2>12
<1> QED
  BY <1>11, <1>12

\* The list is as it was, and so is the collection, if there is one.
LEMMA OrderlySame ==
    ASSUME NEW m \in Nat, NEW p \in [1 .. m -> Obj], HeapAt(p, m), SweepAt(p, m),
           UNCHANGED <<finalizer, g_gc_head, next, size, black, sweeps, doomed, ran, abandoned>>,
           held' \subseteq held, pc' \in {pc, "exit"}
    PROVE  HeapAt(p, m)' /\ SweepAt(p, m)'
<1>1. Mem' = Mem
  BY DEF Mem
<1>2. HeapAt(p, m)'
  BY <1>1 DEF HeapAt, Chain
<1>3. ASSUME NEW k \in 0 .. m, WalkAt(p, m, k, sweeps[1]) PROVE WalkAt(p, m, k, sweeps[1])'
  BY <1>3 DEF WalkAt
<1> QED
  BY <1>2, <1>3 DEF SweepAt

LEMMA OrderlyAllocate ==
    ASSUME Safe, Orderly, NEW m \in Nat, NEW p \in [1 .. m -> Obj], HeapAt(p, m), SweepAt(p, m),
           NEW o \in Obj, NEW n \in Size, Allocate(o, n)
    PROVE  \E m2 \in Nat : \E q \in [1 .. m2 -> Obj] : HeapAt(q, m2)' /\ SweepAt(q, m2)'
<1> DEFINE q == [i \in 1 .. m + 1 |-> IF i = m + 1 THEN o ELSE p[i]]
<1>1. /\ q \in [1 .. m + 1 -> Obj]
      /\ \A i \in 1 .. m : q[i] = p[i]
      /\ HeapAt(q, m + 1)'
  BY PushHeap DEF Allocate
<1> HIDE DEF q
<1>2. /\ black' = black \ {o} /\ held' = held \cup {o}
      /\ UNCHANGED <<finalizer, sweeps, pc, doomed, ran, abandoned>>
  BY DEF Allocate, Push, history
<1>3. ASSUME NEW k \in 0 .. m, WalkAt(p, m, k, sweeps[1]), sweeps # <<>>
      PROVE  WalkAt(q, m + 1, k, sweeps[1])'
  <2>1. Top = sweeps[1]
    BY <1>3, OneTop DEF SweepAt, Safe
  <2>2. sweeps[1].at = "finalizer" /\ "alloc" \in finalizer
    BY <1>3, <2>1 DEF Allocate, InCode, InFinalizer
  <2>3. UpTo(q, k) = UpTo(p, k) /\ Link(q, k) = Link(p, k)
    BY <1>1 DEF UpTo, Link
  <2>4. UpTo(p, k) \subseteq Mem
    BY DEF HeapAt, UpTo
  <2>5. o \notin UpTo(p, k)
    BY <2>4 DEF Allocate
  <2>6. /\ black' \subseteq UpTo(q, k)
        /\ held' \cap UpTo(q, k) \subseteq black'
        /\ doomed' \subseteq UpTo(q, k) \ black'
    BY <1>2, <1>3, <2>3, <2>5 DEF WalkAt
  <2>7. sweeps[1].prev # Null => k < m + 1 /\ sweeps[1].prev = q[k + 1]
    BY <1>1, <1>3 DEF WalkAt
  <2>8. k >= 1 /\ q[k] \notin black' /\ sweeps[1].nxt = Link(q, k - 1)
    <3>1. k >= 1 /\ p[k] \notin black /\ sweeps[1].nxt = Link(p, k - 1) /\ q[k] = p[k]
      BY <1>1, <1>3, <2>2 DEF WalkAt
    <3>2. Link(q, k - 1) = Link(p, k - 1)
      BY <1>1, <3>1 DEF Link
    <3> QED
      BY <1>2, <3>1, <3>2
  <2> QED
    BY <1>2, <1>3, <2>2, <2>3, <2>6, <2>7, <2>8 DEF WalkAt
<1>4. SweepAt(q, m + 1)'
  <2>1. CASE sweeps = <<>>
    BY <1>2, <2>1 DEF SweepAt
  <2>2. CASE sweeps # <<>>
    <3>1. PICK k \in 0 .. m : WalkAt(p, m, k, sweeps[1])
      BY <2>2 DEF SweepAt
    <3>2. k \in 0 .. m + 1 /\ WalkAt(q, m + 1, k, sweeps[1])'
      BY <1>3, <2>2, <3>1
    <3> QED
      BY <1>2, <2>2, <3>2 DEF SweepAt
  <2> QED
    BY <2>1, <2>2
<1> QED
  BY <1>1, <1>4

LEMMA OrderlyBegin ==
    ASSUME Safe, Orderly, NEW m \in Nat, NEW p \in [1 .. m -> Obj], HeapAt(p, m), SweepAt(p, m),
           NEW pending \in Size \cup {0}, InCode("collect"), Begin(pending)
    PROVE  HeapAt(p, m)' /\ SweepAt(p, m)'
<1>1. sweeps = <<>> /\ pc = "run" /\ ran = {}
  BY DEF InCode, InFinalizer, Orderly, SweepAt
<1>2. Tracked = UpTo(p, m)
  BY TrackedIsChain DEF Safe, HeapAt
<1>3. /\ black' = black \cup (held \cap UpTo(p, m))
      /\ doomed' = UpTo(p, m) \ black'
      /\ UNCHANGED <<finalizer, g_gc_head, next, size, held, pc, ran>>
      /\ ~abandoned'
  BY <1>1, <1>2 DEF Begin
<1>4. Mem' = Mem
  BY <1>3 DEF Mem
<1>5. HeapAt(p, m)'
  BY <1>3, <1>4 DEF HeapAt, Chain
<1>6. sweeps' # <<>> /\ Len(sweeps') = 1 /\ sweeps'[1] = Sweep(pending)
  BY <1>1 DEF Begin
<1>7. WalkAt(p, m, m, sweeps[1])'
  BY <1>1, <1>3, <1>6 DEF WalkAt, Sweep, HeapAt, Chain
<1> QED
  BY <1>3, <1>5, <1>6, <1>7 DEF SweepAt

\* Where the walk stands: at p[k] of the list, or past its end.
LEMMA WalkStands ==
    ASSUME Safe, sweeps # <<>>, NEW m \in Nat, NEW p \in [1 .. m -> Obj], HeapAt(p, m),
           SweepAt(p, m)
    PROVE  /\ Top = sweeps[1] /\ Top \in Activation /\ Len(sweeps) = 1
           /\ \A a : sweeps' = Append(Pop, a) =>
                        sweeps' # <<>> /\ Len(sweeps') = 1 /\ sweeps'[1] = a
           /\ \E k \in 0 .. m :
                 /\ WalkAt(p, m, k, Top)
                 /\ k = 0 <=> Top.cur = Null
                 /\ k # 0 => k \in 1 .. m /\ Top.cur = p[k] /\ p[k] \in Mem
                 /\ Sound(Top.prev)
<1>1. Len(sweeps) = 1 /\ TypeOK
  BY DEF SweepAt, Safe
<1>2. /\ Top = sweeps[1] /\ Top \in Activation
      /\ \A a : Append(Pop, a) # <<>> /\ Len(Append(Pop, a)) = 1 /\ Append(Pop, a)[1] = a
  BY <1>1, OneTop, StackTop
<1>3. PICK k \in 0 .. m : WalkAt(p, m, k, sweeps[1])
  BY DEF SweepAt
<1>4. \A i \in 1 .. m : p[i] \in Mem /\ p[i] # Null
  BY GcSweepAssumption DEF HeapAt, UpTo
<1>5. Sound(Top.prev)
  <2>1. CASE Top.prev = Null
    BY <2>1 DEF Sound
  <2>2. CASE Top.prev # Null
    <3>1. k + 1 \in 1 .. m /\ Top.prev = p[k + 1]
      BY <1>2, <1>3, <2>2 DEF WalkAt
    <3> QED
      BY <1>4, <3>1 DEF Sound
  <2> QED
    BY <2>1, <2>2
<1>6. Top.cur = Link(p, k)
  BY <1>2, <1>3 DEF WalkAt
<1>7. k # 0 => k \in 1 .. m
  OBVIOUS
<1> QED
  BY <1>1, <1>2, <1>3, <1>4, <1>5, <1>6, <1>7 DEF Link

LEMMA OrderlyKeep ==
    ASSUME Safe, NEW m \in Nat, NEW p \in [1 .. m -> Obj], HeapAt(p, m), SweepAt(p, m), Keep
    PROVE  HeapAt(p, m)' /\ SweepAt(p, m)'
<1>0. PICK t : t = [Top EXCEPT !.prev = Top.cur, !.cur = next[Top.cur]]
  OBVIOUS
<1>1. sweeps # <<>> /\ Top.cur \in Mem \cap black /\ Top.at = "walk" /\ pc = "run"
  BY DEF Keep, Walking
<1>2. /\ Top \in Activation /\ sweeps # <<>> /\ ~abandoned
      /\ sweeps' # <<>> /\ Len(sweeps') = 1 /\ sweeps'[1] = t
  BY <1>0, <1>1, WalkStands DEF Keep, SweepAt
<1>3. Null \notin Mem
  BY GcSweepAssumption DEF Mem
<1>4. PICK k \in 1 .. m : WalkAt(p, m, k, Top) /\ Top.cur = p[k] /\ p[k] \in Mem
  BY <1>1, <1>3, WalkStands
<1>5. t.at = "walk" /\ t.prev = p[k] /\ t.cur = Link(p, k - 1) /\ p[k] # Null
  BY <1>1, <1>2, <1>3, <1>4, <1>0 DEF Activation, HeapAt, Chain
<1>6. UpTo(p, k) = UpTo(p, k - 1) \cup {p[k]} /\ p[k] \notin UpTo(p, k - 1)
  <2>1. \A i \in 1 .. k : i \in 1 .. k - 1 \/ i = k
    OBVIOUS
  <2>2. \A i \in 1 .. k - 1 : p[i] # p[k]
    BY DEF HeapAt, Chain
  <2> QED
    BY <2>1, <2>2 DEF UpTo
<1>7. /\ black' = black \ {p[k]}
      /\ UNCHANGED <<finalizer, g_gc_head, next, size, held, pc, doomed, ran, abandoned>>
  BY <1>4 DEF Keep, history
<1>8. Mem' = Mem
  BY <1>7 DEF Mem
<1>9. HeapAt(p, m)'
  BY <1>7, <1>8 DEF HeapAt, Chain
<1>10. /\ black' \subseteq UpTo(p, k - 1)
       /\ held' \cap UpTo(p, k - 1) \subseteq black'
       /\ doomed' \subseteq UpTo(p, k - 1) \ black'
  BY <1>1, <1>4, <1>6, <1>7 DEF WalkAt
<1>11. ran' = {}
  BY <1>1, <1>4, <1>7 DEF WalkAt
<1>12. k - 1 < m /\ p[k] = p[(k - 1) + 1] /\ k - 1 \in 0 .. m
  OBVIOUS
<1>13. WalkAt(p, m, k - 1, t)'
  BY <1>5, <1>10, <1>11, <1>12 DEF WalkAt
<1> QED
  BY <1>2, <1>7, <1>9, <1>12, <1>13 DEF SweepAt

LEMMA OrderlyFinalize ==
    ASSUME Safe, NEW m \in Nat, NEW p \in [1 .. m -> Obj], HeapAt(p, m), SweepAt(p, m), Finalize
    PROVE  HeapAt(p, m)' /\ SweepAt(p, m)'
<1>0. PICK t : t = [Top EXCEPT !.at = "finalizer", !.nxt = next[Top.cur]]
  OBVIOUS
<1>1. /\ sweeps # <<>> /\ Top.at = "walk" /\ pc = "run"
      /\ Top.cur \in Mem /\ Top.cur \notin black
  BY DEF Finalize, Walking
<1>2. /\ Top \in Activation /\ sweeps # <<>> /\ ~abandoned
      /\ sweeps' # <<>> /\ Len(sweeps') = 1 /\ sweeps'[1] = t
  BY <1>0, <1>1, WalkStands DEF Finalize, SweepAt
<1>3. Null \notin Mem
  BY GcSweepAssumption DEF Mem
<1>4. PICK k \in 1 .. m : WalkAt(p, m, k, Top) /\ Top.cur = p[k] /\ p[k] \in Mem
  BY <1>1, <1>3, WalkStands
<1>5. /\ t.at = "finalizer" /\ t.prev = Top.prev /\ t.cur = Top.cur
      /\ t.nxt = Link(p, k - 1)
  BY <1>1, <1>2, <1>4, <1>0 DEF Activation, HeapAt, Chain
<1>6. /\ UNCHANGED <<finalizer, g_gc_head, next, size, black, held, pc, doomed, abandoned>>
      /\ ran' = ran \cup {Top.cur}
  BY DEF Finalize, list
<1>7. Mem' = Mem
  BY <1>6 DEF Mem
<1>8. HeapAt(p, m)'
  BY <1>6, <1>7 DEF HeapAt, Chain
<1>9. ran' = {t.cur}
  BY <1>1, <1>4, <1>5, <1>6 DEF WalkAt
<1>10. t.prev = Null => k = m
  BY <1>1, <1>4, <1>5 DEF WalkAt
<1>11. WalkAt(p, m, k, t)'
  BY <1>1, <1>4, <1>5, <1>6, <1>9, <1>10 DEF WalkAt
<1> QED
  BY <1>2, <1>6, <1>8, <1>11 DEF SweepAt

\* The object at hand is freed, by the walk or after its finalizer.
LEMMA OrderlyRelease ==
    ASSUME Safe, NEW m \in Nat, NEW p \in [1 .. m -> Obj], HeapAt(p, m), SweepAt(p, m),
           Free \/ FinalizerReturns
    PROVE  \E m2 \in Nat : \E q \in [1 .. m2 -> Obj] : HeapAt(q, m2)' /\ SweepAt(q, m2)'
<1>1. sweeps # <<>> /\ Top.cur \in Mem /\ pc = "run"
  BY DEF Free, FinalizerReturns, Walking, InFinalizer
<1>2. Null \notin Mem
  BY GcSweepAssumption DEF Mem
<1>3. PICK k \in 1 .. m :
         WalkAt(p, m, k, Top) /\ Top.cur = p[k] /\ p[k] \in Mem /\ Sound(Top.prev)
  BY <1>1, <1>2, WalkStands
<1>4. p[k] \notin black
  BY <1>3 DEF Free, FinalizerReturns, InFinalizer, WalkAt
<1>5. Release(Link(p, k - 1))
  BY <1>3 DEF Free, FinalizerReturns, InFinalizer, WalkAt, HeapAt, Chain
<1>6. UNCHANGED <<finalizer, black, g_gc_threshold, g_gc_pause, held, pc, abandoned>>
  BY DEF Free, FinalizerReturns
<1>7. PICK t : t = [Top EXCEPT !.at = "walk", !.cur = Link(p, k - 1)]
  OBVIOUS
<1>8. /\ Len(sweeps) = 1 /\ ~abandoned
      /\ sweeps' # <<>> /\ Len(sweeps') = 1 /\ sweeps'[1] = t
  BY <1>1, <1>5, <1>7, WalkStands DEF Release, SweepAt
<1>9. PICK m2 \in Nat : \E q \in [1 .. m2 -> Obj] :
         HeapAt(q, m2)' /\ WalkAt(q, m2, k - 1, t)' /\ k - 1 <= m2
  BY <1>1, <1>3, <1>4, <1>5, <1>6, <1>7, <1>8, ReleaseHeap
<1>10. PICK q \in [1 .. m2 -> Obj] :
          HeapAt(q, m2)' /\ WalkAt(q, m2, k - 1, t)' /\ k - 1 <= m2
  BY <1>9
<1>11. SweepAt(q, m2)'
  <2>1. k - 1 \in 0 .. m2
    BY <1>10
  <2> QED
    BY <1>6, <1>8, <1>10, <2>1 DEF SweepAt
<1> QED
  BY <1>10, <1>11

\* The walk has reached the end of the list.
LEMMA OrderlyEnd ==
    ASSUME Safe, NEW m \in Nat, NEW p \in [1 .. m -> Obj], HeapAt(p, m), SweepAt(p, m),
           Walking, Top.cur = Null
    PROVE  black = {} /\ doomed = {} /\ ran = {} /\ Pop = <<>>
<1>1. sweeps # <<>> /\ Top.at = "walk" /\ pc = "run"
  BY DEF Walking
<1>2. WalkAt(p, m, 0, Top) /\ Len(sweeps) = 1
  BY <1>1, WalkStands
<1>3. UpTo(p, 0) = {}
  BY DEF UpTo
<1> QED
  BY <1>1, <1>2, <1>3, OneTop DEF WalkAt, Safe

\* One step of an orderly program.
LEMMA OrderlyNext ==
    ASSUME Safe, OrderlyInv, [Next]_vars
    PROVE  OrderlyInv'
<1>1. finalizer' = finalizer
  BY DEF Next, SweepStep, vars, Allocate, Collect, Trigger, Begin, SetPause, Drop, Raise, Keep,
         Finalize, Free, FinalizerReturns, UseAfterFree, EndCollect, EndTrigger, OutOfMemory
<1> DEFINE Next1 == \E m2 \in Nat : \E q \in [1 .. m2 -> Obj] : HeapAt(q, m2)' /\ SweepAt(q, m2)'
           Good == pc' # "undefined" /\ Next1
<1> SUFFICES ASSUME Orderly PROVE Good
  BY <1>1 DEF OrderlyInv, Orderly
<1>2. pc # "undefined"
  BY DEF OrderlyInv
<1>3. PICK m \in Nat : \E p \in [1 .. m -> Obj] : HeapAt(p, m) /\ SweepAt(p, m)
  BY DEF OrderlyInv
<1>4. PICK p \in [1 .. m -> Obj] : HeapAt(p, m) /\ SweepAt(p, m)
  BY <1>3
<1>5. ASSUME HeapAt(p, m)' /\ SweepAt(p, m)' PROVE Next1
  BY <1>5
<1> HIDE DEF Next1
<1>6. ASSUME NEW o \in Obj, NEW n \in Size, Allocate(o, n) PROVE Good
  <2>1. Next1
    BY <1>4, <1>6, OrderlyAllocate DEF Next1
  <2> QED
    BY <1>2, <1>6, <2>1 DEF Allocate
<1>7. CASE Collect
  BY <1>2, <1>4, <1>5, <1>7, OrderlyBegin DEF Collect, Begin
<1>8. ASSUME NEW n \in Size, Trigger(n) PROVE Good
  BY <1>2, <1>4, <1>5, <1>8, OrderlyBegin DEF Trigger, Begin
<1>9. ASSUME NEW v \in Pauses, SetPause(v) PROVE Good
  BY <1>2, <1>4, <1>5, <1>9, OrderlySame DEF SetPause, list, history
<1>10. ASSUME NEW o \in Obj, Drop(o) PROVE Good
  BY <1>2, <1>4, <1>5, <1>10, OrderlySame DEF Drop, list, history
<1>11. ASSUME NEW k \in 0 .. Len(sweeps) - 1, Raise(k) PROVE Good
  <2>1. Len(sweeps) = 1 /\ sweeps # <<>>
    BY <1>4, <1>11 DEF Raise, InFinalizer, SweepAt
  <2>2. sweeps' = <<>>
    <3>1. k = 0
      BY <2>1
    <3>2. sweeps' = SubSeq(sweeps, 1, 0)
      BY <1>11, <3>1 DEF Raise
    <3> QED
      BY <2>1, <3>2, SubSeqEmpty DEF Safe, TypeOK
  <2>3. Mem' = Mem
    BY <1>11 DEF Raise, list, Mem
  <2>4. HeapAt(p, m)'
    BY <1>4, <1>11, <2>3 DEF HeapAt, Chain, Raise, list
  <2>5. SweepAt(p, m)'
    BY <1>11, <2>2 DEF SweepAt, Raise
  <2> QED
    BY <1>2, <1>5, <1>11, <2>4, <2>5 DEF Raise
<1>12. CASE Keep
  BY <1>2, <1>4, <1>5, <1>12, OrderlyKeep DEF Keep
<1>13. CASE Finalize
  BY <1>2, <1>4, <1>5, <1>13, OrderlyFinalize DEF Finalize
<1>14. CASE Free \/ FinalizerReturns
  <2>1. Next1
    BY <1>4, <1>14, OrderlyRelease DEF Next1
  <2> QED
    BY <1>2, <1>14, <2>1 DEF Free, FinalizerReturns
<1>15. CASE UseAfterFree
  <2>1. sweeps # <<>>
    BY <1>15 DEF UseAfterFree
  <2>2. Top.cur = Null \/ Top.cur \in Mem
    BY <1>4, <2>1, WalkStands
  <2>3. Sound(Top.prev)
    BY <1>4, <2>1, WalkStands
  <2> QED
    BY <1>15, <2>2, <2>3, GcSweepAssumption DEF UseAfterFree
<1>16. CASE EndCollect
  <2>1. black = {} /\ doomed = {} /\ ran = {} /\ Pop = <<>>
    BY <1>4, <1>16, OrderlyEnd DEF EndCollect
  <2>2. Mem' = Mem
    BY <1>16 DEF EndCollect, list, Mem
  <2>3. HeapAt(p, m)'
    BY <1>4, <1>16, <2>2 DEF HeapAt, Chain, EndCollect, list
  <2>4. SweepAt(p, m)'
    BY <1>16, <2>1 DEF SweepAt, EndCollect, list, history
  <2> QED
    BY <1>2, <1>5, <1>16, <2>3, <2>4 DEF EndCollect
<1>17. ASSUME NEW o \in Obj, EndTrigger(o) PROVE Good
  <2>1. black = {} /\ doomed = {} /\ ran = {} /\ Pop = <<>>
    BY <1>4, <1>17, OrderlyEnd DEF EndTrigger
  <2>2. Top.pending \in Size /\ Push(o, Top.pending) /\ o \notin Mem
    BY <1>4, <1>17, WalkStands DEF EndTrigger, Walking, Activation
  <2> DEFINE q == [i \in 1 .. m + 1 |-> IF i = m + 1 THEN o ELSE p[i]]
  <2>3. q \in [1 .. m + 1 -> Obj] /\ HeapAt(q, m + 1)'
    BY <1>1, <1>4, <2>2, PushHeap
  <2> HIDE DEF q
  <2>4. SweepAt(q, m + 1)'
    BY <1>17, <2>1, <2>2 DEF SweepAt, EndTrigger, Push, history
  <2>5. Next1
    BY <2>3, <2>4 DEF Next1
  <2> QED
    BY <1>2, <1>17, <2>5 DEF EndTrigger
<1>18. CASE OutOfMemory
  BY <1>2, <1>4, <1>5, <1>18, OrderlySame DEF OutOfMemory, list, history
<1>19. CASE UNCHANGED vars
  BY <1>2, <1>4, <1>5, <1>19, OrderlySame DEF vars, list, history
<1> HIDE DEF Good
<1> QED
  BY <1>6, <1>7, <1>8, <1>9, <1>10, <1>11, <1>12, <1>13, <1>14, <1>15, <1>16, <1>17, <1>18,
     <1>19 DEF Next, SweepStep

-----------------------------------------------------------------------------
(* What the invariant says of the list, in the words of GcSweep.           *)

LEMMA OrderlyImplies ==
    ASSUME Safe, OrderlyInv
    PROVE  ListIsHeap /\ HeldIsAllocated /\ SweepIsComplete
<1> SUFFICES ASSUME Orderly PROVE ListIsHeap /\ HeldIsAllocated /\ SweepIsComplete
  BY DEF ListIsHeap, HeldIsAllocated, SweepIsComplete
<1>1. PICK m \in Nat : \E p \in [1 .. m -> Obj] : HeapAt(p, m) /\ SweepAt(p, m)
  BY DEF OrderlyInv
<1>2. PICK p \in [1 .. m -> Obj] : HeapAt(p, m) /\ SweepAt(p, m)
  BY <1>1
<1>3. Tracked = UpTo(p, m) /\ Nth[Cardinality(Obj)] = Null
  BY <1>2, TrackedIsChain DEF HeapAt, Safe
<1>4. ListIsHeap
  BY <1>2, <1>3 DEF ListIsHeap, HeapAt
<1> QED
  BY <1>2, <1>4 DEF HeldIsAllocated, SweepIsComplete, HeapAt, SweepAt

\* Only a program that is running takes steps.
LEMMA OnlyRunning ==
    ASSUME Next
    PROVE  pc = "run"
BY DEF Next, SweepStep, Allocate, Collect, Trigger, SetPause, Drop, Raise, Keep, Finalize, Free,
       FinalizerReturns, UseAfterFree, EndCollect, EndTrigger, OutOfMemory, InCode, InFinalizer,
       Walking

\* The history ran is empty whenever a finalizer may be about to be called.
LEMMA FinalizedOnceStep ==
    ASSUME Safe, OrderlyInv, [Next]_vars, Orderly, InFinalizer', ~InFinalizer
    PROVE  sweeps'[Len(sweeps')].cur \notin ran
<1>1. CASE UNCHANGED vars
  <2>1. InFinalizer' = InFinalizer
    BY <1>1 DEF vars, InFinalizer, Top
  <2> QED
    BY <2>1
<1>2. CASE Next
  <2>1. pc = "run"
    BY <1>2, OnlyRunning
  <2>2. PICK m \in Nat : \E p \in [1 .. m -> Obj] : HeapAt(p, m) /\ SweepAt(p, m)
    BY DEF OrderlyInv
  <2>3. PICK p \in [1 .. m -> Obj] : HeapAt(p, m) /\ SweepAt(p, m)
    BY <2>2
  <2>4. CASE sweeps = <<>>
    BY <2>1, <2>3, <2>4 DEF SweepAt
  <2>5. CASE sweeps # <<>>
    <3>1. Top.at # "finalizer"
      BY <2>1, <2>5 DEF InFinalizer
    <3>2. PICK k \in 0 .. m : WalkAt(p, m, k, Top)
      BY <2>3, <2>5, WalkStands
    <3> QED
      BY <2>1, <3>1, <3>2 DEF WalkAt
  <2> QED
    BY <2>4, <2>5
<1> QED
  BY <1>1, <1>2

\* The shape of the list and of the collection under way, in every state.
THEOREM OrderlyAlways == FairSpec => []OrderlyInv
<1>1. Init => Safe /\ OrderlyInv
  BY SafeInit, OrderlyInit
<1>2. Safe /\ OrderlyInv /\ [Next]_vars => (Safe /\ OrderlyInv)'
  BY SafeNext, OrderlyNext
<1> QED
  BY <1>1, <1>2, PTL DEF FairSpec

\* Every variable of the collector keeps its type, for any number of objects
\* and any depth of collections inside finalizers.
THEOREM SweepTypes == FairSpec => []TypeOK
<1>1. Safe => TypeOK
  BY DEF Safe
<1> QED
  BY <1>1, SafeAlways, PTL

\* g_gc_total_bytes is the sum of the sizes of what is allocated, for every
\* program, those whose finalizers collect and raise errors included.
THEOREM TotalIsAccounted == FairSpec => []BytesAreAccounted
<1>1. Safe => BytesAreAccounted
  BY DEF Safe
<1> QED
  BY <1>1, SafeAlways, PTL

\* @gc_sweep never touches freed memory while no finalizer collects.
THEOREM NoUseAfterFree == FairSpec => [](Orderly => pc # "undefined")
<1>1. OrderlyInv => (Orderly => pc # "undefined")
  BY DEF OrderlyInv
<1> QED
  BY <1>1, OrderlyAlways, PTL

\* The list of headers ends, leads through allocated memory only, and without
\* allocating finalizers through all of it.
THEOREM ListAlwaysHeap == FairSpec => []ListIsHeap
<1>1. Safe /\ OrderlyInv => ListIsHeap
  BY OrderlyImplies
<1> QED
  BY <1>1, SafeAlways, OrderlyAlways, PTL

\* What the program holds is never freed by @gc_sweep.
THEOREM HeldAlwaysAllocated == FairSpec => []HeldIsAllocated
<1>1. Safe /\ OrderlyInv => HeldIsAllocated
  BY OrderlyImplies
<1> QED
  BY <1>1, SafeAlways, OrderlyAlways, PTL

\* A collection that runs to its end frees everything that was WHITE when it
\* began and leaves every mark byte WHITE.
THEOREM SweepAlwaysComplete == FairSpec => []SweepIsComplete
<1>1. Safe /\ OrderlyInv => SweepIsComplete
  BY OrderlyImplies
<1> QED
  BY <1>1, SafeAlways, OrderlyAlways, PTL

\* @gc_sweep calls the finalizer of an object once.
THEOREM FinalizerCalledOnce == FairSpec => FinalizedOnce
<1>1. Safe /\ OrderlyInv /\ [Next]_vars =>
         [Orderly /\ InFinalizer' /\ ~InFinalizer => sweeps'[Len(sweeps')].cur \notin ran]_vars
  BY FinalizedOnceStep
<1> QED
  BY <1>1, SafeAlways, OrderlyAlways, PTL DEF FairSpec, FinalizedOnce
=============================================================================
