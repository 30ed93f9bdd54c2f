---------------------------- MODULE GcHeapProofs ----------------------------
(***************************************************************************)
(* Proofs about GcHeap, for any number of addresses, slots and passes and  *)
(* any set of programs.                                                    *)
(*                                                                         *)
(* Marking (types, list, MarkInv, MarkCovers) is inductive in every        *)
(* program: what a pass adds is one edge more on every path from a root    *)
(* (WithinStep), and the sweep meets an object once.  Precise bounds the   *)
(* BLACK objects from above by what the roots reach.                       *)
(*                                                                         *)
(* That nothing dangles needs more.  The number of passes is fixed, so it  *)
(* can only hold while the graph is Shallow; then at the end of a marking  *)
(* the BLACK objects are those the roots reach.  Shapes says which fields  *)
(* an object may have, and hence which pointers the marker must follow in  *)
(* a supported program (BlackIsClosed).  Sound, over the objects the sweep *)
(* has left and is going to leave, carries it through the walk.            *)
(***************************************************************************)
EXTENDS GcHeap, SequenceTheorems, FiniteSetTheorems, TLAPS

-----------------------------------------------------------------------------
(* Edges and paths, for as long as the graph is left alone.                *)

\* What the marker reads.
graph == <<prog, heap, chunk, chunkTv, frames>>

LEMMA TrackedKept ==
    ASSUME UNCHANGED graph
    PROVE  Tracked' = Tracked /\ Alloc' = Alloc /\ DepthGuard' = DepthGuard
BY DEF graph, heap, Tracked, Alloc, DepthGuard

LEMMA EdgesKept ==
    ASSUME UNCHANGED graph, NEW o, NEW F
    PROVE  Edges(o, F)' = Edges(o, F)
BY DEF graph, heap, Edges

LEMMA WeakKept ==
    ASSUME UNCHANGED graph, NEW o
    PROVE  IsWeak(o)' = IsWeak(o)
<1>1. Edges(o, {"metatable"})' = Edges(o, {"metatable"})
  BY EdgesKept
<1>2. mode' = mode
  BY DEF graph, heap
<1> QED
  BY <1>1, <1>2 DEF IsWeak

LEMMA TableKidsKept ==
    ASSUME UNCHANGED graph, NEW o
    PROVE  TableKids(o)' = TableKids(o)
<1>1. \A F : Edges(o, F)' = Edges(o, F)
  BY EdgesKept
<1>2. IsWeak(o)' = IsWeak(o)
  BY WeakKept
<1>3. kind' = kind
  BY DEF graph, heap
<1>4. ArrayKids(o)' = ArrayKids(o)
  BY <1>1, <1>2, <1>3 DEF ArrayKids
<1>5. HashKids(o)' = HashKids(o)
  BY <1>1, <1>2, <1>3 DEF HashKids
<1> QED
  BY <1>1, <1>3, <1>4, <1>5 DEF TableKids

LEMMA KidsKept ==
    ASSUME UNCHANGED graph, NEW o
    PROVE  CellKids(o)' = CellKids(o) /\ Kids(o)' = Kids(o)
<1>1. \A F : Edges(o, F)' = Edges(o, F)
  BY EdgesKept
<1>2. kind' = kind
  BY DEF graph, heap
<1>3. CellKids(o)' = CellKids(o)
  BY <1>1, <1>2 DEF CellKids
<1> QED
  BY <1>3, TableKidsKept, TrackedKept DEF Kids

LEMMA RootsKept ==
    ASSUME UNCHANGED graph
    PROVE  ChunkRoots' = ChunkRoots /\ Roots' = Roots
<1>1. Tracked' = Tracked
  BY TrackedKept
<1>2. ChunkRoots' = ChunkRoots
  BY <1>1 DEF ChunkRoots, graph, heap
<1>3. FrameRoots' = FrameRoots
  BY <1>1 DEF FrameRoots, graph, heap
<1> QED
  BY <1>2, <1>3 DEF Roots, graph

LEMMA ReachKept ==
    ASSUME UNCHANGED graph
    PROVE  Reachable' = Reachable
<1>1. Tracked' = Tracked /\ Roots' = Roots
  BY TrackedKept, RootsKept
<1>2. \A o : Kids(o)' = Kids(o)
  BY KidsKept
<1>3. \A S : Closed(S)' = Closed(S)
  BY <1>1, <1>2 DEF Closed
<1> QED
  BY <1>1, <1>3 DEF Reachable

LEMMA WithinKept ==
    ASSUME UNCHANGED graph
    PROVE  /\ Within(Passes)' = Within(Passes)
           /\ \A n : pass' = n => Within(pass)' = Within(n)
<1>1. Tracked' = Tracked /\ Roots' = Roots
  BY TrackedKept, RootsKept
<1>2. \A o : Kids(o)' = Kids(o)
  BY KidsKept
<1>3. Within(Passes)' = Within(Passes)
  BY <1>1, <1>2 DEF Within
<1>4. ASSUME NEW n, pass' = n
      PROVE  Within(pass)' = Within(n)
  BY <1>1, <1>2, <1>4 DEF Within
<1> QED
  BY <1>3, <1>4

LEMMA KeepSetKept ==
    ASSUME UNCHANGED graph
    PROVE  KeepSet' = KeepSet
BY TrackedKept, WithinKept DEF KeepSet

\* The walks of a pass.
LEMMA WalksKept ==
    ASSUME UNCHANGED graph, pass' = pass, black \subseteq black'
    PROVE  /\ TablesDone(at) /\ at' = at => TablesDone(at)'
           /\ TablesDone(Len(g_gc_head) + 1) => TablesDone(Len(g_gc_head) + 1)'
           /\ CellsDone(at) /\ at' = at => CellsDone(at)'
<1>1. Within(pass)' = Within(pass)
  BY WithinKept
<1>2. g_gc_head' = g_gc_head /\ Tracked' = Tracked
  BY TrackedKept DEF graph, heap
<1>3. \A o : TableKids(o)' = TableKids(o) /\ CellKids(o)' = CellKids(o)
  BY TableKidsKept, KidsKept
<1> QED
  BY <1>1, <1>2, <1>3 DEF TablesDone, CellsDone

LEMMA RootsTracked ==
    Roots \subseteq Tracked /\ Within(Passes) \subseteq Tracked /\ Reachable \subseteq Tracked
BY DEF Roots, ChunkRoots, FrameRoots, Within, Reachable

LEMMA WithinZero ==
    Within(0) \subseteq Roots
BY DEF Within

\* One more pass covers one more edge.
LEMMA WithinStep ==
    ASSUME NEW n \in Nat, NEW S, Within(n) \subseteq S,
           \A o \in Within(n) : Kids(o) \subseteq S
    PROVE  Within(n + 1) \subseteq S
<1> SUFFICES ASSUME NEW o \in Within(n + 1)
             PROVE  o \in S
  OBVIOUS
<1>0. PICK k \in 0 .. n + 1 : \E p \in [0 .. k -> Obj] :
         p[0] \in Roots /\ p[k] = o /\ \A i \in 1 .. k : p[i] \in Kids(p[i - 1])
  BY DEF Within
<1>1. PICK p \in [0 .. k -> Obj] :
         p[0] \in Roots /\ p[k] = o /\ \A i \in 1 .. k : p[i] \in Kids(p[i - 1])
  BY <1>0
<1>2. CASE k <= n
  <2>1. k \in 0 .. n /\ o \in Tracked
    BY <1>2 DEF Within
  <2>2. o \in Within(n)
    BY <1>1, <2>1 DEF Within
  <2> QED
    BY <2>2
<1>3. CASE k = n + 1
  <2> DEFINE q == [i \in 0 .. n |-> p[i]]
  <2>1. q \in [0 .. n -> Obj] /\ q[0] \in Roots /\ q[n] = p[n]
    BY <1>1, <1>3
  <2>2. \A i \in 1 .. n : q[i] \in Kids(q[i - 1])
    BY <1>1, <1>3
  <2>3. p[n] \in Tracked
    <3>1. CASE n = 0
      BY <1>1, <3>1, RootsTracked
    <3>2. CASE n # 0
      <4>1. n \in 1 .. k
        BY <1>3, <3>2
      <4> QED
        BY <4>1, <1>1 DEF Kids
    <3> QED
      BY <3>1, <3>2
  <2>4. p[n] \in Within(n)
    <3>1. n \in 0 .. n
      OBVIOUS
    <3> HIDE DEF q
    <3> QED
      BY <2>1, <2>2, <2>3, <3>1 DEF Within
  <2>5. p[n + 1] \in Kids(p[n + 1 - 1])
    BY <1>1, <1>3
  <2>6. n + 1 - 1 = n
    OBVIOUS
  <2> QED
    BY <2>4, <2>5, <2>6, <1>1, <1>3
<1> QED
  BY <1>2, <1>3

\* What the roots reach is closed.
LEMMA ReachClosed ==
    Roots \subseteq Reachable /\ \A o \in Reachable : Kids(o) \subseteq Reachable
<1>1. Roots \subseteq Reachable
  BY RootsTracked DEF Reachable, Closed
<1>2. ASSUME NEW o \in Reachable, NEW p \in Kids(o)
      PROVE  p \in Reachable
  <2>1. p \in Tracked
    BY <1>2 DEF Kids
  <2>2. ASSUME NEW S \in SUBSET Tracked, Closed(S)
        PROVE  p \in S
    <3>1. o \in S
      BY <2>2 DEF Reachable
    <3> QED
      BY <3>1, <2>2 DEF Closed
  <2> QED
    BY <2>1, <2>2 DEF Reachable
<1> QED
  BY <1>1, <1>2


-----------------------------------------------------------------------------
(* The allocation list, and the types.                                     *)

Elements(s) == {s[i] : i \in DOMAIN s}
Once(s) == \A i, j \in DOMAIN s : s[i] = s[j] => i = j

LEMMA PushOnce ==
    ASSUME NEW S, NEW s \in Seq(S), NEW o \in S, o \notin Elements(s), Once(s)
    PROVE  /\ <<o>> \o s \in Seq(S)
           /\ Elements(<<o>> \o s) = Elements(s) \cup {o}
           /\ Once(<<o>> \o s)
<1> DEFINE t == <<o>> \o s
<1>1. t \in Seq(S) /\ Len(t) = Len(s) + 1 /\ DOMAIN t = 1 .. Len(s) + 1 /\ Len(s) \in Nat
      /\ DOMAIN s = 1 .. Len(s)
  OBVIOUS
<1>2. t[1] = o /\ \A i \in 1 .. Len(s) : t[i + 1] = s[i]
  OBVIOUS
<1>3. \A i \in DOMAIN t : i = 1 \/ (i - 1 \in DOMAIN s /\ t[i] = s[i - 1])
  BY <1>1, <1>2
<1>3a. \A i \in DOMAIN s : i + 1 \in DOMAIN t /\ t[i + 1] = s[i]
  BY <1>1, <1>2
<1>3b. 1 \in DOMAIN t
  BY <1>1
<1> HIDE DEF t
<1>4. Elements(t) = Elements(s) \cup {o}
  <2>1. \A i \in DOMAIN t : t[i] \in Elements(s) \cup {o}
    BY <1>2, <1>3 DEF Elements
  <2>2. \A i \in DOMAIN s : s[i] \in Elements(t)
    BY <1>3a DEF Elements
  <2>3. o \in Elements(t)
    BY <1>2, <1>3b DEF Elements
  <2> QED
    BY <2>1, <2>2, <2>3 DEF Elements
<1>5. Once(t)
  <2> SUFFICES ASSUME NEW i \in DOMAIN t, NEW j \in DOMAIN t, t[i] = t[j]
               PROVE  i = j
    BY DEF Once
  <2>1. i \in Nat /\ j \in Nat
    BY <1>1
  <2>2. CASE i = 1 \/ j = 1
    BY <2>2, <1>2, <1>3 DEF Elements
  <2>3. CASE i # 1 /\ j # 1
    <3>1. i - 1 = j - 1
      BY <2>3, <1>3 DEF Once
    <3> QED
      BY <3>1, <2>1
  <2> QED
    BY <2>2, <2>3
<1> QED
  BY <1>1, <1>4, <1>5 DEF t

LEMMA UnlinkOnce ==
    ASSUME NEW S, NEW s \in Seq(S), NEW i \in DOMAIN s, Once(s)
    PROVE  /\ Unlink(s, i) \in Seq(S)
           /\ Elements(Unlink(s, i)) = Elements(s) \ {s[i]}
           /\ Once(Unlink(s, i))
           /\ \A j \in DOMAIN s : j < i => j \in DOMAIN Unlink(s, i) /\ Unlink(s, i)[j] = s[j]
           /\ \A j \in DOMAIN Unlink(s, i) :
                IF j < i THEN j \in DOMAIN s /\ Unlink(s, i)[j] = s[j]
                         ELSE j + 1 \in DOMAIN s /\ Unlink(s, i)[j] = s[j + 1]
<1> DEFINE t == Unlink(s, i)
<1>1. Len(s) \in Nat /\ DOMAIN s = 1 .. Len(s) /\ Len(s) - 1 \in Nat
  OBVIOUS
<1>2. DOMAIN t = 1 .. Len(s) - 1
  BY DEF Unlink
<1>3. \A j \in DOMAIN t : IF j < i THEN j \in DOMAIN s /\ t[j] = s[j]
                                   ELSE j + 1 \in DOMAIN s /\ t[j] = s[j + 1]
  BY <1>1 DEF Unlink
<1>4. \A j \in DOMAIN s : j < i => j \in DOMAIN t /\ t[j] = s[j]
  BY <1>1 DEF Unlink
<1>5. \A j \in DOMAIN s : j > i => j - 1 \in DOMAIN t /\ t[j - 1] = s[j]
  <2> SUFFICES ASSUME NEW j \in DOMAIN s, j > i
               PROVE  j - 1 \in DOMAIN t /\ t[j - 1] = s[j]
    OBVIOUS
  <2>1. j - 1 \in 1 .. Len(s) - 1 /\ ~(j - 1 < i) /\ j - 1 + 1 = j
    BY <1>1
  <2> QED
    BY <2>1, <1>2, <1>3
<1>6. t \in Seq(S)
  <2>1. \A j \in 1 .. Len(s) - 1 : t[j] \in S
    BY <1>1, <1>2, <1>3
  <2>2. t = [j \in 1 .. Len(s) - 1 |-> t[j]]
    BY DEF Unlink
  <2> HIDE DEF t
  <2> QED
    BY <1>1, <2>1, <2>2
<1> HIDE DEF t
<1>7. \A j \in DOMAIN t : t[j] # s[i]
  BY <1>1, <1>2, <1>3 DEF Once
<1>8. Elements(t) = Elements(s) \ {s[i]}
  <2>1. \A j \in DOMAIN t : t[j] \in Elements(s) \ {s[i]}
    BY <1>3, <1>7 DEF Elements
  <2>2. \A j \in DOMAIN s : s[j] # s[i] => s[j] \in Elements(t)
    <3>1. \A j \in DOMAIN s : j < i \/ j > i \/ j = i
      BY <1>1
    <3> QED
      BY <3>1, <1>4, <1>5 DEF Elements
  <2> QED
    BY <2>1, <2>2 DEF Elements
<1>9. Once(t)
  <2> SUFFICES ASSUME NEW j \in DOMAIN t, NEW k \in DOMAIN t, t[j] = t[k]
               PROVE  j = k
    BY DEF Once
  <2>1. j \in Nat /\ k \in Nat /\ i \in Nat
    BY <1>1, <1>2
  <2> QED
    BY <2>1, <1>3 DEF Once
<1> QED
  BY <1>3, <1>4, <1>6, <1>8, <1>9 DEF t


\* The allocated objects are those of the list, each once.
HeapOK ==
    /\ g_gc_head \in Seq(Obj)
    /\ kind \in [Obj -> Kind \cup {"free"}]
    /\ ref \in [Obj -> SUBSET Edge]
    /\ mode \subseteq Obj
    /\ Elements(g_gc_head) = Alloc
    /\ Once(g_gc_head)

ProgramOK ==
    /\ chunk \in [ChunkSlot -> Ptr]
    /\ chunkTv \in [TvSlot -> Ptr]
    /\ frames \in Seq([FrameSlot -> Ptr])
    /\ reg \in Ptr
    /\ operands \in Seq(Ptr) /\ Len(operands) = Len(frames) + 1
    /\ fn_params \in Seq(Ptr) /\ Len(fn_params) = Len(frames)
    /\ boxes \in Seq(Ptr) /\ Len(boxes) = Len(frames)

CollectorOK ==
    /\ black \subseteq Obj
    /\ pc \in {"run", "roots", "frames", "tables", "cells", "weak", "sweep", "exit"}
    /\ pass \in Nat /\ pass <= Passes
    /\ pc \in {"tables", "cells"} => pass < Passes
    /\ at \in Nat \ {0}
    /\ kept \subseteq Obj

LEMMA ListReplaced ==
    ASSUME NEW s \in Seq(Obj), NEW A, g_gc_head' = s, Once(s), Elements(s) = A, Alloc' = A
    PROVE  g_gc_head' \in Seq(Obj) /\ Elements(g_gc_head)' = Alloc' /\ Once(g_gc_head)'
BY DEF Elements, Once

LEMMA FreshHeap ==
    ASSUME HeapOK, NEW o \in Obj, NEW k \in Kind, NEW edges \in SUBSET Edge, Fresh(o, k, edges)
    PROVE  HeapOK' /\ Tracked' = Tracked \cup {o} /\ Alloc' = Alloc \cup {o}
<1>1. k # "free"
  BY DEF Kind
<1>2. Alloc' = Alloc \cup {o}
  BY <1>1 DEF Alloc, Fresh, HeapOK
<1>3. o \notin Elements(g_gc_head)
  BY DEF HeapOK, Alloc, Fresh
<1>4. /\ <<o>> \o g_gc_head \in Seq(Obj)
      /\ Elements(<<o>> \o g_gc_head) = Elements(g_gc_head) \cup {o}
      /\ Once(<<o>> \o g_gc_head)
  BY <1>3, PushOnce DEF HeapOK
<1>5. g_gc_head' \in Seq(Obj) /\ Elements(g_gc_head)' = Alloc' /\ Once(g_gc_head)'
  <2>1. g_gc_head' = <<o>> \o g_gc_head
    BY DEF Fresh
  <2>2. Elements(<<o>> \o g_gc_head) = Alloc \cup {o}
    BY <1>4 DEF HeapOK
  <2> QED
    BY <1>2, <1>4, <2>1, <2>2, ListReplaced
<1>6. kind' \in [Obj -> Kind \cup {"free"}] /\ ref' \in [Obj -> SUBSET Edge] /\ mode' \subseteq Obj
  BY DEF Fresh, HeapOK
<1>7. Tracked' = Tracked \cup {o}
  BY <1>5, <1>2 DEF Tracked, Elements, HeapOK
<1> QED
  BY <1>2, <1>5, <1>6, <1>7 DEF HeapOK

\* The buffer of a store, or no new object.
Stored(t, f, edges) ==
    \/ /\ ref' = [ref EXCEPT ![t] = edges]
       /\ UNCHANGED <<g_gc_head, kind, mode>>
    \/ \E b \in Obj :
         /\ kind[b] = "free"
         /\ g_gc_head' = <<b>> \o g_gc_head
         /\ kind' = [kind EXCEPT ![b] = "buf"]
         /\ ref' = [ref EXCEPT
                      ![t] = {e \in edges : e[1] # BufOf(f)} \cup {<<BufOf(f), b>>},
                      ![b] = {}]
         /\ mode' = mode \ {b}

LEMMA StoredHeap ==
    ASSUME HeapOK, NEW t \in Obj, kind[t] = "table", NEW f \in {"array", "hash_value"},
           NEW edges \in SUBSET Edge, Stored(t, f, edges)
    PROVE  HeapOK'
<1>1. CASE ref' = [ref EXCEPT ![t] = edges] /\ UNCHANGED <<g_gc_head, kind, mode>>
  BY <1>1 DEF HeapOK, Alloc, Elements, Once
<1>2. ASSUME NEW b \in Obj,
             /\ kind[b] = "free"
             /\ g_gc_head' = <<b>> \o g_gc_head
             /\ kind' = [kind EXCEPT ![b] = "buf"]
             /\ ref' = [ref EXCEPT
                          ![t] = {e \in edges : e[1] # BufOf(f)} \cup {<<BufOf(f), b>>},
                          ![b] = {}]
             /\ mode' = mode \ {b}
      PROVE  HeapOK'
  <2> DEFINE old == [ref EXCEPT ![t] = {e \in edges : e[1] # BufOf(f)} \cup {<<BufOf(f), b>>}]
  <2>1. Alloc' = Alloc \cup {b}
    BY <1>2 DEF Alloc, HeapOK
  <2>2. b \notin Elements(g_gc_head)
    BY <1>2 DEF HeapOK, Alloc
  <2>3. /\ <<b>> \o g_gc_head \in Seq(Obj)
        /\ Elements(<<b>> \o g_gc_head) = Elements(g_gc_head) \cup {b}
        /\ Once(<<b>> \o g_gc_head)
    BY <2>2, PushOnce DEF HeapOK
  <2>4. g_gc_head' \in Seq(Obj) /\ Elements(g_gc_head)' = Alloc' /\ Once(g_gc_head)'
    <3>1. Elements(<<b>> \o g_gc_head) = Alloc \cup {b}
      BY <2>3 DEF HeapOK
    <3> QED
      BY <1>2, <2>1, <2>3, <3>1, ListReplaced
  <2>5. <<BufOf(f), b>> \in Edge
    BY DEF BufOf, Edge, Field
  <2>6. {e \in edges : e[1] # BufOf(f)} \cup {<<BufOf(f), b>>} \in SUBSET Edge
    BY <2>5
  <2>7. old \in [Obj -> SUBSET Edge]
    BY <2>6 DEF HeapOK
  <2>8. ref' = [old EXCEPT ![b] = {}]
    BY <1>2
  <2>9. ref' \in [Obj -> SUBSET Edge]
    BY <2>7, <2>8
  <2>10. kind' \in [Obj -> Kind \cup {"free"}] /\ mode' \subseteq Obj
    BY <1>2 DEF HeapOK, Kind
  <2> QED
    BY <2>4, <2>9, <2>10 DEF HeapOK
<1> QED
  BY <1>1, <1>2 DEF Stored

LEMMA HeapUnchanged ==
    ASSUME HeapOK, UNCHANGED <<g_gc_head, kind>>, ref' \in [Obj -> SUBSET Edge], mode' \subseteq Obj
    PROVE  HeapOK'
BY DEF HeapOK, Alloc, Elements, Once

\* A variable of an activation and its operand hold an address or nothing.
LEMMA LocalsArePointers ==
    ASSUME ProgramOK
    PROVE  /\ \A s \in LocalSlot : Locals[s] \in Ptr
           /\ Named \subseteq Ptr
           /\ Captured \subseteq Obj
           /\ Waiting \in Ptr
           /\ LocalTable \cup OperandTable \subseteq {o \in Obj : kind[o] = "table"}
           /\ LocalTable \cup OperandTable \subseteq Alloc
<1>1. \A s \in LocalSlot : Locals[s] \in Ptr
  <2>1. CASE frames = <<>>
    BY <2>1 DEF LocalSlot, Locals, ProgramOK
  <2>2. CASE frames # <<>>
    <3>1. frames[1] \in [FrameSlot -> Ptr]
      BY <2>2 DEF ProgramOK
    <3> QED
      BY <2>2, <3>1 DEF LocalSlot, Locals
  <2> QED
    BY <2>1, <2>2
<1>2. Named \subseteq Ptr
  BY <1>1 DEF Named, ProgramOK
<1>2a. Captured \subseteq Obj
  BY DEF Captured, ProgramOK, Ptr
<1>3. Waiting \in Ptr
  BY DEF Waiting, ProgramOK
<1>4. LocalTable \subseteq {o \in Obj : kind[o] = "table"} /\ LocalTable \subseteq Alloc
  BY DEF LocalTable, Alloc
<1>5. OperandTable \subseteq {o \in Obj : kind[o] = "table"} /\ OperandTable \subseteq Alloc
  BY DEF OperandTable, Alloc
<1> QED
  BY <1>1, <1>2, <1>2a, <1>3, <1>4, <1>5

Types == prog \in Program /\ HeapOK /\ ProgramOK /\ CollectorOK

LEMMA TypesInParts ==
    Types => TypeOK /\ ListInv
BY DEF Types, TypeOK, ListInv, HeapOK, ProgramOK, CollectorOK, Tracked, Elements, Once

\* The table after a store of reg over old, under the key k.
Written(t, f, old, k) ==
    (ref[t] \ old) \cup {<<f, reg>>} \cup (IF k = Null THEN {} ELSE {<<"hash_key", k>>})

LEMMA StoreEdges ==
    ASSUME Types, NEW t \in Obj, NEW f \in {"array", "hash_value"}, reg \in Obj,
           NEW old \in {{}} \cup {{e} : e \in {x \in ref[t] : x[1] = f}}, NEW k \in Keys(f)
    PROVE  Written(t, f, old, k) \in SUBSET Edge
<1>1. ref[t] \in SUBSET Edge
  BY DEF Types, HeapOK
<1>2. <<f, reg>> \in Edge
  BY DEF Edge, Field
<1>3. k # Null => <<"hash_key", k>> \in Edge
  BY DEF Keys, Alloc, Edge, Field
<1> QED
  BY <1>1, <1>2, <1>3 DEF Written

\* What creating a closure and entering a function that captures allocate.
LEMMA ClosureAllocates ==
    ASSUME Types, NEW o \in Obj, EvalClosure(o)
    PROVE  \E b \in Captured : Fresh(o, "cell", {<<"upvalue_box", b>>})
                             /\ <<"upvalue_box", b>> \in Edge
<1>1. PICK b \in Captured : Fresh(o, "cell", {<<"upvalue_box", b>>})
  BY DEF EvalClosure
<1>2. b \in Obj
  BY LocalsArePointers DEF Types
<1> QED
  BY <1>1, <1>2 DEF Edge, Field

LEMMA CapturingAllocates ==
    ASSUME Types, NEW o \in Obj, CallCapturing(o)
    PROVE  \E E \in SUBSET Edge :
              /\ Fresh(o, "box", E)
              /\ \A e \in E : e[1] = "upvalue" /\ e[2] \in Arguments(FALSE) /\ "upvalue" \in prog.uses
<1>1. PICK v \in {Null} \cup Arguments(FALSE) :
         /\ v # Null => "upvalue" \in prog.uses
         /\ Fresh(o, "box", IF v = Null THEN {} ELSE {<<"upvalue", v>>})
  BY DEF CallCapturing
<1>2. Arguments(FALSE) \subseteq Obj
  BY LocalsArePointers DEF Types, ProgramOK, Arguments, Ptr
<1>3. v # Null => <<"upvalue", v>> \in Edge /\ v \in Arguments(FALSE)
  BY <1>1, <1>2 DEF Edge, Field
<1> DEFINE E == IF v = Null THEN {} ELSE {<<"upvalue", v>>}
<1>4. Fresh(o, "box", E)
  BY <1>1
<1>5. CASE v = Null
  <2>1. E = {}
    BY <1>5
  <2> QED
    BY <1>4, <2>1
<1>6. CASE v # Null
  <2>1. E = {<<"upvalue", v>>}
    BY <1>6
  <2>2. \A e \in E : e = <<"upvalue", v>> /\ e[1] = "upvalue" /\ e[2] = v
    BY <2>1
  <2> HIDE DEF E
  <2>3. v \in Arguments(FALSE) /\ "upvalue" \in prog.uses /\ E \in SUBSET Edge
    BY <1>6, <1>1, <1>3, <2>1
  <2> QED
    BY <1>4, <2>2, <2>3
<1> QED
  BY <1>5, <1>6

LEMMA MutateHeap ==
    ASSUME Types, Mutate
    PROVE  HeapOK'
<1>1. ASSUME NEW o \in Obj, EvalString(o) \/ EvalTable(o)
      PROVE  HeapOK'
  BY <1>1, FreshHeap DEF EvalString, EvalTable, Types, Kind
<1>2. ASSUME UNCHANGED heap
      PROVE  HeapOK'
  BY <1>2, HeapUnchanged DEF heap, Types, HeapOK
<1>3. ASSUME \/ EvalLocal \/ EvalElem \/ AssignLocal \/ AssignTv
             \/ Hold \/ Combine \/ Call \/ Return \/ OutOfMemory
      PROVE  HeapOK'
  <2>1. UNCHANGED heap
    BY <1>3 DEF EvalLocal, EvalElem, AssignLocal, AssignTv, Hold, Combine, Call, Return, OutOfMemory
  <2> QED
    BY <2>1, <1>2
<1>4. ASSUME NEW t \in LocalTable \cup OperandTable, NEW f \in {"array", "hash_value"}, StoreElem(t, f)
      PROVE  HeapOK'
  <2>1. t \in Obj /\ kind[t] = "table" /\ reg \in Obj
    BY <1>4 DEF StoreElem, Alloc
  <2>2. PICK old \in {{}} \cup {{e} : e \in {x \in ref[t] : x[1] = f}}, k \in Keys(f) :
           Stored(t, f, Written(t, f, old, k))
    BY <1>4 DEF StoreElem, Stored, Written
  <2>3. Written(t, f, old, k) \in SUBSET Edge
    BY <2>1, <2>2, StoreEdges
  <2> QED
    BY <2>1, <2>2, <2>3, StoredHeap DEF Types
<1>5. ASSUME NEW t \in LocalTable \cup OperandTable, NEW f \in {"array", "hash_value"}, StoreTriggers(t, f)
      PROVE  HeapOK'
  BY <1>2, <1>5 DEF StoreTriggers, AutoTrigger, StartMark
<1>6. ASSUME NEW t \in LocalTable, EraseElem(t)
      PROVE  HeapOK'
  <2>1. PICK e \in ref[t], K \in SUBSET Edges(t, {"hash_key"}) :
           ref' = [ref EXCEPT ![t] = @ \ ({e} \cup ({"hash_key"} \X K))]
    BY <1>6 DEF EraseElem
  <2>2. ref' \in [Obj -> SUBSET Edge]
    BY <2>1 DEF Types, HeapOK
  <2>3. UNCHANGED <<g_gc_head, kind, mode>>
    BY <1>6 DEF EraseElem
  <2> QED
    BY <2>2, <2>3, HeapUnchanged DEF Types, HeapOK
<1>7. ASSUME NEW t \in LocalTable \cup OperandTable, SetMetatable(t)
      PROVE  HeapOK'
  <2>1. <<"metatable", reg>> \in Edge
    BY <1>7 DEF SetMetatable, Alloc, Edge, Field
  <2>2. ref' \in [Obj -> SUBSET Edge] /\ UNCHANGED <<g_gc_head, kind, mode>>
    BY <1>7, <2>1 DEF SetMetatable, Types, HeapOK
  <2> QED
    BY <2>2, HeapUnchanged DEF Types, HeapOK
<1>8. ASSUME NEW t \in LocalTable, SetMode(t)
      PROVE  HeapOK'
  BY <1>8, HeapUnchanged, LocalsArePointers DEF SetMode, Types, HeapOK
<1>9. ASSUME NEW o \in Obj, EvalClosure(o) \/ CallCapturing(o)
      PROVE  HeapOK'
  <2>1. PICK k \in Kind, E \in SUBSET Edge : Fresh(o, k, E)
    BY <1>9, ClosureAllocates, CapturingAllocates DEF Kind
  <2> QED
    BY <2>1, FreshHeap DEF Types
<1> QED
  BY <1>1, <1>3, <1>4, <1>5, <1>6, <1>7, <1>8, <1>9 DEF Mutate

LEMMA MutateProgram ==
    ASSUME Types, Mutate
    PROVE  ProgramOK'
<1> USE DEF Types, ProgramOK, unrooted
<1>a. frames' = frames /\ UNCHANGED unrooted
        => /\ operands' \in Seq(Ptr) /\ Len(operands') = Len(frames') + 1
           /\ fn_params' \in Seq(Ptr) /\ Len(fn_params') = Len(frames')
           /\ boxes' \in Seq(Ptr) /\ Len(boxes') = Len(frames')
  OBVIOUS
<1>1. ASSUME NEW o \in Obj, EvalString(o) \/ EvalTable(o)
      PROVE  ProgramOK'
  BY <1>1 DEF EvalString, EvalTable, Ptr
<1>2. ASSUME UNCHANGED <<chunk, chunkTv, frames, reg, unrooted>>
      PROVE  ProgramOK'
  BY <1>2
<1>3. ASSUME EvalLocal
      PROVE  ProgramOK'
  <2>1. \A s \in TvSlot : chunkTv[s] \in Ptr
    OBVIOUS
  <2>2. \A b \in Captured : Edges(b, {"upvalue"}) \subseteq Obj
    BY LocalsArePointers DEF HeapOK, Edges, Edge
  <2> DEFINE U == UNION {Edges(b, {"upvalue"}) : b \in Captured}
  <2> DEFINE T == {chunkTv[s] : s \in IF frames = <<>> THEN TvSlot ELSE {}}
  <2>3. U \subseteq Obj
    BY <2>2
  <2>4. T \subseteq Ptr
    BY <2>1
  <2>5. Named \subseteq Ptr
    BY LocalsArePointers
  <2>6. reg' \in Named \cup U \cup T
    BY <1>3 DEF EvalLocal
  <2> HIDE DEF U, T
  <2>7. reg' \in Ptr
    BY <2>3, <2>4, <2>5, <2>6 DEF Ptr
  <2> QED
    BY <2>7, <1>3 DEF EvalLocal
<1>4. ASSUME EvalElem
      PROVE  ProgramOK'
  <2>1. PICK s \in LocalSlot : Locals[s] \in Alloc /\ reg' \in Edges(Locals[s], {"array", "hash_value"})
    BY <1>4 DEF EvalElem
  <2>2. ref[Locals[s]] \in SUBSET Edge
    BY <2>1 DEF Alloc, HeapOK
  <2>3. reg' \in Obj
    BY <2>1, <2>2 DEF Edges, Edge
  <2> QED
    BY <2>3, <1>4 DEF EvalElem, Ptr
<1>5. ASSUME AssignLocal
      PROVE  ProgramOK'
  <2>1. reg' \in Ptr /\ chunkTv' = chunkTv
    BY <1>5 DEF AssignLocal, Ptr
  <2>2. CASE frames = <<>>
    BY <2>1, <2>2, <1>5 DEF AssignLocal, LocalSlot
  <2>3. CASE frames # <<>>
    <3>1. PICK s \in FrameSlot : frames' = [frames EXCEPT ![1][s] = reg]
      BY <2>3, <1>5 DEF AssignLocal, LocalSlot
    <3>2. 1 \in 1 .. Len(frames) /\ frames[1] \in [FrameSlot -> Ptr]
      BY <2>3
    <3> DEFINE v == [frames[1] EXCEPT ![s] = reg]
    <3>3. v \in [FrameSlot -> Ptr]
      BY <3>2
    <3>4. frames' = [frames EXCEPT ![1] = v]
      BY <3>1
    <3> HIDE DEF v
    <3>5. frames' \in Seq([FrameSlot -> Ptr]) /\ Len(frames') = Len(frames)
      BY <3>2, <3>3, <3>4, ExceptSeq
    <3> QED
      BY <2>1, <2>3, <3>5, <1>5 DEF AssignLocal
  <2> QED
    BY <2>2, <2>3
<1>6. ASSUME AssignTv
      PROVE  ProgramOK'
  BY <1>6 DEF AssignTv, Ptr
<1>7. ASSUME NEW t \in LocalTable \cup OperandTable,
             \/ \E f \in {"array", "hash_value"} : StoreElem(t, f) \/ StoreTriggers(t, f)
             \/ EraseElem(t) \/ SetMetatable(t) \/ SetMode(t)
      PROVE  ProgramOK'
  BY <1>7 DEF StoreElem, StoreTriggers, AutoTrigger, StartMark, EraseElem, SetMetatable, SetMode,
              program, Ptr
<1>8. ASSUME NEW o \in Obj, EvalClosure(o)
      PROVE  ProgramOK'
  BY <1>8 DEF EvalClosure, Ptr
<1>9. ASSUME NEW b \in Ptr, Enter(b)
      PROVE  ProgramOK'
  <2>1. PICK slots \in [FrameSlot -> {Null} \cup Arguments(FALSE)],
             p \in {Null} \cup Arguments(TRUE), w \in {Null, Waiting} :
           /\ frames' = <<slots>> \o frames
           /\ fn_params' = <<p>> \o fn_params
           /\ operands' = <<Null>> \o [operands EXCEPT ![1] = w]
    BY <1>9 DEF Enter
  <2>2. Waiting \in Ptr /\ reg \in Ptr /\ Null \in Ptr
    BY LocalsArePointers DEF Ptr
  <2>3. \A c \in BOOLEAN : Arguments(c) \subseteq Ptr
    BY <2>2 DEF Arguments
  <2>4. slots \in [FrameSlot -> Ptr] /\ p \in Ptr /\ w \in Ptr
    BY <2>2, <2>3
  <2>5. frames' \in Seq([FrameSlot -> Ptr]) /\ Len(frames') = Len(frames) + 1
    BY <2>1, <2>4
  <2>6. fn_params' \in Seq(Ptr) /\ Len(fn_params') = Len(fn_params) + 1
    BY <2>1, <2>4
  <2>7. 1 \in 1 .. Len(operands)
    OBVIOUS
  <2>8. [operands EXCEPT ![1] = w] \in Seq(Ptr) /\ Len([operands EXCEPT ![1] = w]) = Len(operands)
    BY <2>4, <2>7, ExceptSeq
  <2>9. operands' \in Seq(Ptr) /\ Len(operands') = Len(operands) + 1
    BY <2>1, <2>2, <2>8
  <2>10. boxes' \in Seq(Ptr) /\ Len(boxes') = Len(boxes) + 1
    BY <1>9 DEF Enter
  <2> QED
    BY <2>2, <2>5, <2>6, <2>9, <2>10, <1>9 DEF Enter
<1>9a. ASSUME Call \/ \E o \in Obj : CallCapturing(o)
       PROVE  ProgramOK'
  BY <1>9, <1>9a DEF Call, CallCapturing, Ptr
<1>10. ASSUME Return
       PROVE  ProgramOK'
  <2>1. frames # <<>> /\ fn_params # <<>> /\ operands # <<>> /\ boxes # <<>>
    BY <1>10 DEF Return
  <2>2. frames' \in Seq([FrameSlot -> Ptr]) /\ Len(frames') = Len(frames) - 1
    BY <2>1, <1>10 DEF Return
  <2>3. fn_params' \in Seq(Ptr) /\ Len(fn_params') = Len(fn_params) - 1
    BY <2>1, <1>10 DEF Return
  <2>4. operands' \in Seq(Ptr) /\ Len(operands') = Len(operands) - 1
    BY <2>1, <1>10 DEF Return
  <2>5. boxes' \in Seq(Ptr) /\ Len(boxes') = Len(boxes) - 1
    BY <2>1, <1>10 DEF Return
  <2>6. Len(frames) \in Nat
    OBVIOUS
  <2> QED
    BY <2>2, <2>3, <2>4, <2>5, <2>6, <1>10 DEF Return
<1>10a. ASSUME Hold \/ Combine
        PROVE  ProgramOK'
  <2>1. Waiting \in Ptr /\ reg \in Ptr /\ Null \in Ptr
    BY LocalsArePointers DEF Ptr
  <2>2. 1 \in 1 .. Len(operands)
    OBVIOUS
  <2>3. PICK v \in Ptr : operands' = [operands EXCEPT ![1] = v]
    BY <2>1, <1>10a DEF Hold, Combine
  <2>4. operands' \in Seq(Ptr) /\ Len(operands') = Len(operands)
    BY <2>2, <2>3, ExceptSeq
  <2>5. reg' \in Ptr /\ UNCHANGED <<chunk, chunkTv, frames, fn_params, boxes>>
    BY <2>1, <1>10a DEF Hold, Combine
  <2> QED
    BY <2>4, <2>5
<1>11. ASSUME OutOfMemory
       PROVE  ProgramOK'
  BY <1>11 DEF OutOfMemory, program
<1> QED
  BY <1>1, <1>3, <1>4, <1>5, <1>6, <1>7, <1>8, <1>9a, <1>10, <1>10a, <1>11 DEF Mutate


LEMMA FreeHeap ==
    ASSUME HeapOK, CollectorOK, SweepFree
    PROVE  HeapOK' /\ Tracked' = Tracked \ {g_gc_head[at]}
<1> DEFINE o == g_gc_head[at]
<1>1. at \in DOMAIN g_gc_head /\ o \in Obj
  BY DEF SweepFree, HeapOK, CollectorOK
<1>2. g_gc_head' = Unlink(g_gc_head, at) /\ kind' = [kind EXCEPT ![o] = "free"]
      /\ ref' = [ref EXCEPT ![o] = {}] /\ mode' = mode \ {o}
  BY DEF SweepFree
<1>3. /\ Unlink(g_gc_head, at) \in Seq(Obj)
      /\ Elements(Unlink(g_gc_head, at)) = Elements(g_gc_head) \ {o}
      /\ Once(Unlink(g_gc_head, at))
  BY <1>1, UnlinkOnce DEF HeapOK
<1> HIDE DEF o
<1>4. Alloc' = Alloc \ {o}
  BY <1>1, <1>2 DEF Alloc, HeapOK
<1>5. Elements(Unlink(g_gc_head, at)) = Alloc \ {o}
  BY <1>3 DEF HeapOK
<1>6. g_gc_head' \in Seq(Obj) /\ Elements(g_gc_head)' = Alloc' /\ Once(g_gc_head)'
  BY <1>2, <1>3, <1>4, <1>5, ListReplaced
<1>7. kind' \in [Obj -> Kind \cup {"free"}] /\ ref' \in [Obj -> SUBSET Edge] /\ mode' \subseteq Obj
  BY <1>1, <1>2 DEF HeapOK
<1>8. Tracked' = Tracked \ {o}
  BY <1>4, <1>6 DEF Tracked, Elements, HeapOK
<1> QED
  BY <1>6, <1>7, <1>8 DEF HeapOK, o

LEMMA CollectorHeap ==
    ASSUME Types, CollectorStep \/ Collect
    PROVE  HeapOK'
<1>1. CASE UNCHANGED heap
  BY <1>1, HeapUnchanged DEF heap, Types, HeapOK
<1>2. CASE WeakClear
  <2>1. ref' \in [Obj -> SUBSET Edge]
    <3>1. \A o \in Obj : ref[o] \in SUBSET Edge
      BY DEF Types, HeapOK
    <3> QED
      BY <1>2, <3>1 DEF WeakClear
  <2>2. UNCHANGED <<g_gc_head, kind, mode>>
    BY <1>2 DEF WeakClear
  <2> QED
    BY <2>1, <2>2, HeapUnchanged DEF Types, HeapOK
<1>3. CASE SweepFree
  BY <1>3, FreeHeap DEF Types
<1>4. WeakClear \/ SweepFree \/ UNCHANGED heap
  BY DEF CollectorStep, ScanChunkRoots, WalkFrameChain, VisitTable, EndTableWalk, VisitCell,
         EndPass, SweepKeep, EndSweep, Collect, StartMark
<1> QED
  BY <1>1, <1>2, <1>3, <1>4

LEMMA CollectorProgram ==
    ASSUME Types, CollectorStep \/ Collect
    PROVE  ProgramOK'
<1>1. UNCHANGED <<chunk, chunkTv, frames, reg, operands, fn_params, boxes>>
  BY DEF CollectorStep, ScanChunkRoots, WalkFrameChain, VisitTable, EndTableWalk, VisitCell,
         EndPass, WeakClear, SweepKeep, SweepFree, EndSweep, Collect, StartMark, program, unrooted
<1> QED
  BY <1>1 DEF Types, ProgramOK

LEMMA TrackedObjects ==
    ASSUME HeapOK
    PROVE  Tracked \subseteq Obj /\ Tracked = Alloc /\ Roots \subseteq Obj
           /\ Len(g_gc_head) \in Nat /\ DOMAIN g_gc_head = 1 .. Len(g_gc_head)
<1>1. Tracked = Alloc /\ Alloc \subseteq Obj
  BY DEF HeapOK, Tracked, Elements, Alloc
<1> QED
  BY <1>1, RootsTracked DEF HeapOK

LEMMA StartMarkCollector ==
    ASSUME Types, NEW op, StartMark(op)
    PROVE  CollectorOK'
<1>1. kept' \subseteq Obj
  BY TrackedObjects, RootsTracked DEF Types, StartMark
<1> QED
  BY <1>1 DEF StartMark, Types, CollectorOK

LEMMA CollectorTypes ==
    ASSUME Types, Mutate \/ Collect \/ CollectorStep
    PROVE  CollectorOK'
<1> USE GcHeapAssumption
<1>1. Tracked \subseteq Obj
  BY TrackedObjects DEF Types
<1>2. CASE Quiet
  BY <1>2 DEF Quiet, Types, CollectorOK
<1>3. ASSUME NEW op, StartMark(op)
      PROVE  CollectorOK'
  BY <1>3, StartMarkCollector
<1>4. CASE OutOfMemory
  BY <1>4 DEF OutOfMemory, Types, CollectorOK
<1>5. CASE Mutate
  <2>1. Quiet \/ OutOfMemory \/ \E op : StartMark(op)
    BY <1>5 DEF Mutate, EvalString, EvalTable, EvalLocal, EvalElem, AssignLocal, AssignTv, StoreElem,
                StoreTriggers, AutoTrigger, EraseElem, SetMetatable, SetMode, EvalClosure,
                CallCapturing, Hold, Combine, Call, Enter, Return
  <2> QED
    BY <2>1, <1>2, <1>3, <1>4
<1>6. CASE Collect
  BY <1>3, <1>6 DEF Collect
<1>6a. CASE EndPass
  BY <1>6a DEF EndPass, Types, CollectorOK
<1>7. CASE ScanChunkRoots
  BY <1>1, <1>7 DEF ScanChunkRoots, ChunkRoots, Types, CollectorOK
<1>8. CASE WalkFrameChain
  BY <1>1, <1>8 DEF WalkFrameChain, FrameRoots, Types, CollectorOK
<1>9. CASE VisitTable \/ VisitCell
  <2>1. black' \subseteq black \cup Tracked
    BY <1>9 DEF VisitTable, VisitCell
  <2> QED
    BY <2>1, <1>1, <1>9 DEF VisitTable, VisitCell, Types, CollectorOK
<1>10. CASE EndTableWalk \/ WeakClear \/ SweepKeep \/ SweepFree \/ EndSweep
  BY <1>10 DEF EndTableWalk, WeakClear, SweepKeep, SweepFree, EndSweep, Types, CollectorOK
<1> QED
  BY <1>5, <1>6, <1>6a, <1>7, <1>8, <1>9, <1>10 DEF CollectorStep

LEMMA TypesStart ==
    ASSUME Init
    PROVE  Types
<1> USE DEF Init
<1>1. HeapOK
  BY DEF HeapOK, Alloc, Elements, Once
<1>2. ProgramOK
  BY DEF ProgramOK, Ptr
<1>3. CollectorOK
  BY GcHeapAssumption DEF CollectorOK
<1> QED
  BY <1>1, <1>2, <1>3 DEF Types

LEMMA TypesKept ==
    ASSUME Types, [Next]_vars
    PROVE  Types'
<1>1. CASE UNCHANGED vars
  BY <1>1 DEF vars, heap, program, unrooted, Types, HeapOK, ProgramOK, CollectorOK, Alloc, Elements, Once
<1>2. CASE Next
  <2>1. prog' \in Program
    BY <1>2 DEF Next, Types
  <2>2. HeapOK' /\ ProgramOK' /\ CollectorOK'
    BY <1>2, MutateHeap, MutateProgram, CollectorHeap, CollectorProgram, CollectorTypes DEF Next
  <2> QED
    BY <2>1, <2>2 DEF Types
<1> QED
  BY <1>1, <1>2

\* The variables hold what they are declared to, and the list has every
\* allocated object once, in every program.
THEOREM HeapTypes ==
    Spec => []TypeOK
<1>1. Init => Types
  BY TypesStart
<1>2. Types /\ [Next]_vars => Types'
  BY TypesKept
<1>3. Types => TypeOK
  BY TypesInParts
<1> QED
  BY <1>1, <1>2, <1>3, PTL DEF Spec


-----------------------------------------------------------------------------
(* Marking covers what is within Passes edges of a root.                   *)

LEMMA MutatorRuns ==
    ASSUME Mutate
    PROVE  pc = "run" /\ (Quiet \/ OutOfMemory \/ \E op : StartMark(op))
<1> USE DEF Idle, Statement, Proceed
<1>1. ASSUME NEW o, EvalString(o) \/ EvalTable(o)
      PROVE  pc = "run" /\ Quiet
  BY <1>1 DEF EvalString, EvalTable
<1>2. ASSUME \/ EvalLocal \/ EvalElem \/ AssignLocal \/ AssignTv
             \/ Hold \/ Combine \/ Call \/ Return
      PROVE  pc = "run" /\ Quiet
  BY <1>2 DEF EvalLocal, EvalElem, AssignLocal, AssignTv, Hold, Combine, Call, Enter, Return
<1>3. ASSUME NEW t, NEW f, StoreElem(t, f)
      PROVE  pc = "run" /\ Quiet
  BY <1>3 DEF StoreElem
<1>4. ASSUME NEW t, NEW f, StoreTriggers(t, f)
      PROVE  pc = "run" /\ StartMark(StoreOp(t, f))
  BY <1>4 DEF StoreTriggers, AutoTrigger
<1>5. ASSUME NEW t, EraseElem(t) \/ SetMetatable(t) \/ SetMode(t)
      PROVE  pc = "run" /\ Quiet
  BY <1>5 DEF EraseElem, SetMetatable, SetMode
<1>6. ASSUME NEW o, EvalClosure(o) \/ CallCapturing(o)
      PROVE  pc = "run" /\ Quiet
  BY <1>6 DEF EvalClosure, CallCapturing, Enter
<1>7. ASSUME OutOfMemory
      PROVE  pc = "run"
  BY <1>7 DEF OutOfMemory
<1> QED
  BY <1>1, <1>2, <1>3, <1>4, <1>5, <1>6, <1>7 DEF Mutate

\* Outside a collection the invariant is only that nothing is kept.
LEMMA MarkIdle ==
    ASSUME pc' \in {"run", "exit"}, kept' = {}
    PROVE  MarkInv' /\ MarkCovers'
BY DEF MarkInv, MarkCovers

LEMMA MarkStarts ==
    ASSUME Types, NEW op, StartMark(op), UNCHANGED prog
    PROVE  MarkInv' /\ MarkCovers'
<1>1. UNCHANGED graph
  BY DEF StartMark, graph
<1>2. KeepSet' = KeepSet /\ Alloc' = Alloc
  BY <1>1, KeepSetKept, TrackedKept
<1>3. KeepSet \subseteq Alloc
  BY TrackedObjects, RootsTracked DEF KeepSet, Types
<1>4. pc' = "roots" /\ kept' = KeepSet
  BY DEF StartMark, KeepSet
<1> QED
  BY <1>2, <1>3, <1>4 DEF MarkInv, MarkCovers

LEMMA MarkScans ==
    ASSUME Types, MarkInv, ScanChunkRoots, UNCHANGED prog
    PROVE  MarkInv'
<1>1. UNCHANGED graph
  BY DEF ScanChunkRoots, graph, program
<1>2. KeepSet' = KeepSet /\ DepthGuard' = DepthGuard /\ ChunkRoots' = ChunkRoots
  BY <1>1, KeepSetKept, TrackedKept, RootsKept
<1>3. kept' = KeepSet
  BY DEF ScanChunkRoots, MarkInv
<1>4. CASE DepthGuard
  <2>1. pc' = "weak" /\ black' = Tracked /\ kept' = Tracked
    BY <1>3, <1>4 DEF ScanChunkRoots, KeepSet
  <2> QED
    BY <2>1 DEF MarkInv
<1>5. CASE ~DepthGuard
  <2>1. pc' = "frames" /\ black' = ChunkRoots
    BY <1>5 DEF ScanChunkRoots
  <2> QED
    BY <2>1, <1>2, <1>3, <1>5 DEF MarkInv
<1> QED
  BY <1>4, <1>5

LEMMA MarkWalksFrames ==
    ASSUME Types, MarkInv, WalkFrameChain, UNCHANGED prog
    PROVE  MarkInv'
<1>1. UNCHANGED graph
  BY DEF WalkFrameChain, graph, program
<1>2. KeepSet' = KeepSet /\ DepthGuard' = DepthGuard
  BY <1>1, KeepSetKept, TrackedKept
<1>3. kept' = KeepSet /\ ~DepthGuard
  BY DEF WalkFrameChain, MarkInv
<1>4. Roots \subseteq black'
  BY DEF WalkFrameChain, MarkInv, Roots
<1>5. Within(0) \subseteq black'
  BY <1>4, WithinZero
<1>6. Within(pass)' = Within(0)
  BY <1>1, WithinKept DEF WalkFrameChain
<1>7. CASE Passes = 0
  <2>1. pc' = "weak" /\ kept' = Within(0)
    BY <1>3, <1>7 DEF WalkFrameChain, KeepSet
  <2> QED
    BY <2>1, <1>5 DEF MarkInv
<1>8. CASE Passes # 0
  <2>1. pc' = "tables" /\ pass' = 0 /\ at' = 1 /\ 0 < Passes
    BY <1>8, GcHeapAssumption DEF WalkFrameChain
  <2>2. g_gc_head' = g_gc_head /\ DOMAIN g_gc_head = 1 .. Len(g_gc_head) /\ Len(g_gc_head) \in Nat
    BY TrackedObjects DEF WalkFrameChain, heap, Types
  <2>3. TablesDone(at)'
    BY <2>1, <2>2 DEF TablesDone
  <2> QED
    BY <2>1, <2>3, <1>2, <1>3, <1>5, <1>6 DEF MarkInv
<1> QED
  BY <1>7, <1>8

\* A step of either walk: the object the walk stands at is BLACK whenever it
\* is within reach of the passes made.
LEMMA MarkVisitsTable ==
    ASSUME Types, MarkInv, VisitTable, UNCHANGED prog
    PROVE  MarkInv'
<1>1. UNCHANGED graph /\ pass' = pass /\ pc = "tables" /\ pc' = "tables" /\ at' = at + 1
      /\ kept' = kept /\ black \subseteq black'
  BY DEF VisitTable, graph, program
<1>2. KeepSet' = KeepSet /\ DepthGuard' = DepthGuard /\ Tracked' = Tracked
  BY <1>1, KeepSetKept, TrackedKept
<1>3. Within(pass)' = Within(pass)
  BY <1>1, WithinKept
<1>4. \A o : TableKids(o)' = TableKids(o)
  BY <1>1, TableKidsKept
<1>5. at \in Nat /\ DOMAIN g_gc_head = 1 .. Len(g_gc_head) /\ g_gc_head' = g_gc_head
  BY <1>1, TrackedObjects DEF Types, CollectorOK, graph, heap
<1>6. TablesDone(at)'
  <2> SUFFICES ASSUME NEW i \in DOMAIN g_gc_head, i < at + 1, g_gc_head[i] \in Within(pass)
               PROVE  TableKids(g_gc_head[i]) \cap Tracked \subseteq black'
    BY <1>1, <1>2, <1>3, <1>4, <1>5 DEF TablesDone
  <2>1. CASE i < at
    BY <2>1, <1>1 DEF MarkInv, TablesDone
  <2>2. CASE i = at
    <3>1. g_gc_head[at] \in black
      BY <2>2, <1>1 DEF MarkInv
    <3> QED
      BY <3>1, <2>2 DEF VisitTable
  <2> QED
    BY <2>1, <2>2, <1>5
<1> QED
  BY <1>1, <1>2, <1>3, <1>6 DEF MarkInv

LEMMA MarkVisitsCell ==
    ASSUME Types, MarkInv, VisitCell, UNCHANGED prog
    PROVE  MarkInv'
<1>1. UNCHANGED graph /\ pass' = pass /\ pc = "cells" /\ pc' = "cells" /\ at' = at + 1
      /\ kept' = kept /\ black \subseteq black'
  BY DEF VisitCell, graph, program
<1>2. KeepSet' = KeepSet /\ DepthGuard' = DepthGuard /\ Tracked' = Tracked
  BY <1>1, KeepSetKept, TrackedKept
<1>3. Within(pass)' = Within(pass)
  BY <1>1, WithinKept
<1>4. \A o : CellKids(o)' = CellKids(o)
  BY <1>1, KidsKept
<1>5. at \in Nat /\ DOMAIN g_gc_head = 1 .. Len(g_gc_head) /\ g_gc_head' = g_gc_head
  BY <1>1, TrackedObjects DEF Types, CollectorOK, graph, heap
<1>6. CellsDone(at)'
  <2> SUFFICES ASSUME NEW i \in DOMAIN g_gc_head, i < at + 1, g_gc_head[i] \in Within(pass)
               PROVE  CellKids(g_gc_head[i]) \cap Tracked \subseteq black'
    BY <1>1, <1>2, <1>3, <1>4, <1>5 DEF CellsDone
  <2>1. CASE i < at
    BY <2>1, <1>1 DEF MarkInv, CellsDone
  <2>2. CASE i = at
    <3>1. g_gc_head[at] \in black
      BY <2>2, <1>1 DEF MarkInv
    <3> QED
      BY <3>1, <2>2 DEF VisitCell
  <2> QED
    BY <2>1, <2>2, <1>5
<1>7. TablesDone(Len(g_gc_head) + 1)'
  BY <1>1, WalksKept DEF MarkInv
<1> QED
  BY <1>1, <1>2, <1>3, <1>6, <1>7 DEF MarkInv

LEMMA MarkEndsTables ==
    ASSUME Types, MarkInv, EndTableWalk, UNCHANGED prog
    PROVE  MarkInv'
<1>1. UNCHANGED graph /\ pass' = pass /\ pc = "tables" /\ pc' = "cells" /\ at' = 1
      /\ kept' = kept /\ black' = black
  BY DEF EndTableWalk, graph, program
<1>2. KeepSet' = KeepSet /\ DepthGuard' = DepthGuard
  BY <1>1, KeepSetKept, TrackedKept
<1>3. Within(pass)' = Within(pass)
  BY <1>1, WithinKept
<1>4. at \in Nat /\ DOMAIN g_gc_head = 1 .. Len(g_gc_head) /\ g_gc_head' = g_gc_head
      /\ Len(g_gc_head) \in Nat /\ at > Len(g_gc_head)
  BY <1>1, TrackedObjects DEF Types, CollectorOK, graph, heap, EndTableWalk
<1>5. TablesDone(Len(g_gc_head) + 1)
  BY <1>1, <1>4 DEF MarkInv, TablesDone
<1>6. TablesDone(Len(g_gc_head) + 1)'
  BY <1>1, <1>5, WalksKept
<1>7. CellsDone(at)'
  BY <1>1, <1>4 DEF CellsDone
<1> QED
  BY <1>1, <1>2, <1>3, <1>6, <1>7 DEF MarkInv

LEMMA MarkEndsPass ==
    ASSUME Types, MarkInv, EndPass, UNCHANGED prog
    PROVE  MarkInv'
<1>1. UNCHANGED graph /\ pass' = pass + 1 /\ pc = "cells" /\ at' = 1
      /\ kept' = kept /\ black' = black
  BY DEF EndPass, graph, program
<1>2. KeepSet' = KeepSet /\ DepthGuard' = DepthGuard
  BY <1>1, KeepSetKept, TrackedKept
<1>3. at \in Nat /\ DOMAIN g_gc_head = 1 .. Len(g_gc_head) /\ g_gc_head' = g_gc_head
      /\ Len(g_gc_head) \in Nat /\ at > Len(g_gc_head) /\ pass \in Nat /\ pass < Passes
  BY <1>1, TrackedObjects DEF Types, CollectorOK, graph, heap, EndPass
<1>4. Within(pass) \subseteq black /\ kept = KeepSet /\ ~DepthGuard
  BY <1>1 DEF MarkInv
<1>5. ASSUME NEW o \in Within(pass)
      PROVE  Kids(o) \subseteq black
  <2>1. o \in Tracked
    BY DEF Within
  <2>2. PICK i \in DOMAIN g_gc_head : g_gc_head[i] = o
    BY <2>1 DEF Tracked
  <2>3. i < Len(g_gc_head) + 1 /\ i < at
    BY <1>3
  <2>4. TableKids(o) \cap Tracked \subseteq black
    BY <2>2, <2>3, <1>1 DEF MarkInv, TablesDone
  <2>5. CellKids(o) \cap Tracked \subseteq black
    BY <2>2, <2>3, <1>1 DEF MarkInv, CellsDone
  <2> QED
    BY <2>4, <2>5 DEF Kids
<1>6. Within(pass + 1) \subseteq black
  BY <1>3, <1>4, <1>5, WithinStep
<1>7. Within(pass)' = Within(pass + 1)
  BY <1>1, WithinKept
<1>8. CASE pass + 1 = Passes
  <2>1. pc' = "weak" /\ kept' = Within(pass + 1)
    BY <1>1, <1>4, <1>8 DEF EndPass, KeepSet
  <2> QED
    BY <2>1, <1>1, <1>6 DEF MarkInv
<1>9. CASE pass + 1 # Passes
  <2>1. pc' = "tables" /\ pass + 1 < Passes
    BY <1>3, <1>9, GcHeapAssumption DEF EndPass
  <2>2. TablesDone(at)'
    BY <1>1, <1>3 DEF TablesDone
  <2> QED
    BY <2>1, <2>2, <1>1, <1>2, <1>4, <1>6, <1>7 DEF MarkInv
<1> QED
  BY <1>8, <1>9


LEMMA MarkClears ==
    ASSUME Types, MarkInv, WeakClear
    PROVE  MarkInv'
<1>1. pc = "weak" /\ pc' = "sweep" /\ kept' = kept /\ black' = black
  BY DEF WeakClear
<1> QED
  BY <1>1 DEF MarkInv

LEMMA SweepKeeps ==
    ASSUME Types, MarkInv, SweepKeep
    PROVE  MarkInv'
<1>1. pc' = "sweep" /\ kept' = kept /\ g_gc_head' = g_gc_head /\ at' = at + 1
      /\ black' = black \ {g_gc_head[at]} /\ pc = "sweep"
  BY DEF SweepKeep, heap
<1>2. at \in DOMAIN g_gc_head /\ at \in Nat /\ DOMAIN g_gc_head \subseteq Nat
  BY TrackedObjects DEF SweepKeep, Types, CollectorOK
<1>3. ASSUME NEW o \in kept
      PROVE  o \in black' \/ \E i \in DOMAIN g_gc_head : i < at + 1 /\ g_gc_head[i] = o
  <2>1. CASE o = g_gc_head[at]
    BY <2>1, <1>2
  <2>2. CASE o # g_gc_head[at] /\ o \in black
    BY <2>2, <1>1
  <2>3. CASE \E i \in DOMAIN g_gc_head : i < at /\ g_gc_head[i] = o
    BY <2>3, <1>2
  <2> QED
    BY <2>1, <2>2, <2>3, <1>1 DEF MarkInv
<1> QED
  BY <1>1, <1>3 DEF MarkInv

\* What is freed has not been met before and is not BLACK: it was not to be
\* kept.
LEMMA SweepFrees ==
    ASSUME Types, MarkInv, MarkCovers, SweepFree
    PROVE  MarkInv' /\ MarkCovers'
<1> DEFINE o == g_gc_head[at]
<1>1. pc = "sweep" /\ pc' = "sweep" /\ kept' = kept /\ at' = at /\ black' = black
      /\ o \notin black /\ g_gc_head' = Unlink(g_gc_head, at)
  BY DEF SweepFree, program
<1>2. at \in DOMAIN g_gc_head /\ at \in Nat /\ DOMAIN g_gc_head \subseteq Nat
  BY TrackedObjects DEF SweepFree, Types, CollectorOK
<1>3. o \notin kept
  <2>1. ~ \E i \in DOMAIN g_gc_head : i < at /\ g_gc_head[i] = o
    BY <1>2 DEF Types, HeapOK, Once
  <2> QED
    BY <2>1, <1>1 DEF MarkInv
<1>4. \A j \in DOMAIN g_gc_head :
         j < at => j \in DOMAIN Unlink(g_gc_head, at) /\ Unlink(g_gc_head, at)[j] = g_gc_head[j]
  BY <1>2, UnlinkOnce DEF Types, HeapOK
<1>5. PICK s : s = Unlink(g_gc_head, at)
  OBVIOUS
<1>6. \A p \in kept : p \in black \/ \E i \in DOMAIN s : i < at /\ s[i] = p
  BY <1>1, <1>4, <1>5 DEF MarkInv
<1>7. g_gc_head' = s
  BY <1>1, <1>5
<1>8. MarkInv'
  BY <1>1, <1>6, <1>7 DEF MarkInv
<1>9. Alloc' = Alloc \ {o}
  BY FreeHeap, TrackedObjects DEF Types, HeapOK, Tracked, Elements
<1> QED
  BY <1>1, <1>3, <1>8, <1>9 DEF MarkCovers

Marking == Types /\ MarkInv /\ MarkCovers

LEMMA MarkingStep ==
    ASSUME Marking, CollectorStep, UNCHANGED prog
    PROVE  MarkInv' /\ MarkCovers'
<1> USE DEF Marking
<1>1. CASE SweepFree
  BY <1>1, SweepFrees
<1>2. CASE EndSweep
  BY <1>2, MarkIdle DEF EndSweep
<1>3. CASE ~SweepFree /\ ~EndSweep
  <2>1. MarkInv'
    BY <1>3, MarkScans, MarkWalksFrames, MarkVisitsTable, MarkVisitsCell, MarkEndsTables,
       MarkEndsPass, MarkClears, SweepKeeps DEF CollectorStep
  <2>2. kind' = kind /\ kept' = kept
    BY <1>3 DEF CollectorStep, ScanChunkRoots, WalkFrameChain, VisitTable, EndTableWalk, VisitCell,
                EndPass, WeakClear, SweepKeep, heap
  <2>3. MarkCovers'
    BY <2>2 DEF MarkCovers, Alloc
  <2> QED
    BY <2>1, <2>3
<1> QED
  BY <1>1, <1>2, <1>3

LEMMA MarkingKept ==
    ASSUME Marking, [Next]_vars
    PROVE  Marking'
<1>1. Types'
  BY TypesKept DEF Marking
<1>2. CASE UNCHANGED vars
  <2>1. UNCHANGED graph /\ UNCHANGED <<pc, pass, at, kept, black>>
    BY <1>2 DEF vars, heap, program, graph
  <2>2. KeepSet' = KeepSet /\ DepthGuard' = DepthGuard /\ ChunkRoots' = ChunkRoots /\ Alloc' = Alloc
    BY <2>1, KeepSetKept, TrackedKept, RootsKept
  <2>3. Within(pass)' = Within(pass)
    BY <2>1, WithinKept
  <2>4. /\ TablesDone(at) => TablesDone(at)'
        /\ TablesDone(Len(g_gc_head) + 1) => TablesDone(Len(g_gc_head) + 1)'
        /\ CellsDone(at) => CellsDone(at)'
    BY <2>1, WalksKept
  <2>5. g_gc_head' = g_gc_head
    BY <2>1 DEF graph, heap
  <2>6. MarkInv'
    BY <2>1, <2>2, <2>3, <2>4, <2>5 DEF Marking, MarkInv
  <2>7. MarkCovers'
    BY <2>1, <2>2 DEF Marking, MarkCovers
  <2> QED
    BY <1>1, <2>6, <2>7 DEF Marking
<1>3. CASE Next
  <2>1. CASE CollectorStep
    BY <1>1, <1>3, <2>1, MarkingStep DEF Marking, Next
  <2>2. ASSUME NEW op, StartMark(op)
        PROVE  Marking'
    BY <1>1, <1>3, <2>2, MarkStarts DEF Marking, Next
  <2>3. CASE Quiet /\ pc = "run"
    <3>1. pc' = "run" /\ kept' = {}
      BY <2>3 DEF Quiet, Marking, MarkInv
    <3> QED
      BY <1>1, <3>1, MarkIdle DEF Marking
  <2>4. CASE OutOfMemory
    <3>1. pc' = "exit" /\ kept' = {}
      BY <2>4 DEF OutOfMemory, Marking, MarkInv
    <3> QED
      BY <1>1, <3>1, MarkIdle DEF Marking
  <2> QED
    BY <1>3, <2>1, <2>2, <2>3, <2>4, MutatorRuns DEF Next, Collect
<1> QED
  BY <1>2, <1>3

LEMMA MarkingAlways ==
    Spec => []Marking
<1>1. Init => Marking
  <2> SUFFICES ASSUME Init
               PROVE  Marking
    OBVIOUS
  <2>1. MarkInv /\ MarkCovers
    BY DEF Init, MarkInv, MarkCovers
  <2> QED
    BY <2>1, TypesStart DEF Marking
<1>2. Marking /\ [Next]_vars => Marking'
  BY MarkingKept
<1> QED
  BY <1>1, <1>2, PTL DEF Spec

\* The inductive invariant of GcHeap, in every program: types, the list, and
\* what each walk has done for the objects within reach of the passes made.
THEOREM GcInvAlways ==
    Spec => []GcInv
<1>1. Marking => GcInv
  BY TypesInParts DEF Marking, GcInv
<1> QED
  BY <1>1, MarkingAlways, PTL

\* No collection frees an object within Passes edges of a registered root,
\* for any graph, list order and number of passes.
THEOREM MarkedAreKept ==
    Spec => []MarkCovers
<1>1. Marking => MarkCovers
  BY DEF Marking
<1> QED
  BY <1>1, MarkingAlways, PTL


-----------------------------------------------------------------------------
(* Marking is precise: it blackens nothing the roots do not reach.         *)

Precise ==
    /\ pc \in {"frames", "tables", "cells", "weak"} /\ ~DepthGuard => black \subseteq Reachable
    /\ pc = "weak" => kept = KeepSet
    /\ pc = "weak" /\ DepthGuard => black = Tracked
    /\ ~prog.chunk_safe /\ pc \in {"weak", "sweep"} => kept = Tracked

\* A step of the marker that leaves the graph alone, to a state in which the
\* marking is not over or has just ended.
LEMMA PreciseWalk ==
    ASSUME Marking, Precise, UNCHANGED graph, kept' = kept, black' \subseteq Reachable,
           pc \in {"roots", "frames", "tables", "cells"}, ~DepthGuard,
           pc' \in {"frames", "tables", "cells", "weak"}
    PROVE  Precise'
<1>1. Reachable' = Reachable /\ KeepSet' = KeepSet /\ DepthGuard' = DepthGuard /\ Tracked' = Tracked
  BY ReachKept, KeepSetKept, TrackedKept
<1>2. kept = KeepSet
  BY DEF Marking, MarkInv
<1>3. prog.chunk_safe /\ prog' = prog
  BY DEF DepthGuard, graph
<1> QED
  BY <1>1, <1>2, <1>3 DEF Precise

LEMMA PreciseStep ==
    ASSUME Marking, Precise, CollectorStep, UNCHANGED prog
    PROVE  Precise'
<1>1. CASE ScanChunkRoots
  <2>1. UNCHANGED graph /\ pc = "roots" /\ kept' = kept
    BY <1>1 DEF ScanChunkRoots, graph, program
  <2>2. CASE DepthGuard
    <3>1. pc' = "weak" /\ black' = Tracked
      BY <1>1, <2>2 DEF ScanChunkRoots
    <3>2. kept' = KeepSet /\ KeepSet = Tracked
      BY <2>1, <2>2 DEF Marking, MarkInv, KeepSet
    <3>3. KeepSet' = KeepSet /\ DepthGuard' = DepthGuard /\ Tracked' = Tracked
      BY <2>1, KeepSetKept, TrackedKept
    <3> QED
      BY <3>1, <3>2, <3>3, <2>2 DEF Precise
  <2>3. CASE ~DepthGuard
    <3>1. pc' = "frames" /\ black' \subseteq Reachable
      BY <1>1, <2>3, ReachClosed DEF ScanChunkRoots, Roots
    <3> QED
      BY <2>1, <2>3, <3>1, PreciseWalk
  <2> QED
    BY <2>2, <2>3
<1>2. CASE WalkFrameChain
  <2>1. UNCHANGED graph /\ pc = "frames" /\ kept' = kept /\ pc' \in {"weak", "tables"}
    BY <1>2 DEF WalkFrameChain, graph, program
  <2>2. ~DepthGuard
    BY <2>1 DEF Marking, MarkInv
  <2>3. black \subseteq Reachable
    BY <2>1, <2>2 DEF Precise
  <2>4. prog.frame_safe => FrameRoots \subseteq Reachable
    BY ReachClosed DEF Roots
  <2>5. black' \subseteq Reachable
    BY <1>2, <2>3, <2>4 DEF WalkFrameChain
  <2> QED
    BY <2>1, <2>2, <2>5, PreciseWalk
<1>3. CASE VisitTable \/ EndTableWalk \/ VisitCell \/ EndPass
  <2>1. UNCHANGED graph /\ pc \in {"tables", "cells"} /\ kept' = kept
        /\ pc' \in {"tables", "cells", "weak"}
    BY <1>3 DEF VisitTable, EndTableWalk, VisitCell, EndPass, graph, program
  <2>2. ~DepthGuard
    BY <2>1 DEF Marking, MarkInv
  <2>3. black \subseteq Reachable
    BY <2>1, <2>2 DEF Precise
  <2>4. \A o \in black : (TableKids(o) \cap Tracked) \cup (CellKids(o) \cap Tracked) \subseteq Reachable
    BY <2>3, ReachClosed DEF Kids
  <2>5. black' \subseteq Reachable
    BY <1>3, <2>3, <2>4 DEF VisitTable, EndTableWalk, VisitCell, EndPass
  <2> QED
    BY <2>1, <2>2, <2>5, PreciseWalk
<1>4. CASE WeakClear
  BY <1>4 DEF WeakClear, Precise, Tracked
<1>5. CASE SweepKeep
  BY <1>5 DEF SweepKeep, Precise, Tracked, heap
<1>6. CASE SweepFree
  <2>1. pc = "sweep" /\ pc' = "sweep" /\ kept' = kept
    BY <1>6 DEF SweepFree
  <2>2. at \in DOMAIN g_gc_head /\ at \in Nat /\ DOMAIN g_gc_head \subseteq Nat
    BY <1>6, TrackedObjects DEF SweepFree, Types, CollectorOK, Marking
  <2>3. g_gc_head[at] \in Tracked /\ g_gc_head[at] \notin black
    BY <1>6, <2>2 DEF SweepFree, Tracked
  <2>4. ~ \E i \in DOMAIN g_gc_head : i < at /\ g_gc_head[i] = g_gc_head[at]
    BY <2>2 DEF Types, HeapOK, Once, Marking
  <2>5. g_gc_head[at] \notin kept
    BY <2>1, <2>3, <2>4 DEF Marking, MarkInv
  <2>6. prog.chunk_safe
    BY <2>1, <2>3, <2>5 DEF Precise
  <2> QED
    BY <2>1, <2>6 DEF Precise
<1>7. CASE EndSweep
  BY <1>7 DEF EndSweep, Precise
<1> QED
  BY <1>1, <1>2, <1>3, <1>4, <1>5, <1>6, <1>7 DEF CollectorStep

LEMMA PreciseKept ==
    ASSUME Marking, Precise, [Next]_vars
    PROVE  Precise'
<1>1. CASE UNCHANGED vars
  <2>1. UNCHANGED graph /\ UNCHANGED <<pc, kept, black>>
    BY <1>1 DEF vars, heap, program, graph
  <2>2. Reachable' = Reachable /\ KeepSet' = KeepSet /\ DepthGuard' = DepthGuard /\ Tracked' = Tracked
    BY <2>1, ReachKept, KeepSetKept, TrackedKept
  <2> QED
    BY <2>1, <2>2 DEF Precise, graph
<1>2. CASE Next
  <2>1. CASE CollectorStep
    BY <1>2, <2>1, PreciseStep DEF Next
  <2>2. CASE Mutate \/ Collect
    <3>1. pc' \in {"run", "roots", "exit"}
      BY <2>2, MutatorRuns DEF Quiet, OutOfMemory, StartMark, Collect
    <3> QED
      BY <3>1 DEF Precise
  <2> QED
    BY <1>2, <2>1, <2>2 DEF Next
<1> QED
  BY <1>1, <1>2

LEMMA PreciseAlways ==
    Spec => [](Marking /\ Precise)
<1>1. Init => Precise
  BY DEF Init, Precise
<1>2. Precise /\ Marking /\ [Next]_vars => Precise'
  BY PreciseKept
<1> QED
  BY <1>1, <1>2, MarkingAlways, PTL DEF Spec

\* A marking blackens nothing the roots do not reach, except under the depth
\* guard, which keeps everything: a collection leaves no floating garbage.
THEOREM NothingFloats ==
    Spec => []MarkPrecise
<1>1. Precise => MarkPrecise
  BY DEF Precise, MarkPrecise
<1> QED
  BY <1>1, PreciseAlways, PTL


-----------------------------------------------------------------------------
(* The shape of the graph, in every program.                               *)

\* The fields an object of a kind has.
FieldOf(k) ==
    CASE k = "table" -> {"array_buf", "hash_buf", "array", "hash_key", "hash_value", "metatable"}
      [] k = "cell" -> {"upvalue_box"}
      [] k = "box" -> {"upvalue"}
      [] OTHER -> {}

\* Objects, edges and __mode entries are of features the program uses, and a
\* program without anonymous metatables has at most one, which stays in a
\* local.
Shapes ==
    /\ \A o \in Obj : \A e \in ref[o] : e[1] \in FieldOf(kind[o])
    /\ \A o \in Obj : kind[o] = "string" => "string" \in prog.uses
    /\ mode # {} => "weak" \in prog.uses
    /\ \A o \in Obj : \A e \in ref[o] : e[1] \in {"array", "upvalue"} => e[1] \in prog.uses
    /\ "anonymous_metatable" \notin prog.uses =>
          \A o \in Obj : \A e \in ref[o] :
             e[1] = "metatable" => prog.pinned # Null /\ e[2] = chunk[prog.pinned]

\* Fewer edges, fewer objects.
LEMMA ShapesShrink ==
    ASSUME Types, Shapes, UNCHANGED <<prog, chunk>>, mode' \subseteq mode,
           \A o \in Obj : /\ ref'[o] \subseteq ref[o]
                          /\ kind'[o] = kind[o] \/ (kind'[o] = "free" /\ ref'[o] = {})
    PROVE  Shapes'
<1>1. \A o \in Obj : \A e \in ref'[o] : e \in ref[o] /\ kind'[o] = kind[o]
  OBVIOUS
<1>2. \A o \in Obj : kind'[o] = "string" => kind[o] = "string"
  OBVIOUS
<1> QED
  BY <1>1, <1>2 DEF Shapes

\* More objects and more edges.
LEMMA ShapesGrow ==
    ASSUME Types, Shapes, UNCHANGED <<prog, chunk>>, mode' \subseteq mode,
           \A o \in Obj : kind[o] = "free" \/ kind'[o] = kind[o],
           \A o \in Obj : kind'[o] # kind[o] /\ kind'[o] = "string" => "string" \in prog.uses,
           \A o \in Obj : \A e \in ref'[o] :
              (e \in ref[o] /\ kind'[o] = kind[o])
              \/ /\ e[1] \in FieldOf(kind'[o])
                 /\ e[1] \in {"array", "upvalue"} => e[1] \in prog.uses
                 /\ e[1] = "metatable" /\ "anonymous_metatable" \notin prog.uses =>
                       prog.pinned # Null /\ e[2] = chunk[prog.pinned]
    PROVE  Shapes'
<1>1. \A o \in Obj : kind'[o] = "string" => "string" \in prog.uses
  BY DEF Shapes
<1> QED
  BY <1>1 DEF Shapes

LEMMA ShapesMutate ==
    ASSUME Types, Shapes, Mutate, UNCHANGED prog
    PROVE  Shapes'
<1>0. kind \in [Obj -> Kind \cup {"free"}] /\ ref \in [Obj -> SUBSET Edge] /\ mode \subseteq Obj
  BY DEF Types, HeapOK
<1>1. ASSUME NEW o \in Obj, EvalString(o) \/ EvalTable(o)
      PROVE  Shapes'
  <2>1. /\ UNCHANGED chunk /\ mode' \subseteq mode /\ kind[o] = "free"
        /\ kind'[o] \in {"string", "table"} /\ ref'[o] = {}
        /\ kind'[o] = "string" => "string" \in prog.uses
        /\ \A p \in Obj : p # o => kind'[p] = kind[p] /\ ref'[p] = ref[p]
    BY <1>0, <1>1 DEF EvalString, EvalTable, Fresh
  <2>2. \A p \in Obj : kind[p] = "free" \/ kind'[p] = kind[p]
    BY <2>1
  <2>3. \A p \in Obj : kind'[p] # kind[p] /\ kind'[p] = "string" => "string" \in prog.uses
    BY <2>1
  <2>4. \A p \in Obj : \A e \in ref'[p] : e \in ref[p] /\ kind'[p] = kind[p]
    BY <2>1
  <2> QED
    BY <2>1, <2>2, <2>3, <2>4, ShapesGrow
<1>2. ASSUME UNCHANGED <<heap, chunk>>
      PROVE  Shapes'
  BY <1>2, ShapesShrink DEF heap
<1>3. ASSUME \/ EvalLocal \/ EvalElem \/ AssignTv
             \/ Hold \/ Combine \/ Call \/ Return \/ OutOfMemory
      PROVE  Shapes'
  <2>1. UNCHANGED <<heap, chunk>>
    BY <1>3 DEF EvalLocal, EvalElem, AssignTv, Hold, Combine, Call, Enter, Return, OutOfMemory,
                 program
  <2> QED
    BY <2>1, <1>2
<1>4. ASSUME AssignLocal
      PROVE  Shapes'
  <2>1. UNCHANGED heap /\ UNCHANGED prog
    BY <1>4 DEF AssignLocal
  <2>2. CASE UNCHANGED chunk
    BY <2>1, <2>2, <1>2
  <2>3. CASE chunk' # chunk
    <3>1. PICK s \in ChunkSlot : chunk' = [chunk EXCEPT ![s] = reg] /\ ~(s = prog.pinned /\ chunk[s] # Null)
      BY <1>4, <2>3 DEF AssignLocal, LocalSlot
    <3>2. chunk \in [ChunkSlot -> Ptr]
      BY DEF Types, ProgramOK
    <3>3. prog.pinned # Null => prog.pinned \in ChunkSlot
      BY GcHeapAssumption DEF Types
    <3>4. ASSUME NEW o \in Obj, NEW e \in ref[o], e[1] = "metatable",
                 "anonymous_metatable" \notin prog.uses
          PROVE  prog.pinned # Null /\ e[2] = chunk'[prog.pinned]
      <4>1. prog.pinned # Null /\ e[2] = chunk[prog.pinned]
        BY <3>4 DEF Shapes
      <4>2. e[2] \in Obj
        BY <1>0 DEF Edge
      <4>3. prog.pinned # s
        BY <3>1, <4>1, <4>2, GcHeapAssumption
      <4> QED
        BY <3>1, <3>2, <3>3, <4>1, <4>3
    <3> QED
      BY <2>1, <3>4 DEF Shapes, heap
  <2> QED
    BY <2>2, <2>3
<1>5. ASSUME NEW t \in LocalTable \cup OperandTable, NEW f \in {"array", "hash_value"}, StoreElem(t, f)
      PROVE  Shapes'
  <2>1. t \in Obj /\ kind[t] = "table" /\ reg \in Obj /\ f \in prog.uses /\ chunk' = chunk
    BY <1>5 DEF StoreElem, Alloc
  <2>2. PICK old \in {{}} \cup {{e} : e \in {x \in ref[t] : x[1] = f}}, k \in Keys(f) :
           Stored(t, f, Written(t, f, old, k))
    BY <1>5 DEF StoreElem, Stored, Written
  <2>3. \A e \in Written(t, f, old, k) : e \in ref[t] \/ e[1] \in {f, "hash_key"}
    BY DEF Written
  <2>4. CASE ref' = [ref EXCEPT ![t] = Written(t, f, old, k)] /\ UNCHANGED <<g_gc_head, kind, mode>>
    <3>1. \A o \in Obj : \A e \in ref'[o] :
             e \in ref[o] \/ (o = t /\ e[1] \in {f, "hash_key"})
      BY <1>0, <2>1, <2>3, <2>4
    <3>2. {"array", "hash_value", "hash_key"} \subseteq FieldOf(kind'[t])
      BY <2>1, <2>4 DEF FieldOf
    <3> QED
      BY <2>1, <2>4, <3>1, <3>2, ShapesGrow
  <2>5. ASSUME NEW b \in Obj,
               /\ kind[b] = "free"
               /\ kind' = [kind EXCEPT ![b] = "buf"]
               /\ ref' = [ref EXCEPT
                            ![t] = {e \in Written(t, f, old, k) : e[1] # BufOf(f)}
                                     \cup {<<BufOf(f), b>>},
                            ![b] = {}]
               /\ mode' = mode \ {b}
        PROVE  Shapes'
    <3>1. \A o \in Obj : \A e \in ref'[o] :
             (e \in ref[o] /\ o # b) \/ (o = t /\ e[1] \in {f, "hash_key", BufOf(f)})
      BY <1>0, <2>1, <2>3, <2>5
    <3>2. {f, "hash_key", BufOf(f)} \subseteq FieldOf(kind'[t])
      BY <1>0, <2>1, <2>5 DEF FieldOf, BufOf
    <3>3. \A o \in Obj : o # b => kind'[o] = kind[o]
      BY <1>0, <2>5
    <3>4. \A o \in Obj : kind'[o] # kind[o] => kind[o] = "free" /\ kind'[o] = "buf"
      BY <1>0, <2>5
    <3>5. {"hash_key", BufOf(f)} \cap {"array", "upvalue", "metatable"} = {} /\ f # "metatable"
      BY DEF BufOf
    <3>6. mode' \subseteq mode
      BY <2>5
    <3>7. \A o \in Obj : \A e \in ref'[o] :
             (e \in ref[o] /\ kind'[o] = kind[o])
             \/ /\ e[1] \in FieldOf(kind'[o])
                /\ e[1] \in {"array", "upvalue"} => e[1] \in prog.uses
                /\ e[1] # "metatable"
      BY <2>1, <3>1, <3>2, <3>3, <3>5
    <3> QED
      BY <2>1, <3>4, <3>6, <3>7, ShapesGrow
  <2> QED
    BY <2>2, <2>4, <2>5 DEF Stored
<1>6. ASSUME NEW t \in LocalTable \cup OperandTable, NEW f \in {"array", "hash_value"}, StoreTriggers(t, f)
      PROVE  Shapes'
  BY <1>2, <1>6 DEF StoreTriggers, AutoTrigger, StartMark
<1>7. ASSUME NEW t \in LocalTable, EraseElem(t)
      PROVE  Shapes'
  <2>1. UNCHANGED <<kind, mode, chunk>> /\ \A o \in Obj : ref'[o] \subseteq ref[o]
    BY <1>0, <1>7 DEF EraseElem, program
  <2> QED
    BY <2>1, ShapesShrink
<1>8. ASSUME NEW t \in LocalTable \cup OperandTable, SetMetatable(t)
      PROVE  Shapes'
  <2>1. t \in Obj /\ kind[t] = "table"
    BY LocalsArePointers DEF Types
  <2>2. \A o \in Obj : \A e \in ref'[o] : e \in ref[o] \/ (o = t /\ e = <<"metatable", reg>>)
    BY <1>0, <1>8, <2>1 DEF SetMetatable
  <2>3. UNCHANGED <<kind, mode, chunk>>
    BY <1>8 DEF SetMetatable
  <2>4. "metatable" \in FieldOf(kind'[t])
    BY <2>1, <2>3 DEF FieldOf
  <2>5. "anonymous_metatable" \notin prog.uses => prog.pinned # Null /\ reg = chunk[prog.pinned]
    BY <1>8 DEF SetMetatable
  <2> QED
    BY <2>2, <2>3, <2>4, <2>5, ShapesGrow
<1>9. ASSUME NEW t \in LocalTable, SetMode(t)
      PROVE  Shapes'
  BY <1>9 DEF SetMode, program, Shapes
<1>10. ASSUME NEW o \in Obj, EvalClosure(o) \/ CallCapturing(o)
       PROVE  Shapes'
  <2> DEFINE Allowed(k, e) == \/ /\ k = "cell"
                                /\ e[1] = "upvalue_box"
                             \/ /\ k = "box"
                                /\ e[1] = "upvalue"
                                /\ "upvalue" \in prog.uses
  <2>1. PICK k \in {"cell", "box"}, E \in SUBSET Edge : Fresh(o, k, E) /\ \A e \in E : Allowed(k, e)
    <3>1. CASE EvalClosure(o)
      <4>1. PICK b : /\ Fresh(o, "cell", {<<"upvalue_box", b>>})
                     /\ {<<"upvalue_box", b>>} \in SUBSET Edge
        BY <3>1, ClosureAllocates
      <4>2. \A e \in {<<"upvalue_box", b>>} : Allowed("cell", e)
        OBVIOUS
      <4> QED
        BY <4>1, <4>2
    <3>2. CASE CallCapturing(o)
      <4>1. PICK E \in SUBSET Edge :
               /\ Fresh(o, "box", E)
               /\ \A e \in E : e[1] = "upvalue" /\ e[2] \in Arguments(FALSE) /\ "upvalue" \in prog.uses
        BY <3>2, CapturingAllocates
      <4>2. \A e \in E : Allowed("box", e)
        BY <4>1
      <4> HIDE DEF Allowed
      <4> QED
        BY <4>1, <4>2
    <3> QED
      BY <1>10, <3>1, <3>2
  <2>2. chunk' = chunk
    BY <1>10 DEF EvalClosure, CallCapturing, Enter
  <2>3. /\ kind[o] = "free" /\ kind'[o] = k /\ ref'[o] = E /\ mode' \subseteq mode
        /\ \A p \in Obj : p # o => kind'[p] = kind[p] /\ ref'[p] = ref[p]
    BY <1>0, <2>1 DEF Fresh
  <2>4. \A e \in E : e[1] \in FieldOf(kind'[o]) /\ (e[1] \in {"array", "upvalue"} => e[1] \in prog.uses)
                   /\ e[1] # "metatable"
    BY <2>1, <2>3 DEF FieldOf
  <2>5. \A p \in Obj : kind[p] = "free" \/ kind'[p] = kind[p]
    BY <2>3
  <2>6. \A p \in Obj : kind'[p] = "string" => kind'[p] = kind[p]
    BY <2>1, <2>3
  <2>7. \A p \in Obj : \A e \in ref'[p] :
           (e \in ref[p] /\ kind'[p] = kind[p]) \/ (p = o /\ e \in E)
    BY <2>3
  <2> QED
    BY <2>2, <2>3, <2>4, <2>5, <2>6, <2>7, ShapesGrow
<1> QED
  BY <1>1, <1>3, <1>4, <1>5, <1>6, <1>7, <1>8, <1>9, <1>10 DEF Mutate

LEMMA ShapesKept ==
    ASSUME Types, Shapes, [Next]_vars
    PROVE  Shapes'
<1>1. CASE UNCHANGED vars
  BY <1>1, ShapesShrink DEF vars, heap, program
<1>2. CASE Mutate /\ UNCHANGED prog
  BY <1>2, ShapesMutate
<1>3. CASE (Collect \/ CollectorStep) /\ UNCHANGED prog /\ UNCHANGED heap
  <2>1. UNCHANGED chunk
    BY <1>3 DEF CollectorStep, ScanChunkRoots, WalkFrameChain, VisitTable, EndTableWalk, VisitCell,
           EndPass, WeakClear, SweepKeep, SweepFree, EndSweep, Collect, StartMark, program
  <2> QED
    BY <1>3, <2>1, ShapesShrink DEF heap
<1>4. CASE WeakClear /\ UNCHANGED prog
  <2>1. UNCHANGED <<kind, mode, chunk>> /\ \A o \in Obj : ref'[o] \subseteq ref[o]
    BY <1>4 DEF WeakClear, program
  <2> QED
    BY <1>4, <2>1, ShapesShrink
<1>5. CASE SweepFree /\ UNCHANGED prog
  <2>1. /\ UNCHANGED chunk /\ mode' \subseteq mode
        /\ kind' = [kind EXCEPT ![g_gc_head[at]] = "free"] /\ ref' = [ref EXCEPT ![g_gc_head[at]] = {}]
    BY <1>5 DEF SweepFree, program
  <2>2. \A o \in Obj : /\ ref'[o] \subseteq ref[o]
                       /\ kind'[o] = kind[o] \/ (kind'[o] = "free" /\ ref'[o] = {})
    BY <2>1 DEF Types, HeapOK
  <2> QED
    BY <1>5, <2>1, <2>2, ShapesShrink
<1>6. CollectorStep \/ Collect => WeakClear \/ SweepFree \/ UNCHANGED heap
  BY DEF CollectorStep, ScanChunkRoots, WalkFrameChain, VisitTable, EndTableWalk, VisitCell,
         EndPass, SweepKeep, EndSweep, Collect, StartMark
<1> QED
  BY <1>1, <1>2, <1>3, <1>4, <1>5, <1>6 DEF Next


-----------------------------------------------------------------------------
(* What a collection leaves is closed under pointers.                      *)

\* Every object the roots reach is within the passes when a marking ends.
Shallow == pc = "weak" /\ ~DepthGuard => Reachable \subseteq Within(Passes)

\* The objects of the list, but for those the sweep is going to free.
Survivors ==
    {g_gc_head[i] : i \in {j \in DOMAIN g_gc_head : pc = "sweep" /\ j >= at => g_gc_head[j] \in black}}

\* Slots and survivors point at survivors.
Sound ==
    /\ \A s \in ChunkSlot : chunk[s] \in Survivors \cup {Null}
    /\ \A s \in TvSlot : chunkTv[s] \in Survivors \cup {Null}
    /\ \A i \in DOMAIN frames : \A s \in FrameSlot : frames[i][s] \in Survivors \cup {Null}
    /\ reg \in Survivors \cup {Null}
    /\ \A i \in DOMAIN operands : operands[i] \in Survivors \cup {Null}
    /\ \A i \in DOMAIN fn_params : fn_params[i] \in Survivors \cup {Null}
    /\ \A i \in DOMAIN boxes : boxes[i] \in Survivors \cup {Null}
    /\ \A o \in Survivors : \A e \in ref[o] : e[2] \in Survivors

\* A closure that came as an argument is in a variable of one of the callers.
CallerHolds(i) ==
    \/ fn_params[i] = Null
    \/ \E s \in ChunkSlot : chunk[s] = fn_params[i]
    \/ \E j \in DOMAIN frames : j > i /\ \E s \in FrameSlot : frames[j][s] = fn_params[i]

\* Where the marker walks the frame chain, the registers of the callers hold
\* nothing that a slot does not, and no box.
RegistersRooted ==
    prog.frame_safe =>
      /\ \A i \in DOMAIN operands : i # 1 => operands[i] = Null
      /\ \A i \in DOMAIN fn_params : CallerHolds(i)
      /\ \A i \in DOMAIN boxes : i # 1 => boxes[i] = Null

\* What the marker needs to follow every pointer: elements, keys and
\* TaggedValue locals are of the kinds it looks at, what the callers have in
\* registers is rooted, and while it runs the current activation has nothing
\* in one.
Followed ==
    /\ \A o \in Survivors : \A e \in ref[o] :
         /\ e[1] \in {"array", "hash_value"} => Storable(e[2])
         /\ e[1] = "hash_key" => kind[e[2]] = "string"
    /\ \A s \in TvSlot : chunkTv[s] # Null => kind[chunkTv[s]] = "string"
    /\ pend = NoOp
    /\ pc # "run" => reg = Null /\ Waiting = Null /\ (prog.frame_safe => Captured = {})
    /\ RegistersRooted

GraphInv ==
    /\ Supported => Sound
    /\ Supported /\ prog.chunk_safe => Followed

LEMMA SurvivorsAre ==
    HeapOK /\ pc # "sweep" => Survivors = Alloc
BY DEF Survivors, HeapOK, Elements

LEMMA SurvivorsTracked ==
    HeapOK => Survivors \subseteq Alloc
BY DEF Survivors, HeapOK, Elements

\* Whoever is not freed is a survivor again once the program runs.
LEMMA SoundThen ==
    ASSUME HeapOK', pc' # "sweep", NEW A, A = Alloc',
           \A s \in ChunkSlot : chunk'[s] \in A \cup {Null},
           \A s \in TvSlot : chunkTv'[s] \in A \cup {Null},
           \A i \in DOMAIN frames' : \A s \in FrameSlot : frames'[i][s] \in A \cup {Null},
           reg' \in A \cup {Null},
           \A i \in DOMAIN operands' : operands'[i] \in A \cup {Null},
           \A i \in DOMAIN fn_params' : fn_params'[i] \in A \cup {Null},
           \A i \in DOMAIN boxes' : boxes'[i] \in A \cup {Null},
           \A o \in A : \A e \in ref'[o] : e[2] \in A
    PROVE  Sound'
<1>1. (HeapOK /\ pc # "sweep" => Survivors = Alloc)'
  BY SurvivorsAre, PTL
<1> QED
  BY <1>1 DEF Sound

LEMMA FollowedThen ==
    ASSUME HeapOK', NEW A, A = Alloc',
           \A o \in A : \A e \in ref'[o] :
             /\ e[1] \in {"array", "hash_value"} => kind'[e[2]] \in {"string", "table"}
             /\ e[1] = "hash_key" => kind'[e[2]] = "string",
           \A s \in TvSlot : chunkTv'[s] # Null => kind'[chunkTv'[s]] = "string",
           pend' = NoOp,
           pc' # "run" => reg' = Null /\ Waiting' = Null /\ (prog'.frame_safe => Captured' = {}),
           RegistersRooted'
    PROVE  Followed'
<1>1. (HeapOK => Survivors \subseteq Alloc)'
  BY SurvivorsTracked, PTL
<1> QED
  BY <1>1 DEF Followed, Storable


\* Sound and Followed of a state in which no sweep is under way.
LEMMA GraphAtRun ==
    HeapOK /\ pc # "sweep" /\ Sound =>
      /\ \A s \in ChunkSlot : chunk[s] \in Alloc \cup {Null}
      /\ \A s \in TvSlot : chunkTv[s] \in Alloc \cup {Null}
      /\ \A i \in DOMAIN frames : \A s \in FrameSlot : frames[i][s] \in Alloc \cup {Null}
      /\ reg \in Alloc \cup {Null}
      /\ \A i \in DOMAIN operands : operands[i] \in Alloc \cup {Null}
      /\ \A i \in DOMAIN fn_params : fn_params[i] \in Alloc \cup {Null}
      /\ \A i \in DOMAIN boxes : boxes[i] \in Alloc \cup {Null}
      /\ \A o \in Alloc : \A e \in ref[o] : e[2] \in Alloc
      /\ Followed =>
           /\ \A o \in Alloc : \A e \in ref[o] :
                /\ e[1] \in {"array", "hash_value"} => kind[e[2]] \in {"string", "table"}
                /\ e[1] = "hash_key" => kind[e[2]] = "string"
           /\ \A s \in TvSlot : chunkTv[s] # Null => kind[chunkTv[s]] = "string"
           /\ pend = NoOp
           /\ pc # "run" => reg = Null /\ Waiting = Null /\ (prog.frame_safe => Captured = {})
           /\ RegistersRooted
BY SurvivorsAre DEF Sound, Followed, Storable

\* A step of the program that changes the heap: edges to allocated objects
\* are added, objects are allocated.
LEMMA GraphGrows ==
    ASSUME HeapOK, HeapOK', pc = "run", pc' = "run", Sound, Alloc \subseteq Alloc',
           UNCHANGED <<chunk, chunkTv, frames, unrooted>>, reg' \in Alloc' \cup {Null},
           \A o \in Alloc : kind'[o] = kind[o],
           \A o \in Alloc' : \A e \in ref'[o] :
              (o \in Alloc /\ e \in ref[o]) \/ e[2] \in Alloc'
    PROVE  Sound'
<1>1. /\ \A s \in ChunkSlot : chunk[s] \in Alloc \cup {Null}
      /\ \A s \in TvSlot : chunkTv[s] \in Alloc \cup {Null}
      /\ \A i \in DOMAIN frames : \A s \in FrameSlot : frames[i][s] \in Alloc \cup {Null}
      /\ \A i \in DOMAIN operands : operands[i] \in Alloc \cup {Null}
      /\ \A i \in DOMAIN fn_params : fn_params[i] \in Alloc \cup {Null}
      /\ \A i \in DOMAIN boxes : boxes[i] \in Alloc \cup {Null}
      /\ \A o \in Alloc : \A e \in ref[o] : e[2] \in Alloc
  BY GraphAtRun
<1>2. PICK A : A = Alloc'
  OBVIOUS
<1> QED
  BY <1>1, <1>2, SoundThen DEF unrooted

LEMMA FollowedGrows ==
    ASSUME HeapOK, HeapOK', pc = "run", pc' = "run", Sound, Followed, Alloc \subseteq Alloc',
           UNCHANGED <<chunkTv, pend>>, RegistersRooted',
           \A o \in Alloc : kind'[o] = kind[o],
           \A o \in Alloc' : \A e \in ref'[o] :
              \/ o \in Alloc /\ e \in ref[o]
              \/ /\ e[1] \in {"array", "hash_value"} => kind'[e[2]] \in {"string", "table"}
                 /\ e[1] = "hash_key" => kind'[e[2]] = "string"
    PROVE  Followed'
<1>1. /\ \A o \in Alloc : \A e \in ref[o] : e[2] \in Alloc
      /\ \A o \in Alloc : \A e \in ref[o] :
           /\ e[1] \in {"array", "hash_value"} => kind[e[2]] \in {"string", "table"}
           /\ e[1] = "hash_key" => kind[e[2]] = "string"
      /\ \A s \in TvSlot : chunkTv[s] # Null => kind[chunkTv[s]] = "string"
      /\ \A s \in TvSlot : chunkTv[s] \in Alloc \cup {Null}
      /\ pend = NoOp
  BY GraphAtRun
<1>2. PICK A : A = Alloc'
  OBVIOUS
<1>3. \A o \in A : \A e \in ref'[o] :
             /\ e[1] \in {"array", "hash_value"} => kind'[e[2]] \in {"string", "table"}
             /\ e[1] = "hash_key" => kind'[e[2]] = "string"
  BY <1>1, <1>2
<1>4. \A s \in TvSlot : chunkTv'[s] # Null => kind'[chunkTv'[s]] = "string"
  BY <1>1
<1> QED
  BY <1>1, <1>2, <1>3, <1>4, FollowedThen

\* A step of the program that only moves pointers between slots.
LEMMA GraphMoves ==
    ASSUME HeapOK, HeapOK', pc = "run", pc' # "sweep", Sound, UNCHANGED heap,
           \A s \in ChunkSlot : chunk'[s] \in Alloc \cup {Null},
           \A s \in TvSlot : chunkTv'[s] \in Alloc \cup {Null},
           \A i \in DOMAIN frames' : \A s \in FrameSlot : frames'[i][s] \in Alloc \cup {Null},
           reg' \in Alloc \cup {Null},
           \A i \in DOMAIN operands' : operands'[i] \in Alloc \cup {Null},
           \A i \in DOMAIN fn_params' : fn_params'[i] \in Alloc \cup {Null},
           \A i \in DOMAIN boxes' : boxes'[i] \in Alloc \cup {Null}
    PROVE  Sound'
<1>1. \A o \in Alloc : \A e \in ref[o] : e[2] \in Alloc
  BY GraphAtRun
<1>2. Alloc' = Alloc /\ ref' = ref
  BY DEF Alloc, heap
<1>3. PICK A : A = Alloc
  OBVIOUS
<1> QED
  BY <1>1, <1>2, <1>3, SoundThen

LEMMA FollowedMoves ==
    ASSUME HeapOK, HeapOK', pc = "run", Sound, Followed, UNCHANGED heap,
           pend' = NoOp, pc' = "run", RegistersRooted',
           \A s \in TvSlot : chunkTv'[s] # Null => kind[chunkTv'[s]] = "string"
    PROVE  Followed'
<1>1. /\ \A o \in Alloc : \A e \in ref[o] :
           /\ e[1] \in {"array", "hash_value"} => kind[e[2]] \in {"string", "table"}
           /\ e[1] = "hash_key" => kind[e[2]] = "string"
  BY GraphAtRun
<1>2. Alloc' = Alloc /\ ref' = ref /\ kind' = kind
  BY DEF Alloc, heap
<1>3. PICK A : A = Alloc
  OBVIOUS
<1> QED
  BY <1>1, <1>2, <1>3, FollowedThen


\* What an allocation makes of the heap.
LEMMA FreshGraph ==
    ASSUME HeapOK, NEW o \in Obj, NEW k \in Kind, NEW E \in SUBSET Edge, Fresh(o, k, E)
    PROVE  /\ Alloc' = Alloc \cup {o}
           /\ \A p \in Alloc : kind'[p] = kind[p]
           /\ \A p \in Alloc' : \A e \in ref'[p] : (p \in Alloc /\ e \in ref[p]) \/ e \in E
<1>1. Alloc' = Alloc \cup {o}
  BY FreshHeap
<1>2. o \notin Alloc /\ kind \in [Obj -> Kind \cup {"free"}] /\ ref \in [Obj -> SUBSET Edge]
  BY DEF Fresh, Alloc, HeapOK
<1>3. \A p \in Obj : p # o => kind'[p] = kind[p] /\ ref'[p] = ref[p]
  BY <1>2 DEF Fresh
<1>4. ref'[o] = E
  BY <1>2 DEF Fresh
<1> QED
  BY <1>1, <1>2, <1>3, <1>4 DEF Alloc

\* What a store makes of it: the edges added to t, and the buffer.
LEMMA StoreGraph ==
    ASSUME Types, NEW t \in LocalTable \cup OperandTable, NEW f \in {"array", "hash_value"},
           StoreElem(t, f)
    PROVE  /\ Alloc \subseteq Alloc'
           /\ \A p \in Alloc : kind'[p] = kind[p]
           /\ \A p \in Alloc' : \A e \in ref'[p] :
                \/ p \in Alloc /\ e \in ref[p]
                \/ e = <<f, reg>>
                \/ e[1] = "hash_key" /\ e[2] \in Alloc /\ kind[e[2]] = "string"
                \/ e[1] \in {"array_buf", "hash_buf"} /\ e[2] \in Alloc'
<1>1. t \in Obj /\ kind[t] = "table" /\ t \in Alloc
  BY LocalsArePointers DEF Types
<1>2. PICK old \in {{}} \cup {{e} : e \in {x \in ref[t] : x[1] = f}}, k \in Keys(f) :
         Stored(t, f, Written(t, f, old, k))
  BY DEF StoreElem, Stored, Written
<1>3. kind \in [Obj -> Kind \cup {"free"}] /\ ref \in [Obj -> SUBSET Edge]
  BY DEF Types, HeapOK
<1>4. k # Null => k \in Alloc /\ kind[k] = "string"
  BY DEF Keys
<1>5. ASSUME NEW e \in Written(t, f, old, k)
      PROVE  \/ e \in ref[t]
             \/ e = <<f, reg>>
             \/ e[1] = "hash_key" /\ e[2] \in Alloc /\ kind[e[2]] = "string"
  BY <1>4 DEF Written
<1>6. CASE ref' = [ref EXCEPT ![t] = Written(t, f, old, k)] /\ UNCHANGED <<g_gc_head, kind, mode>>
  <2>1. Alloc' = Alloc
    BY <1>6 DEF Alloc
  <2>2. ref'[t] = Written(t, f, old, k) /\ \A p \in Obj : p # t => ref'[p] = ref[p]
    BY <1>1, <1>3, <1>6
  <2>3. Alloc \subseteq Obj
    BY DEF Alloc
  <2> QED
    BY <1>1, <1>5, <1>6, <2>1, <2>2, <2>3
<1>7. ASSUME NEW b \in Obj,
             /\ kind[b] = "free"
             /\ kind' = [kind EXCEPT ![b] = "buf"]
             /\ ref' = [ref EXCEPT
                          ![t] = {e \in Written(t, f, old, k) : e[1] # BufOf(f)}
                                   \cup {<<BufOf(f), b>>},
                          ![b] = {}]
      PROVE  /\ Alloc \subseteq Alloc'
             /\ \A p \in Alloc : kind'[p] = kind[p]
             /\ \A p \in Alloc' : \A e \in ref'[p] :
                  \/ p \in Alloc /\ e \in ref[p]
                  \/ e = <<f, reg>>
                  \/ e[1] = "hash_key" /\ e[2] \in Alloc /\ kind[e[2]] = "string"
                  \/ e[1] \in {"array_buf", "hash_buf"} /\ e[2] \in Alloc'
  <2>1. Alloc' = Alloc \cup {b} /\ b \notin Alloc /\ b # t
    BY <1>1, <1>3, <1>7 DEF Alloc
  <2>2. Alloc \subseteq Obj /\ \A p \in Alloc : kind'[p] = kind[p]
    BY <1>3, <1>7, <2>1 DEF Alloc
  <2>3. /\ ref'[b] = {}
        /\ \A e \in ref'[t] : e \in Written(t, f, old, k) \/ e = <<BufOf(f), b>>
        /\ \A p \in Obj : p # t /\ p # b => ref'[p] = ref[p]
    BY <1>1, <1>3, <1>7, <2>1
  <2>4. BufOf(f) \in {"array_buf", "hash_buf"}
    BY DEF BufOf
  <2> QED
    BY <1>1, <1>5, <2>1, <2>2, <2>3, <2>4
<1> QED
  BY <1>2, <1>6, <1>7 DEF Stored

LEMMA SoundMutate ==
    ASSUME Types, HeapOK', Sound, Mutate
    PROVE  Sound'
<1> USE DEF unrooted
<1>0. pc = "run" /\ HeapOK
  BY MutatorRuns DEF Types
<1>a. /\ \A s \in ChunkSlot : chunk[s] \in Alloc \cup {Null}
      /\ \A s \in TvSlot : chunkTv[s] \in Alloc \cup {Null}
      /\ \A i \in DOMAIN frames : \A s \in FrameSlot : frames[i][s] \in Alloc \cup {Null}
      /\ reg \in Alloc \cup {Null}
      /\ \A i \in DOMAIN operands : operands[i] \in Alloc \cup {Null}
      /\ \A i \in DOMAIN fn_params : fn_params[i] \in Alloc \cup {Null}
      /\ \A i \in DOMAIN boxes : boxes[i] \in Alloc \cup {Null}
      /\ \A o \in Alloc : \A e \in ref[o] : e[2] \in Alloc
  BY <1>0, GraphAtRun
<1>b. \A s \in LocalSlot : Locals[s] \in Alloc \cup {Null}
  <2>1. CASE frames = <<>>
    BY <2>1, <1>a DEF LocalSlot, Locals
  <2>2. CASE frames # <<>>
    <3>1. 1 \in DOMAIN frames
      BY <2>2 DEF Types, ProgramOK
    <3> QED
      BY <2>2, <3>1, <1>a DEF LocalSlot, Locals
  <2> QED
    BY <2>1, <2>2
<1>c. Named \subseteq Alloc \cup {Null} /\ Waiting \in Alloc \cup {Null} /\ Captured \subseteq Alloc
  <2>1. 1 \in DOMAIN operands
    BY DEF Types, ProgramOK
  <2> QED
    BY <2>1, <1>a, <1>b DEF Named, Waiting, Captured
<1>1. ASSUME NEW o \in Obj, EvalString(o) \/ EvalTable(o)
      PROVE  Sound'
  <2>1. PICK k \in Kind : Fresh(o, k, {})
    BY <1>1 DEF EvalString, EvalTable, Kind
  <2>2. UNCHANGED <<chunk, chunkTv, frames, unrooted>> /\ reg' = o /\ pc' = "run"
    BY <1>0, <1>1 DEF EvalString, EvalTable, Quiet
  <2> QED
    BY <1>0, <2>1, <2>2, FreshGraph, GraphGrows
<1>2. ASSUME EvalLocal
      PROVE  Sound'
  <2>1. UNCHANGED <<heap, chunk, chunkTv, frames, unrooted, pc>>
    BY <1>2 DEF EvalLocal, Quiet
  <2>2. \A b \in Captured : Edges(b, {"upvalue"}) \subseteq Alloc
    BY <1>a, <1>c DEF Edges
  <2> DEFINE U == UNION {Edges(b, {"upvalue"}) : b \in Captured}
  <2> DEFINE T == {chunkTv[s] : s \in IF frames = <<>> THEN TvSlot ELSE {}}
  <2>3. U \subseteq Alloc
    BY <2>2
  <2>4. T \subseteq Alloc \cup {Null}
    BY <1>a
  <2>5. reg' \in Named \cup U \cup T
    BY <1>2 DEF EvalLocal
  <2>6. Named \subseteq Alloc \cup {Null}
    BY <1>c
  <2> HIDE DEF U, T
  <2>7. reg' \in Alloc \cup {Null}
    BY <2>3, <2>4, <2>5, <2>6
  <2> QED
    BY <1>0, <1>a, <2>1, <2>7, GraphMoves
<1>3. ASSUME EvalElem
      PROVE  Sound'
  <2>1. UNCHANGED <<heap, chunk, chunkTv, frames, unrooted, pc>>
    BY <1>3 DEF EvalElem, Quiet
  <2>2. reg' \in Alloc
    BY <1>3, <1>a DEF EvalElem, Edges
  <2> QED
    BY <1>0, <1>a, <2>1, <2>2, GraphMoves
<1>4. ASSUME AssignLocal
      PROVE  Sound'
  <2>1. UNCHANGED <<heap, chunkTv, unrooted, pc>> /\ reg' = Null
    BY <1>4 DEF AssignLocal, Quiet
  <2>2. \A s \in ChunkSlot : chunk'[s] \in Alloc \cup {Null}
    BY <1>4, <1>a DEF AssignLocal, LocalSlot, Types, ProgramOK
  <2>3. \A i \in DOMAIN frames' : \A s \in FrameSlot : frames'[i][s] \in Alloc \cup {Null}
    <3>1. CASE frames' = frames
      BY <3>1, <1>a
    <3>2. CASE frames # <<>>
      <4>1. PICK s \in FrameSlot : frames' = [frames EXCEPT ![1][s] = reg]
        BY <1>4, <3>2 DEF AssignLocal, LocalSlot
      <4>2. frames \in Seq([FrameSlot -> Ptr]) /\ 1 \in DOMAIN frames
        BY <3>2 DEF Types, ProgramOK
      <4>3. frames[1] \in [FrameSlot -> Ptr]
        BY <4>2
      <4>4. DOMAIN frames' = DOMAIN frames /\ \A i \in DOMAIN frames : i # 1 => frames'[i] = frames[i]
        BY <4>1
      <4>5. frames'[1] = [frames[1] EXCEPT ![s] = reg]
        BY <4>1, <4>2
      <4>6. \A r \in FrameSlot : frames'[1][r] \in {frames[1][r], reg}
        BY <4>3, <4>5
      <4> QED
        BY <4>2, <4>4, <4>6, <1>a
    <3>3. frames' = frames \/ frames # <<>>
      BY <1>4 DEF AssignLocal
    <3> QED
      BY <3>1, <3>2, <3>3
  <2> QED
    BY <1>0, <1>a, <2>1, <2>2, <2>3, GraphMoves
<1>5. ASSUME AssignTv
      PROVE  Sound'
  <2>1. UNCHANGED <<heap, chunk, frames, unrooted, pc>> /\ reg' = Null
    BY <1>5 DEF AssignTv, Quiet
  <2>2. \A s \in TvSlot : chunkTv'[s] \in Alloc \cup {Null}
    BY <1>5, <1>a DEF AssignTv, Types, ProgramOK
  <2> QED
    BY <1>0, <1>a, <2>1, <2>2, GraphMoves
<1>6. ASSUME NEW t \in LocalTable \cup OperandTable, NEW f \in {"array", "hash_value"},
             StoreElem(t, f)
      PROVE  Sound'
  <2>1. UNCHANGED <<chunk, chunkTv, frames, unrooted, pc>> /\ reg' = Null /\ reg \in Obj
    BY <1>6 DEF StoreElem, Quiet
  <2>2. reg \in Alloc
    BY <1>a, <2>1, GcHeapAssumption
  <2>3. /\ Alloc \subseteq Alloc'
        /\ \A p \in Alloc : kind'[p] = kind[p]
        /\ \A p \in Alloc' : \A e \in ref'[p] :
             (p \in Alloc /\ e \in ref[p]) \/ e[2] \in Alloc'
    BY <1>6, <2>2, StoreGraph
  <2> QED
    BY <1>0, <2>1, <2>3, GraphGrows
<1>7. ASSUME NEW t \in LocalTable \cup OperandTable, NEW f \in {"array", "hash_value"},
             StoreTriggers(t, f)
      PROVE  Sound'
  <2>1. UNCHANGED <<heap, chunk, chunkTv, frames, reg, unrooted>> /\ pc' = "roots"
    BY <1>7 DEF StoreTriggers, AutoTrigger, StartMark
  <2> QED
    BY <1>0, <1>a, <2>1, GraphMoves
<1>8. ASSUME NEW t \in LocalTable, EraseElem(t)
      PROVE  Sound'
  <2>1. UNCHANGED <<kind, chunk, chunkTv, frames, reg, unrooted, pc>>
    BY <1>8 DEF EraseElem, program, Quiet
  <2>2. Alloc' = Alloc
    BY <2>1 DEF Alloc
  <2>3. \A p \in Obj : ref'[p] \subseteq ref[p]
    BY <1>8 DEF EraseElem, Types, HeapOK
  <2>4. \A p \in Alloc' : \A e \in ref'[p] : p \in Alloc /\ e \in ref[p]
    BY <2>2, <2>3 DEF Alloc
  <2> QED
    BY <1>0, <1>a, <2>1, <2>2, <2>4, GraphGrows
<1>9. ASSUME NEW t \in LocalTable \cup OperandTable, SetMetatable(t)
      PROVE  Sound'
  <2>1. UNCHANGED <<kind, chunk, chunkTv, frames, unrooted, pc>> /\ reg' = Null /\ reg \in Alloc
    BY <1>9 DEF SetMetatable, Quiet
  <2>2. Alloc' = Alloc
    BY <2>1 DEF Alloc
  <2>3. \A p \in Obj : \A e \in ref'[p] : e \in ref[p] \/ e = <<"metatable", reg>>
    BY <1>9 DEF SetMetatable, Types, HeapOK
  <2>4. \A p \in Alloc' : \A e \in ref'[p] : (p \in Alloc /\ e \in ref[p]) \/ e[2] \in Alloc'
    BY <2>1, <2>2, <2>3 DEF Alloc
  <2> QED
    BY <1>0, <2>1, <2>2, <2>4, GraphGrows
<1>10. ASSUME NEW t \in LocalTable, SetMode(t)
       PROVE  Sound'
  <2>1. UNCHANGED <<kind, ref, chunk, chunkTv, frames, reg, unrooted, pc>>
    BY <1>10 DEF SetMode, program, Quiet
  <2>2. Alloc' = Alloc
    BY <2>1 DEF Alloc
  <2> QED
    BY <1>0, <1>a, <2>1, <2>2, GraphGrows
<1>11. ASSUME NEW o \in Obj, EvalClosure(o)
       PROVE  Sound'
  <2>1. UNCHANGED <<chunk, chunkTv, frames, unrooted, pc>> /\ reg' = o
    BY <1>11 DEF EvalClosure, Quiet
  <2>2. PICK b \in Captured : {<<"upvalue_box", b>>} \in SUBSET Edge /\ Fresh(o, "cell", {<<"upvalue_box", b>>})
    BY <1>11, ClosureAllocates
  <2>3. \A e \in {<<"upvalue_box", b>>} : e[2] \in Alloc
    BY <2>2, <1>c
  <2>4. /\ Alloc' = Alloc \cup {o}
        /\ \A p \in Alloc : kind'[p] = kind[p]
        /\ \A p \in Alloc' : \A e \in ref'[p] : (p \in Alloc /\ e \in ref[p]) \/ e \in {<<"upvalue_box", b>>}
    BY <1>0, <2>2, FreshGraph DEF Kind
  <2> QED
    BY <1>0, <2>1, <2>3, <2>4, GraphGrows
<1>12. ASSUME NEW b \in Alloc' \cup {Null}, Enter(b), Alloc \subseteq Alloc',
              \A q \in Alloc' : \A e \in ref'[q] : e[2] \in Alloc'
       PROVE  Sound'
  <2>1. UNCHANGED <<chunk, chunkTv, pc>> /\ reg' = Null /\ boxes' = <<b>> \o boxes
    BY <1>12 DEF Enter, Quiet
  <2>2. PICK slots \in [FrameSlot -> {Null} \cup Arguments(FALSE)],
             p \in {Null} \cup Arguments(TRUE), w \in {Null, Waiting} :
           /\ frames' = <<slots>> \o frames
           /\ fn_params' = <<p>> \o fn_params
           /\ operands' = <<Null>> \o [operands EXCEPT ![1] = w]
    BY <1>12 DEF Enter
  <2>3. \A c \in BOOLEAN : Arguments(c) \subseteq Alloc
    BY <1>a, <1>c DEF Arguments
  <2>4. \A r \in FrameSlot : slots[r] \in Alloc \cup {Null}
    BY <2>3
  <2>5. p \in Alloc \cup {Null} /\ w \in Alloc \cup {Null}
    BY <2>3, <1>c
  <2>6. \A i \in DOMAIN frames' : \A r \in FrameSlot : frames'[i][r] \in Alloc \cup {Null}
    <3>1. frames' = <<slots>> \o frames /\ frames \in Seq([FrameSlot -> Ptr])
      BY <2>2 DEF Types, ProgramOK
    <3>2. \A i \in DOMAIN frames' : i = 1 \/ (i - 1 \in DOMAIN frames /\ frames'[i] = frames[i - 1])
      BY <3>1
    <3>3. frames'[1] = slots
      BY <3>1
    <3> QED
      BY <1>a, <2>4, <3>2, <3>3
  <2>7. \A i \in DOMAIN fn_params' : fn_params'[i] \in Alloc \cup {Null}
    <3>1. fn_params' = <<p>> \o fn_params /\ fn_params \in Seq(Ptr)
      BY <2>2 DEF Types, ProgramOK
    <3>2. \A i \in DOMAIN fn_params' :
             i = 1 \/ (i - 1 \in DOMAIN fn_params /\ fn_params'[i] = fn_params[i - 1])
      BY <3>1
    <3>3. fn_params'[1] = p
      BY <3>1
    <3> QED
      BY <1>a, <2>5, <3>2, <3>3
  <2>8. \A i \in DOMAIN operands' : operands'[i] \in Alloc \cup {Null}
    <3> DEFINE q == [operands EXCEPT ![1] = w]
    <3>1. q \in Seq(Ptr) /\ DOMAIN q = DOMAIN operands
          /\ \A i \in DOMAIN q : q[i] \in {operands[i], w}
      <4>1. 1 \in 1 .. Len(operands) /\ operands \in Seq(Ptr) /\ w \in Ptr
        BY LocalsArePointers, <2>2 DEF Types, ProgramOK, Ptr
      <4> QED
        BY <4>1, ExceptSeq
    <3>2. operands' = <<Null>> \o q
      BY <2>2
    <3> HIDE DEF q
    <3>3. \A i \in DOMAIN operands' : i = 1 \/ (i - 1 \in DOMAIN q /\ operands'[i] = q[i - 1])
      BY <3>1, <3>2
    <3>4. operands'[1] = Null
      BY <3>1, <3>2
    <3> QED
      BY <1>a, <2>5, <3>1, <3>3, <3>4
  <2>9. \A i \in DOMAIN boxes' : boxes'[i] \in Alloc' \cup {Null}
    <3>1. boxes' = <<b>> \o boxes /\ boxes \in Seq(Ptr)
      BY <2>1 DEF Types, ProgramOK
    <3>2. \A i \in DOMAIN boxes' : i = 1 \/ (i - 1 \in DOMAIN boxes /\ boxes'[i] = boxes[i - 1])
      BY <3>1
    <3>3. boxes'[1] = b
      BY <3>1
    <3> QED
      BY <1>a, <1>12, <3>2, <3>3
  <2>10. PICK A : A = Alloc'
    OBVIOUS
  <2> QED
    BY <1>0, <1>a, <1>12, <2>1, <2>6, <2>7, <2>8, <2>9, <2>10, SoundThen
<1>12a. ASSUME Call
        PROVE  Sound'
  <2>1. Enter(Null) /\ UNCHANGED heap
    BY <1>12a DEF Call
  <2>2. Alloc' = Alloc /\ ref' = ref
    BY <2>1 DEF Alloc, heap
  <2> QED
    BY <1>12, <1>a, <2>1, <2>2
<1>12b. ASSUME NEW o \in Obj, CallCapturing(o)
        PROVE  Sound'
  <2>1. PICK E \in SUBSET Edge : Fresh(o, "box", E) /\ \A e \in E : e[2] \in Arguments(FALSE)
    BY <1>12b, CapturingAllocates
  <2>2. Arguments(FALSE) \subseteq Alloc
    BY <1>a, <1>c DEF Arguments
  <2>3. /\ Alloc' = Alloc \cup {o}
        /\ \A p \in Alloc' : \A e \in ref'[p] : (p \in Alloc /\ e \in ref[p]) \/ e \in E
    BY <1>0, <2>1, FreshGraph DEF Kind
  <2>4. \A p \in Alloc' : \A e \in ref'[p] : e[2] \in Alloc'
    BY <1>a, <2>1, <2>2, <2>3
  <2>5. Enter(o)
    BY <1>12b DEF CallCapturing
  <2> QED
    BY <1>12, <2>3, <2>4, <2>5
<1>13. ASSUME Return
       PROVE  Sound'
  <2>1. UNCHANGED <<heap, chunk, chunkTv, reg, pc>> /\ frames' = Tail(frames) /\ frames # <<>>
        /\ fn_params' = Tail(fn_params) /\ operands' = Tail(operands) /\ boxes' = Tail(boxes)
    BY <1>13 DEF Return, Quiet
  <2>2. \A i \in DOMAIN frames' : i + 1 \in DOMAIN frames /\ frames'[i] = frames[i + 1]
    BY <2>1 DEF Types, ProgramOK
  <2>3. \A i \in DOMAIN frames' : \A r \in FrameSlot : frames'[i][r] \in Alloc \cup {Null}
    BY <1>a, <2>2
  <2>4. \A i \in DOMAIN fn_params' : i + 1 \in DOMAIN fn_params /\ fn_params'[i] = fn_params[i + 1]
    BY <2>1 DEF Types, ProgramOK
  <2>5. \A i \in DOMAIN operands' : i + 1 \in DOMAIN operands /\ operands'[i] = operands[i + 1]
    BY <2>1 DEF Types, ProgramOK
  <2>6. \A i \in DOMAIN boxes' : i + 1 \in DOMAIN boxes /\ boxes'[i] = boxes[i + 1]
    BY <2>1 DEF Types, ProgramOK
  <2> QED
    BY <1>0, <1>a, <2>1, <2>3, <2>4, <2>5, <2>6, GraphMoves
<1>13a. ASSUME Hold \/ Combine
        PROVE  Sound'
  <2>1. UNCHANGED <<heap, chunk, chunkTv, frames, fn_params, boxes, pc>>
    BY <1>13a DEF Hold, Combine, Quiet
  <2>2. PICK v \in {Null, reg} : operands' = [operands EXCEPT ![1] = v]
    BY <1>13a DEF Hold, Combine
  <2>3. \A i \in DOMAIN operands' : operands'[i] \in Alloc \cup {Null}
    <3>1. operands \in Seq(Ptr)
      BY DEF Types, ProgramOK
    <3>2. \A i \in DOMAIN operands' : i \in DOMAIN operands /\ operands'[i] \in {operands[i], v}
      BY <2>2, <3>1
    <3> QED
      BY <1>a, <2>2, <3>2
  <2>4. reg' \in Alloc \cup {Null}
    BY <1>13a, <1>a, <1>c DEF Hold, Combine
  <2> QED
    BY <1>0, <1>a, <2>1, <2>3, <2>4, GraphMoves
<1>14. ASSUME OutOfMemory
       PROVE  Sound'
  <2>1. UNCHANGED <<heap, chunk, chunkTv, frames, reg, unrooted>> /\ pc' = "exit"
    BY <1>14 DEF OutOfMemory, program
  <2> QED
    BY <1>0, <1>a, <2>1, GraphMoves
<1> QED
  BY <1>1, <1>2, <1>3, <1>4, <1>5, <1>6, <1>7, <1>8, <1>9, <1>10, <1>11, <1>12a, <1>12b, <1>13, <1>13a,
     <1>14 DEF Mutate


\* A closure argument of a call is in a variable of the caller, or came to
\* the caller in the same way, and callers do not run while they wait.
LEMMA RegistersKept ==
    ASSUME Types, RegistersRooted, Supported, prog.chunk_safe, prog.frame_safe, Mutate,
           UNCHANGED prog
    PROVE  RegistersRooted'
<1> USE DEF unrooted
<1>1. /\ frames \in Seq([FrameSlot -> Ptr]) /\ fn_params \in Seq(Ptr) /\ operands \in Seq(Ptr)
      /\ Len(fn_params) = Len(frames) /\ Len(operands) = Len(frames) + 1
      /\ boxes \in Seq(Ptr) /\ Len(boxes) = Len(frames)
      /\ chunk \in [ChunkSlot -> Ptr]
  BY DEF Types, ProgramOK
<1>2. /\ \A i \in DOMAIN operands : i # 1 => operands[i] = Null
      /\ \A i \in DOMAIN fn_params : CallerHolds(i)
      /\ \A i \in DOMAIN boxes : i # 1 => boxes[i] = Null
  BY DEF RegistersRooted
<1>3. /\ "call_operand" \notin prog.uses /\ "closure_argument" \notin prog.uses
      /\ "capturing_body" \notin prog.uses
  BY DEF Supported
<1>4. CASE UNCHANGED <<chunk, frames, fn_params, operands, boxes>>
  BY <1>4 DEF RegistersRooted, CallerHolds
<1>5. ASSUME NEW t, NEW f, StoreElem(t, f) \/ StoreTriggers(t, f) \/ EraseElem(t)
                             \/ SetMetatable(t) \/ SetMode(t)
      PROVE  UNCHANGED <<chunk, frames, fn_params, operands, boxes>>
  BY <1>5 DEF StoreElem, StoreTriggers, AutoTrigger, StartMark, EraseElem, SetMetatable, SetMode,
              program
<1>6. CASE Hold \/ Combine
  <2>1. UNCHANGED <<chunk, frames, fn_params, boxes>>
    BY <1>6 DEF Hold, Combine
  <2>2. PICK v : operands' = [operands EXCEPT ![1] = v]
    BY <1>6 DEF Hold, Combine
  <2>3. \A i \in DOMAIN operands' : i \in DOMAIN operands /\ (i # 1 => operands'[i] = operands[i])
    BY <1>1, <2>2
  <2> QED
    BY <1>2, <2>1, <2>3 DEF RegistersRooted, CallerHolds
<1>7. CASE AssignLocal
  <2>1. UNCHANGED <<fn_params, operands, boxes>>
    BY <1>7 DEF AssignLocal
  <2>2. CASE frames = <<>>
    <3>1. DOMAIN fn_params = {}
      BY <1>1, <2>2
    <3> QED
      BY <1>2, <2>1, <3>1 DEF RegistersRooted
  <2>3. CASE frames # <<>>
    <3>1. chunk' = chunk /\ \E s : frames' = [frames EXCEPT ![1][s] = reg]
      BY <1>7, <2>3 DEF AssignLocal
    <3>2. DOMAIN frames' = DOMAIN frames /\ \A j \in DOMAIN frames : j # 1 => frames'[j] = frames[j]
      BY <3>1, <1>1
    <3>3. \A i \in DOMAIN fn_params : i >= 1
      BY <1>1
    <3>4. \A i \in DOMAIN fn_params : \A j \in DOMAIN frames : j > i => j # 1
      BY <1>1
    <3>5. \A i \in DOMAIN fn_params : CallerHolds(i)'
      BY <1>2, <2>1, <3>1, <3>2, <3>4 DEF CallerHolds
    <3> QED
      BY <1>2, <2>1, <3>5 DEF RegistersRooted
  <2> QED
    BY <2>2, <2>3
<1>8. ASSUME NEW b, Enter(b)
      PROVE  RegistersRooted'
  <2>1. PICK slots \in [FrameSlot -> {Null} \cup Arguments(FALSE)],
             p \in {Null} \cup Arguments(TRUE), w \in {Null, Waiting} :
           /\ p \notin Named \cup {Null} => "closure_argument" \in prog.uses
           /\ w # Null => "call_operand" \in prog.uses
           /\ frames' = <<slots>> \o frames
           /\ fn_params' = <<p>> \o fn_params
           /\ operands' = <<Null>> \o [operands EXCEPT ![1] = w]
    BY <1>8 DEF Enter
  <2>2. w = Null /\ p \in Named \cup {Null} /\ chunk' = chunk
    BY <1>3, <1>8, <2>1 DEF Enter
  <2>3. \A i \in DOMAIN operands' : i # 1 => operands'[i] = Null
    <3> DEFINE q == [operands EXCEPT ![1] = Null]
    <3>1. q \in Seq(Ptr) /\ DOMAIN q = DOMAIN operands
      <4>1. 1 \in 1 .. Len(operands) /\ Null \in Ptr
        BY <1>1 DEF Ptr
      <4> QED
        BY <1>1, <4>1, ExceptSeq
    <3>2. \A i \in DOMAIN q : q[i] = Null
      BY <1>2
    <3>3. operands' = <<Null>> \o q
      BY <2>1, <2>2
    <3> HIDE DEF q
    <3>4. \A i \in DOMAIN operands' : i # 1 => i - 1 \in DOMAIN q /\ operands'[i] = q[i - 1]
      BY <3>1, <3>3
    <3> QED
      BY <3>2, <3>4
  <2>4. \A j \in DOMAIN frames : j + 1 \in DOMAIN frames' /\ frames'[j + 1] = frames[j]
    BY <1>1, <2>1
  <2>5. /\ fn_params'[1] = p
        /\ \A i \in DOMAIN fn_params' :
              i # 1 => i - 1 \in DOMAIN fn_params /\ fn_params'[i] = fn_params[i - 1]
    BY <1>1, <2>1
  <2>6. DOMAIN fn_params \subseteq Nat /\ DOMAIN frames \subseteq Nat /\ DOMAIN fn_params' \subseteq Nat
    BY <1>1, <2>1
  <2>7. ASSUME NEW i \in DOMAIN fn_params', i # 1
        PROVE  CallerHolds(i)'
    <3>1. i - 1 \in DOMAIN fn_params /\ fn_params'[i] = fn_params[i - 1] /\ CallerHolds(i - 1)
      BY <1>2, <2>5, <2>7
    <3>2. \A j \in DOMAIN frames : j > i - 1 => j + 1 > i
      BY <2>6
    <3> QED
      BY <2>2, <2>4, <3>1, <3>2 DEF CallerHolds
  <2>8. CallerHolds(1)'
    <3>1. CASE p \in {Locals[s] : s \in LocalSlot} /\ frames = <<>>
      BY <2>2, <2>5, <3>1 DEF CallerHolds, Locals, LocalSlot
    <3>2. CASE p \in {Locals[s] : s \in LocalSlot} /\ frames # <<>>
      <4>1. 1 \in DOMAIN frames /\ \E s \in FrameSlot : frames[1][s] = p
        BY <1>1, <3>2 DEF Locals, LocalSlot
      <4>2. 2 \in DOMAIN frames' /\ \E s \in FrameSlot : frames'[2][s] = p
        BY <4>1, <2>4
      <4> QED
        BY <2>5, <4>2 DEF CallerHolds
    <3>3. CASE 1 \in DOMAIN fn_params /\ p = fn_params[1]
      <4>1. CallerHolds(1)
        BY <1>2, <3>3
      <4>2. \A j \in DOMAIN frames : j > 1 => j + 1 > 1
        BY <2>6
      <4> QED
        BY <2>2, <2>4, <2>5, <3>3, <4>1, <4>2 DEF CallerHolds
    <3>4. CASE p = Null
      BY <2>5, <3>4 DEF CallerHolds
    <3> QED
      BY <2>2, <3>1, <3>2, <3>3, <3>4 DEF Named
  <2>9. \A i \in DOMAIN boxes' : i # 1 => boxes'[i] = Null
    <3>1. Captured = {} /\ boxes' = <<b>> \o boxes
      BY <1>3, <1>8 DEF Enter
    <3>2. \A i \in DOMAIN boxes : boxes[i] = Null
      BY <1>2, <3>1 DEF Captured
    <3>3. \A i \in DOMAIN boxes' : i # 1 => i - 1 \in DOMAIN boxes /\ boxes'[i] = boxes[i - 1]
      BY <1>1, <3>1
    <3> QED
      BY <3>2, <3>3
  <2> QED
    BY <2>3, <2>7, <2>8, <2>9 DEF RegistersRooted
<1>8a. Call \/ (\E o \in Obj : CallCapturing(o)) => \E b : Enter(b)
  BY DEF Call, CallCapturing
<1>9. CASE Return
  <2>1. frames' = Tail(frames) /\ fn_params' = Tail(fn_params) /\ operands' = Tail(operands)
        /\ boxes' = Tail(boxes) /\ frames # <<>> /\ chunk' = chunk
    BY <1>9 DEF Return
  <2>2. \A i \in DOMAIN operands' : i + 1 \in DOMAIN operands /\ i + 1 # 1 /\ operands'[i] = operands[i + 1]
    BY <1>1, <2>1
  <2>3. \A i \in DOMAIN fn_params' : i + 1 \in DOMAIN fn_params /\ fn_params'[i] = fn_params[i + 1]
                                    /\ i \in Nat
    BY <1>1, <2>1
  <2>4. \A j \in DOMAIN frames : j # 1 => j - 1 \in DOMAIN frames' /\ frames'[j - 1] = frames[j] /\ j \in Nat
    BY <1>1, <2>1
  <2>5. ASSUME NEW i \in DOMAIN fn_params'
        PROVE  CallerHolds(i)'
    <3>1. CallerHolds(i + 1) /\ fn_params'[i] = fn_params[i + 1] /\ i \in Nat
      BY <1>2, <2>3
    <3>2. DOMAIN frames \subseteq Nat \ {0} /\ DOMAIN fn_params' \subseteq Nat \ {0}
      BY <1>1, <2>1
    <3>3. \A j \in DOMAIN frames : j > i + 1 => j # 1 /\ j - 1 > i
      BY <3>1, <3>2
    <3> QED
      BY <2>1, <2>4, <3>1, <3>3 DEF CallerHolds
  <2>6. \A i \in DOMAIN boxes' : i + 1 \in DOMAIN boxes /\ i + 1 # 1 /\ boxes'[i] = boxes[i + 1]
    BY <1>1, <2>1
  <2> QED
    BY <1>2, <2>2, <2>5, <2>6 DEF RegistersRooted
<1>10. ASSUME \/ \E o \in Obj : EvalString(o) \/ EvalTable(o) \/ EvalClosure(o)
              \/ EvalLocal \/ EvalElem \/ AssignTv \/ OutOfMemory
       PROVE  UNCHANGED <<chunk, frames, fn_params, operands, boxes>>
  BY <1>10 DEF EvalString, EvalTable, EvalLocal, EvalElem, AssignTv, OutOfMemory, EvalClosure,
               program
<1> QED
  BY <1>4, <1>5, <1>6, <1>7, <1>8, <1>8a, <1>9, <1>10 DEF Mutate

LEMMA FollowedMutate ==
    ASSUME Types, HeapOK', Sound, Followed, Supported, prog.chunk_safe, Mutate,
           UNCHANGED prog
    PROVE  Followed'
<1>0. pc = "run" /\ HeapOK /\ pend = NoOp
  BY MutatorRuns DEF Types, Followed
<1>a. /\ \A o \in Alloc : \A e \in ref[o] : e[2] \in Alloc
      /\ \A s \in TvSlot : chunkTv[s] # Null => kind[chunkTv[s]] = "string"
      /\ \A s \in TvSlot : chunkTv[s] \in Alloc \cup {Null}
      /\ reg \in Alloc \cup {Null}
  BY <1>0, GraphAtRun
<1>b. prog.uses \cap {"auto", "tvtable", "upvalue", "anonymous_metatable"} = {}
  BY DEF Supported
<1>c. RegistersRooted'
  <2>1. CASE prog.frame_safe
    BY <2>1, RegistersKept DEF Followed
  <2>2. CASE ~prog.frame_safe
    BY <2>2 DEF RegistersRooted
  <2> QED
    BY <2>1, <2>2
<1>1. ASSUME NEW o \in Obj, EvalString(o) \/ EvalTable(o)
      PROVE  Followed'
  <2>1. PICK k \in Kind : Fresh(o, k, {})
    BY <1>1 DEF EvalString, EvalTable, Kind
  <2>2. UNCHANGED <<chunkTv, pend>> /\ pc' = "run"
    BY <1>0, <1>1 DEF EvalString, EvalTable, Quiet
  <2> QED
    BY <1>0, <2>1, <2>2, FreshGraph, <1>c, FollowedGrows
<1>2. ASSUME \/ EvalLocal \/ EvalElem \/ AssignLocal
             \/ Hold \/ Combine \/ Call \/ Return
      PROVE  Followed'
  <2>1. UNCHANGED <<heap, chunkTv, pend, pc>>
    BY <1>2 DEF EvalLocal, EvalElem, AssignLocal, Hold, Combine, Call, Enter, Return, Quiet
  <2> QED
    BY <1>0, <1>a, <2>1, <1>c, FollowedMoves
<1>3. ASSUME AssignTv
      PROVE  Followed'
  <2>1. UNCHANGED <<heap, pend, pc>>
    BY <1>3 DEF AssignTv, Quiet
  <2>2. \A s \in TvSlot : chunkTv'[s] # Null => kind[chunkTv'[s]] = "string"
    BY <1>3, <1>a, <1>b DEF AssignTv, Types, ProgramOK
  <2> QED
    BY <1>0, <2>1, <2>2, <1>c, FollowedMoves
<1>4. ASSUME NEW t \in LocalTable \cup OperandTable, NEW f \in {"array", "hash_value"},
             StoreElem(t, f)
      PROVE  Followed'
  <2>1. UNCHANGED <<chunkTv, pend, pc>> /\ reg \in Obj /\ kind[reg] \in {"string", "table"}
    BY <1>0, <1>4 DEF StoreElem, Quiet, Storable
  <2>2. reg \in Alloc
    BY <2>1 DEF Alloc
  <2>3. /\ Alloc \subseteq Alloc'
        /\ \A p \in Alloc : kind'[p] = kind[p]
        /\ \A p \in Alloc' : \A e \in ref'[p] :
              \/ p \in Alloc /\ e \in ref[p]
              \/ e = <<f, reg>>
              \/ e[1] = "hash_key" /\ e[2] \in Alloc /\ kind[e[2]] = "string"
              \/ e[1] \in {"array_buf", "hash_buf"} /\ e[2] \in Alloc'
    BY <1>4, StoreGraph
  <2>4. kind'[reg] \in {"string", "table"}
    BY <2>1, <2>2, <2>3
  <2>5. \A p \in Alloc' : \A e \in ref'[p] :
              \/ p \in Alloc /\ e \in ref[p]
              \/ /\ e[1] \in {"array", "hash_value"} => kind'[e[2]] \in {"string", "table"}
                 /\ e[1] = "hash_key" => kind'[e[2]] = "string"
    <3> SUFFICES ASSUME NEW p \in Alloc', NEW e \in ref'[p], ~(p \in Alloc /\ e \in ref[p])
                 PROVE  /\ e[1] \in {"array", "hash_value"} => kind'[e[2]] \in {"string", "table"}
                        /\ e[1] = "hash_key" => kind'[e[2]] = "string"
      OBVIOUS
    <3>1. CASE e = <<f, reg>>
      BY <2>4, <3>1
    <3>2. CASE e[1] = "hash_key" /\ e[2] \in Alloc /\ kind[e[2]] = "string"
      <4>1. kind'[e[2]] = "string"
        BY <2>3, <3>2
      <4> QED
        BY <3>2, <4>1
    <3>3. CASE e[1] \in {"array_buf", "hash_buf"}
      BY <3>3
    <3> QED
      BY <2>3, <3>1, <3>2, <3>3
  <2> QED
    BY <1>0, <2>1, <2>3, <2>5, <1>c, FollowedGrows
<1>5. ASSUME NEW t, NEW f, StoreTriggers(t, f)
      PROVE  Followed'
  BY <1>5, <1>b DEF StoreTriggers, AutoTrigger
<1>6. ASSUME NEW t \in LocalTable, EraseElem(t)
      PROVE  Followed'
  <2>1. UNCHANGED <<kind, chunkTv, pend, pc>>
    BY <1>6 DEF EraseElem, program, Quiet
  <2>2. Alloc' = Alloc
    BY <2>1 DEF Alloc
  <2>3. \A p \in Obj : ref'[p] \subseteq ref[p]
    BY <1>6 DEF EraseElem, Types, HeapOK
  <2>4. \A p \in Alloc' : \A e \in ref'[p] : p \in Alloc /\ e \in ref[p]
    BY <2>2, <2>3 DEF Alloc
  <2> QED
    BY <1>0, <2>1, <2>2, <2>4, <1>c, FollowedGrows
<1>7. ASSUME NEW t \in LocalTable \cup OperandTable, SetMetatable(t)
      PROVE  Followed'
  <2>1. UNCHANGED <<kind, chunkTv, pend, pc>>
    BY <1>7 DEF SetMetatable, Quiet
  <2>2. Alloc' = Alloc
    BY <2>1 DEF Alloc
  <2>3. \A p \in Obj : \A e \in ref'[p] : e \in ref[p] \/ e = <<"metatable", reg>>
    BY <1>7 DEF SetMetatable, Types, HeapOK
  <2>4. \A p \in Alloc' : \A e \in ref'[p] : (p \in Alloc /\ e \in ref[p]) \/ e[1] = "metatable"
    BY <2>2, <2>3 DEF Alloc
  <2> QED
    BY <1>0, <2>1, <2>2, <2>4, <1>c, FollowedGrows
<1>8. ASSUME NEW t \in LocalTable, SetMode(t)
      PROVE  Followed'
  <2>1. UNCHANGED <<kind, ref, chunkTv, pend, pc>>
    BY <1>8 DEF SetMode, program, Quiet
  <2>2. Alloc' = Alloc
    BY <2>1 DEF Alloc
  <2> QED
    BY <1>0, <2>1, <2>2, <1>c, FollowedGrows
<1>9. ASSUME NEW o \in Obj, EvalClosure(o) \/ CallCapturing(o)
      PROVE  Followed'
  <2>1. UNCHANGED <<chunkTv, pend, pc>>
    BY <1>9 DEF EvalClosure, CallCapturing, Enter, Quiet
  <2>2. PICK k \in Kind, E \in SUBSET Edge :
           Fresh(o, k, E) /\ \A e \in E : e[1] \in {"upvalue_box", "upvalue"}
    <3>1. CASE EvalClosure(o)
      <4>1. PICK b : /\ Fresh(o, "cell", {<<"upvalue_box", b>>})
                     /\ {<<"upvalue_box", b>>} \in SUBSET Edge
        BY <3>1, ClosureAllocates
      <4>2. \A e \in {<<"upvalue_box", b>>} : e[1] = "upvalue_box"
        OBVIOUS
      <4> QED
        BY <4>1, <4>2 DEF Kind
    <3>2. CASE CallCapturing(o)
      BY <3>2, CapturingAllocates DEF Kind
    <3> QED
      BY <1>9, <3>1, <3>2
  <2>3. /\ Alloc' = Alloc \cup {o}
        /\ \A p \in Alloc : kind'[p] = kind[p]
        /\ \A p \in Alloc' : \A e \in ref'[p] :
             (p \in Alloc /\ e \in ref[p]) \/ e[1] \in {"upvalue_box", "upvalue"}
    BY <1>0, <2>2, FreshGraph
  <2> QED
    BY <1>0, <2>1, <2>3, <1>c, FollowedGrows
<1>10. ASSUME OutOfMemory
       PROVE  Followed'
  BY <1>0, <1>10 DEF OutOfMemory
<1> QED
  BY <1>1, <1>2, <1>3, <1>4, <1>5, <1>6, <1>7, <1>8, <1>9, <1>10 DEF Mutate

-----------------------------------------------------------------------------
(* The collector's own steps.                                              *)

\* A step of the marker, and the start of one.
LEMMA GraphMarking ==
    ASSUME Types, GraphInv, UNCHANGED heap, UNCHANGED <<prog, chunk, chunkTv, frames, reg, unrooted>>,
           pc # "sweep", pc' # "sweep", pend' = pend \/ ~(Supported /\ prog.chunk_safe),
           Supported /\ prog.chunk_safe =>
              reg = Null /\ Waiting = Null /\ (prog.frame_safe => Captured = {})
    PROVE  GraphInv'
<1>1. Survivors' = Survivors
  BY DEF Survivors, heap
<1>2. Supported' = Supported
  BY DEF Supported
<1>3. Sound => Sound'
  BY <1>1 DEF Sound, heap, unrooted
<1>4. RegistersRooted' = RegistersRooted /\ Waiting' = Waiting /\ Captured' = Captured
  BY DEF RegistersRooted, CallerHolds, unrooted, Waiting, Captured
<1>5. Supported /\ prog.chunk_safe /\ Followed => Followed'
  BY <1>1, <1>4 DEF Followed, Storable, heap
<1> QED
  BY <1>2, <1>3, <1>5 DEF GraphInv

\* Once the marking has ended, the BLACK objects are those the roots reach.
LEMMA BlackIsReachable ==
    ASSUME Marking, Precise, Shallow, pc = "weak", ~DepthGuard
    PROVE  black = Reachable
<1>1. black \subseteq Reachable
  BY DEF Precise
<1>2. Within(Passes) \subseteq black
  BY DEF Precise, KeepSet, Marking, MarkInv
<1> QED
  BY <1>1, <1>2 DEF Shallow

\* The BLACK objects of a supported program are closed under the pointers
\* that the weak clear leaves.
LEMMA BlackIsClosed ==
    ASSUME Marking, Precise, Shallow, Shapes, Sound, Followed, Supported, prog.chunk_safe,
           pc = "weak", ~DepthGuard, NEW o \in black, NEW e \in ref[o],
           ~(IsWeak(o) /\ e[1] = "hash_value" /\ kind[e[2]] = "table" /\ e[2] \notin black)
    PROVE  e[2] \in black
<1>1. black = Reachable
  BY BlackIsReachable
<1>2. Types /\ HeapOK
  BY DEF Marking, Types
<1>3. o \in Tracked /\ Tracked = Alloc /\ Survivors = Alloc /\ o \in Obj
  BY <1>1, <1>2, RootsTracked, TrackedObjects, SurvivorsAre DEF Alloc
<1>4. e[2] \in Tracked
  BY <1>3 DEF Sound
<1>5. e[1] \in FieldOf(kind[o]) /\ e \in Edge
  BY <1>2, <1>3 DEF Shapes, HeapOK
<1>6. Kids(o) \subseteq black
  BY <1>1, ReachClosed
<1>7. \A F : e[1] \in F => e[2] \in Edges(o, F)
  BY DEF Edges
<1>8. IsWeak(o) => "weak" \in prog.uses
  BY DEF IsWeak, Shapes
<1>9. prog.uses \cap {"auto", "tvtable", "upvalue", "anonymous_metatable"} = {}
      /\ ~("weak" \in prog.uses /\ {"string", "array"} \cap prog.uses # {})
  BY DEF Supported
<1>10. kind[o] = "table" => e[1] \in {"array_buf", "hash_buf", "array", "hash_key", "hash_value", "metatable"}
  BY <1>5 DEF FieldOf
<1>11. kind[o] # "table" => (kind[o] = "cell" /\ e[1] = "upvalue_box") \/ (kind[o] = "box" /\ e[1] = "upvalue")
  BY <1>5 DEF FieldOf
<1>12. CASE kind[o] = "cell"
  BY <1>4, <1>6, <1>7, <1>11, <1>12 DEF Kids, CellKids
<1>13. CASE e[1] = "upvalue"
  BY <1>3, <1>9, <1>13 DEF Shapes
<1>14. CASE kind[o] = "table" /\ e[1] \in {"array_buf", "hash_buf"}
  BY <1>4, <1>6, <1>7, <1>14 DEF Kids, TableKids
<1>15. CASE kind[o] = "table" /\ e[1] = "array"
  <2>1. ~IsWeak(o)
    BY <1>3, <1>8, <1>9, <1>15 DEF Shapes
  <2>2. kind[e[2]] \in {"string", "table"}
    BY <1>3, <1>15 DEF Followed, Storable
  <2> QED
    BY <1>4, <1>6, <1>7, <1>15, <2>1, <2>2 DEF Kids, TableKids, ArrayKids
<1>16. CASE kind[o] = "table" /\ e[1] = "hash_key"
  <2>1. kind[e[2]] = "string"
    BY <1>3, <1>16 DEF Followed
  <2>2. ~IsWeak(o)
    <3>1. e[2] \in Obj
      BY <1>3, <1>4, TrackedObjects, <1>2
    <3> QED
      BY <3>1, <2>1, <1>8, <1>9 DEF Shapes
  <2> QED
    BY <1>4, <1>6, <1>7, <1>16, <2>1, <2>2 DEF Kids, TableKids, HashKids
<1>17. CASE kind[o] = "table" /\ e[1] = "hash_value"
  <2>1. kind[e[2]] \in {"string", "table"}
    BY <1>3, <1>17 DEF Followed, Storable
  <2>2. e[2] \in Obj
    BY <1>2, <1>4, TrackedObjects
  <2>3. CASE ~IsWeak(o)
    BY <1>4, <1>6, <1>7, <1>17, <2>1, <2>3 DEF Kids, TableKids, HashKids
  <2>4. CASE IsWeak(o)
    <3>1. kind[e[2]] = "table"
      BY <2>1, <2>2, <2>4, <1>8, <1>9 DEF Shapes
    <3> QED
      BY <3>1, <2>4, <1>17
  <2> QED
    BY <2>3, <2>4
<1>18. CASE e[1] = "metatable"
  <2>1. prog.pinned # Null /\ e[2] = chunk[prog.pinned]
    BY <1>3, <1>9, <1>18 DEF Shapes
  <2>2. prog.pinned \in ChunkSlot
    BY <2>1, <1>2, GcHeapAssumption DEF Types
  <2>3. e[2] \in ChunkRoots
    BY <1>4, <2>1, <2>2 DEF ChunkRoots
  <2> QED
    BY <2>3, <1>1, ReachClosed DEF Roots
<1> QED
  BY <1>10, <1>11, <1>12, <1>13, <1>14, <1>15, <1>16, <1>17, <1>18


\* What the sweep is going to leave: the BLACK objects.
LEMMA SurvivorsAtClear ==
    ASSUME Types, WeakClear
    PROVE  Survivors' = Tracked \cap black
<1>1. pc' = "sweep" /\ at' = 1 /\ black' = black /\ g_gc_head' = g_gc_head
  BY DEF WeakClear
<1>2. DOMAIN g_gc_head = 1 .. Len(g_gc_head)
  BY TrackedObjects DEF Types
<1>3. \A j \in DOMAIN g_gc_head : j >= 1
  BY <1>2
<1> QED
  BY <1>1, <1>3 DEF Survivors, Tracked

\* Under the depth guard all objects are BLACK.
LEMMA ClearGuarded ==
    ASSUME Marking, Precise, GraphInv, WeakClear, UNCHANGED prog, DepthGuard
    PROVE  GraphInv'
<1>1. Types /\ HeapOK /\ pc = "weak" /\ pc' = "sweep" /\ kind' = kind
      /\ UNCHANGED <<chunk, chunkTv, frames, reg, operands, fn_params, boxes, pend>>
  BY DEF Marking, Types, WeakClear, program, unrooted
<1>2. Survivors = Tracked /\ Tracked = Alloc
  BY <1>1, SurvivorsAre, TrackedObjects
<1>3. Survivors' = Survivors
  BY <1>1, <1>2, SurvivorsAtClear DEF Precise
<1>4. \A o \in Obj : ref'[o] \subseteq ref[o]
  BY DEF WeakClear
<1>5. Survivors \subseteq Obj
  BY <1>2 DEF Alloc
<1>6. Supported' = Supported /\ prog.chunk_safe' = prog.chunk_safe
  BY DEF Supported
<1>7. Sound => Sound'
  BY <1>1, <1>3, <1>4, <1>5 DEF Sound
<1>8. RegistersRooted' = RegistersRooted /\ Waiting' = Waiting /\ Captured' = Captured
  BY <1>1 DEF RegistersRooted, CallerHolds, Waiting, Captured
<1>9. Followed => Followed'
  BY <1>1, <1>3, <1>4, <1>5, <1>8 DEF Followed, Storable
<1> QED
  BY <1>6, <1>7, <1>9 DEF GraphInv

LEMMA ClearMarked ==
    ASSUME Marking, Precise, Shallow, Shapes, GraphInv, WeakClear, UNCHANGED prog, ~DepthGuard,
           Supported
    PROVE  Sound' /\ Followed'
<1>1. Types /\ HeapOK /\ pc = "weak" /\ pc' = "sweep" /\ kind' = kind
      /\ UNCHANGED <<chunk, chunkTv, frames, reg, operands, fn_params, boxes, pend>>
  BY DEF Marking, Types, WeakClear, program, unrooted
<1>2. prog.chunk_safe /\ Sound /\ Followed
  BY DEF DepthGuard, GraphInv
<1>3. Survivors = Tracked /\ Tracked = Alloc /\ Tracked \subseteq Obj
  BY <1>1, SurvivorsAre, TrackedObjects
<1>4. black = Reachable
  BY <1>1, BlackIsReachable
<1>5. Survivors' = black
  BY <1>1, <1>4, SurvivorsAtClear, RootsTracked
<1>6. black \subseteq Survivors /\ Roots \subseteq black
  BY <1>3, <1>4, RootsTracked, ReachClosed
<1>7. \A s \in ChunkSlot : chunk[s] \in black \cup {Null}
  BY <1>2, <1>3, <1>6 DEF Sound, Roots, ChunkRoots
<1>8. \A s \in TvSlot : chunkTv[s] \in black \cup {Null}
  BY <1>2, <1>3, <1>6 DEF Sound, Followed, Roots, ChunkRoots
<1>9. \A i \in DOMAIN frames : \A s \in FrameSlot : frames[i][s] \in black \cup {Null}
  <2>1. CASE prog.frame_safe
    BY <2>1, <1>2, <1>3, <1>6 DEF Sound, Roots, FrameRoots
  <2>2. CASE ~prog.frame_safe
    BY <2>2 DEF DepthGuard
  <2> QED
    BY <2>1, <2>2
<1>10. reg = Null /\ Waiting = Null
  BY <1>1, <1>2 DEF Followed
<1>10a. /\ Len(operands) = Len(frames) + 1 /\ Len(fn_params) = Len(frames)
        /\ Len(boxes) = Len(frames) /\ boxes \in Seq(Ptr)
        /\ frames \in Seq([FrameSlot -> Ptr]) /\ operands \in Seq(Ptr) /\ fn_params \in Seq(Ptr)
  BY <1>1 DEF Types, ProgramOK
<1>10b. \A i \in DOMAIN operands : operands[i] = Null
  <2>1. CASE prog.frame_safe
    BY <2>1, <1>2, <1>10 DEF Followed, RegistersRooted, Waiting
  <2>2. CASE ~prog.frame_safe
    <3>1. frames = <<>>
      BY <2>2 DEF DepthGuard
    <3>2. DOMAIN operands = {1}
      BY <3>1, <1>10a
    <3> QED
      BY <3>2, <1>10 DEF Waiting
  <2> QED
    BY <2>1, <2>2
<1>10c. \A i \in DOMAIN fn_params : fn_params[i] \in black \cup {Null}
  <2>1. CASE prog.frame_safe
    BY <2>1, <1>2, <1>7, <1>9 DEF Followed, RegistersRooted, CallerHolds
  <2>2. CASE ~prog.frame_safe
    <3>1. frames = <<>>
      BY <2>2 DEF DepthGuard
    <3>2. DOMAIN fn_params = {}
      BY <3>1, <1>10a
    <3> QED
      BY <3>2
  <2> QED
    BY <2>1, <2>2
<1>10d. \A i \in DOMAIN boxes : boxes[i] = Null
  <2>1. CASE prog.frame_safe
    BY <2>1, <1>1, <1>2 DEF Followed, RegistersRooted, Captured
  <2>2. CASE ~prog.frame_safe
    <3>1. frames = <<>>
      BY <2>2 DEF DepthGuard
    <3>2. DOMAIN boxes = {}
      BY <3>1, <1>10a
    <3> QED
      BY <3>2
  <2> QED
    BY <2>1, <2>2
<1>11. \A o \in Obj : ref'[o] \subseteq ref[o]
  BY DEF WeakClear
<1>12. ASSUME NEW o \in black, NEW e \in ref'[o]
       PROVE  e[2] \in black
  <2>1. o \in Obj /\ e \in ref[o] /\ kind[o] \in Kind
    BY <1>3, <1>6, <1>11, <1>12, <1>1 DEF HeapOK, Alloc
  <2>2. CASE kind[o] = "table"
    <3>1. ~(IsWeak(o) /\ e[1] = "hash_value" /\ kind[e[2]] = "table" /\ e[2] \notin black)
      BY <2>1, <2>2, <1>12 DEF WeakClear
    <3> QED
      BY <2>1, <3>1, <1>1, <1>2, BlackIsClosed
  <2>3. CASE kind[o] # "table"
    <3>1. e[1] # "hash_value"
      BY <2>1, <2>3 DEF Shapes, FieldOf
    <3> QED
      BY <2>1, <3>1, <1>1, <1>2, BlackIsClosed
  <2> QED
    BY <2>2, <2>3
<1>13. Sound'
  BY <1>1, <1>5, <1>7, <1>8, <1>9, <1>10, <1>10b, <1>10c, <1>10d, <1>12 DEF Sound
<1>14. Followed'
  <2>1. \A o \in black : \A e \in ref'[o] : o \in Survivors /\ e \in ref[o]
    BY <1>3, <1>6, <1>11
  <2>2. RegistersRooted' = RegistersRooted /\ Waiting' = Waiting /\ Captured' = Captured
    BY <1>1 DEF RegistersRooted, CallerHolds, Waiting, Captured
  <2> QED
    BY <1>1, <1>2, <1>5, <2>1, <2>2 DEF Followed, Storable
<1> QED
  BY <1>13, <1>14

\* The sweep changes neither the survivors nor what they point at.
LEMMA SurvivorsSwept ==
    ASSUME Types, SweepKeep \/ SweepFree \/ EndSweep
    PROVE  Survivors' = Survivors
<1>1. DOMAIN g_gc_head = 1 .. Len(g_gc_head) /\ Len(g_gc_head) \in Nat /\ at \in Nat \ {0}
      /\ Once(g_gc_head) /\ pc = "sweep"
  BY TrackedObjects DEF Types, HeapOK, CollectorOK, SweepKeep, SweepFree, EndSweep
<1>2. CASE SweepKeep
  <2>1. pc' = "sweep" /\ at' = at + 1 /\ black' = black \ {g_gc_head[at]} /\ g_gc_head' = g_gc_head
        /\ at \in DOMAIN g_gc_head /\ g_gc_head[at] \in black
    BY <1>1, <1>2 DEF SweepKeep, heap
  <2>2. ASSUME NEW j \in DOMAIN g_gc_head
        PROVE  (j >= at => g_gc_head[j] \in black) <=> (j >= at + 1 => g_gc_head[j] \in black')
    <3>1. CASE j = at
      BY <3>1, <2>1, <1>1
    <3>2. CASE j # at
      <4>1. g_gc_head[j] # g_gc_head[at]
        BY <3>2, <2>1, <1>1 DEF Once
      <4>2. j >= at <=> j >= at + 1
        BY <3>2, <1>1
      <4> QED
        BY <4>1, <4>2, <2>1
    <3> QED
      BY <3>1, <3>2
  <2> QED
    BY <1>1, <2>1, <2>2 DEF Survivors
<1>3. CASE SweepFree
  <2>1. pc' = "sweep" /\ at' = at /\ black' = black /\ g_gc_head' = Unlink(g_gc_head, at)
        /\ at \in DOMAIN g_gc_head /\ g_gc_head[at] \notin black
    BY <1>1, <1>3 DEF SweepFree, program
  <2>2. PICK s : s = Unlink(g_gc_head, at)
    OBVIOUS
  <2>3. /\ Elements(s) = Elements(g_gc_head) \ {g_gc_head[at]}
        /\ \A j \in DOMAIN g_gc_head : j < at => j \in DOMAIN s /\ s[j] = g_gc_head[j]
        /\ \A j \in DOMAIN s :
             IF j < at THEN j \in DOMAIN g_gc_head /\ s[j] = g_gc_head[j]
                       ELSE j + 1 \in DOMAIN g_gc_head /\ s[j] = g_gc_head[j + 1]
    BY <1>1, <2>1, <2>2, UnlinkOnce DEF Types, HeapOK
  <2>4. DOMAIN s \subseteq Nat
    BY <2>2 DEF Unlink
  <2>5. Survivors' = {s[i] : i \in {j \in DOMAIN s : j >= at => s[j] \in black}}
    BY <2>1, <2>2 DEF Survivors
  <2>6. Survivors = {g_gc_head[i] : i \in {j \in DOMAIN g_gc_head : j >= at => g_gc_head[j] \in black}}
    BY <1>1 DEF Survivors
  <2>7. ASSUME NEW i \in DOMAIN s, i >= at => s[i] \in black
        PROVE  s[i] \in Survivors
    <3>1. CASE i < at
      BY <1>1, <2>3, <2>4, <2>6, <3>1
    <3>2. CASE ~(i < at)
      <4>1. i + 1 \in DOMAIN g_gc_head /\ s[i] = g_gc_head[i + 1] /\ s[i] \in black
        BY <1>1, <2>3, <2>4, <2>7, <3>2
      <4> QED
        BY <4>1, <2>6
    <3> QED
      BY <3>1, <3>2
  <2>8. ASSUME NEW i \in DOMAIN g_gc_head, i >= at => g_gc_head[i] \in black
        PROVE  g_gc_head[i] \in Survivors'
    <3>1. CASE i < at
      <4>1. i \in DOMAIN s /\ s[i] = g_gc_head[i] /\ ~(i >= at)
        BY <1>1, <2>3, <3>1
      <4> QED
        BY <4>1, <2>5
    <3>2. CASE ~(i < at)
      <4>1. g_gc_head[i] \in black
        BY <1>1, <2>8, <3>2
      <4>2. g_gc_head[i] \in Elements(s)
        BY <4>1, <2>1, <2>3 DEF Elements
      <4>3. PICK j \in DOMAIN s : s[j] = g_gc_head[i]
        BY <4>2 DEF Elements
      <4> QED
        BY <4>1, <4>3, <2>5
    <3> QED
      BY <3>1, <3>2
  <2> QED
    BY <2>5, <2>6, <2>7, <2>8
<1>4. CASE EndSweep
  <2>1. pc' = "run" /\ g_gc_head' = g_gc_head /\ \A j \in DOMAIN g_gc_head : ~(j >= at)
    BY <1>1, <1>4 DEF EndSweep, heap
  <2> QED
    BY <2>1 DEF Survivors
<1> QED
  BY <1>2, <1>3, <1>4

LEMMA GraphSwept ==
    ASSUME Types, GraphInv, SweepKeep \/ SweepFree \/ EndSweep, UNCHANGED prog
    PROVE  GraphInv'
<1>1. Survivors' = Survivors /\ UNCHANGED <<chunk, chunkTv, frames, reg, operands, fn_params, boxes, pend>>
  BY SurvivorsSwept DEF SweepKeep, SweepFree, EndSweep, program, unrooted
<1>2. Supported' = Supported
  BY DEF Supported
<1>3. Survivors \subseteq Obj
  BY SurvivorsTracked DEF Types, Alloc
<1>4. \A o \in Survivors : ref'[o] = ref[o] /\ kind'[o] = kind[o]
  <2>1. CASE SweepFree
    <3>1. at \in DOMAIN g_gc_head /\ g_gc_head[at] \notin black /\ at \in Nat /\ pc = "sweep"
          /\ DOMAIN g_gc_head \subseteq Nat
      BY <2>1, TrackedObjects DEF SweepFree, Types, CollectorOK
    <3>2. g_gc_head[at] \notin Survivors
      BY <3>1 DEF Survivors, Types, HeapOK, Once
    <3>3. ref' = [ref EXCEPT ![g_gc_head[at]] = {}] /\ kind' = [kind EXCEPT ![g_gc_head[at]] = "free"]
      BY <2>1 DEF SweepFree
    <3> QED
      BY <1>3, <3>2, <3>3 DEF Types, HeapOK
  <2>2. CASE SweepKeep \/ EndSweep
    BY <2>2 DEF SweepKeep, EndSweep, heap
  <2> QED
    BY <2>1, <2>2
<1>5. Sound => Sound'
  BY <1>1, <1>4 DEF Sound
<1>6. Sound /\ Followed => Followed'
  <2> SUFFICES ASSUME Sound, Followed
               PROVE  Followed'
    OBVIOUS
  <2>1. \A o \in Survivors : \A e \in ref'[o] : e \in ref[o] /\ e[2] \in Survivors
    BY <1>4 DEF Sound
  <2>2. \A s \in TvSlot : chunkTv[s] # Null => chunkTv[s] \in Survivors
    BY DEF Sound
  <2>3. \A o \in Survivors : \A e \in ref'[o] :
           /\ e[1] \in {"array", "hash_value"} => kind'[e[2]] \in {"string", "table"}
           /\ e[1] = "hash_key" => kind'[e[2]] = "string"
    BY <1>4, <2>1 DEF Followed, Storable
  <2>4. \A s \in TvSlot : chunkTv'[s] # Null => kind'[chunkTv'[s]] = "string"
    BY <1>1, <1>4, <2>2 DEF Followed
  <2>5. pend' = NoOp /\ reg' = Null /\ Waiting' = Null /\ (prog'.frame_safe => Captured' = {})
    BY <1>1 DEF Followed, SweepKeep, SweepFree, EndSweep, Waiting, Captured
  <2>6. RegistersRooted'
    BY <1>1 DEF Followed, RegistersRooted, CallerHolds
  <2> QED
    BY <1>1, <2>3, <2>4, <2>5, <2>6 DEF Followed, Storable
<1> QED
  BY <1>1, <1>2, <1>5, <1>6 DEF GraphInv


LEMMA GraphKept ==
    ASSUME Marking, Precise, Shallow, Shapes, GraphInv, [Next]_vars
    PROVE  GraphInv'
<1>0. Types /\ HeapOK /\ HeapOK'
  BY TypesKept DEF Marking, Types
<1>1. CASE UNCHANGED vars
  <2>1. Survivors' = Survivors /\ Supported' = Supported
    BY <1>1 DEF vars, heap, Survivors, Supported
  <2> QED
    BY <1>1, <2>1 DEF vars, heap, program, unrooted, GraphInv, Sound, Followed, Storable,
                      RegistersRooted, CallerHolds, Waiting, Captured
<1>2. CASE Mutate /\ UNCHANGED prog
  <2>1. Supported' = Supported
    BY <1>2 DEF Supported
  <2>2. Sound => Sound'
    BY <1>0, <1>2, SoundMutate
  <2>3. Supported /\ prog.chunk_safe /\ Sound /\ Followed => Followed'
    BY <1>0, <1>2, FollowedMutate
  <2> QED
    BY <1>2, <2>1, <2>2, <2>3 DEF GraphInv
<1>3. CASE Collect /\ UNCHANGED prog
  <2>1. /\ UNCHANGED heap /\ UNCHANGED <<chunk, chunkTv, frames, reg, unrooted>>
        /\ pc = "run" /\ pc' = "roots" /\ reg = Null /\ pend' = pend
        /\ Waiting # Null => "collect_operand" \in prog.uses
        /\ Captured # {} => "capturing_body" \in prog.uses
    BY <1>3 DEF Collect, StartMark
  <2>2. Supported /\ prog.chunk_safe => Waiting = Null /\ (prog.frame_safe => Captured = {})
    BY <2>1 DEF Supported
  <2> QED
    BY <1>0, <1>3, <2>1, <2>2, GraphMarking
<1>4. ASSUME \/ ScanChunkRoots \/ WalkFrameChain \/ VisitTable \/ EndTableWalk
             \/ VisitCell \/ EndPass,
             UNCHANGED prog
      PROVE  GraphInv'
  <2>1. /\ UNCHANGED heap /\ UNCHANGED <<chunk, chunkTv, frames, reg, unrooted>>
        /\ pc \notin {"run", "sweep"} /\ pc' # "sweep" /\ pend' = pend
    BY <1>4 DEF ScanChunkRoots, WalkFrameChain, VisitTable, EndTableWalk, VisitCell, EndPass, program
  <2>2. Supported /\ prog.chunk_safe =>
           reg = Null /\ Waiting = Null /\ (prog.frame_safe => Captured = {})
    BY <2>1 DEF GraphInv, Followed
  <2> QED
    BY <1>0, <1>4, <2>1, <2>2, GraphMarking
<1>5. CASE WeakClear /\ UNCHANGED prog
  <2>1. CASE DepthGuard
    BY <1>5, <2>1, ClearGuarded
  <2>2. CASE ~DepthGuard
    BY <1>5, <2>2, ClearMarked DEF GraphInv, Supported
  <2> QED
    BY <2>1, <2>2
<1>6. CASE (SweepKeep \/ SweepFree \/ EndSweep) /\ UNCHANGED prog
  BY <1>0, <1>6, GraphSwept
<1> QED
  BY <1>1, <1>2, <1>3, <1>4, <1>5, <1>6 DEF Next, CollectorStep

Whole == Marking /\ Precise /\ Shapes /\ GraphInv

LEMMA WholeAlways ==
    Spec /\ []Shallow => []Whole
<1>1. Init => Whole
  <2> SUFFICES ASSUME Init
               PROVE  Whole
    OBVIOUS
  <2>1. Types
    BY TypesStart
  <2>2. MarkInv /\ MarkCovers /\ Precise
    BY DEF Init, MarkInv, MarkCovers, Precise
  <2>3. Shapes
    BY DEF Init, Shapes
  <2>4. Survivors = {}
    BY DEF Init, Survivors
  <2>5. Sound /\ Followed
    BY <2>4 DEF Init, Sound, Followed, RegistersRooted
  <2> QED
    BY <2>1, <2>2, <2>3, <2>5 DEF Whole, Marking, GraphInv
<1>2. Whole /\ Shallow /\ [Next]_vars => Whole'
  BY MarkingKept, PreciseKept, ShapesKept, GraphKept DEF Whole, Marking
<1> QED
  BY <1>1, <1>2, PTL DEF Spec

\* A supported program never loads freed memory: as long as every object it
\* can reach is within the fixed number of passes when a marking ends, no
\* local, register of the current activation or of one that waits for it, or
\* field of an allocated object points at freed memory.
THEOREM NothingDangles ==
    Spec /\ []Shallow => []NoDangling
<1>1. Whole => NoDangling
  <2> SUFFICES ASSUME Whole, pc = "run", Supported
               PROVE  /\ \A s \in ChunkSlot : chunk[s] \in Alloc \cup {Null}
                      /\ \A s \in TvSlot : chunkTv[s] \in Alloc \cup {Null}
                      /\ \A i \in DOMAIN frames :
                            \A s \in FrameSlot : frames[i][s] \in Alloc \cup {Null}
                      /\ reg \in Alloc \cup {Null}
                      /\ \A i \in DOMAIN operands : operands[i] \in Alloc \cup {Null}
                      /\ \A i \in DOMAIN fn_params : fn_params[i] \in Alloc \cup {Null}
                      /\ \A i \in DOMAIN boxes : boxes[i] \in Alloc \cup {Null}
                      /\ \A o \in Alloc : Edges(o, Field) \subseteq Alloc
    BY DEF NoDangling
  <2>1. HeapOK /\ Sound
    BY DEF Whole, Marking, Types, GraphInv
  <2>2. \A o \in Alloc : Edges(o, Field) \subseteq Alloc
    BY <2>1, GraphAtRun DEF Edges
  <2> QED
    BY <2>1, <2>2, GraphAtRun
<1> QED
  BY <1>1, WholeAlways, PTL

\* In a supported program the finalizer dispatch of the sweep never loads
\* __gc from a metatable freed earlier in the same walk.
THEOREM ProbesAreLive ==
    Spec /\ []Shallow => [](Supported => FinalizerProbesLive)
<1>1. Whole => (Supported => FinalizerProbesLive)
  <2> SUFFICES ASSUME Whole, Supported, pc = "sweep", at <= Len(g_gc_head), g_gc_head[at] \notin black,
                      NEW e \in ref[g_gc_head[at]], e[1] = "metatable"
               PROVE  e[2] \in Alloc
    BY DEF FinalizerProbesLive, Edges
  <2>1. Types /\ HeapOK /\ MarkInv
    BY DEF Whole, Marking, Types
  <2>2. at \in DOMAIN g_gc_head /\ at \in Nat /\ DOMAIN g_gc_head \subseteq Nat
    BY <2>1, TrackedObjects DEF Types, CollectorOK
  <2>3. prog.chunk_safe
    <3>1. ~ \E i \in DOMAIN g_gc_head : i < at /\ g_gc_head[i] = g_gc_head[at]
      BY <2>1, <2>2 DEF HeapOK, Once
    <3>2. g_gc_head[at] \notin kept
      BY <2>1, <3>1 DEF MarkInv
    <3> QED
      BY <2>2, <3>2 DEF Whole, Precise, Tracked
  <2>4. g_gc_head[at] \in Obj /\ e[2] \in Obj
    BY <2>1, <2>2 DEF HeapOK, Edge
  <2>5. prog.pinned # Null /\ e[2] = chunk[prog.pinned]
    BY <2>3, <2>4 DEF Whole, Shapes, Supported
  <2>6. chunk[prog.pinned] \in Survivors \cup {Null}
    BY <2>1, <2>5, GcHeapAssumption DEF Types, Whole, GraphInv, Sound
  <2> QED
    BY <2>1, <2>4, <2>5, <2>6, SurvivorsTracked, GcHeapAssumption
<1> QED
  BY <1>1, WholeAlways, PTL

\* The weak clear takes from a live table only entries whose value nothing
\* else holds, in every program.
THEOREM HeldStays ==
    Spec /\ []Shallow => WeakKeepsHeld
<1>1. ASSUME Whole, Shallow, Next, pc = "weak", NEW o \in black, NEW e \in ref[o] \ ref'[o]
      PROVE  e[1] = "hash_value" /\ IsWeak(o) /\ e[2] \notin Reachable
  <2>1. Marking /\ Precise /\ Types
    BY <1>1 DEF Whole, Marking
  <2>2. WeakClear
    BY <1>1, MutatorRuns DEF Next, Collect, CollectorStep, ScanChunkRoots, WalkFrameChain,
       VisitTable, EndTableWalk, VisitCell, EndPass, SweepKeep, SweepFree, EndSweep
  <2>3. o \in Obj
    BY <2>1 DEF Types, CollectorOK
  <2>4. e[1] = "hash_value" /\ IsWeak(o) /\ e[2] \notin black
    BY <1>1, <2>2, <2>3 DEF WeakClear
  <2>5. Reachable \subseteq black
    <3>1. CASE DepthGuard
      BY <1>1, <2>1, <3>1, RootsTracked DEF Precise
    <3>2. CASE ~DepthGuard
      BY <1>1, <2>1, <3>2, BlackIsReachable
    <3> QED
      BY <3>1, <3>2
  <2> QED
    BY <2>4, <2>5
<1>2. Whole /\ Shallow /\ [Next]_vars =>
        [pc = "weak" => \A o \in black : \A e \in ref[o] \ ref'[o] :
          /\ e[1] = "hash_value" /\ IsWeak(o)
          /\ e[2] \notin Reachable]_vars
  BY <1>1
<1> QED
  BY <1>2, WholeAlways, PTL DEF Spec, WeakKeepsHeld


-----------------------------------------------------------------------------
(* A heap of at most Passes + 1 objects is shallow: as long as the passes  *)
(* have not reached everything, each reaches a new object.                 *)

LEMMA WithinGrows ==
    ASSUME HeapOK, NEW n \in Nat
    PROVE  /\ Within(n) \subseteq Within(n + 1)
           /\ \A o \in Within(n) : Kids(o) \subseteq Within(n + 1)
<1>1. Within(n) \subseteq Within(n + 1)
  <2>1. 0 .. n \subseteq 0 .. n + 1
    OBVIOUS
  <2> QED
    BY <2>1 DEF Within
<1>2. ASSUME NEW o \in Within(n), NEW c \in Kids(o)
      PROVE  c \in Within(n + 1)
  <2>1. PICK k \in 0 .. n : \E p \in [0 .. k -> Obj] :
           p[0] \in Roots /\ p[k] = o /\ \A i \in 1 .. k : p[i] \in Kids(p[i - 1])
    BY DEF Within
  <2>2. PICK p \in [0 .. k -> Obj] :
           p[0] \in Roots /\ p[k] = o /\ \A i \in 1 .. k : p[i] \in Kids(p[i - 1])
    BY <2>1
  <2>3. c \in Tracked /\ c \in Obj
    BY TrackedObjects DEF Kids
  <2> DEFINE q == [i \in 0 .. k + 1 |-> IF i = k + 1 THEN c ELSE p[i]]
  <2>4. q \in [0 .. k + 1 -> Obj] /\ k + 1 \in 0 .. n + 1 /\ q[0] \in Roots /\ q[k + 1] = c
    BY <2>2, <2>3
  <2>5. \A i \in 1 .. k + 1 : q[i] \in Kids(q[i - 1])
    <3> SUFFICES ASSUME NEW i \in 1 .. k + 1
                 PROVE  q[i] \in Kids(q[i - 1])
      OBVIOUS
    <3>1. CASE i = k + 1
      <4>1. q[i] = c /\ q[i - 1] = p[k]
        BY <3>1
      <4> QED
        BY <4>1, <2>2
    <3>2. CASE i # k + 1
      <4>1. i \in 1 .. k /\ q[i] = p[i] /\ q[i - 1] = p[i - 1]
        BY <3>2
      <4> QED
        BY <4>1, <2>2
    <3> QED
      BY <3>1, <3>2
  <2> HIDE DEF q
  <2> QED
    BY <2>3, <2>4, <2>5 DEF Within
<1> QED
  BY <1>1, <1>2


LEMMA WithinMonotone ==
    ASSUME NEW m \in Nat, NEW n \in Nat, m <= n
    PROVE  Within(m) \subseteq Within(n)
<1>1. 0 .. m \subseteq 0 .. n
  OBVIOUS
<1> QED
  BY <1>1 DEF Within

LEMMA WithinClosed ==
    ASSUME HeapOK, NEW n \in Nat, Within(n + 1) \subseteq Within(n)
    PROVE  Reachable \subseteq Within(n)
<1>1. Roots \subseteq Within(n)
  <2> SUFFICES ASSUME NEW o \in Roots
               PROVE  o \in Within(n)
    OBVIOUS
  <2> DEFINE q == [i \in 0 .. 0 |-> o]
  <2>1. o \in Tracked /\ o \in Obj
    BY RootsTracked, TrackedObjects
  <2>2. q \in [0 .. 0 -> Obj] /\ q[0] = o /\ 0 \in 0 .. n /\ \A i \in 1 .. 0 : q[i] \in Kids(q[i - 1])
    BY <2>1
  <2> HIDE DEF q
  <2> QED
    BY <2>1, <2>2 DEF Within
<1>2. \A o \in Within(n) : Kids(o) \subseteq Within(n)
  BY WithinGrows
<1>3. Closed(Within(n)) /\ Within(n) \in SUBSET Tracked
  BY <1>1, <1>2 DEF Closed, Within
<1> QED
  BY <1>3 DEF Reachable

LEMMA SmallIsShallow ==
    ASSUME HeapOK, Cardinality(Alloc) <= Passes + 1
    PROVE  Reachable \subseteq Within(Passes)
<1> SUFFICES ASSUME ~(Reachable \subseteq Within(Passes))
             PROVE  FALSE
  OBVIOUS
<1>0. Passes \in Nat
  BY GcHeapAssumption
<1>1. \A n \in 0 .. Passes : \E o \in Tracked : o \in Within(n + 1) /\ o \notin Within(n)
  <2> SUFFICES ASSUME NEW n \in 0 .. Passes
               PROVE  ~(Within(n + 1) \subseteq Within(n))
    BY DEF Within
  <2> QED
    BY <1>0, WithinClosed, WithinMonotone
<1>2. Roots # {}
  <2>1. Roots = {} => Closed({})
    BY DEF Closed
  <2> QED
    BY <2>1 DEF Reachable
<1>3. PICK r \in Roots : TRUE
  BY <1>2
<1>4. r \in Tracked /\ r \in Within(0)
  <2> DEFINE q == [i \in 0 .. 0 |-> r]
  <2>1. r \in Tracked /\ r \in Obj
    BY RootsTracked, TrackedObjects
  <2>2. q \in [0 .. 0 -> Obj] /\ q[0] = r /\ 0 \in 0 .. 0 /\ \A i \in 1 .. 0 : q[i] \in Kids(q[i - 1])
    BY <2>1
  <2> HIDE DEF q
  <2> QED
    BY <2>1, <2>2 DEF Within
<1> DEFINE New(n) == {o \in Tracked : o \in Within(n + 1) /\ o \notin Within(n)}
           f == [i \in 0 .. Passes + 1 |-> IF i = 0 THEN r ELSE CHOOSE o \in New(i - 1) : TRUE]
<1>5. \A i \in 1 .. Passes + 1 :
         f[i] \in Tracked /\ f[i] \in Within(i) /\ f[i] \notin Within(i - 1)
  <2> SUFFICES ASSUME NEW i \in 1 .. Passes + 1
               PROVE  f[i] \in Tracked /\ f[i] \in Within(i) /\ f[i] \notin Within(i - 1)
    OBVIOUS
  <2>1. i - 1 \in 0 .. Passes /\ i - 1 + 1 = i /\ i # 0 /\ i \in 0 .. Passes + 1
    BY <1>0
  <2>2. New(i - 1) # {}
    BY <1>1, <2>1
  <2>3. f[i] \in New(i - 1)
    BY <2>1, <2>2
  <2> QED
    BY <2>1, <2>3
<1>6. f[0] = r /\ 0 \in 0 .. Passes + 1
  BY <1>0
<1>6a. f = [i \in 0 .. Passes + 1 |-> f[i]]
  OBVIOUS
<1> HIDE DEF f, New
<1>7. f \in [0 .. Passes + 1 -> Tracked]
  <2>1. \A i \in 0 .. Passes + 1 : i = 0 \/ i \in 1 .. Passes + 1
    BY <1>0
  <2>2. \A i \in 0 .. Passes + 1 : f[i] \in Tracked
    BY <1>4, <1>5, <1>6, <2>1
  <2> QED
    BY <1>6a, <2>2
<1>8. ASSUME NEW i \in 0 .. Passes + 1, NEW j \in 0 .. Passes + 1, i < j
      PROVE  f[i] # f[j]
  <2>1. j \in 1 .. Passes + 1 /\ j - 1 \in Nat /\ i <= j - 1 /\ i \in Nat
    BY <1>0, <1>8
  <2>2. f[i] \in Within(i)
    <3>1. i = 0 \/ i \in 1 .. Passes + 1
      BY <1>0
    <3> QED
      BY <1>4, <1>5, <1>6, <3>1
  <2>3. f[i] \in Within(j - 1)
    BY <2>1, <2>2, WithinMonotone
  <2> QED
    BY <1>5, <2>1, <2>3
<1>9. \A i, j \in 0 .. Passes + 1 : i # j => f[i] # f[j]
  <2> SUFFICES ASSUME NEW i \in 0 .. Passes + 1, NEW j \in 0 .. Passes + 1, i # j
               PROVE  f[i] # f[j]
    OBVIOUS
  <2>1. i < j \/ j < i
    BY <1>0
  <2> QED
    BY <1>8, <2>1
<1>10. IsFiniteSet(Tracked) /\ Tracked = Alloc
  <2>1. g_gc_head \in Surjection(1 .. Len(g_gc_head), Tracked) /\ Len(g_gc_head) \in Nat
    BY TrackedObjects DEF HeapOK, Tracked, Surjection
  <2>2. IsFiniteSet(1 .. Len(g_gc_head))
    BY <2>1, FS_Interval
  <2> QED
    BY <2>1, <2>2, FS_Surjection, TrackedObjects
<1>11. IsFiniteSet(0 .. Passes + 1) /\ Cardinality(0 .. Passes + 1) = Passes + 2
  BY <1>0, FS_Interval
<1>12. Cardinality(Tracked) \in Nat /\ Cardinality(Tracked) < Passes + 2
  BY <1>0, <1>10, FS_CardinalityType
<1> QED
  BY <1>7, <1>9, <1>10, <1>11, <1>12, FS_PigeonHole

\* A supported program whose heap never holds more objects than one more than
\* the passes never loads freed memory, however they are linked.
THEOREM SmallHeapsAreSound ==
    Spec /\ [](Cardinality(Alloc) <= Passes + 1) => []NoDangling
<1>1. Marking /\ Cardinality(Alloc) <= Passes + 1 => Shallow
  BY SmallIsShallow DEF Marking, Types, Shallow
<1> QED
  BY <1>1, MarkingAlways, NothingDangles, PTL
=============================================================================
