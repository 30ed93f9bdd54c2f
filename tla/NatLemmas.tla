----------------------------- MODULE NatLemmas -----------------------------
(* Facts about sets of naturals that proofs by induction rest on.          *)
EXTENDS Integers, FiniteSets, TLAPS, WellFoundedInduction, NaturalsInduction,
        FiniteSetTheorems, FunctionTheorems, Functions

\* A nonempty set of naturals has a least element: an induction on n is the
\* absence of a least counterexample.
LEMMA LeastNat ==
    ASSUME NEW S \in SUBSET Nat, S # {}
    PROVE  \E x \in S : \A y \in S : x <= y
<1>1. PICK x \in S : \A y \in S : ~ (<<y, x>> \in OpToRel(<, Nat))
  BY NatLessThanWellFounded, WFMin, Zenon
<1>2. \A y \in S : ~ (y < x)
  BY <1>1, Zenon DEF OpToRel
<1> QED
  BY <1>2

\* What is below a bound and nonempty has a greatest element.
LEMMA GreatestNat ==
    ASSUME NEW S \in SUBSET Nat, S # {}, NEW b \in Nat, \A x \in S : x <= b
    PROVE  \E x \in S : \A y \in S : y <= x
<1> DEFINE T == {n \in Nat : \A x \in S : x <= n}
<1>1. PICK n \in T : \A m \in T : n <= m
  BY LeastNat
<1>2. n \in S
  <2>1. SUFFICES ASSUME n \notin S PROVE FALSE
    OBVIOUS
  <2>2. n \in Nat /\ \A x \in S : x \in Nat /\ x <= n
    BY <1>1
  <2>3. PICK z \in S : z \in Nat /\ z <= n /\ z # n
    BY <2>1, <2>2
  <2>4. n # 0 /\ n - 1 \in Nat
    BY <2>2, <2>3
  <2>5. \A x \in S : x <= n - 1
    BY <2>1, <2>2
  <2> QED
    BY <1>1, <2>2, <2>4, <2>5
<1> QED
  BY <1>1, <1>2

\* Subsets of 1 .. n are finite.
LEMMA FiniteBelow ==
    ASSUME NEW n \in Nat, NEW S \in SUBSET (1 .. n)
    PROVE  IsFiniteSet(S) /\ Cardinality(S) \in Nat
<1>1. IsFiniteSet(1 .. n)
  BY FS_Interval
<1>2. IsFiniteSet(S)
  BY <1>1, FS_Subset
<1> QED
  BY <1>2, FS_CardinalityType

\* A remainder determines its quotient.
LEMMA ModUnique ==
    ASSUME NEW c \in Nat, c > 0, NEW q \in Nat, NEW r \in 0 .. c - 1
    PROVE  (c * q + r) % c = r
<1> DEFINE n == c * q + r
           d == n \div c
           m == n % c
<1>1. n \in Nat
  OBVIOUS
<1> HIDE DEF n
<1>2. d \in Int /\ m \in 0 .. c - 1 /\ n = c * d + m
  BY <1>1
<1> HIDE DEF d, m
<1>3. c * q + r = c * d + m
  BY <1>2 DEF n
<1>4. CASE d > q
  <2>1. c * (d - q) >= c
    BY <1>2, <1>4
  <2> QED
    BY <1>2, <1>3, <2>1
<1>5. CASE d < q
  <2>1. c * (q - d) >= c
    BY <1>2, <1>5
  <2> QED
    BY <1>2, <1>3, <2>1
<1>6. CASE d = q
  BY <1>2, <1>3, <1>6 DEF m, n
<1> QED
  BY <1>2, <1>4, <1>5, <1>6

\* Going round a ring of c places from any start meets every place.
LEMMA RingCovered ==
    ASSUME NEW c \in Nat, c > 0, NEW h \in Nat, NEW b \in 0 .. c - 1
    PROVE  \E i \in 0 .. c - 1 : (h + i) % c = b
<1> DEFINE q == h \div c
           r == h % c
<1>1. q \in Nat /\ r \in 0 .. c - 1 /\ h = c * q + r
  OBVIOUS
<1> HIDE DEF q, r
<1>2. CASE b >= r
  <2>1. b - r \in 0 .. c - 1 /\ h + (b - r) = c * q + b
    BY <1>1, <1>2
  <2> QED
    BY <1>1, <2>1, ModUnique
<1>3. CASE b < r
  <2>1. b - r + c \in 0 .. c - 1 /\ h + (b - r + c) = c * (q + 1) + b
    BY <1>1, <1>3
  <2>2. (c * (q + 1) + b) % c = b
    BY <1>1, ModUnique
  <2> QED
    BY <2>1, <2>2
<1> QED
  BY <1>1, <1>2, <1>3

-----------------------------------------------------------------------------
(* Recursive functions.  f = F[f] is the equation of a definition          *)
(* f[x \in D] == ...; rank[x] bounds how deep the recursion from x goes.    *)

Solvable(G, F) == \E g \in G : g = F[g]

\* F[g] at x depends on g at lower ranks only.
Local(D, rank, G, F) ==
    \A g, h \in G : \A x \in D :
       (\A y \in D : rank[y] < rank[x] => g[y] = h[y]) => F[g][x] = F[h][x]

\* f stays in T, or at least does so at x when it does at all lower ranks.
Within(D, f, T) == \A x \in D : f[x] \in T[x]
StepsWithin(D, rank, f, T) ==
    \A x \in D : (\A y \in D : rank[y] < rank[x] => f[y] \in T[y]) => f[x] \in T[x]

\* An equation whose right side at x asks for f at lower ranks only has a
\* solution, within any set G of functions that the right side preserves.
LEMMA RecursionSolved ==
    ASSUME NEW D, NEW V, NEW G \in SUBSET [D -> V], G # {},
           NEW N \in Nat, NEW rank \in [D -> 0 .. N],
           NEW F \in [G -> G], Local(D, rank, G, F)
    PROVE  Solvable(G, F)
<1> DEFINE Solved(n) == \E g \in G : \A x \in D : rank[x] < n => F[g][x] = g[x]
           unsolved == {n \in Nat : ~Solved(n)}
<1>1. Solved(0)
  <2>1. PICK g \in G : TRUE
    OBVIOUS
  <2>2. \A x \in D : ~(rank[x] < 0)
    OBVIOUS
  <2> QED
    BY <2>1, <2>2
<1>2. ASSUME NEW n \in Nat, Solved(n) PROVE Solved(n + 1)
  <2>1. PICK g \in G : \A x \in D : rank[x] < n => F[g][x] = g[x]
    BY <1>2
  <2>2. PICK h \in G : h = F[g]
    OBVIOUS
  <2>3. ASSUME NEW x \in D, rank[x] < n + 1 PROVE F[h][x] = h[x]
    <3>1. \A y \in D : rank[y] < rank[x] => g[y] = h[y]
      <4>1. rank[x] \in Nat /\ \A y \in D : rank[y] \in Nat
        OBVIOUS
      <4>2. \A y \in D : rank[y] < rank[x] => rank[y] < n
        BY <4>1, <2>3
      <4> QED
        BY <4>2, <2>1, <2>2
    <3>2. F[g][x] = F[h][x]
      BY <3>1 DEF Local
    <3> QED
      BY <3>2, <2>2
  <2> QED
    BY <2>3
<1>3. Solved(N + 1)
  <2>1. SUFFICES ASSUME N + 1 \in unsolved PROVE FALSE
    OBVIOUS
  <2> HIDE DEF Solved
  <2>2. PICK n \in unsolved : \A m \in unsolved : n <= m
    BY <2>1, LeastNat
  <2>3. n # 0 /\ n - 1 \in Nat /\ n - 1 \notin unsolved
    BY <1>1, <2>2
  <2>4. Solved((n - 1) + 1)
    BY <1>2, <2>3
  <2> QED
    BY <2>2, <2>4
<1>4. PICK g \in G : \A x \in D : rank[x] < N + 1 => F[g][x] = g[x]
  BY <1>3
<1>5. \A x \in D : F[g][x] = g[x]
  BY <1>4
<1>6. g \in [D -> V] /\ F[g] \in [D -> V]
  OBVIOUS
<1> QED
  BY <1>5, <1>6 DEF Solvable

\* What holds at x whenever it holds at all lower ranks holds everywhere.
LEMMA RecursionBound ==
    ASSUME NEW D, NEW N \in Nat, NEW rank \in [D -> 0 .. N], NEW f, NEW T,
           StepsWithin(D, rank, f, T)
    PROVE  Within(D, f, T)
<1> DEFINE ranks == {rank[x] : x \in {y \in D : f[y] \notin T[y]}}
<1>1. SUFFICES ASSUME NEW x \in D, f[x] \notin T[x] PROVE FALSE
  BY DEF Within
<1>2. ranks \in SUBSET Nat /\ rank[x] \in ranks
  BY <1>1
<1>3. PICK n \in ranks : \A m \in ranks : n <= m
  BY <1>2, LeastNat
<1>4. PICK z \in D : f[z] \notin T[z] /\ rank[z] = n
  BY <1>3
<1>5. ASSUME NEW y \in D, rank[y] < rank[z] PROVE f[y] \in T[y]
  <2>1. rank[y] \in Nat /\ n \in Nat /\ ~(n <= rank[y])
    BY <1>2, <1>4, <1>5
  <2>2. rank[y] \notin ranks
    BY <1>3, <2>1
  <2> QED
    BY <2>2
<1> QED
  BY <1>4, <1>5 DEF StepsWithin

-----------------------------------------------------------------------------
(* Sums over finite sets.                                                  *)

\* A pair for each unit of each element of S: what the sum counts.
Cells(sizes, S) == UNION {{o} \X (1 .. sizes[o]) : o \in S}

LEMMA Block ==
    ASSUME NEW o, NEW n \in Nat
    PROVE  IsFiniteSet({o} \X (1 .. n)) /\ Cardinality({o} \X (1 .. n)) = n
<1>1. IsFiniteSet({o}) /\ Cardinality({o}) = 1
  BY FS_Singleton
<1>2. IsFiniteSet(1 .. n) /\ Cardinality(1 .. n) = n
  BY FS_Interval
<1>3. /\ IsFiniteSet({o} \X (1 .. n))
      /\ Cardinality({o} \X (1 .. n)) = Cardinality({o}) * Cardinality(1 .. n)
  BY <1>1, <1>2, FS_Product, Zenon
<1> QED
  BY <1>1, <1>2, <1>3

LEMMA CellsFinite ==
    ASSUME NEW S, IsFiniteSet(S), NEW sizes, \A o \in S : sizes[o] \in Nat
    PROVE  IsFiniteSet(Cells(sizes, S))
<1> DEFINE block == [o \in S |-> {o} \X (1 .. sizes[o])]
           blocks == {{o} \X (1 .. sizes[o]) : o \in S}
<1>1. block \in Surjection(S, blocks)
  BY Fun_IsSurj
<1>2. IsFiniteSet(blocks)
  BY <1>1, FS_Surjection
<1>3. ASSUME NEW o \in S PROVE IsFiniteSet({o} \X (1 .. sizes[o]))
  BY Block
<1>4. IsFiniteSet(UNION blocks)
  BY <1>2, <1>3, FS_UNION
<1> QED
  BY <1>4 DEF Cells

\* One object more.
LEMMA CellsAdd ==
    ASSUME NEW S, IsFiniteSet(S), NEW sizes, \A o \in S : sizes[o] \in Nat,
           NEW x, x \notin S, sizes[x] \in Nat
    PROVE  Cardinality(Cells(sizes, S \cup {x})) = Cardinality(Cells(sizes, S)) + sizes[x]
<1> DEFINE mine == {x} \X (1 .. sizes[x])
<1>1. IsFiniteSet(Cells(sizes, S)) /\ Cardinality(Cells(sizes, S)) \in Nat
  BY CellsFinite, FS_CardinalityType
<1>2. IsFiniteSet(mine) /\ Cardinality(mine) = sizes[x]
  BY Block
<1>3. Cells(sizes, S \cup {x}) = Cells(sizes, S) \cup mine
  BY DEF Cells
<1>4. Cells(sizes, S) \cap mine = {}
  BY DEF Cells
<1>5. Cardinality(Cells(sizes, S) \cap mine) = 0
  BY <1>4, FS_EmptySet
<1> HIDE DEF mine
<1>6. Cardinality(Cells(sizes, S) \cup mine)
         = Cardinality(Cells(sizes, S)) + Cardinality(mine) - Cardinality(Cells(sizes, S) \cap mine)
  BY <1>1, <1>2, FS_Union
<1>7. Cardinality(Cells(sizes, S) \cup mine) = Cardinality(Cells(sizes, S)) + sizes[x]
  BY <1>1, <1>2, <1>5, <1>6
<1> QED
  BY <1>3, <1>7, Zenon

LEMMA SumUnfold ==
    ASSUME NEW sizes, NEW S
    PROVE  SumFunctionOnSet(sizes, S) = (CHOOSE iter : iter = [s \in SUBSET S |->
              IF s = {} THEN 0
              ELSE sizes[CHOOSE x \in s : TRUE] + iter[s \ {CHOOSE x \in s : TRUE}]])[S]
  BY DEF SumFunctionOnSet, FoldFunctionOnSet, MapThenFoldSet

\* The fold counts cells: they solve its equation, and nothing else does.
LEMMA SumIsCells ==
    ASSUME NEW S, IsFiniteSet(S), NEW sizes, \A o \in S : sizes[o] \in Nat
    PROVE  SumFunctionOnSet(sizes, S) = Cardinality(Cells(sizes, S))
<1> DEFINE pick(s) == CHOOSE x \in s : TRUE
           Fold(f) == [s \in SUBSET S |-> IF s = {} THEN 0 ELSE sizes[pick(s)] + f[s \ {pick(s)}]]
           count == [s \in SUBSET S |-> Cardinality(Cells(sizes, s))]
<1>1. ASSUME NEW s \in SUBSET S, s # {}
      PROVE  /\ pick(s) \in s
             /\ s \ {pick(s)} \in SUBSET S
             /\ IsFiniteSet(s) /\ IsFiniteSet(s \ {pick(s)}) /\ Cardinality(s) \in Nat
             /\ Cardinality(s \ {pick(s)}) = Cardinality(s) - 1
             /\ count[s] = sizes[pick(s)] + count[s \ {pick(s)}]
             /\ count[s \ {pick(s)}] \in Nat
  <2>1. pick(s) \in s
    BY <1>1
  <2>2. IsFiniteSet(s)
    BY FS_Subset
  <2>3. PICK x \in s : x = pick(s)
    BY <2>1
  <2> DEFINE r == s \ {x}
  <2>4. IsFiniteSet(r) /\ Cardinality(r) = Cardinality(s) - 1
    BY <2>2, FS_RemoveElement
  <2>5. r \cup {x} = s /\ x \notin r /\ sizes[x] \in Nat /\ \A o \in r : sizes[o] \in Nat
    OBVIOUS
  <2>6. Cardinality(Cells(sizes, s)) = Cardinality(Cells(sizes, r)) + sizes[x]
    <3> HIDE DEF r
    <3> QED
      BY <2>4, <2>5, CellsAdd
  <2>7. Cardinality(Cells(sizes, r)) \in Nat
    BY <2>4, <2>5, CellsFinite, FS_CardinalityType
  <2>8. Cardinality(s) \in Nat
    BY <2>2, FS_CardinalityType
  <2> HIDE DEF pick
  <2> QED
    BY <2>1, <2>2, <2>3, <2>4, <2>5, <2>6, <2>7, <2>8
<1>2. count[{}] = 0
  BY FS_EmptySet DEF Cells
<1> HIDE DEF pick
<1>3. count = Fold(count)
  <2>1. ASSUME NEW s \in SUBSET S PROVE count[s] = Fold(count)[s]
    <3> HIDE DEF count
    <3> QED
      BY <1>1, <1>2
  <2> QED
    BY <2>1
<1> HIDE DEF count
<1>4. ASSUME NEW f, f = Fold(f), NEW t \in SUBSET S, f[t] # count[t] PROVE FALSE
  <2> DEFINE wrong == {s \in SUBSET S : f[s] # count[s]}
             ranks == {Cardinality(s) : s \in wrong}
  <2>1. ranks \in SUBSET Nat /\ ranks # {}
    <3>1. \A s \in SUBSET S : Cardinality(s) \in Nat
      BY FS_Subset, FS_CardinalityType
    <3>2. t \in wrong
      BY <1>4
    <3> QED
      BY <3>1, <3>2
  <2>2. PICK n \in ranks : \A m \in ranks : n <= m
    BY <2>1, LeastNat
  <2>3. PICK s \in wrong : Cardinality(s) = n
    BY <2>2
  <2>4. s # {} /\ f[s] = sizes[pick(s)] + f[s \ {pick(s)}]
    <3>1. f[s] = Fold(f)[s]
      BY <1>4
    <3>2. s # {}
      BY <3>1, <2>3, <1>2
    <3> QED
      BY <3>1, <3>2
  <2>5. s \ {pick(s)} \notin wrong
    BY <1>1, <2>2, <2>3, <2>4
  <2>6. f[s \ {pick(s)}] = count[s \ {pick(s)}]
    BY <1>1, <2>4, <2>5
  <2> QED
    BY <1>1, <2>3, <2>4, <2>6
<1>5. (CHOOSE f : f = Fold(f))[S] = count[S]
  <2>1. (CHOOSE f : f = Fold(f)) = Fold(CHOOSE f : f = Fold(f))
    BY <1>3
  <2> QED
    BY <2>1, <1>4
<1>6. count[S] = Cardinality(Cells(sizes, S))
  BY DEF count
<1>7. SumFunctionOnSet(sizes, S) = (CHOOSE f : f = Fold(f))[S]
  BY SumUnfold DEF pick
<1> QED
  BY <1>5, <1>6, <1>7

LEMMA SumAdd ==
    ASSUME NEW S, IsFiniteSet(S), NEW sizes, \A o \in S : sizes[o] \in Nat,
           NEW x, x \notin S, sizes[x] \in Nat
    PROVE  SumFunctionOnSet(sizes, S \cup {x}) = SumFunctionOnSet(sizes, S) + sizes[x]
<1>1. IsFiniteSet(S \cup {x}) /\ \A o \in S \cup {x} : sizes[o] \in Nat
  BY FS_AddElement
<1>2. SumFunctionOnSet(sizes, S \cup {x}) = Cardinality(Cells(sizes, S \cup {x}))
  BY <1>1, SumIsCells
<1>3. SumFunctionOnSet(sizes, S) = Cardinality(Cells(sizes, S))
  BY SumIsCells
<1> QED
  BY <1>2, <1>3, CellsAdd

=============================================================================
