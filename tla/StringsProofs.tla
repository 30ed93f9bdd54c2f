-------------------------- MODULE StringsProofs ---------------------------
(***************************************************************************)
(* Proofs about Strings, for every program whose calls have operands of    *)
(* the right shape: strings, patterns and lists of any length.             *)
(*                                                                         *)
(* The matcher is recursive.  What the loops around it rest on is where a  *)
(* match may lie (MatchRange): it starts where the search does or further  *)
(* right and ends within the subject.                                      *)
(***************************************************************************)
EXTENDS Strings, NatLemmas, SequenceTheorems, TLAPS

-----------------------------------------------------------------------------
(* The pattern.                                                            *)

LEMMA SetEndUnfold ==
    ASSUME NEW pat, NEW p
    PROVE  SetEnd(pat, p) = (CHOOSE end : end = [k \in Nat |->
              IF k > Len(pat) THEN Len(pat)
              ELSE IF pat[k] = Percent /\ k < Len(pat) THEN end[k + 2]
              ELSE IF pat[k] = CloseSet THEN k ELSE end[k + 1]])[p]
  BY DEF SetEnd

\* A set ends within the pattern and not before it starts.
LEMMA SetEndRange ==
    ASSUME NEW pat \in Seq(Byte), NEW p \in 1 .. Len(pat) + 1
    PROVE  SetEnd(pat, p) \in p - 1 .. Len(pat)
<1> DEFINE L == Len(pat)
           T == [k \in Nat |-> {e \in 0 .. L : k <= L + 1 => k <= e + 1}]
           Body(f, k) == IF k > L THEN L
                         ELSE IF pat[k] = Percent /\ k < L THEN f[k + 2]
                         ELSE IF pat[k] = CloseSet THEN k ELSE f[k + 1]
           End(f) == [k \in Nat |-> Body(f, k)]
           G == {g \in [Nat -> Nat] : \A k \in Nat : g[k] \in T[k]}
           F == [g \in G |-> End(g)]
           rank == [k \in Nat |-> IF k > L THEN 0 ELSE L + 1 - k]
<1>1. L \in Nat
  BY LenProperties
<1> HIDE DEF L
<1>2. PICK N \in Nat : rank \in [Nat -> 0 .. N]
  <2>1. L + 1 \in Nat /\ rank \in [Nat -> 0 .. L + 1]
    BY <1>1
  <2> QED
    BY <2>1, Zenon
<1>3. ASSUME NEW f, NEW k \in Nat, \A j \in Nat : rank[j] < rank[k] => f[j] \in T[j]
      PROVE  Body(f, k) \in T[k]
  <2>1. k <= L => rank[k + 1] < rank[k] /\ rank[k + 2] < rank[k]
    BY <1>1
  <2> HIDE DEF rank
  <2>2. k <= L => f[k + 1] \in T[k + 1] /\ f[k + 2] \in T[k + 2]
    BY <1>3, <2>1
  <2> QED
    BY <1>1, <2>2
<1>4. ASSUME NEW f, NEW g, NEW k \in Nat, \A j \in Nat : rank[j] < rank[k] => f[j] = g[j]
      PROVE  Body(f, k) = Body(g, k)
  <2>1. k <= L => rank[k + 1] < rank[k] /\ rank[k + 2] < rank[k]
    BY <1>1
  <2> HIDE DEF rank
  <2> QED
    BY <1>1, <1>4, <2>1
<1>5. Solvable(G, F)
  <2>1. G \in SUBSET [Nat -> Nat] /\ G # {}
    <3>1. [k \in Nat |-> L] \in G
      BY <1>1
    <3> QED
      BY <3>1
  <2> HIDE DEF rank, Body
  <2>2. ASSUME NEW g \in G PROVE End(g) \in G
    <3>1. \A k \in Nat : g[k] \in T[k]
      OBVIOUS
    <3>2. \A k \in Nat : Body(g, k) \in T[k]
      BY <1>3, <3>1
    <3>3. \A k \in Nat : T[k] \subseteq Nat
      BY <1>1
    <3> QED
      BY <3>2, <3>3
  <2>3. F \in [G -> G]
    BY <2>2
  <2>4. Local(Nat, rank, G, F)
    <3> SUFFICES ASSUME NEW g \in G, NEW h \in G, NEW k \in Nat,
                        \A j \in Nat : rank[j] < rank[k] => g[j] = h[j]
                 PROVE  F[g][k] = F[h][k]
      BY DEF Local
    <3>1. Body(g, k) = Body(h, k)
      BY <1>4, Zenon
    <3>2. F[g] = End(g) /\ F[h] = End(h)
      OBVIOUS
    <3>3. F[g][k] = Body(g, k) /\ F[h][k] = Body(h, k)
      BY <3>2
    <3> QED
      BY <3>1, <3>3, Zenon
  <2>5. G # {}
    BY <2>1
  <2> HIDE DEF G, F
  <2> QED
    BY <1>2, <2>1, <2>3, <2>4, <2>5, RecursionSolved
<1> DEFINE end == CHOOSE f : f = End(f)
<1>6. end = End(end)
  BY <1>5 DEF Solvable
<1> HIDE DEF end
<1>7. Within(Nat, end, T)
  <2> HIDE DEF rank, Body, T
  <2>1. \A k \in Nat : end[k] = Body(end, k)
    BY <1>6
  <2>2. StepsWithin(Nat, rank, end, T)
    BY <1>3, <2>1 DEF StepsWithin
  <2> QED
    BY <1>2, <2>2, RecursionBound
<1>8. SetEnd(pat, p) = end[p]
  BY SetEndUnfold DEF end, L
<1> QED
  BY <1>1, <1>7, <1>8 DEF L, Within

\* Every element of a pattern takes at least one byte of it.
LEMMA AtomLenPositive ==
    ASSUME NEW pat \in Seq(Byte), NEW p \in 1 .. Len(pat)
    PROVE  AtomLen(pat, p) \in Nat \ {0}
<1> DEFINE q == IF IsAt(pat, p + 1, Caret) THEN p + 2 ELSE p + 1
<1>1. Len(pat) \in Nat /\ pat[p] \in Byte
  BY LenProperties, ElementOfSeq
<1>2. q \in p + 1 .. Len(pat) + 1
  BY <1>1 DEF IsAt
<1> HIDE DEF q
<1>3. q \in 1 .. Len(pat) + 1 /\ p \in Nat /\ q \in Nat
  BY <1>1, <1>2
<1>4. SetEnd(pat, q) \in q - 1 .. Len(pat)
  BY <1>3, SetEndRange
<1>5. SetEnd(pat, q) - p + 1 \in Nat \ {0}
  BY <1>1, <1>2, <1>3, <1>4
<1>6. AtomLen(pat, p) = IF pat[p] = Percent THEN 2 ELSE IF pat[p] # OpenSet THEN 1
                        ELSE SetEnd(pat, q) - p + 1
  BY DEF AtomLen, q
<1> QED
  BY <1>5, <1>6

-----------------------------------------------------------------------------
(* Greatest and least elements.                                            *)

LEMMA MaxIs ==
    ASSUME NEW n \in Nat, NEW S \in SUBSET (0 .. n), S # {}
    PROVE  Max(S) \in S /\ \A x \in S : x <= Max(S)
<1>1. S \in SUBSET Nat /\ \A x \in S : x <= n
  OBVIOUS
<1>2. PICK m \in S : \A x \in S : x <= m
  BY <1>1, GreatestNat
<1>3. \A x \in S : m >= x
  BY <1>1, <1>2
<1>4. Max(S) \in S /\ \A x \in S : Max(S) >= x
  BY <1>3 DEF Max
<1> QED
  BY <1>1, <1>4

LEMMA MinIs ==
    ASSUME NEW S \in SUBSET Nat, S # {}
    PROVE  Min(S) \in S /\ \A x \in S : Min(S) <= x
<1>1. PICK m \in S : \A x \in S : m <= x
  BY LeastNat
<1> QED
  BY <1>1 DEF Min

-----------------------------------------------------------------------------
(* The matcher.                                                            *)

LEMMA RunRange ==
    ASSUME NEW s \in Seq(Byte), NEW i \in 1 .. Len(s) + 1, NEW B
    PROVE  Run(s, i, B) \in 0 .. Len(s) + 1 - i
<1> DEFINE S == {n \in 0 .. Len(s) + 1 - i : \A k \in i .. i + n - 1 : s[k] \in B}
<1>1. Len(s) \in Nat /\ Len(s) + 1 - i \in Nat
  BY LenProperties
<1>2. 0 \in S /\ S \in SUBSET (0 .. Len(s) + 1 - i)
  BY <1>1
<1>3. Run(s, i, B) = Max(S)
  BY DEF Run
<1> HIDE DEF S
<1>4. Max(S) \in S
  BY <1>1, <1>2, MaxIs
<1> QED
  BY <1>2, <1>3, <1>4

LEMMA BalancedRange ==
    ASSUME NEW s \in Seq(Byte), NEW i \in 1 .. Len(s) + 1, NEW x, NEW y
    PROVE  Balanced(s, i, x, y) \in {0} \cup (i + 1 .. Len(s))
<1>1. PICK depth : Balanced(s, i, x, y) =
         IF IsAt(s, i, x) /\ {j \in i + 1 .. Len(s) : depth[j] = 0} # {}
         THEN Min({j \in i + 1 .. Len(s) : depth[j] = 0}) ELSE 0
  BY DEF Balanced
<1> DEFINE S == {j \in i + 1 .. Len(s) : depth[j] = 0}
<1>2. Len(s) \in Nat
  BY LenProperties
<1>3. S \in SUBSET Nat /\ S \subseteq i + 1 .. Len(s)
  BY <1>2
<1>4. Balanced(s, i, x, y) = IF IsAt(s, i, x) /\ S # {} THEN Min(S) ELSE 0
  BY <1>1
<1> HIDE DEF S
<1>5. S # {} => Min(S) \in S
  BY <1>3, MinIs
<1> QED
  BY <1>3, <1>4, <1>5

\* What an attempt from position i may answer.
Results(s, i) == {r \in [end : Nat, cap : Capture] : r.end # 0 => r.end \in i .. Len(s) + 1}

LEMMA PlaceIn ==
    ASSUME NEW s \in Seq(Byte), NEW i \in 1 .. Len(s) + 1, NEW p \in Nat \ {0}, NEW cap \in Capture
    PROVE  /\ Place(i, p, cap) \in Places(s)
           /\ Place(i, p, cap).i = i /\ Place(i, p, cap).p = p /\ Place(i, p, cap).cap = cap
  BY DEF Place, Places

LEMMA ResultsShrink ==
    ASSUME NEW s \in Seq(Byte), NEW i \in 1 .. Len(s) + 1, NEW j \in i .. Len(s) + 1
    PROVE  Results(s, j) \subseteq Results(s, i)
<1>1. Len(s) \in Nat
  BY LenProperties
<1> QED
  BY <1>1 DEF Results

LEMMA Answered ==
    ASSUME NEW s \in Seq(Byte), NEW i \in 1 .. Len(s) + 1, NEW cap \in Capture
    PROVE  Fail \in Results(s, i) /\ Found(i, cap) \in Results(s, i)
<1>1. Len(s) \in Nat
  BY LenProperties
<1>2. Fail.end = 0 /\ Found(i, cap).end = i /\ NoCapture \in Capture
  BY DEF Fail, Found, NoCapture, Capture
<1>3. Fail \in [end : Nat, cap : Capture] /\ Found(i, cap) \in [end : Nat, cap : Capture]
  BY <1>1, <1>2 DEF Fail, Found
<1> QED
  BY <1>1, <1>2, <1>3 DEF Results

\* match_max answers what one of its attempts does, and looks at no others.
LEMMA MatchMaxIs ==
    ASSUME NEW run \in Nat, NEW least \in Nat, NEW after, NEW same, NEW R, Fail \in R,
           \A n \in 0 .. run : after[n] \in R /\ same[n] = after[n]
    PROVE  MatchMax(least, run, after) \in R /\ MatchMax(least, run, same) = MatchMax(least, run, after)
<1> DEFINE C == {n \in least .. run : after[n].end # 0}
           m == Max(C)
<1>1. {n \in least .. run : same[n].end # 0} = C
  OBVIOUS
<1>2. C \in SUBSET (0 .. run)
  OBVIOUS
<1>3. /\ MatchMax(least, run, after)
            = IF Longest(C, run) = {} THEN Fail ELSE after[Max(Longest(C, run))]
      /\ MatchMax(least, run, same)
            = IF Longest(C, run) = {} THEN Fail ELSE same[Max(Longest(C, run))]
  BY <1>1, Zenon DEF MatchMax
<1> HIDE DEF C
<1>4. C # {} => m \in 0 .. run
  BY <1>2, MaxIs
<1>5. C # {} => Longest(C, run) = {m}
  BY DEF Longest
<1>6. C = {} => Longest(C, run) = {}
  BY DEF Longest
<1> HIDE DEF m
<1>7. C # {} => Max({m}) = m
  <2>1. C # {} => m \in {m} /\ \A y \in {m} : m >= y
    BY <1>4
  <2> QED
    BY <2>1 DEF Max
<1> QED
  BY <1>3, <1>4, <1>5, <1>6, <1>7

\* f and g answer alike, and within Results, where an attempt at at may look.
Alike(s, pat, at, f, g) ==
    at.p <= Len(pat) =>
       \A y \in Places(s) : y.p > at.p => f[y] \in Results(s, y.i) /\ g[y] = f[y]

\* One step of match_pattern: its answer lies where Results says, given that the
\* answers at later places of the pattern do, and it depends on those only.
LEMMA MatchFromStep ==
    ASSUME NEW s \in Seq(Byte), NEW pat \in Seq(Byte), NEW at \in Places(s), NEW f, NEW g,
           Alike(s, pat, at, f, g)
    PROVE  /\ MatchFrom(s, pat, f, at) \in Results(s, at.i)
           /\ MatchFrom(s, pat, g, at) = MatchFrom(s, pat, f, at)
<1> USE DEF Alike
<1> DEFINE next == at.p + AtomLen(pat, at.p)
           run == Run(s, at.i, AtomBytes(pat, at.p))
           R == Results(s, at.i)
           Then(h, j, q) == h[Place(j, q, at.cap)]
           Repeat(h, least) == MatchMax(least, run, [n \in 0 .. run |-> Then(h, at.i + n, next + 1)])
           close == Balanced(s, at.i, pat[at.p + 2], pat[at.p + 3])
           Opened(h) == h[Place(at.i, at.p + 1, [at.cap EXCEPT !.pending = at.i])]
           Closed(h) == h[Place(at.i, at.p + 1, [pending |-> 0, from |-> at.cap.pending, to |-> at.i])]
           Step(h) ==
              IF at.p > Len(pat) THEN Found(at.i, at.cap)
              ELSE IF at.p = Len(pat) /\ pat[at.p] = Dollar
              THEN IF at.i = Len(s) + 1 THEN Found(at.i, at.cap) ELSE Fail
              ELSE IF pat[at.p] = Percent /\ IsAt(pat, at.p + 1, Letter_b) /\ at.p + 3 <= Len(pat)
              THEN IF close = 0 THEN Fail ELSE Then(h, close + 1, at.p + 4)
              ELSE IF pat[at.p] = Percent /\ IsAt(pat, at.p + 1, Letter_f) /\ IsAt(pat, at.p + 2, OpenSet)
              THEN IF IsFrontier(s, at.i, pat, at.p + 2)
                   THEN Then(h, at.i, at.p + 2 + AtomLen(pat, at.p + 2)) ELSE Fail
              ELSE IF pat[at.p] = OpenParen THEN IF at.cap.pending # 0 THEN Fail ELSE Opened(h)
              ELSE IF pat[at.p] = CloseParen THEN IF at.cap.pending = 0 THEN Fail ELSE Closed(h)
              ELSE IF next > Len(pat) + 1 THEN Fail
              ELSE IF IsAt(pat, next, Star) THEN Repeat(h, 0)
              ELSE IF IsAt(pat, next, Plus) THEN Repeat(h, 1)
              ELSE IF IsAt(pat, next, Question)
              THEN IF run > 0 /\ Then(h, at.i + 1, next + 1).end # 0
                   THEN Then(h, at.i + 1, next + 1) ELSE Then(h, at.i, next + 1)
              ELSE IF run > 0 THEN Then(h, at.i + 1, next) ELSE Fail
<1>1. MatchFrom(s, pat, f, at) = Step(f) /\ MatchFrom(s, pat, g, at) = Step(g)
  BY DEF MatchFrom
<1>2. /\ Len(s) \in Nat /\ Len(pat) \in Nat
      /\ at.i \in 1 .. Len(s) + 1 /\ at.p \in Nat \ {0} /\ at.cap \in Capture
  BY LenProperties DEF Places
<1>3. Fail \in R /\ Found(at.i, at.cap) \in R
  BY <1>2, Answered
<1>4. CASE at.p > Len(pat)
  <2>1. Step(f) = Found(at.i, at.cap) /\ Step(g) = Found(at.i, at.cap)
    BY <1>4
  <2> HIDE DEF Step
  <2> QED
    BY <1>1, <1>3, <2>1
<1>5. CASE at.p <= Len(pat)
  <2> HIDE DEF next, run, close, R
  <2>1. next \in Nat /\ next > at.p
    <3>1. AtomLen(pat, at.p) \in Nat \ {0}
      BY <1>2, <1>5, AtomLenPositive
    <3> QED
      BY <1>2, <3>1 DEF next
  <2>2. run \in 0 .. Len(s) + 1 - at.i
    BY <1>2, RunRange DEF run
  <2>3. close \in {0} \cup (at.i + 1 .. Len(s))
    BY <1>2, BalancedRange DEF close
  <2>4. ASSUME NEW j \in at.i .. Len(s) + 1, NEW q \in Nat, q > at.p, NEW cap \in Capture
        PROVE  f[Place(j, q, cap)] \in R /\ g[Place(j, q, cap)] = f[Place(j, q, cap)]
    <3>1. j \in 1 .. Len(s) + 1 /\ q \in Nat \ {0}
      BY <1>2, <2>4
    <3>2. Place(j, q, cap) \in Places(s) /\ Place(j, q, cap).i = j /\ Place(j, q, cap).p = q
      BY <3>1, PlaceIn
    <3>3. f[Place(j, q, cap)] \in Results(s, j) /\ g[Place(j, q, cap)] = f[Place(j, q, cap)]
      BY <1>5, <2>4, <3>2
    <3>4. Results(s, j) \subseteq R
      BY <1>2, ResultsShrink DEF R
    <3> QED
      BY <3>3, <3>4
  <2>5. ASSUME NEW j \in at.i .. Len(s) + 1, NEW q \in Nat, q > at.p
        PROVE  Then(f, j, q) \in R /\ Then(g, j, q) = Then(f, j, q)
    BY <1>2, <2>4, <2>5
  <2>6. ASSUME NEW least \in Nat
        PROVE  Repeat(f, least) \in R /\ Repeat(g, least) = Repeat(f, least)
    <3> DEFINE after(h) == [n \in 0 .. run |-> Then(h, at.i + n, next + 1)]
    <3>1. ASSUME NEW n \in 0 .. run
          PROVE  Then(f, at.i + n, next + 1) \in R
                 /\ Then(g, at.i + n, next + 1) = Then(f, at.i + n, next + 1)
      <4>1. at.i + n \in at.i .. Len(s) + 1 /\ next + 1 \in Nat /\ next + 1 > at.p
        BY <1>2, <2>1, <2>2, SMTT(30)
      <4> HIDE DEF Then
      <4> QED
        BY <4>1, <2>5
    <3>2. \A n \in 0 .. run : after(f)[n] \in R /\ after(g)[n] = after(f)[n]
      <4> HIDE DEF Then
      <4> QED
        BY <3>1
    <3>3. run \in Nat
      BY <1>2, <2>2
    <3> HIDE DEF after
    <3>4. MatchMax(least, run, after(f)) \in R
          /\ MatchMax(least, run, after(g)) = MatchMax(least, run, after(f))
      BY <1>3, <3>2, <3>3, MatchMaxIs, SMTT(30)
    <3> QED
      BY <3>4, Zenon DEF after
  <2>7. at.cap.pending # 0 => Closed(f) \in R /\ Closed(g) = Closed(f)
    <3> DEFINE cap == [pending |-> 0, from |-> at.cap.pending, to |-> at.i]
    <3>1. cap \in Capture /\ at.i \in at.i .. Len(s) + 1 /\ at.p + 1 \in Nat /\ at.p + 1 > at.p
      BY <1>2 DEF Capture
    <3> HIDE DEF cap
    <3>2. /\ f[Place(at.i, at.p + 1, cap)] \in R
          /\ g[Place(at.i, at.p + 1, cap)] = f[Place(at.i, at.p + 1, cap)]
      BY <3>1, <2>4
    <3> QED
      BY <3>2 DEF cap
  <2>8. Opened(f) \in R /\ Opened(g) = Opened(f)
    <3> DEFINE cap == [at.cap EXCEPT !.pending = at.i]
    <3>1. cap \in Capture /\ at.i \in at.i .. Len(s) + 1 /\ at.p + 1 \in Nat /\ at.p + 1 > at.p
      <4>1. at.i \in Nat /\ at.i \in at.i .. Len(s) + 1 /\ at.p + 1 \in Nat /\ at.p + 1 > at.p
        BY <1>2
      <4>2. cap \in Capture
        BY <1>2, <4>1 DEF Capture
      <4> QED
        BY <4>1, <4>2
    <3> HIDE DEF cap
    <3>2. /\ f[Place(at.i, at.p + 1, cap)] \in R
          /\ g[Place(at.i, at.p + 1, cap)] = f[Place(at.i, at.p + 1, cap)]
      BY <3>1, <2>4
    <3> QED
      BY <3>2 DEF cap
  <2> DEFINE q == at.p + 2 + AtomLen(pat, at.p + 2)
  <2>9. IsAt(pat, at.p + 2, OpenSet) => Then(f, at.i, q) \in R /\ Then(g, at.i, q) = Then(f, at.i, q)
    <3>1. SUFFICES ASSUME IsAt(pat, at.p + 2, OpenSet)
                   PROVE  Then(f, at.i, q) \in R /\ Then(g, at.i, q) = Then(f, at.i, q)
      OBVIOUS
    <3>2. at.p + 2 \in 1 .. Len(pat)
      BY <1>2, <3>1 DEF IsAt
    <3>3. AtomLen(pat, at.p + 2) \in Nat \ {0}
      BY <3>2, AtomLenPositive
    <3>4. q \in Nat /\ q > at.p /\ at.i \in at.i .. Len(s) + 1
      BY <1>2, <3>3
    <3> HIDE DEF q, Then
    <3> QED
      BY <3>4, <2>5
  <2>10. close # 0 => Then(f, close + 1, at.p + 4) \in R
                      /\ Then(g, close + 1, at.p + 4) = Then(f, close + 1, at.p + 4)
    <3>1. close # 0 => close + 1 \in at.i .. Len(s) + 1
      BY <1>2, <2>3
    <3>2. at.p + 4 \in Nat /\ at.p + 4 > at.p
      BY <1>2
    <3> HIDE DEF Then
    <3> QED
      BY <3>1, <3>2, <2>5
  <2>11. /\ Then(f, at.i, next + 1) \in R /\ Then(g, at.i, next + 1) = Then(f, at.i, next + 1)
         /\ run > 0 => /\ Then(f, at.i + 1, next + 1) \in R
                       /\ Then(g, at.i + 1, next + 1) = Then(f, at.i + 1, next + 1)
                       /\ Then(f, at.i + 1, next) \in R
                       /\ Then(g, at.i + 1, next) = Then(f, at.i + 1, next)
    <3>1. at.i \in at.i .. Len(s) + 1 /\ next + 1 \in Nat /\ next + 1 > at.p
      BY <1>2, <2>1
    <3>2. run > 0 => at.i + 1 \in at.i .. Len(s) + 1
      BY <1>2, <2>2
    <3> HIDE DEF Then
    <3> QED
      BY <2>1, <3>1, <3>2, <2>5
  <2>12. Step(f) \in R /\ Step(g) = Step(f)
    <3>1. Repeat(f, 0) \in R /\ Repeat(g, 0) = Repeat(f, 0)
          /\ Repeat(f, 1) \in R /\ Repeat(g, 1) = Repeat(f, 1)
      BY <2>6
    <3> HIDE DEF Then, Repeat, Opened, Closed
    <3> QED
      BY <1>3, <1>5, <2>7, <2>8, <2>9, <2>10, <2>11, <3>1
  <2> HIDE DEF Step
  <2> QED
    BY <1>1, <2>12 DEF R
<1> QED
  BY <1>2, <1>4, <1>5

LEMMA MatchPatternUnfold ==
    ASSUME NEW s, NEW pat, NEW start
    PROVE  MatchPattern(s, pat, start)
              = (CHOOSE match : match = [at \in Places(s) |-> MatchFrom(s, pat, match, at)])
                   [Place(start, 1, NoCapture)]
  BY DEF MatchPattern

\* A match ends within the subject, not before its start.
LEMMA MatchPatternRange ==
    ASSUME NEW s \in Seq(Byte), NEW pat \in Seq(Byte), NEW start \in 1 .. Len(s) + 1
    PROVE  MatchPattern(s, pat, start) \in Results(s, start)
<1> DEFINE L == Len(pat)
           D == Places(s)
           V == [end : Nat, cap : Capture]
           T == [at \in D |-> Results(s, at.i)]
           rank == [at \in D |-> IF at.p > L THEN 0 ELSE L + 1 - at.p]
           Solve(h) == [at \in D |-> MatchFrom(s, pat, h, at)]
           G == {h \in [D -> V] : \A at \in D : h[at] \in T[at]}
           F == [h \in G |-> Solve(h)]
<1>1. L \in Nat /\ Len(s) \in Nat
  BY LenProperties
<1>2. \A at \in D : at.p \in Nat /\ at.i \in 1 .. Len(s) + 1 /\ at.cap \in Capture
  BY DEF Places
<1>3. PICK N \in Nat : rank \in [D -> 0 .. N]
  <2> HIDE DEF D
  <2>1. L + 1 \in Nat /\ rank \in [D -> 0 .. L + 1]
    BY <1>1, <1>2
  <2> QED
    BY <2>1, Zenon
<1>4. \A x, y \in D : x.p <= L /\ y.p > x.p => rank[y] < rank[x]
  <2> HIDE DEF D
  <2> QED
    BY <1>1, <1>2
<1> HIDE DEF rank
<1>5. ASSUME NEW f, NEW g, NEW at \in D,
             \A y \in D : rank[y] < rank[at] => f[y] \in T[y] /\ g[y] = f[y]
      PROVE  MatchFrom(s, pat, f, at) \in T[at] /\ MatchFrom(s, pat, g, at) = MatchFrom(s, pat, f, at)
  <2>1. Alike(s, pat, at, f, g)
    BY <1>4, <1>5 DEF Alike
  <2>2. /\ MatchFrom(s, pat, f, at) \in Results(s, at.i)
        /\ MatchFrom(s, pat, g, at) = MatchFrom(s, pat, f, at)
    BY <2>1, MatchFromStep
  <2> QED
    BY <2>2
<1>6. \A at \in D : T[at] \subseteq V /\ Fail \in T[at]
  <2>1. \A at \in D : Fail \in Results(s, at.i)
    BY <1>2, Answered
  <2> QED
    BY <2>1 DEF Results
<1> HIDE DEF D, T, V
<1>7. Solvable(G, F)
  <2>1. G \in SUBSET [D -> V] /\ G # {}
    <3>1. [at \in D |-> Fail] \in G
      BY <1>6
    <3> QED
      BY <3>1
  <2>2. ASSUME NEW h \in G PROVE Solve(h) \in G
    <3>1. \A at \in D : h[at] \in T[at]
      OBVIOUS
    <3>2. \A at \in D : MatchFrom(s, pat, h, at) \in T[at]
      BY <1>5, <3>1
    <3> QED
      BY <3>2, <1>6
  <2>3. F \in [G -> G]
    BY <2>2
  <2>4. Local(D, rank, G, F)
    <3> SUFFICES ASSUME NEW g \in G, NEW h \in G, NEW at \in D,
                        \A y \in D : rank[y] < rank[at] => g[y] = h[y]
                 PROVE  F[g][at] = F[h][at]
      BY DEF Local
    <3>1. \A y \in D : h[y] \in T[y]
      OBVIOUS
    <3>2. MatchFrom(s, pat, g, at) = MatchFrom(s, pat, h, at)
      BY <1>5, <3>1, Zenon
    <3>3. F[g] = Solve(g) /\ F[h] = Solve(h)
      OBVIOUS
    <3>4. F[g][at] = MatchFrom(s, pat, g, at) /\ F[h][at] = MatchFrom(s, pat, h, at)
      BY <3>3
    <3> QED
      BY <3>2, <3>4, Zenon
  <2>5. G # {}
    BY <2>1
  <2> HIDE DEF G, F
  <2> QED
    BY <1>3, <2>1, <2>3, <2>4, <2>5, RecursionSolved
<1> DEFINE match == CHOOSE h : h = Solve(h)
<1>8. match = Solve(match)
  BY <1>7 DEF Solvable
<1>9. MatchPattern(s, pat, start) = match[Place(start, 1, NoCapture)]
  BY MatchPatternUnfold DEF D
<1> HIDE DEF match
<1>10. Within(D, match, T)
  <2>1. \A at \in D : match[at] = MatchFrom(s, pat, match, at)
    BY <1>8
  <2>2. StepsWithin(D, rank, match, T)
    BY <1>5, <2>1 DEF StepsWithin
  <2> QED
    BY <1>3, <2>2, RecursionBound
<1>11. Place(start, 1, NoCapture) \in D /\ Place(start, 1, NoCapture).i = start
  BY PlaceIn DEF D, NoCapture, Capture
<1>12. T[Place(start, 1, NoCapture)] = Results(s, start)
  BY <1>11 DEF T
<1> QED
  BY <1>9, <1>10, <1>11, <1>12 DEF Within

-----------------------------------------------------------------------------
(* Searching.                                                              *)

\* A match from position init on, or none.
Lies(m, s, init) ==
    m.pos # 0 => m.pos \in init .. Len(s) + 1 /\ m.len \in 0 .. Len(s) + 1 - m.pos

LEMMA TryRange ==
    ASSUME NEW s \in Seq(Byte), NEW pat \in Seq(Byte), NEW start \in 1 .. Len(s) + 1,
           TryMatchAt(s, start, pat) # NoMatch
    PROVE  /\ TryMatchAt(s, start, pat).pos = start
           /\ TryMatchAt(s, start, pat).len \in 0 .. Len(s) + 1 - start
<1> DEFINE r == MatchPattern(s, pat, start)
<1>1. Len(s) \in Nat
  BY LenProperties
<1>2. TryMatchAt(s, start, pat) = IF r.end = 0 THEN NoMatch
                                  ELSE [pos |-> start, len |-> r.end - start, cap |-> r.cap]
  BY DEF TryMatchAt
<1>3. r \in Results(s, start)
  BY MatchPatternRange
<1> HIDE DEF r
<1>4. r.end # 0 => r.end \in start .. Len(s) + 1
  BY <1>3 DEF Results
<1>5. r.end # 0
  BY <1>2
<1> QED
  BY <1>1, <1>2, <1>4, <1>5

LEMMA MatchRange ==
    ASSUME NEW s \in Seq(Byte), NEW pat \in Seq(Byte), NEW init \in Nat \ {0}
    PROVE  /\ pat # <<>> => Lies(RunPatternFrom(s, pat, init), s, init)
           /\ Lies(RunPatternFrom(s, pat, init), s, 1)
<1> DEFINE anchored == IsAt(pat, 1, Caret)
           body == IF anchored THEN Tail(pat) ELSE pat
           starts == init .. IF anchored THEN init ELSE Len(s) + 1
           M == {TryMatchAt(s, i, body) : i \in starts} \ {NoMatch}
           m == RunPatternFrom(s, pat, init)
<1>1. Len(s) \in Nat
  BY LenProperties
<1>2. CASE pat = <<>>
  <2>1. m = [NoMatch EXCEPT !.pos = Min({init, Len(s) + 1})]
    BY <1>2 DEF RunPatternFrom
  <2>2. Min({init, Len(s) + 1}) \in {init, Len(s) + 1} /\ Min({init, Len(s) + 1}) <= Len(s) + 1
    <3>1. {init, Len(s) + 1} \in SUBSET Nat /\ {init, Len(s) + 1} # {}
      BY <1>1
    <3> QED
      BY <3>1, MinIs
  <2>3. m.pos \in 1 .. Len(s) + 1 /\ m.len = 0
    BY <1>1, <2>1, <2>2 DEF NoMatch
  <2> QED
    BY <1>1, <1>2, <2>3 DEF Lies
<1>3. CASE pat # <<>> /\ (init > Len(s) + 1 \/ (anchored /\ init # 1))
  <2>1. m = NoMatch
    BY <1>3 DEF RunPatternFrom
  <2> QED
    BY <2>1 DEF Lies, NoMatch
<1>4. CASE pat # <<>> /\ ~(init > Len(s) + 1 \/ (anchored /\ init # 1))
  <2>1. m = Leftmost(M)
    BY <1>4 DEF RunPatternFrom
  <2>2. body \in Seq(Byte) /\ starts \subseteq init .. Len(s) + 1
    BY <1>1, <1>4, HeadTailProperties
  <2> HIDE DEF body, starts
  <2>3. ASSUME NEW x \in M
        PROVE  x.pos \in init .. Len(s) + 1 /\ x.len \in 0 .. Len(s) + 1 - x.pos
    <3>1. PICK i \in starts : x = TryMatchAt(s, i, body)
      OBVIOUS
    <3>2. TryMatchAt(s, i, body) # NoMatch /\ i \in 1 .. Len(s) + 1 /\ i \in init .. Len(s) + 1
      BY <1>1, <2>2, <3>1
    <3>3. x.pos = i /\ x.len \in 0 .. Len(s) + 1 - i
      BY <2>2, <3>1, <3>2, TryRange
    <3> QED
      BY <3>2, <3>3
  <2> HIDE DEF M
  <2>4. M # {} => Leftmost(M) \in M
    <3>1. SUFFICES ASSUME M # {} PROVE Leftmost(M) \in M
      OBVIOUS
    <3> DEFINE P == {x.pos : x \in M}
    <3>2. P \in SUBSET Nat /\ P # {}
      BY <1>1, <2>3, <3>1
    <3>3. PICK p \in P : \A q \in P : p <= q
      BY <3>2, LeastNat
    <3>4. PICK x \in M : \A y \in M : x.pos <= y.pos
      BY <3>3
    <3> QED
      BY <3>1, <3>4 DEF Leftmost
  <2>5. M = {} => Leftmost(M) = NoMatch
    BY DEF Leftmost
  <2>6. M = {} => m.pos = 0
    BY <2>1, <2>5 DEF NoMatch
  <2>7. M # {} => m.pos \in init .. Len(s) + 1 /\ m.len \in 0 .. Len(s) + 1 - m.pos
    BY <2>1, <2>3, <2>4
  <2> HIDE DEF m
  <2>8. m.pos \in init .. Len(s) + 1 => m.pos \in 1 .. Len(s) + 1
    BY <1>1
  <2> QED
    BY <2>6, <2>7, <2>8 DEF Lies, m
<1> QED
  BY <1>2, <1>3, <1>4

-----------------------------------------------------------------------------
(* Joining.                                                                *)

LEMMA FlattenUnfold ==
    ASSUME NEW seqs, Len(seqs) # 0
    PROVE  FlattenSeq(seqs) = (CHOOSE flatten : flatten = [i \in 1 .. Len(seqs) |->
              IF i = 1 THEN seqs[i] ELSE flatten[i - 1] \o seqs[i]])[Len(seqs)]
  BY DEF FlattenSeq

\* FlattenSeq appends one sequence after the other.
LEMMA FlattenSteps ==
    ASSUME NEW S, NEW seqs \in Seq(Seq(S)), seqs # <<>>
    PROVE  \E f \in [1 .. Len(seqs) -> Seq(S)] :
              /\ FlattenSeq(seqs) = f[Len(seqs)]
              /\ \A i \in 1 .. Len(seqs) : f[i] = IF i = 1 THEN seqs[i] ELSE f[i - 1] \o seqs[i]
<1> DEFINE n == Len(seqs)
           D == 1 .. n
           Body(f, i) == IF i = 1 THEN seqs[i] ELSE f[i - 1] \o seqs[i]
           Flat(f) == [i \in D |-> Body(f, i)]
           G == [D -> Seq(S)]
           F == [f \in G |-> Flat(f)]
           rank == [i \in D |-> i]
           T == [i \in D |-> Seq(S)]
<1>1. n \in Nat \ {0} /\ \A i \in D : seqs[i] \in Seq(S)
  BY LenProperties, EmptySeq
<1> HIDE DEF n
<1>2. n \in Nat /\ rank \in [D -> 0 .. n]
  BY <1>1
<1>3. \A i \in D : i \in Nat /\ (i # 1 => i - 1 \in D)
  BY <1>1
<1>4. \A i \in D : i # 1 => rank[i - 1] < rank[i]
  BY <1>3
<1> HIDE DEF rank
<1>5. ASSUME NEW f, NEW i \in D, \A j \in D : rank[j] < rank[i] => f[j] \in Seq(S)
      PROVE  Body(f, i) \in Seq(S)
  <2>1. CASE i = 1
    BY <1>1, <2>1
  <2>2. CASE i # 1
    <3>1. f[i - 1] \in Seq(S) /\ seqs[i] \in Seq(S)
      BY <1>1, <1>3, <1>4, <1>5, <2>2
    <3>2. f[i - 1] \o seqs[i] \in Seq(S)
      BY <3>1, ConcatProperties
    <3> QED
      BY <2>2, <3>2
  <2> QED
    BY <2>1, <2>2
<1>6. Solvable(G, F)
  <2>1. G \in SUBSET [D -> Seq(S)] /\ G # {}
    <3>1. [i \in D |-> <<>>] \in G
      BY EmptySeq
    <3> QED
      BY <3>1
  <2> HIDE DEF D, Body
  <2>2. \A f \in G : Flat(f) \in G
    BY <1>5
  <2>3. F \in [G -> G]
    BY <2>2
  <2>4. Local(D, rank, G, F)
    <3> SUFFICES ASSUME NEW f \in G, NEW g \in G, NEW i \in D,
                        \A j \in D : rank[j] < rank[i] => f[j] = g[j]
                 PROVE  F[f][i] = F[g][i]
      BY DEF Local
    <3>1. Body(f, i) = Body(g, i)
      BY <1>3, <1>4, Zenon DEF Body
    <3>2. F[f] = Flat(f) /\ F[g] = Flat(g)
      OBVIOUS
    <3>3. F[f][i] = Body(f, i) /\ F[g][i] = Body(g, i)
      BY <3>2
    <3> QED
      BY <3>1, <3>3, Zenon
  <2>5. G # {}
    BY <2>1
  <2> HIDE DEF G, F
  <2> QED
    BY <1>2, <2>1, <2>3, <2>4, <2>5, RecursionSolved
<1> DEFINE flat == CHOOSE f : f = Flat(f)
<1>7. flat = Flat(flat)
  BY <1>6 DEF Solvable
<1>8. FlattenSeq(seqs) = flat[n]
  BY <1>1, FlattenUnfold DEF n
<1> HIDE DEF flat
<1>9. \A i \in D : flat[i] = Body(flat, i)
  BY <1>7
<1>10. Within(D, flat, T)
  <2> HIDE DEF D, Body
  <2>1. StepsWithin(D, rank, flat, T)
    BY <1>5, <1>9 DEF StepsWithin
  <2> HIDE DEF T
  <2> QED
    BY <1>2, <2>1, RecursionBound
<1>11. flat \in [D -> Seq(S)]
  <2> HIDE DEF D, Body
  <2> QED
    BY <1>7, <1>10 DEF Within
<1> QED
  BY <1>8, <1>9, <1>11 DEF n

\* Two running sums of c, of which one adds w at each step but the first.
Running(m, w, c, len, sum) ==
    /\ c \in [1 .. m -> Nat] /\ len \in [1 .. m -> Nat] /\ sum \in [0 .. m -> Nat]
    /\ sum[0] = 0 /\ \A n \in 1 .. m : sum[n] = sum[n - 1] + c[n]
    /\ len[1] = c[1] /\ \A n \in 2 .. m : len[n] = len[n - 1] + w + c[n]

LEMMA RunningSums ==
    ASSUME NEW m \in Nat \ {0}, NEW w \in Nat, NEW c, NEW len, NEW sum,
           Running(m, w, c, len, sum)
    PROVE  len[m] = sum[m] + w * (m - 1)
<1> DEFINE wrong == {n \in 1 .. m : len[n] # sum[n] + w * (n - 1)}
<1> USE DEF Running
<1>1. SUFFICES ASSUME wrong # {} PROVE FALSE
  <2>1. m \in 1 .. m
    OBVIOUS
  <2> QED
    BY <2>1
<1>2. wrong \in SUBSET Nat
  OBVIOUS
<1>3. PICK n \in wrong : \A k \in wrong : n <= k
  BY <1>1, <1>2, LeastNat
<1>4. n \in 1 .. m /\ n \in Nat /\ len[n] # sum[n] + w * (n - 1)
  BY <1>3
<1>5. n # 1
  <2>1. 1 \in 1 .. m /\ sum[1] = sum[1 - 1] + c[1] /\ c[1] \in Nat
    OBVIOUS
  <2>2. len[1] = sum[1] + w * (1 - 1)
    BY <2>1
  <2> QED
    BY <1>4, <2>2
<1>6. n - 1 \in 1 .. m /\ n \in 2 .. m /\ n - 1 \in 0 .. m
  BY <1>4, <1>5
<1>7. n - 1 \notin wrong
  BY <1>3, <1>4
<1> DEFINE d == w * ((n - 1) - 1)
<1>8. len[n - 1] = sum[n - 1] + d
  BY <1>6, <1>7
<1>9. w * (n - 1) = d + w /\ d \in Int
  BY <1>4
<1> HIDE DEF d
<1>10. len[n] = len[n - 1] + w + c[n] /\ sum[n] = sum[n - 1] + c[n]
  BY <1>6
<1>11. c[n] \in Nat /\ sum[n - 1] \in Nat
  BY <1>4, <1>6
<1>12. len[n] = sum[n] + (d + w)
  BY ONLY <1>8, <1>9, <1>10, <1>11, w \in Nat, n \in Nat, SMTT(30)
<1> QED
  BY <1>4, <1>9, <1>12

\* m sequences: the text of the n-th has length lens[i + n - 1], and what separates
\* it from the previous one has length w.
Separated(m, i, w, lens, seqs) ==
    /\ m \in Nat \ {0} /\ i \in Nat /\ w \in Nat
    /\ \A k \in i .. i + m - 1 : lens[k] \in Nat
    /\ seqs \in Seq(Seq(Byte)) /\ Len(seqs) = m
    /\ \A n \in 1 .. m : Len(seqs[n]) = (IF n > 1 THEN w ELSE 0) + lens[i + n - 1]

LEMMA FlattenLength ==
    ASSUME NEW m, NEW i, NEW w, NEW lens, NEW seqs, Separated(m, i, w, lens, seqs)
    PROVE  Len(FlattenSeq(seqs)) = SumFunctionOnSet(lens, i .. i + m - 1) + w * (m - 1)
<1> USE DEF Separated
<1>1. seqs # <<>> /\ \A n \in 1 .. m : seqs[n] \in Seq(Byte)
  BY EmptySeq, ElementOfSeq
<1>2. PICK f \in [1 .. Len(seqs) -> Seq(Byte)] :
         /\ FlattenSeq(seqs) = f[Len(seqs)]
         /\ \A n \in 1 .. Len(seqs) : f[n] = IF n = 1 THEN seqs[n] ELSE f[n - 1] \o seqs[n]
  <2> HIDE DEF Byte
  <2> QED
    BY <1>1, FlattenSteps
<1>3. /\ f \in [1 .. m -> Seq(Byte)] /\ FlattenSeq(seqs) = f[m]
      /\ \A n \in 1 .. m : f[n] = IF n = 1 THEN seqs[n] ELSE f[n - 1] \o seqs[n]
  BY <1>2
<1> DEFINE len == [n \in 1 .. m |-> Len(f[n])]
           sum == [n \in 0 .. m |-> SumFunctionOnSet(lens, i .. i + n - 1)]
           c == [n \in 1 .. m |-> lens[i + n - 1]]
<1>4. len \in [1 .. m -> Nat] /\ c \in [1 .. m -> Nat]
  <2>1. \A n \in 1 .. m : Len(f[n]) \in Nat
    BY <1>3, LenProperties
  <2>2. \A n \in 1 .. m : i + n - 1 \in i .. i + m - 1
    OBVIOUS
  <2> QED
    BY <2>1, <2>2
<1>5. ASSUME NEW n \in 0 .. m
      PROVE  IsFiniteSet(i .. i + n - 1) /\ \A k \in i .. i + n - 1 : lens[k] \in Nat
  <2>1. i \in Int /\ i + n - 1 \in Int /\ i .. i + n - 1 \subseteq i .. i + m - 1
    OBVIOUS
  <2> QED
    BY <2>1, FS_Interval
<1>6. sum \in [0 .. m -> Nat]
  <2>1. ASSUME NEW n \in 0 .. m PROVE SumFunctionOnSet(lens, i .. i + n - 1) \in Nat
    <3> DEFINE S == i .. i + n - 1
    <3>1. IsFiniteSet(S) /\ \A k \in S : lens[k] \in Nat
      BY <1>5
    <3> HIDE DEF S
    <3>2. SumFunctionOnSet(lens, S) \in Nat
      BY <3>1, SumIsCells, CellsFinite, FS_CardinalityType
    <3> QED
      BY <3>2 DEF S
  <2> QED
    BY <2>1
<1>7. sum[0] = 0
  <2>1. i .. i + 0 - 1 = {}
    OBVIOUS
  <2>2. IsFiniteSet({}) /\ Cardinality({}) = 0
    BY FS_EmptySet
  <2>3. Cells(lens, {}) = {}
    BY DEF Cells
  <2>4. SumFunctionOnSet(lens, {}) = Cardinality(Cells(lens, {}))
    BY <2>2, SumIsCells
  <2>5. sum[0] = SumFunctionOnSet(lens, i .. i + 0 - 1)
    OBVIOUS
  <2> QED
    BY <2>1, <2>2, <2>3, <2>4, <2>5, Zenon
<1>8. ASSUME NEW n \in 1 .. m PROVE sum[n] = sum[n - 1] + c[n]
  <2> DEFINE S == i .. i + (n - 1) - 1
             x == i + n - 1
  <2>1. n - 1 \in 0 .. m /\ n \in 0 .. m
    OBVIOUS
  <2>2. IsFiniteSet(S) /\ \A k \in S : lens[k] \in Nat
    BY <1>5, <2>1
  <2>3. x \notin S /\ x \in i .. i + m - 1
    OBVIOUS
  <2>4. i .. x = S \cup {x}
    <3>1. x \in Int /\ i \in Int /\ i <= x /\ i + (n - 1) - 1 = x - 1
      OBVIOUS
    <3>2. \A k \in Int : k <= x <=> k <= x - 1 \/ k = x
      BY <3>1
    <3> HIDE DEF x
    <3> QED
      BY <3>1, <3>2
  <2>5. sum[n] = SumFunctionOnSet(lens, i .. x) /\ sum[n - 1] = SumFunctionOnSet(lens, S)
        /\ c[n] = lens[x]
    BY <2>1
  <2> HIDE DEF S, x, sum, c
  <2>6. lens[x] \in Nat
    BY <2>3
  <2>7. SumFunctionOnSet(lens, S \cup {x}) = SumFunctionOnSet(lens, S) + lens[x]
    <3>1. PICK y, U : y = x /\ U = S
      OBVIOUS
    <3>2. IsFiniteSet(U) /\ (\A o \in U : lens[o] \in Nat) /\ y \notin U /\ lens[y] \in Nat
      BY <3>1, <2>2, <2>3, <2>6
    <3>3. SumFunctionOnSet(lens, U \cup {y}) = SumFunctionOnSet(lens, U) + lens[y]
      BY ONLY <3>2, SumAdd
    <3> QED
      BY <3>1, <3>3, Zenon
  <2> QED
    BY <2>4, <2>5, <2>7, Zenon
<1>9. len[1] = c[1]
  <2>1. 1 \in 1 .. m /\ i + 1 - 1 \in i .. i + m - 1 /\ ~(1 > 1)
    OBVIOUS
  <2>2. f[1] = seqs[1] /\ Len(seqs[1]) = 0 + lens[i + 1 - 1] /\ lens[i + 1 - 1] \in Nat
    BY <1>3, <2>1
  <2>3. len[1] = Len(f[1]) /\ c[1] = lens[i + 1 - 1]
    BY <2>1
  <2> QED
    BY <2>2, <2>3
<1>10. ASSUME NEW n \in 2 .. m PROVE len[n] = len[n - 1] + w + c[n]
  <2>1. n \in 1 .. m /\ n - 1 \in 1 .. m /\ n # 1 /\ n > 1
    OBVIOUS
  <2>2. f[n] = f[n - 1] \o seqs[n] /\ f[n - 1] \in Seq(Byte) /\ seqs[n] \in Seq(Byte)
    BY <1>1, <1>3, <2>1
  <2>3. Len(f[n]) = Len(f[n - 1]) + Len(seqs[n])
    BY <2>2, ConcatProperties
  <2>4. Len(seqs[n]) = w + lens[i + n - 1]
    BY <2>1
  <2>5. len[n] = Len(f[n]) /\ len[n - 1] = Len(f[n - 1]) /\ c[n] = lens[i + n - 1]
    BY <2>1
  <2>6. len[n - 1] \in Nat /\ c[n] \in Nat
    BY <1>4, <2>1
  <2> HIDE DEF len, c
  <2>7. Len(seqs[n]) = w + c[n]
    BY <2>4, <2>5
  <2>8. len[n] = len[n - 1] + (w + c[n])
    BY <2>3, <2>5, <2>7, Zenon
  <2>9. w \in Nat
    OBVIOUS
  <2> QED
    BY ONLY <2>6, <2>8, <2>9
<1>11. len[m] = Len(f[m]) /\ sum[m] = SumFunctionOnSet(lens, i .. i + m - 1)
  OBVIOUS
<1> HIDE DEF len, sum, c
<1>12. len[m] = sum[m] + w * (m - 1)
  <2>1. Running(m, w, c, len, sum)
    BY <1>4, <1>6, <1>7, <1>8, <1>9, <1>10 DEF Running
  <2> QED
    BY <2>1, RunningSums
<1> QED
  BY <1>3, <1>11, <1>12

-----------------------------------------------------------------------------
(* The invariant.                                                          *)

Kinds == {"nil", "trap", "str", "num"}

\* A sequence of answers.
Answers(a) == a \in Seq(Range(a)) /\ \A n \in DOMAIN a : a[n].k \in Kinds

\* Bytes are written only for what the search has left behind, at most one and a
\* replacement for each position.
GsubInv ==
    Builtin("gsub") =>
       /\ work = [at |-> "loop", cursor |-> work.cursor, out |-> work.out]
       /\ work.cursor \in 1 .. Len(asked.s) + 2
       /\ work.out \in Seq(Byte)
       /\ Len(work.out) <= (work.cursor - 1) * (Len(asked.repl) + 1)

GmatchInv ==
    Builtin("gmatch") => work.at \in {"call", "body"} /\ work.pos \in 1 .. Len(asked.s) + 2

\* No code point makes more than one boundary.
Utf8Inv ==
    Builtin("utf8") =>
       /\ work \in [at : {"encode", "decode"}, s : Seq(Int), n : Nat]
       /\ work.at = "encode" => work.n <= Len(asked.points) /\ Utf8Len(work.s) <= work.n
       /\ work.at = "decode" => work.n <= Utf8Len(work.s)

\* The first n slots of a list's array part, and maybe more, have been written.
Written(t, n) ==
    /\ t = [len |-> t.len, slots |-> [k \in DOMAIN t.slots |-> t.slots[k]]]
    /\ 1 .. n \subseteq DOMAIN t.slots
    /\ \A k \in DOMAIN t.slots : t.slots[k] \in Slot

\* The array part never loses a slot, whatever becomes of the length of the list.
ConcatInv ==
    Builtin("concat") =>
       /\ Written(tab, Len(asked.list))
       /\ work.at \in {"i", "j", "lengths", "copy"}
       /\ work.at \in {"i", "j"} => work.n = Len(asked.list)
       /\ work.at \in {"lengths", "copy"} =>
             work.b \in [i : Nat \ {0}, j : Int] /\ work.b.j <= Len(asked.list)
       /\ work.at = "copy" =>
             /\ Reads # {}
             /\ work.total = SumFunctionOnSet([k \in Reads |-> Len(tab.slots[k].text)], Reads)
                                + Len(asked.sep) * (work.b.j - work.b.i)

StringsInv ==
    /\ asked \in Calls \cup {NoCall}
    /\ asked = NoCall => work = Idle
    /\ ~Builtin("concat") => tab = NoList
    /\ Answers(answer)
    /\ GsubInv /\ GmatchInv /\ Utf8Inv /\ ConcatInv

LEMMA NoCallIs == NoCall.op = "none"
  BY DEF NoCall

LEMMA CallIs ==
    ASSUME StringsInv, asked.op # "none"
    PROVE  asked \in Calls /\ asked # NoCall
  BY NoCallIs DEF StringsInv

\* An empty list of answers, one answer, one more.
LEMMA NoAnswers == Answers(<<>>)
  BY DEF Answers

LEMMA OneAnswer ==
    ASSUME NEW a, a.k \in Kinds
    PROVE  Answers(<<a>>)
<1>1. <<a>> \in Seq({a}) /\ DOMAIN <<a>> = {1} /\ <<a>>[1] = a
  OBVIOUS
<1>2. Range(<<a>>) = {a}
  BY <1>1 DEF Range
<1> QED
  BY <1>1, <1>2 DEF Answers

LEMMA MoreAnswers ==
    ASSUME NEW s, Answers(s), NEW a, a.k \in Kinds
    PROVE  Answers(Append(s, a))
<1> DEFINE R == Range(s) \cup {a}
           t == Append(s, a)
<1>1. s \in Seq(R)
  <2>1. s \in [1 .. Len(s) -> Range(s)] /\ Len(s) \in Nat
    BY LenProperties DEF Answers
  <2>2. s \in [1 .. Len(s) -> R]
    BY <2>1
  <2> HIDE DEF R
  <2> QED
    BY <2>1, <2>2, IsASeq
<1>2. a \in R
  OBVIOUS
<1>3. /\ t \in Seq(R) /\ Len(t) = Len(s) + 1 /\ Len(s) \in Nat
      /\ t[Len(s) + 1] = a /\ \A n \in 1 .. Len(s) : t[n] = s[n]
  <2> HIDE DEF R
  <2> QED
    BY <1>1, <1>2, AppendProperties, LenProperties
<1> HIDE DEF t
<1>4. DOMAIN t = 1 .. Len(s) + 1 /\ DOMAIN s = 1 .. Len(s)
  <2> HIDE DEF R
  <2> QED
    BY <1>1, <1>3, LenProperties
<1>5. t \in [1 .. Len(s) + 1 -> Range(t)]
  <2>1. t = [n \in 1 .. Len(s) + 1 |-> t[n]]
    <3> HIDE DEF R
    <3> QED
      BY <1>3, <1>4, LenProperties
  <2>2. \A n \in 1 .. Len(s) + 1 : t[n] \in Range(t)
    BY <1>4 DEF Range
  <2> QED
    BY <2>1, <2>2
<1>6. t \in Seq(Range(t))
  BY <1>3, <1>5, IsASeq
<1>7. \A n \in DOMAIN t : t[n].k \in Kinds
  <2> SUFFICES ASSUME NEW n \in 1 .. Len(s) + 1 PROVE t[n].k \in Kinds
    BY <1>4
  <2>1. CASE n = Len(s) + 1
    BY <1>3, <2>1
  <2>2. CASE n # Len(s) + 1
    <3>1. n \in 1 .. Len(s)
      BY <1>3, <2>2
    <3> QED
      BY <1>3, <1>4, <3>1 DEF Answers
  <2> QED
    BY <2>1, <2>2
<1> QED
  BY <1>6, <1>7 DEF Answers, t

\* A call that answers leaves nothing behind.
LEMMA FinishKeeps ==
    ASSUME NEW a, a.k \in Kinds, Finish(a)
    PROVE  StringsInv'
<1>1. asked' = NoCall /\ work' = Idle /\ tab' = NoList /\ answer' = <<a>>
  BY DEF Finish
<1>2. asked'.op = "none"
  BY <1>1, NoCallIs
<1>3. Answers(answer')
  BY <1>1, OneAnswer
<1> QED
  BY <1>1, <1>2, <1>3 DEF StringsInv, GsubInv, GmatchInv, Utf8Inv, ConcatInv, Builtin

LEMMA KindsAre ==
    /\ Nothing.k \in Kinds /\ Trap.k \in Kinds
    /\ \A s : Str(s).k \in Kinds /\ Nums(s).k \in Kinds
  BY DEF Nothing, Trap, Str, Nums, Kinds

-----------------------------------------------------------------------------
(* Begin, Use and the builtins that answer at once.                        *)

LEMMA InvInit == Init => StringsInv
  BY NoCallIs, NoAnswers DEF Init, StringsInv, GsubInv, GmatchInv, Utf8Inv, ConcatInv, Builtin

LEMMA InvUse ==
    ASSUME StringsInv, Use
    PROVE  StringsInv'
  BY NoCallIs, NoAnswers DEF Use, StringsInv, GsubInv, GmatchInv, Utf8Inv, ConcatInv, Builtin

LEMMA AtOnce ==
    ASSUME Find \/ Match \/ StringSub \/ StringByte \/ StringChar \/ StringRep
              \/ StringReverse \/ StringUpper \/ StringFormat \/ GsubEnd \/ ConcatCopy
    PROVE  StringsInv' /\ asked' = NoCall
<1>1. ASSUME NEW a, a.k \in Kinds, Finish(a) PROVE StringsInv' /\ asked' = NoCall
  BY <1>1, FinishKeeps DEF Finish
<1>2. CASE Find
  <2>1. PICK m : Finish(IF m.pos = 0 THEN Nothing ELSE Nums(<<m.pos, m.pos + (m.len - 1)>>))
    BY <1>2 DEF Find
  <2> QED
    BY <1>1, <2>1, KindsAre
<1>3. CASE Match
  <2>1. PICK m : Finish(IF m.pos = 0 THEN Nothing ELSE Str(SubSeq(asked.s, m.pos, m.pos + m.len - 1)))
    BY <1>3 DEF Match
  <2> QED
    BY <1>1, <2>1, KindsAre
<1>4. CASE StringSub
  BY <1>1, <1>4, KindsAre DEF StringSub
<1>5. CASE StringByte
  BY <1>1, <1>5, KindsAre DEF StringByte
<1>6. CASE StringChar
  BY <1>1, <1>6, KindsAre DEF StringChar
<1>7. CASE StringRep
  BY <1>1, <1>7, KindsAre DEF StringRep
<1>8. CASE StringReverse
  BY <1>1, <1>8, KindsAre DEF StringReverse
<1>9. CASE StringUpper
  BY <1>1, <1>9, KindsAre DEF StringUpper
<1>10. CASE StringFormat
  BY <1>1, <1>10, KindsAre DEF StringFormat
<1>11. CASE GsubEnd
  BY <1>1, <1>11, KindsAre DEF GsubEnd
<1>12. CASE ConcatCopy
  BY <1>1, <1>12, KindsAre DEF ConcatCopy
<1> QED
  BY <1>2, <1>3, <1>4, <1>5, <1>6, <1>7, <1>8, <1>9, <1>10, <1>11, <1>12

LEMMA BoundariesEmpty == Utf8Len(<<>>) = 0
<1>1. Boundaries(<<>>) = {}
  BY DEF Boundaries
<1> QED
  BY <1>1, FS_EmptySet DEF Utf8Len

LEMMA InvBegin ==
    ASSUME StringsInv, Begin
    PROVE  StringsInv'
<1>1. PICK c \in Calls :
         /\ asked' = c /\ work' = Registers(c)
         /\ tab' = IF c.op = "concat" THEN [len |-> Len(c.list), slots |-> c.list] ELSE NoList
  BY DEF Begin
<1>2. asked = NoCall /\ answer' = answer /\ Answers(answer)
  BY DEF Begin, StringsInv
<1>3. c # NoCall
  BY CallsAssumption, NoCallIs
<1>4. GsubInv'
  <2>1. SUFFICES ASSUME c.op = "gsub" PROVE GsubInv'
    BY <1>1 DEF GsubInv, Builtin
  <2>2. work' = [at |-> "loop", cursor |-> 1, out |-> <<>>]
    BY <1>1, <2>1 DEF Registers
  <2>3. Len(c.s) \in Nat /\ Len(c.repl) \in Nat
    BY <2>1, CallsAssumption, LenProperties
  <2>4. <<>> \in Seq(Byte) /\ Len(<<>>) = 0
    BY EmptySeq
  <2>5. Len(work.out)' = 0 /\ (work.cursor)' = 1
    BY <2>2, <2>4
  <2> QED
    BY <1>1, <2>2, <2>3, <2>4, <2>5 DEF GsubInv
<1>5. GmatchInv'
  <2>1. SUFFICES ASSUME c.op = "gmatch" PROVE GmatchInv'
    BY <1>1 DEF GmatchInv, Builtin
  <2>2. work' = [at |-> "call", pos |-> 1]
    BY <1>1, <2>1 DEF Registers
  <2>3. Len(c.s) \in Nat
    BY <2>1, CallsAssumption, LenProperties
  <2> QED
    BY <1>1, <2>2, <2>3 DEF GmatchInv
<1>6. Utf8Inv'
  <2>1. SUFFICES ASSUME c.op = "utf8" PROVE Utf8Inv'
    BY <1>1 DEF Utf8Inv, Builtin
  <2>2. work' = [at |-> "encode", s |-> <<>>, n |-> 0]
    BY <1>1, <2>1 DEF Registers
  <2>3. Len(c.points) \in Nat
    BY <2>1, CallsAssumption, LenProperties
  <2>4. Utf8Len(work.s)' = 0
    BY <2>2, BoundariesEmpty
  <2> QED
    BY <1>1, <2>2, <2>3, <2>4, EmptySeq DEF Utf8Inv
<1>7. ConcatInv'
  <2>1. SUFFICES ASSUME c.op = "concat" PROVE ConcatInv'
    BY <1>1 DEF ConcatInv, Builtin
  <2>2. work' = [at |-> "i", n |-> Len(c.list)] /\ tab' = [len |-> Len(c.list), slots |-> c.list]
    BY <1>1, <2>1 DEF Registers
  <2>3. c.list \in Seq(Slot)
    BY <2>1, CallsAssumption
  <2>4. /\ DOMAIN c.list = 1 .. Len(c.list)
        /\ c.list = [k \in DOMAIN c.list |-> c.list[k]]
        /\ \A k \in DOMAIN c.list : c.list[k] \in Slot
    <3> HIDE DEF Slot
    <3> QED
      BY <2>3, LenProperties
  <2> QED
    BY <1>1, <2>2, <2>4 DEF ConcatInv, Written
<1> QED
  BY <1>1, <1>2, <1>3, <1>4, <1>5, <1>6, <1>7 DEF StringsInv, Builtin

-----------------------------------------------------------------------------
(* gsub and gmatch.                                                        *)

\* A match of len bytes at pos in a subject of n bytes, behind which the search
\* goes on at next; the replacement has r bytes, the output out so far.
Cut(n, r, cursor, out, pos, len, skipped, next) ==
    /\ n \in Nat /\ r \in Nat /\ cursor \in 1 .. n + 2 /\ out \in Nat
    /\ out <= (cursor - 1) * (r + 1)
    /\ pos \in cursor .. n + 1 /\ len \in 0 .. n + 1 - pos /\ skipped \in 0 .. 1
    /\ next = IF len = 0 THEN pos + 1 ELSE pos + len

\* Where the search goes on behind a match, and what the match adds to the output.
LEMMA GsubArithmetic ==
    ASSUME NEW n, NEW r, NEW cursor, NEW out, NEW pos, NEW len, NEW skipped, NEW next,
           Cut(n, r, cursor, out, pos, len, skipped, next)
    PROVE  /\ next \in Nat /\ next > cursor /\ next <= n + 2
           /\ (n + 1) * (r + 1) \in Nat
           /\ out + ((pos - cursor) + r + skipped) <= (next - 1) * (r + 1)
           /\ out + ((pos - cursor) + r + skipped) <= (n + 1) * (r + 1)
<1> USE DEF Cut
<1>1. next \in Nat /\ next > pos /\ next <= n + 2
  OBVIOUS
<1> DEFINE d == pos - cursor + 1
           e == next - 1 - pos
           a == (cursor - 1) * (r + 1)
<1>2. d \in Nat \ {0} /\ e \in Nat /\ next - 1 = (cursor - 1) + d + e
  BY <1>1
<1>3. d * (r + 1) >= (d - 1) + (r + 1)
  <2>1. d * (r + 1) = (d - 1) * (r + 1) + (r + 1)
    BY <1>2
  <2>2. (d - 1) * (r + 1) = (d - 1) * r + (d - 1)
    BY <1>2
  <2>3. (d - 1) * r \in Nat
    BY <1>2
  <2> QED
    BY <1>2, <2>1, <2>2, <2>3
<1>4. (next - 1) * (r + 1) = a + d * (r + 1) + e * (r + 1)
  BY <1>2
<1>5. e * (r + 1) \in Nat /\ a \in Nat /\ d * (r + 1) \in Nat
  BY <1>2
<1>6. out + ((pos - cursor) + r + skipped) <= a + ((d - 1) + (r + 1))
  OBVIOUS
<1>7. out + ((pos - cursor) + r + skipped) <= (next - 1) * (r + 1)
  <2> HIDE DEF a, d, e
  <2> QED
    BY <1>2, <1>3, <1>4, <1>5, <1>6
<1>8. (n + 1) * (r + 1) = (next - 1) * (r + 1) + (n + 1 - (next - 1)) * (r + 1)
  BY <1>1
<1>9. (n + 1 - (next - 1)) * (r + 1) \in Nat /\ (next - 1) * (r + 1) \in Nat
  BY <1>1
<1>10. next > cursor
  BY <1>1
<1>11. (n + 1) * (r + 1) \in Nat
  OBVIOUS
<1> QED
  BY <1>1, <1>7, <1>8, <1>9, <1>10, <1>11

\* A copy of what is behind the cursor and before a match.
LEMMA CopyLength ==
    ASSUME NEW s \in Seq(Byte), NEW i \in Nat \ {0}, NEW j \in i .. Len(s) + 1
    PROVE  SubSeq(s, i, j - 1) \in Seq(Byte) /\ Len(SubSeq(s, i, j - 1)) = j - i
<1>1. Len(s) \in Nat
  BY LenProperties
<1>2. CASE i <= j - 1
  <2>1. i \in 1 .. Len(s) /\ j - 1 \in i .. Len(s)
    BY <1>1, <1>2
  <2> HIDE DEF Byte
  <2> QED
    BY <1>1, <2>1, SubSeqProperties
<1>3. CASE ~(i <= j - 1)
  <2>1. j = i
    BY <1>1, <1>3
  <2>2. SubSeq(s, i, j - 1) = <<>>
    BY <1>1, <2>1, SubSeqProperties
  <2> QED
    BY <1>1, <2>1, <2>2, EmptySeq
<1> QED
  BY <1>2, <1>3

\* The buffer takes all of what is written to it.
LEMMA WriteAll ==
    ASSUME NEW out \in Seq(Byte), NEW bytes \in Seq(Byte),
           OutMax(asked) \in Nat, Len(out) + Len(bytes) <= OutMax(asked)
    PROVE  /\ Write(out, bytes) \in Seq(Byte)
           /\ Len(Write(out, bytes)) = Len(out) + Len(bytes)
<1> DEFINE t == out \o bytes
           n == Min({Len(t), OutMax(asked)})
<1>1. t \in Seq(Byte) /\ Len(t) = Len(out) + Len(bytes) /\ Len(t) \in Nat
  BY ConcatProperties, LenProperties
<1>2. Write(out, bytes) = SubSeq(t, 1, n)
  BY DEF Write
<1> HIDE DEF t
<1>3. n = Len(t)
  <2>1. {Len(t), OutMax(asked)} \in SUBSET Nat /\ {Len(t), OutMax(asked)} # {}
    BY <1>1
  <2>2. n \in {Len(t), OutMax(asked)} /\ n <= Len(t) /\ n <= OutMax(asked)
    BY <2>1, MinIs
  <2> QED
    BY <1>1, <2>2
<1> HIDE DEF n
<1>4. Len(t) + 1 \in 1 .. Len(t) + 1 /\ (Len(t) + 1) - 1 = Len(t) /\ 1 \in Nat \ {0}
  BY <1>1
<1>5. SubSeq(t, 1, (Len(t) + 1) - 1) \in Seq(Byte)
      /\ Len(SubSeq(t, 1, (Len(t) + 1) - 1)) = (Len(t) + 1) - 1
  BY <1>1, <1>4, CopyLength
<1> QED
  BY <1>1, <1>2, <1>3, <1>4, <1>5

LEMMA GsubStep ==
    ASSUME StringsInv, GsubReplace
    PROVE  StringsInv' /\ Left' < Left /\ Left' >= 0
<1>1. PICK m : /\ m = RunPatternFrom(asked.s, asked.text, work.cursor)
               /\ m.pos # 0
               /\ LET skipped == IF m.len = 0 /\ m.pos <= Len(asked.s) THEN <<asked.s[m.pos]>> ELSE <<>>
                      next == IF m.len = 0 THEN m.pos + 1 ELSE m.pos + m.len
                  IN work' = [work EXCEPT
                        !.out = Write(@, SubSeq(asked.s, work.cursor, m.pos - 1) \o asked.repl \o skipped),
                        !.cursor = IF next <= @ THEN @ + 1 ELSE next]
  BY DEF GsubReplace
<1>2. /\ asked.op = "gsub" /\ asked.text # <<>> /\ work.cursor <= Len(asked.s) + 1
      /\ asked' = asked /\ answer' = answer /\ tab' = tab
  BY DEF GsubReplace, Builtin
<1>3. asked \in Calls /\ asked # NoCall /\ GsubInv
  BY <1>2, NoCallIs DEF StringsInv
<1>4. asked.s \in Seq(Byte) /\ asked.repl \in Seq(Byte) /\ asked.text \in Seq(Byte)
  BY <1>2, <1>3, CallsAssumption
<1>5. PICK n \in Nat, r \in Nat : n = Len(asked.s) /\ r = Len(asked.repl)
  BY <1>4, LenProperties
<1>6. PICK cursor, out : /\ work = [at |-> "loop", cursor |-> cursor, out |-> out]
                         /\ cursor \in 1 .. n + 2 /\ out \in Seq(Byte)
                         /\ Len(out) <= (cursor - 1) * (r + 1)
  BY <1>2, <1>3, <1>5 DEF GsubInv, Builtin
<1>7. work.cursor = cursor /\ work.out = out /\ cursor \in Nat \ {0}
  BY <1>5, <1>6
<1>8. m.pos \in cursor .. n + 1 /\ m.len \in 0 .. n + 1 - m.pos
  BY <1>1, <1>2, <1>4, <1>5, <1>7, MatchRange DEF Lies
<1> DEFINE skipped == IF m.len = 0 /\ m.pos <= n THEN <<asked.s[m.pos]>> ELSE <<>>
           next == IF m.len = 0 THEN m.pos + 1 ELSE m.pos + m.len
           bytes == SubSeq(asked.s, cursor, m.pos - 1) \o asked.repl \o skipped
<1>9. skipped \in Seq(Byte) /\ Len(skipped) \in 0 .. 1
  <2>1. m.pos <= n => asked.s[m.pos] \in Byte
    BY <1>4, <1>5, <1>7, <1>8, ElementOfSeq
  <2> QED
    BY <2>1, EmptySeq
<1> HIDE DEF skipped
<1>10. bytes \in Seq(Byte) /\ Len(bytes) = (m.pos - cursor) + r + Len(skipped)
  <2>1. /\ SubSeq(asked.s, cursor, m.pos - 1) \in Seq(Byte)
        /\ Len(SubSeq(asked.s, cursor, m.pos - 1)) = m.pos - cursor
    BY <1>4, <1>5, <1>7, <1>8, CopyLength
  <2> DEFINE head == SubSeq(asked.s, cursor, m.pos - 1)
  <2> HIDE DEF head, Byte
  <2>2. head \o asked.repl \in Seq(Byte) /\ Len(head \o asked.repl) = Len(head) + r
    BY <1>4, <1>5, <2>1, ConcatProperties DEF head
  <2>3. /\ (head \o asked.repl) \o skipped \in Seq(Byte)
        /\ Len((head \o asked.repl) \o skipped) = Len(head \o asked.repl) + Len(skipped)
    BY <1>9, <2>2, ConcatProperties
  <2> QED
    BY <2>1, <2>2, <2>3 DEF head
<1>11. /\ next \in Nat /\ next > cursor /\ next <= n + 2
       /\ Len(out) + Len(bytes) <= (next - 1) * (r + 1)
       /\ (n + 1) * (r + 1) \in Nat
       /\ Len(out) + Len(bytes) <= (n + 1) * (r + 1)
  <2>1. PICK o, k, p, l, e : o = Len(out) /\ k = Len(skipped) /\ p = m.pos /\ l = m.len /\ e = next
    OBVIOUS
  <2>2. o \in Nat /\ k \in 0 .. 1 /\ p \in cursor .. n + 1 /\ l \in 0 .. n + 1 - p
        /\ o <= (cursor - 1) * (r + 1) /\ e = IF l = 0 THEN p + 1 ELSE p + l
    BY <1>6, <1>8, <1>9, <2>1, LenProperties
  <2>3. Cut(n, r, cursor, o, p, l, k, e)
    BY <1>5, <1>6, <2>2 DEF Cut
  <2>4. /\ e \in Nat /\ e > cursor /\ e <= n + 2
        /\ (n + 1) * (r + 1) \in Nat
        /\ o + ((p - cursor) + r + k) <= (e - 1) * (r + 1)
        /\ o + ((p - cursor) + r + k) <= (n + 1) * (r + 1)
    BY ONLY <2>3, GsubArithmetic
  <2> HIDE DEF next, bytes
  <2> QED
    BY <1>10, <2>1, <2>4
<1> HIDE DEF bytes, next
<1>12. OutMax(asked) \in Nat /\ Len(out) + Len(bytes) <= OutMax(asked)
  <2>1. OutMax(asked) = (n + 1) * (r + 1) + r + 8
    BY <1>5 DEF OutMax
  <2>2. PICK q \in Nat : q = (n + 1) * (r + 1)
    BY <1>11
  <2>3. PICK o, b, max : o = Len(out) /\ b = Len(bytes) /\ max = OutMax(asked)
    OBVIOUS
  <2>4. max = q + r + 8 /\ o + b <= q
    BY <1>11, <2>1, <2>2, <2>3
  <2>5. max \in Nat /\ o + b <= max
    <3>1. o \in Nat /\ b \in Nat
      BY <1>6, <1>10, <2>3, LenProperties
    <3> QED
      BY ONLY r \in Nat, q \in Nat, <2>4, <3>1
  <2> QED
    BY <2>3, <2>5
<1>13. Write(out, bytes) \in Seq(Byte) /\ Len(Write(out, bytes)) = Len(out) + Len(bytes)
  BY <1>6, <1>10, <1>12, WriteAll
<1>14. work' = [at |-> "loop", cursor |-> next, out |-> Write(out, bytes)]
  <2>1. work' = [work EXCEPT !.out = Write(@, bytes), !.cursor = IF next <= @ THEN @ + 1 ELSE next]
    BY <1>1, <1>5, <1>7 DEF bytes, next, skipped
  <2>2. ~(next <= cursor)
    BY <1>7, <1>11
  <2> QED
    BY <1>6, <2>1, <2>2
<1>15. GsubInv'
  <2>1. work'.cursor = next /\ work'.out = Write(out, bytes)
    BY <1>14
  <2>2. next \in 1 .. n + 2
    BY <1>5, <1>7, <1>11
  <2>3. Len(Write(out, bytes)) <= (next - 1) * (r + 1)
    BY <1>11, <1>13
  <2> HIDE DEF Byte
  <2> QED
    BY <1>2, <1>5, <1>13, <1>14, <2>1, <2>2, <2>3 DEF GsubInv
<1>16. StringsInv'
  <2>1. asked'.op = "gsub" /\ tab' = NoList
    BY <1>2 DEF StringsInv, Builtin
  <2> QED
    BY <1>2, <1>3, <1>15, <2>1 DEF StringsInv, GmatchInv, Utf8Inv, ConcatInv, Builtin
<1>17. Left = n + 3 - cursor /\ Left' = n + 3 - next
  <2>1. work'.cursor = next
    BY <1>14
  <2> QED
    BY <1>2, <1>5, <1>7, <2>1 DEF Left, Builtin
<1> QED
  BY <1>7, <1>11, <1>16, <1>17


\* The search of gmatch may start at the empty match behind the subject; when the
\* pattern is empty it finds that match again and again, however far it starts.
LEMMA GmatchCallStep ==
    ASSUME StringsInv, GmatchCall
    PROVE  StringsInv' /\ (asked.text # <<>> => Left' < Left /\ Left' >= 0)
<1>1. PICK m : /\ m = GmatchFind /\ m.pos # 0
               /\ work' = [at |-> "body", pos |-> Advance(m.pos, m.pos + (m.len - 1)),
                           m |-> Slice(asked.s, NormalizeSubBounds(Len(asked.s), m.pos, m.pos + (m.len - 1)))]
  BY DEF GmatchCall
<1>2. /\ asked.op = "gmatch" /\ work.at = "call"
      /\ asked' = asked /\ answer' = answer /\ tab' = tab
  BY DEF GmatchCall, Builtin
<1>3. asked \in Calls /\ asked # NoCall /\ GmatchInv
  BY <1>2, NoCallIs DEF StringsInv
<1>4. asked.s \in Seq(Byte) /\ asked.text \in Seq(Byte)
  BY <1>2, <1>3, CallsAssumption
<1>5. PICK n \in Nat : n = Len(asked.s)
  BY <1>4, LenProperties
<1>6. PICK pos \in 1 .. n + 2 : pos = work.pos
  BY <1>2, <1>3, <1>5 DEF GmatchInv, Builtin
<1>7. m = RunPatternFrom(asked.s, asked.text, pos)
  <2>1. (IF pos <= 1 THEN 1 ELSE pos) = pos
    BY <1>6
  <2> QED
    BY <1>1, <1>6, <2>1 DEF GmatchFind, FindInit
<1>8. /\ m.pos \in 1 .. n + 1 /\ m.len \in 0 .. n + 1 - m.pos
      /\ asked.text # <<>> => m.pos \in pos .. n + 1
  <2>1. pos \in Nat \ {0}
    BY <1>6
  <2> QED
    BY <1>1, <1>4, <1>5, <1>7, <2>1, MatchRange DEF Lies
<1>9. PICK next : next = Advance(m.pos, m.pos + (m.len - 1))
  OBVIOUS
<1>10. next \in 1 .. n + 2 /\ (asked.text # <<>> => next > pos)
  <2>1. PICK p, l : p = m.pos /\ l = m.len
    OBVIOUS
  <2>2. next = IF p + (l - 1) < p THEN p + 1 ELSE (p + (l - 1)) + 1
    BY <1>9, <2>1 DEF Advance
  <2>3. p \in 1 .. n + 1 /\ l \in 0 .. n + 1 - p /\ (asked.text # <<>> => p >= pos)
    BY <1>6, <1>8, <2>1
  <2>4. next \in 2 .. n + 2 /\ next > p
    BY ONLY n \in Nat, <2>2, <2>3
  <2> QED
    BY <1>6, <2>3, <2>4
<1>11. work'.at = "body" /\ work'.pos = next
  BY <1>1, <1>9
<1>12. StringsInv'
  <2>1. asked'.op = "gmatch" /\ tab' = NoList
    BY <1>2 DEF StringsInv, Builtin
  <2>2. GmatchInv'
    BY <1>2, <1>5, <1>10, <1>11 DEF GmatchInv
  <2> QED
    BY <1>2, <1>3, <2>1, <2>2 DEF StringsInv, GsubInv, Utf8Inv, ConcatInv, Builtin
<1>13. Left = 2 * (n + 3 - pos) + 0 /\ Left' = 2 * (n + 3 - next) + 1
  BY <1>2, <1>5, <1>6, <1>11 DEF Left, Builtin
<1> QED
  BY <1>6, <1>10, <1>12, <1>13

LEMMA GmatchBodyStep ==
    ASSUME StringsInv, GmatchBody
    PROVE  StringsInv' /\ Left' < Left /\ Left' >= 0
<1>1. /\ asked.op = "gmatch" /\ work.at = "body"
      /\ asked' = asked /\ tab' = tab /\ work' = [at |-> "call", pos |-> work.pos]
      /\ answer' = IF Len(answer) < MaxSeen THEN Append(answer, Str(work.m)) ELSE answer
  BY DEF GmatchBody, Builtin
<1>2. asked \in Calls /\ asked # NoCall /\ GmatchInv
  BY <1>1, NoCallIs DEF StringsInv
<1>3. PICK n \in Nat : n = Len(asked.s)
  BY <1>1, <1>2, CallsAssumption, LenProperties
<1>4. PICK pos \in 1 .. n + 2 : pos = work.pos
  BY <1>1, <1>2, <1>3 DEF GmatchInv, Builtin
<1>5. work'.at = "call" /\ work'.pos = pos
  BY <1>1, <1>4
<1>6. Answers(answer')
  <2>1. Answers(answer)
    BY DEF StringsInv
  <2> QED
    BY <1>1, <2>1, KindsAre, MoreAnswers
<1>7. StringsInv'
  <2>1. asked'.op = "gmatch" /\ tab' = NoList
    BY <1>1 DEF StringsInv, Builtin
  <2>2. GmatchInv'
    BY <1>1, <1>3, <1>4, <1>5 DEF GmatchInv
  <2> QED
    BY <1>1, <1>2, <1>6, <2>1, <2>2 DEF StringsInv, GsubInv, Utf8Inv, ConcatInv, Builtin
<1>8. Left = 2 * (n + 3 - pos) + 1 /\ Left' = 2 * (n + 3 - pos) + 0
  BY <1>1, <1>3, <1>4, <1>5 DEF Left, Builtin
<1> QED
  BY <1>4, <1>7, <1>8

\* gmatch and utf8 end with what they have collected.
LEMMA LoopEnds ==
    ASSUME StringsInv, GmatchEnd \/ DecodeEnd
    PROVE  StringsInv' /\ asked' = NoCall
<1>1. /\ asked' = NoCall /\ work' = Idle /\ answer' = answer /\ tab' = tab
      /\ ~Builtin("concat")
  BY DEF GmatchEnd, DecodeEnd, Builtin
<1>2. asked'.op = "none" /\ tab' = NoList
  BY <1>1, NoCallIs DEF StringsInv
<1> QED
  BY <1>1, <1>2 DEF StringsInv, GsubInv, GmatchInv, Utf8Inv, ConcatInv, Builtin

-----------------------------------------------------------------------------
(* utf8.                                                                   *)

\* The bytes of one code point hold at most one boundary.
LEMMA CharBoundary ==
    ASSUME NEW n \in Int
    PROVE  /\ Utf8Char(n) \in Seq(Int)
           /\ \A k \in 2 .. Len(Utf8Char(n)) : IsCont(Utf8Char(n)[k])
<1>1. PICK x \in Int, y \in Int : x = n \div 64 /\ y = n \div 4096
  OBVIOUS
<1>2. \A z \in Int : 128 + (z % 64) \in Int /\ IsCont(128 + (z % 64))
  BY DEF IsCont
<1>3. PICK a, b, c : a = 128 + (n % 64) /\ b = 128 + (x % 64) /\ c = 128 + (y % 64)
  OBVIOUS
<1>4. PICK d, e, f : /\ d = 192 + n \div 64 /\ e = 224 + n \div 4096 /\ f = 240 + n \div 262144
                     /\ d \in Int /\ e \in Int /\ f \in Int
  OBVIOUS
<1>5. \/ Utf8Char(n) = <<>> \/ Utf8Char(n) = <<n>> \/ Utf8Char(n) = <<d, a>>
      \/ Utf8Char(n) = <<e, b, a>> \/ Utf8Char(n) = <<f, c, b, a>>
  <2>1. CASE n < 0 \/ n > 1114111 \/ n \in 55296 .. 57343
    <3>1. Utf8Char(n) = <<>>
      BY <2>1, SMT DEF Utf8Char
    <3> QED
      BY <3>1
  <2>2. CASE ~(n < 0 \/ n > 1114111 \/ n \in 55296 .. 57343) /\ n < 128
    <3>1. Utf8Char(n) = <<n>>
      BY <2>2, SMT DEF Utf8Char
    <3> QED
      BY <3>1
  <2>3. CASE ~(n < 0 \/ n > 1114111 \/ n \in 55296 .. 57343) /\ ~(n < 128) /\ n < 2048
    <3>1. Utf8Char(n) = <<192 + n \div 64, 128 + (n % 64)>>
      BY <2>3, SMT DEF Utf8Char
    <3> QED
      BY <1>3, <1>4, <3>1
  <2>4. CASE /\ ~(n < 0 \/ n > 1114111 \/ n \in 55296 .. 57343)
             /\ ~(n < 128) /\ ~(n < 2048) /\ n < 65536
    <3>1. Utf8Char(n) = <<224 + n \div 4096, 128 + ((n \div 64) % 64), 128 + (n % 64)>>
      BY <2>4, SMT DEF Utf8Char
    <3> QED
      BY <1>1, <1>3, <1>4, <3>1
  <2>5. CASE /\ ~(n < 0 \/ n > 1114111 \/ n \in 55296 .. 57343)
             /\ ~(n < 128) /\ ~(n < 2048) /\ ~(n < 65536)
    <3>1. Utf8Char(n) = <<240 + n \div 262144, 128 + ((n \div 4096) % 64),
                          128 + ((n \div 64) % 64), 128 + (n % 64)>>
      BY <2>5, SMT DEF Utf8Char
    <3> QED
      BY <1>1, <1>3, <1>4, <3>1
  <2> QED
    BY <2>1, <2>2, <2>3, <2>4, <2>5
<1>6. a \in Int /\ b \in Int /\ c \in Int /\ IsCont(a) /\ IsCont(b) /\ IsCont(c)
  BY <1>1, <1>2, <1>3
<1> QED
  <2>1. PICK t : t = Utf8Char(n)
    OBVIOUS
  <2>2. t \in Seq(Int) /\ \A k \in 2 .. Len(t) : IsCont(t[k])
    <3>1. \/ t = <<>> \/ t = <<n>> \/ t = <<d, a>> \/ t = <<e, b, a>> \/ t = <<f, c, b, a>>
      BY <1>5, <2>1
    <3>2. n \in Int /\ d \in Int /\ e \in Int /\ f \in Int
      BY <1>4
    <3> QED
      <4>1. CASE t = <<>>
        BY <4>1
      <4>2. CASE t = <<n>>
        BY <4>2
      <4>3. CASE t = <<d, a>>
        <5>1. t \in Seq(Int) /\ Len(t) = 2 /\ t[2] = a
          BY <1>6, <3>2, <4>3
        <5> QED
          BY <1>6, <5>1
      <4>4. CASE t = <<e, b, a>>
        <5>1. t \in Seq(Int) /\ Len(t) = 3 /\ t[2] = b /\ t[3] = a
          BY <1>6, <3>2, <4>4
        <5> QED
          BY <1>6, <5>1
      <4>5. CASE t = <<f, c, b, a>>
        <5>1. t \in Seq(Int) /\ Len(t) = 4 /\ t[2] = c /\ t[3] = b /\ t[4] = a
          BY <1>6, <3>2, <4>5
        <5> QED
          BY <1>6, <5>1
      <4> QED
        BY <3>1, <4>1, <4>2, <4>3, <4>4, <4>5
  <2> QED
    BY <2>1, <2>2


LEMMA Utf8LenType ==
    ASSUME NEW s \in Seq(Int)
    PROVE  /\ Boundaries(s) \subseteq 1 .. Len(s) /\ IsFiniteSet(Boundaries(s))
           /\ Utf8Len(s) \in Nat
<1>1. Len(s) \in Nat /\ DOMAIN s = 1 .. Len(s)
  BY LenProperties
<1>2. Boundaries(s) \subseteq 1 .. Len(s)
  BY <1>1 DEF Boundaries
<1> QED
  BY <1>1, <1>2, FiniteBelow DEF Utf8Len

LEMMA EncodeLength ==
    ASSUME NEW s \in Seq(Int), NEW u \in Seq(Int), \A k \in 2 .. Len(u) : IsCont(u[k])
    PROVE  s \o u \in Seq(Int) /\ Utf8Len(s \o u) <= Utf8Len(s) + 1
<1> DEFINE t == s \o u
           B == Boundaries(s)
<1>1. Len(s) \in Nat /\ Len(u) \in Nat /\ DOMAIN s = 1 .. Len(s)
  BY LenProperties
<1>2. /\ t \in Seq(Int) /\ Len(t) = Len(s) + Len(u) /\ DOMAIN t = 1 .. Len(t)
      /\ \A k \in 1 .. Len(t) : t[k] = IF k <= Len(s) THEN s[k] ELSE u[k - Len(s)]
  <2>1. t \in Seq(Int) /\ Len(t) = Len(s) + Len(u)
    BY ConcatProperties
  <2>2. \A k \in 1 .. Len(s) + Len(u) : t[k] = IF k <= Len(s) THEN s[k] ELSE u[k - Len(s)]
    BY ConcatProperties
  <2> HIDE DEF t
  <2> QED
    BY <2>1, <2>2, LenProperties
<1> HIDE DEF t
<1>3. Boundaries(t) \subseteq B \cup {Len(s) + 1}
  <2>1. SUFFICES ASSUME NEW p \in DOMAIN t, ~IsCont(t[p]), p # Len(s) + 1
                 PROVE  p \in DOMAIN s /\ ~IsCont(s[p])
    BY DEF Boundaries
  <2>2. p \in 1 .. Len(t)
    BY <1>2
  <2>3. CASE p <= Len(s)
    BY <1>1, <1>2, <2>1, <2>2, <2>3
  <2>4. CASE ~(p <= Len(s))
    <3>1. p - Len(s) \in 2 .. Len(u)
      BY <1>1, <1>2, <2>1, <2>2, <2>4
    <3>2. t[p] = u[p - Len(s)]
      BY <1>2, <2>2, <2>4
    <3> QED
      BY <2>1, <3>1, <3>2
  <2> QED
    BY <2>3, <2>4
<1>4. IsFiniteSet(B) /\ Cardinality(B) \in Nat /\ Utf8Len(s) = Cardinality(B)
  BY Utf8LenType DEF Utf8Len
<1> HIDE DEF B
<1>5. /\ IsFiniteSet(B \cup {Len(s) + 1})
      /\ Cardinality(B \cup {Len(s) + 1}) \in {Cardinality(B), Cardinality(B) + 1}
  BY <1>4, FS_AddElement
<1>6. Cardinality(Boundaries(t)) <= Cardinality(B \cup {Len(s) + 1})
  BY <1>3, <1>5, FS_Subset
<1>7. Utf8Len(t) = Cardinality(Boundaries(t)) /\ Utf8Len(t) \in Nat
  BY <1>2, Utf8LenType DEF Utf8Len
<1> QED
  BY <1>2, <1>4, <1>5, <1>6, <1>7 DEF t

LEMMA EncodeStep ==
    ASSUME StringsInv, Encode
    PROVE  StringsInv' /\ Left' < Left /\ Left' >= 0
<1>1. /\ asked.op = "utf8" /\ work.at = "encode" /\ work.n < Len(asked.points)
      /\ asked' = asked /\ answer' = answer /\ tab' = tab
      /\ work' = [work EXCEPT !.n = @ + 1, !.s = @ \o Utf8Char(asked.points[work.n + 1])]
  BY DEF Encode, Builtin
<1>2. asked \in Calls /\ asked # NoCall /\ Utf8Inv
  BY <1>1, NoCallIs DEF StringsInv
<1>3. asked.points \in Seq(Int)
  BY <1>1, <1>2, CallsAssumption
<1>4. PICK s \in Seq(Int), n \in Nat :
         /\ work = [at |-> "encode", s |-> s, n |-> n] /\ n <= Len(asked.points) /\ Utf8Len(s) <= n
  BY <1>1, <1>2 DEF Utf8Inv, Builtin
<1>5. PICK m \in Nat : m = Len(asked.points)
  BY <1>3, LenProperties
<1>6. n + 1 \in 1 .. m
  BY <1>1, <1>4, <1>5
<1>7. PICK p \in Int : p = asked.points[n + 1]
  BY <1>3, <1>5, <1>6, ElementOfSeq
<1>8. PICK t : t = s \o Utf8Char(p)
  OBVIOUS
<1>9. t \in Seq(Int) /\ Utf8Len(t) <= Utf8Len(s) + 1
  BY <1>8, CharBoundary, EncodeLength
<1>10. work' = [at |-> "encode", s |-> t, n |-> n + 1]
  BY <1>1, <1>4, <1>7, <1>8
<1>11. Utf8Len(s) \in Nat /\ Utf8Len(t) \in Nat
  BY <1>9, Utf8LenType
<1>12. Utf8Inv'
  <2>1. work'.at = "encode" /\ work'.s = t /\ work'.n = n + 1
    BY <1>10
  <2>2. work' \in [at : {"encode", "decode"}, s : Seq(Int), n : Nat]
    BY <1>9, <1>10
  <2>3. n + 1 <= m /\ Utf8Len(t) <= n + 1
    BY <1>4, <1>5, <1>6, <1>9, <1>11
  <2> QED
    BY <1>1, <1>5, <2>1, <2>2, <2>3 DEF Utf8Inv
<1>13. StringsInv'
  <2>1. asked'.op = "utf8" /\ tab' = NoList
    BY <1>1 DEF StringsInv, Builtin
  <2> QED
    BY <1>1, <1>2, <1>12, <2>1 DEF StringsInv, GsubInv, GmatchInv, ConcatInv, Builtin
<1>14. Left = 2 * m + 1 - n /\ Left' = 2 * m + 1 - (n + 1)
  <2>1. work'.at = "encode" /\ work'.n = n + 1 /\ work.n = n
    BY <1>4, <1>10
  <2> QED
    BY <1>1, <1>5, <2>1 DEF Left, Builtin
<1> QED
  BY <1>6, <1>13, <1>14

\* What is left to be decoded: no more code points than were encoded.
LEMMA EncodedStep ==
    ASSUME StringsInv, Encoded
    PROVE  StringsInv' /\ Left' < Left /\ Left' >= 0
<1>1. /\ asked.op = "utf8" /\ work.at = "encode" /\ work.n = Len(asked.points)
      /\ asked' = asked /\ answer' = answer /\ tab' = tab
      /\ work' = [work EXCEPT !.at = "decode", !.n = 0]
  BY DEF Encoded, Builtin
<1>2. asked \in Calls /\ asked # NoCall /\ Utf8Inv
  BY <1>1, NoCallIs DEF StringsInv
<1>3. PICK s \in Seq(Int), n \in Nat :
         work = [at |-> "encode", s |-> s, n |-> n] /\ n = Len(asked.points) /\ Utf8Len(s) <= n
  BY <1>1, <1>2 DEF Utf8Inv, Builtin
<1>4. work' = [at |-> "decode", s |-> s, n |-> 0]
  BY <1>1, <1>3
<1>5. PICK u \in Nat : u = Utf8Len(s)
  BY Utf8LenType
<1>6. work.at = "encode" /\ work.n = n /\ work'.at = "decode" /\ work'.s = s /\ work'.n = 0
  BY <1>3, <1>4
<1>7. Utf8Inv'
  <2>1. work' \in [at : {"encode", "decode"}, s : Seq(Int), n : Nat]
    BY <1>4
  <2> QED
    BY <1>1, <1>5, <1>6, <2>1 DEF Utf8Inv
<1>8. StringsInv'
  <2>1. asked'.op = "utf8" /\ tab' = NoList
    BY <1>1 DEF StringsInv, Builtin
  <2> QED
    BY <1>1, <1>2, <1>7, <2>1 DEF StringsInv, GsubInv, GmatchInv, ConcatInv, Builtin
<1>9. Left = 2 * n + 1 - n /\ Left' = u - 0
  BY <1>1, <1>3, <1>5, <1>6 DEF Left, Builtin
<1> QED
  BY <1>3, <1>5, <1>8, <1>9

LEMMA DecodeStep ==
    ASSUME StringsInv, Decode
    PROVE  StringsInv' /\ Left' < Left /\ Left' >= 0
<1>1. /\ asked.op = "utf8" /\ work.at = "decode" /\ work.n < Utf8Len(work.s)
      /\ asked' = asked /\ tab' = tab /\ work' = [work EXCEPT !.n = @ + 1]
      /\ \E a : answer' = Append(answer, Nums(a))
  BY DEF Decode, Builtin
<1>2. asked \in Calls /\ asked # NoCall /\ Utf8Inv
  BY <1>1, NoCallIs DEF StringsInv
<1>3. PICK s \in Seq(Int), n \in Nat : work = [at |-> "decode", s |-> s, n |-> n] /\ n < Utf8Len(s)
  BY <1>1, <1>2 DEF Utf8Inv, Builtin
<1>4. work' = [at |-> "decode", s |-> s, n |-> n + 1]
  BY <1>1, <1>3
<1>5. PICK u \in Nat : u = Utf8Len(s)
  BY Utf8LenType
<1>6. work.at = "decode" /\ work.n = n /\ work'.at = "decode" /\ work'.s = s /\ work'.n = n + 1
  BY <1>3, <1>4
<1>7. Utf8Inv'
  <2>1. work' \in [at : {"encode", "decode"}, s : Seq(Int), n : Nat]
    BY <1>4
  <2> QED
    BY <1>1, <1>3, <1>5, <1>6, <2>1 DEF Utf8Inv
<1>8. Answers(answer')
  <2>1. Answers(answer)
    BY DEF StringsInv
  <2> QED
    BY <1>1, <2>1, KindsAre, MoreAnswers
<1>9. StringsInv'
  <2>1. asked'.op = "utf8" /\ tab' = NoList
    BY <1>1 DEF StringsInv, Builtin
  <2> QED
    BY <1>1, <1>2, <1>7, <1>8, <2>1 DEF StringsInv, GsubInv, GmatchInv, ConcatInv, Builtin
<1>10. Left = u - n /\ Left' = u - (n + 1)
  BY <1>1, <1>3, <1>5, <1>6 DEF Left, Builtin
<1> QED
  BY <1>3, <1>5, <1>9, <1>10


-----------------------------------------------------------------------------
(* table.concat.                                                           *)

LEMMA BoundsRange ==
    ASSUME NEW len \in Nat, NEW i \in Int, NEW j \in Int
    PROVE  /\ NormalizeSubBounds(len, i, j) \in [i : Nat \ {0}, j : Int]
           /\ NormalizeSubBounds(len, i, j).j <= len
<1> DEFINE b == NormalizeSubBounds(len, i, j)
<1>1. PICK x \in Int, y \in Int : /\ x = IF i < 0 THEN len + i + 1 ELSE i
                                  /\ y = IF j < 0 THEN len + j + 1 ELSE j
  OBVIOUS
<1>2. b = [i |-> Max({1, x}), j |-> Min({len, y})]
  BY <1>1 DEF NormalizeSubBounds
<1>3. Max({1, x}) \in {1, x} /\ Max({1, x}) >= 1
  <2>1. \E m \in {1, x} : \A n \in {1, x} : m >= n
    <3>1. (1 >= x /\ 1 >= 1) \/ (x >= 1 /\ x >= x)
      OBVIOUS
    <3> QED
      BY <3>1
  <2> QED
    BY <2>1 DEF Max
<1>4. Min({len, y}) \in {len, y} /\ Min({len, y}) <= len
  <2>1. \E m \in {len, y} : \A n \in {len, y} : m <= n
    <3>1. (len <= y /\ len <= len) \/ (y <= len /\ y <= y)
      OBVIOUS
    <3> QED
      BY <3>1
  <2> QED
    BY <2>1 DEF Min
<1> HIDE DEF b
<1> QED
  BY <1>2, <1>3, <1>4 DEF b

\* The arguments of a call may write a slot or add one; they take none away.
LEMMA EffectKeeps ==
    ASSUME NEW n, Written(tab, n), NEW e \in {"none", "erase", "append", "remove"}
    PROVE  Written(Effect(e), n)
<1>1. PICK len, slots : /\ tab = [len |-> len, slots |-> slots]
                        /\ slots = [k \in DOMAIN slots |-> slots[k]]
                        /\ 1 .. n \subseteq DOMAIN slots
                        /\ \A k \in DOMAIN slots : slots[k] \in Slot
  BY DEF Written
<1>2. Bad \in Slot /\ Letter \in Slot
  <2>1. <<>> \in Seq(Byte) /\ 65 \in Byte
    BY EmptySeq DEF Byte
  <2>2. <<65>> \in Seq(Byte)
    BY <2>1
  <2> QED
    BY <2>1, <2>2 DEF Bad, Letter, Slot
<1> HIDE DEF Slot
<1>3. CASE e = "none"
  BY <1>3 DEF Effect
<1>4. CASE e = "erase"
  <2>1. PICK after : after = [slots EXCEPT ![len] = Bad]
    OBVIOUS
  <2>2. Effect(e) = [len |-> len, slots |-> after]
    BY <1>1, <1>4, <2>1 DEF Effect
  <2>3. /\ DOMAIN after = DOMAIN slots
        /\ after = [k \in DOMAIN after |-> after[k]]
        /\ \A k \in DOMAIN after : after[k] \in Slot
    BY <1>1, <1>2, <2>1
  <2> QED
    BY <1>1, <2>2, <2>3 DEF Written
<1>5. CASE e = "append"
  <2>1. PICK after : after = [k \in DOMAIN slots \cup {len + 1} |->
                                 IF k = len + 1 THEN Letter ELSE slots[k]]
    OBVIOUS
  <2>2. Effect(e) = [len |-> len + 1, slots |-> after]
    BY <1>1, <1>5, <2>1 DEF Effect
  <2>3. /\ DOMAIN slots \subseteq DOMAIN after
        /\ after = [k \in DOMAIN after |-> after[k]]
        /\ \A k \in DOMAIN after : after[k] \in Slot
    BY <1>1, <1>2, <2>1
  <2> QED
    BY <1>1, <2>2, <2>3 DEF Written
<1>6. CASE e = "remove"
  <2>1. Effect(e) = [len |-> len - 1, slots |-> slots]
    BY <1>1, <1>6 DEF Effect
  <2> QED
    BY <1>1, <2>1 DEF Written
<1> QED
  BY <1>3, <1>4, <1>5, <1>6

\* How a step of table.concat leaves the invariant to ConcatInv.
LEMMA ConcatKeeps ==
    ASSUME StringsInv, Builtin("concat"), asked' = asked, answer' = answer, ConcatInv'
    PROVE  StringsInv'
  BY NoCallIs DEF StringsInv, GsubInv, GmatchInv, Utf8Inv, Builtin

LEMMA ConcatStep ==
    ASSUME StringsInv, ConcatI \/ ConcatJ \/ ConcatLengths
    PROVE  StringsInv' /\ (asked' # NoCall => Left' < Left /\ Left' >= 0)
<1>1. asked.op = "concat" /\ Builtin("concat") /\ asked \in Calls /\ ConcatInv
  <2>1. asked.op = "concat" /\ Builtin("concat")
    BY DEF ConcatI, ConcatJ, ConcatLengths, Builtin
  <2> QED
    BY <2>1, NoCallIs DEF StringsInv
<1>2. /\ asked.list \in Seq(Slot) /\ asked.i \in IntArg /\ asked.j \in IntArg
      /\ asked.fi \in {"none", "erase", "append", "remove"}
      /\ asked.fj \in {"none", "erase", "append", "remove"}
  BY <1>1, CallsAssumption
<1>3. PICK n \in Nat : n = Len(asked.list)
  BY <1>2, LenProperties
<1>4. Written(tab, n)
  BY <1>1, <1>3 DEF ConcatInv
<1>5. CASE Finish(Trap) \/ Finish(Str(<<>>))
  BY <1>5, FinishKeeps, KindsAre DEF Finish
<1>6. ASSUME asked' = asked, answer' = answer, Written(tab', n), work'.at \in {"j", "lengths", "copy"},
             work'.at = "j" => work'.n = n,
             work'.at \in {"lengths", "copy"} => work'.b \in [i : Nat \ {0}, j : Int] /\ work'.b.j <= n,
             work'.at = "copy" => ConcatInv'
      PROVE  StringsInv'
  <2>1. ConcatInv'
    BY <1>3, <1>6 DEF ConcatInv
  <2> QED
    BY <1>1, <1>6, <2>1, ConcatKeeps
<1>7. CASE ConcatI /\ ~Finish(Trap)
  <2>1. /\ work.at = "i" /\ work' = [at |-> "j", n |-> work.n] /\ tab' = Effect(asked.fi)
        /\ asked' = asked /\ answer' = answer
    BY <1>7 DEF ConcatI
  <2>2. work.n = n /\ work'.at = "j" /\ work'.n = n
    BY <1>1, <1>3, <2>1 DEF ConcatInv
  <2>3. Written(tab', n)
    BY <1>2, <1>4, <2>1, EffectKeeps
  <2>4. StringsInv'
    BY <1>6, <2>1, <2>2, <2>3
  <2>5. Left = 4 /\ Left' = 3
    BY <1>1, <2>1, <2>2 DEF Left, Builtin
  <2> QED
    BY <2>4, <2>5
<1>8. CASE ConcatJ /\ ~Finish(Trap)
  <2>1. /\ work.at = "j" /\ tab' = Effect(asked.fj) /\ asked' = asked /\ answer' = answer
        /\ work' = [at |-> "lengths", b |-> NormalizeSubBounds(work.n, asked.i.n, asked.j.n)]
    BY <1>8 DEF ConcatJ
  <2>2. work.n = n /\ work'.at = "lengths" /\ work'.b = NormalizeSubBounds(n, asked.i.n, asked.j.n)
    BY <1>1, <1>3, <2>1 DEF ConcatInv
  <2>3. Written(tab', n)
    BY <1>2, <1>4, <2>1, EffectKeeps
  <2>4. work'.b \in [i : Nat \ {0}, j : Int] /\ work'.b.j <= n
    <3>1. asked.i.n \in Int /\ asked.j.n \in Int
      BY <1>2 DEF IntArg
    <3> QED
      BY <2>2, <3>1, BoundsRange
  <2>5. StringsInv'
    BY <1>6, <2>1, <2>2, <2>3, <2>4
  <2>6. Left = 3 /\ Left' = 2
    BY <1>1, <2>1, <2>2 DEF Left, Builtin
  <2> QED
    BY <2>5, <2>6
<1>9. CASE ConcatLengths /\ ~Finish(Trap) /\ ~Finish(Str(<<>>))
  <2>1. /\ work.at = "lengths" /\ Reads # {} /\ asked' = asked /\ answer' = answer /\ tab' = tab
        /\ work' = [at |-> "copy", b |-> work.b,
                    total |-> SumFunctionOnSet([k \in Reads |-> Len(tab.slots[k].text)], Reads)
                                 + Len(asked.sep) * (work.b.j - work.b.i)]
    BY <1>9 DEF ConcatLengths
  <2>2. /\ work'.at = "copy" /\ work'.b = work.b
        /\ work'.total = SumFunctionOnSet([k \in Reads |-> Len(tab.slots[k].text)], Reads)
                            + Len(asked.sep) * (work.b.j - work.b.i)
    BY <2>1
  <2>3. work.b \in [i : Nat \ {0}, j : Int] /\ work.b.j <= n
    BY <1>1, <1>3, <2>1 DEF ConcatInv
  <2>4. Reads' = Reads
    BY <2>2 DEF Reads
  <2>5. ConcatInv'
    BY <1>3, <1>4, <2>1, <2>2, <2>3, <2>4 DEF ConcatInv
  <2>6. StringsInv'
    BY <1>1, <2>1, <2>5, ConcatKeeps
  <2>7. Left = 2 /\ Left' = 1
    BY <1>1, <2>1, <2>2 DEF Left, Builtin
  <2> QED
    BY <2>6, <2>7
<1> QED
  BY <1>5, <1>7, <1>8, <1>9


-----------------------------------------------------------------------------
(* The theorems.                                                           *)

LEMMA InvNext ==
    ASSUME StringsInv, [Next]_vars
    PROVE  StringsInv'
<1>1. CASE Begin
  BY <1>1, InvBegin
<1>2. CASE Use
  BY <1>2, InvUse
<1>3. CASE Find \/ Match \/ StringSub \/ StringByte \/ StringChar \/ StringRep
             \/ StringReverse \/ StringUpper \/ StringFormat \/ GsubEnd \/ ConcatCopy
  BY <1>3, AtOnce
<1>4. CASE GsubReplace
  BY <1>4, GsubStep
<1>5. CASE GmatchCall
  BY <1>5, GmatchCallStep
<1>6. CASE GmatchBody
  BY <1>6, GmatchBodyStep
<1>7. CASE GmatchEnd \/ DecodeEnd
  BY <1>7, LoopEnds
<1>8. CASE Encode
  BY <1>8, EncodeStep
<1>9. CASE Encoded
  BY <1>9, EncodedStep
<1>10. CASE Decode
  BY <1>10, DecodeStep
<1>11. CASE ConcatI \/ ConcatJ \/ ConcatLengths
  BY <1>11, ConcatStep
<1>12. CASE UNCHANGED vars
  <2>1. asked' = asked /\ answer' = answer /\ work' = work /\ tab' = tab
    BY <1>12 DEF vars
  <2>2. Reads' = Reads
    BY <2>1 DEF Reads
  <2> QED
    BY <2>1, <2>2 DEF StringsInv, GsubInv, GmatchInv, Utf8Inv, ConcatInv, Builtin
<1> QED
  BY <1>1, <1>2, <1>3, <1>4, <1>5, <1>6, <1>7, <1>8, <1>9, <1>10, <1>11, <1>12 DEF Next, Work

\* What is known of the registers of every call, whatever its operands are: gsub
\* has written at most a replacement and a byte for each position behind it, and
\* the arguments of table.concat leave the slots in range written.
THEOREM StringsInvariant == Spec => []StringsInv
<1>1. Init => StringsInv
  BY InvInit
<1>2. StringsInv /\ [Next]_vars => StringsInv'
  BY InvNext
<1> QED
  BY <1>1, <1>2, PTL DEF Spec

\* The calls under way are the program's and leave nothing behind, answers have a
\* kind, and the searches of gsub and gmatch stay within the subject.
THEOREM StringTypes == Spec => []TypeOK
<1>1. StringsInv => TypeOK
  <2>1. SUFFICES ASSUME StringsInv PROVE TypeOK
    OBVIOUS
  <2>2. asked = NoCall => tab = NoList
    BY <2>1, NoCallIs DEF StringsInv, Builtin
  <2>3. \A n \in DOMAIN answer : answer[n].k \in {"nil", "trap", "str", "num"}
    BY <2>1 DEF StringsInv, Answers, Kinds
  <2> QED
    BY <2>1, <2>2, <2>3 DEF StringsInv, TypeOK, GsubInv, GmatchInv
<1> QED
  BY <1>1, StringsInvariant, PTL

\* The output buffer of gsub takes the rest of the subject at any time.
GsubTakesRest == Builtin("gsub") => Len(work.out) + Len(GsubRest) <= OutMax(asked)

LEMMA BufferLarge ==
    ASSUME NEW n \in Nat, NEW r \in Nat, NEW cursor \in 1 .. n + 2,
           NEW out \in Nat, out <= (cursor - 1) * (r + 1),
           NEW rest \in Nat, rest = IF cursor <= n THEN n + 1 - cursor ELSE 0
    PROVE  out + rest < (n + 1) * (r + 1) + r + 8
<1>1. PICK k \in Nat : k = n + 2 - cursor
  OBVIOUS
<1>2. (n + 1) * (r + 1) = (cursor - 1) * (r + 1) + k * (r + 1)
  BY <1>1
<1>3. k * (r + 1) = k * r + k /\ k * r \in Nat
  BY <1>1
<1>4. rest <= k
  BY <1>1
<1>5. PICK a, b, c : a = (n + 1) * (r + 1) /\ b = (cursor - 1) * (r + 1) /\ c = k * r
  OBVIOUS
<1>6. b \in Nat
  <2>1. cursor - 1 \in Nat /\ r + 1 \in Nat
    OBVIOUS
  <2> QED
    BY <2>1, <1>5
<1>7. a = b + (c + k) /\ c \in Nat /\ out <= b
  BY <1>2, <1>3, <1>5
<1>8. out + rest < a + r + 8
  BY ONLY n \in Nat, r \in Nat, k \in Nat, out \in Nat, rest \in Nat, <1>4, <1>6, <1>7
<1> QED
  BY <1>5, <1>8

LEMMA GsubRoom ==
    ASSUME StringsInv, Builtin("gsub")
    PROVE  /\ Len(work.out) + Len(GsubRest) <= OutMax(asked)
           /\ Len(work.out) < OutMax(asked)
<1>1. asked \in Calls /\ asked.op = "gsub"
  BY NoCallIs DEF StringsInv, Builtin
<1>2. asked.s \in Seq(Byte) /\ asked.repl \in Seq(Byte)
  BY <1>1, CallsAssumption
<1>3. PICK n \in Nat, r \in Nat : n = Len(asked.s) /\ r = Len(asked.repl)
  BY <1>2, LenProperties
<1>4. PICK cursor \in 1 .. n + 2 : cursor = work.cursor
  BY <1>3 DEF StringsInv, GsubInv
<1>5. PICK out \in Nat : out = Len(work.out) /\ out <= (cursor - 1) * (r + 1)
  BY <1>3, <1>4, LenProperties DEF StringsInv, GsubInv
<1>6. PICK rest \in Nat : rest = Len(GsubRest) /\ rest = IF cursor <= n THEN n + 1 - cursor ELSE 0
  <2>1. CASE cursor <= n + 1
    <3>1. cursor \in Nat \ {0} /\ n + 1 \in cursor .. n + 1 /\ (n + 1) - 1 = n
      BY <2>1
    <3>2. Len(SubSeq(asked.s, cursor, (n + 1) - 1)) = (n + 1) - cursor
      BY <1>2, <1>3, <3>1, CopyLength
    <3>3. Len(GsubRest) = (n + 1) - cursor
      BY <1>3, <1>4, <3>1, <3>2 DEF GsubRest
    <3>4. (n + 1) - cursor \in Nat /\ (n + 1) - cursor = IF cursor <= n THEN n + 1 - cursor ELSE 0
      BY <2>1
    <3> QED
      BY <3>3, <3>4
  <2>2. CASE ~(cursor <= n + 1)
    <3>1. GsubRest = <<>>
      BY <1>2, <1>3, <1>4, <2>2, SubSeqProperties DEF GsubRest
    <3>2. Len(GsubRest) = 0 /\ ~(cursor <= n)
      BY <3>1, <2>2, EmptySeq
    <3> QED
      BY <3>2
  <2> QED
    BY <2>1, <2>2
<1>7. out + rest < (n + 1) * (r + 1) + r + 8
  BY <1>5, <1>6, BufferLarge
<1>8. PICK a : a = (n + 1) * (r + 1) /\ a \in Nat
  OBVIOUS
<1>9. OutMax(asked) = a + r + 8
  BY <1>3, <1>8 DEF OutMax
<1>10. out + rest <= a + r + 8 /\ out < a + r + 8
  BY <1>7, <1>8
<1> QED
  BY <1>5, <1>6, <1>9, <1>10

\* No byte of a result of gsub is dropped while it replaces: the buffer that the
\* caller sizes before the search has room for any subject, pattern and replacement.
THEOREM GsubNeverFull == Spec => []GsubFits
<1>1. StringsInv => GsubFits
  BY GsubRoom DEF GsubFits
<1> QED
  BY <1>1, StringsInvariant, PTL

\* Nor is one dropped when the rest is copied at the end.
THEOREM GsubRestFits == Spec => []GsubTakesRest
<1>1. StringsInv => GsubTakesRest
  BY GsubRoom DEF GsubTakesRest
<1> QED
  BY <1>1, StringsInvariant, PTL


LEMMA ConcatReads ==
    ASSUME StringsInv, Builtin("concat"), work.at \in {"lengths", "copy"}
    PROVE  Reads \subseteq DOMAIN tab.slots /\ \A k \in Reads : tab.slots[k] \in Slot
<1>1. asked \in Calls /\ asked.op = "concat" /\ ConcatInv
  BY NoCallIs DEF StringsInv, Builtin
<1>2. PICK n \in Nat : n = Len(asked.list)
  BY <1>1, CallsAssumption, LenProperties
<1>3. work.b \in [i : Nat \ {0}, j : Int] /\ work.b.j <= n
  BY <1>1, <1>2 DEF ConcatInv
<1>4. Reads \subseteq 1 .. n
  BY <1>2, <1>3 DEF Reads
<1>5. Written(tab, n)
  BY <1>1, <1>2 DEF ConcatInv
<1> QED
  BY <1>4, <1>5 DEF Written

LEMMA ConcatCounted ==
    ASSUME StringsInv, Builtin("concat"), work.at = "copy"
    PROVE  Len(ConcatBytes) = work.total
<1>1. asked \in Calls /\ asked.op = "concat" /\ ConcatInv
  BY NoCallIs DEF StringsInv, Builtin
<1>2. asked.sep \in Seq(Byte)
  BY <1>1, CallsAssumption
<1>3. PICK w \in Nat : w = Len(asked.sep)
  BY <1>2, LenProperties
<1>4. PICK i \in Nat \ {0}, j \in Int : work.b.i = i /\ work.b.j = j
  BY <1>1 DEF ConcatInv
<1>5. Reads = i .. j /\ Reads # {}
  BY <1>1, <1>4 DEF ConcatInv, Reads
<1>6. PICK m \in Nat \ {0} : m = j - i + 1 /\ j = i + m - 1 /\ m - 1 = j - i
  BY <1>5
<1>7. Cardinality(Reads) = m
  <2>1. i \in Int /\ j \in Int /\ ~(i > j)
    BY <1>5
  <2> QED
    BY <1>5, <1>6, <2>1, FS_Interval
<1> DEFINE lens == [k \in Reads |-> Len(tab.slots[k].text)]
           seqs == [n \in 1 .. m |-> Sep(i + n - 1) \o tab.slots[i + n - 1].text]
<1>8. \A k \in i .. j : tab.slots[k].text \in Seq(Byte)
  BY <1>5, ConcatReads DEF Slot
<1>9. \A k \in i .. j : lens[k] = Len(tab.slots[k].text) /\ lens[k] \in Nat
  <2>1. \A k \in i .. j : Len(tab.slots[k].text) \in Nat
    BY <1>8, LenProperties
  <2> QED
    BY <1>5, <2>1
<1>10. ASSUME NEW n \in 1 .. m
       PROVE  /\ seqs[n] \in Seq(Byte)
              /\ Len(seqs[n]) = (IF n > 1 THEN w ELSE 0) + lens[i + n - 1]
  <2>1. PICK k \in i .. j : k = i + n - 1 /\ (k > i <=> n > 1)
    BY <1>6
  <2>2. Sep(k) = IF n > 1 THEN asked.sep ELSE <<>>
    BY <1>4, <2>1 DEF Sep
  <2>3. Sep(k) \in Seq(Byte) /\ Len(Sep(k)) = IF n > 1 THEN w ELSE 0
    BY <1>2, <1>3, <2>2, EmptySeq
  <2>4. PICK a, b : a = Sep(k) /\ b = tab.slots[k].text
    OBVIOUS
  <2>5. a \o b \in Seq(Byte) /\ Len(a \o b) = Len(a) + Len(b)
    <3>1. a \in Seq(Byte) /\ b \in Seq(Byte)
      BY <1>8, <2>3, <2>4
    <3> HIDE DEF Byte
    <3> QED
      BY <3>1, ConcatProperties
  <2>6. seqs[n] = a \o b
    BY <2>1, <2>4
  <2>7. Len(b) = lens[i + n - 1]
    BY <1>9, <2>1, <2>4
  <2> HIDE DEF seqs, lens
  <2> QED
    BY <2>3, <2>4, <2>5, <2>6, <2>7, Zenon
<1>11. seqs \in Seq(Seq(Byte)) /\ Len(seqs) = m
  <2>1. seqs \in [1 .. m -> Seq(Byte)]
    BY <1>10
  <2> HIDE DEF seqs, Byte
  <2> QED
    BY <2>1, IsASeq, LenProperties
<1>12. ConcatBytes = FlattenSeq(seqs)
  BY <1>4, <1>7, Zenon DEF ConcatBytes
<1> HIDE DEF seqs, lens
<1>13. Len(FlattenSeq(seqs)) = SumFunctionOnSet(lens, i .. i + m - 1) + w * (m - 1)
  <2>1. \A k \in i .. i + m - 1 : lens[k] \in Nat
    BY <1>6, <1>9
  <2>2. Separated(m, i, w, lens, seqs)
    BY <1>10, <1>11, <2>1 DEF Separated
  <2> QED
    BY <2>2, FlattenLength
<1>14. work.total = SumFunctionOnSet(lens, Reads) + w * (j - i)
  BY <1>1, <1>3, <1>4, Zenon DEF ConcatInv, lens
<1>15. i .. i + m - 1 = Reads
  BY <1>5, <1>6
<1> QED
  BY <1>6, <1>12, <1>13, <1>14, <1>15, Zenon

\* table.concat reads written slots of the array part only, whatever its arguments
\* did to a list of any length, and the bytes of its two passes agree.
THEOREM ConcatAlwaysInBounds == Spec => []ConcatInBounds
<1>1. StringsInv => ConcatInBounds
  BY ConcatReads, ConcatCounted DEF ConcatInBounds
<1> QED
  BY <1>1, StringsInvariant, PTL

\* Every step of a call brings it nearer to its end, if no gmatch of the program
\* has an empty pattern: one with an empty pattern never ends.
THEOREM CallsGetNearer ==
    ASSUME \A c \in Calls : c.op = "gmatch" => c.text # <<>>
    PROVE  Spec => GetsNearer
<1>1. ASSUME StringsInv, [Next]_vars
      PROVE  [asked # NoCall /\ asked' # NoCall => Left' < Left /\ Left' >= 0]_vars
  <2>1. SUFFICES ASSUME Next, asked # NoCall, asked' # NoCall
                 PROVE  Left' < Left /\ Left' >= 0
    BY <1>1
  <2>2. ~Begin /\ ~Use
    BY <2>1 DEF Begin, Use
  <2>3. CASE Find \/ Match \/ StringSub \/ StringByte \/ StringChar \/ StringRep
               \/ StringReverse \/ StringUpper \/ StringFormat \/ GsubEnd \/ ConcatCopy
    BY <2>1, <2>3, AtOnce
  <2>4. CASE GsubReplace
    BY <1>1, <2>4, GsubStep
  <2>5. CASE GmatchCall
    <3>1. asked \in Calls /\ asked.op = "gmatch"
      BY <1>1, <2>1, <2>5 DEF GmatchCall, Builtin, StringsInv
    <3> QED
      BY <1>1, <2>5, <3>1, GmatchCallStep
  <2>6. CASE GmatchBody
    BY <1>1, <2>6, GmatchBodyStep
  <2>7. CASE GmatchEnd \/ DecodeEnd
    BY <1>1, <2>1, <2>7, LoopEnds
  <2>8. CASE Encode
    BY <1>1, <2>8, EncodeStep
  <2>9. CASE Encoded
    BY <1>1, <2>9, EncodedStep
  <2>10. CASE Decode
    BY <1>1, <2>10, DecodeStep
  <2>11. CASE ConcatI \/ ConcatJ \/ ConcatLengths
    BY <1>1, <2>1, <2>11, ConcatStep
  <2> QED
    BY <2>1, <2>2, <2>3, <2>4, <2>5, <2>6, <2>7, <2>8, <2>9, <2>10, <2>11 DEF Next, Work
<1> QED
  BY <1>1, StringsInvariant, PTL DEF Spec, GetsNearer
=============================================================================
