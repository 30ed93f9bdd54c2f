------------------------- MODULE ExpressionsProofs -------------------------
(***************************************************************************)
(* TypeOK of Expressions for every chunk, every width and every run.       *)
(*                                                                         *)
(* An expression in postfix form is a forest at every moment of its        *)
(* evaluation: the nodes whose values are on the stack are the roots of    *)
(* the trees that end in front of the next node.  What lowering decides    *)
(* about a chunk (Sound) is proved once, from its passes; the machine      *)
(* keeps its registers and slots in line with it.                          *)
(***************************************************************************)
EXTENDS Expressions, NatLemmas, SequenceTheorems

-----------------------------------------------------------------------------
(* Expressions as trees.                                                   *)

\* The first of the nodes that node i is made of; a test belongs to the left
\* operand in front of it.
First(e, i) == IF e[i].op = "test" THEN i - e[i - 1].size ELSE i - e[i].size + 1

\* Where the operands of a node are, and where it begins.
LEMMA Shape ==
    ASSUME NEW e, Len(e) \in Nat, Postfix(e), NEW i \in 1 .. Len(e)
    PROVE  /\ First(e, i) \in Int
           /\ e[i].op \in Leaf => First(e, i) = i
           /\ e[i].op \in {"un", "test"} =>
                i > 1 /\ e[i - 1].op # "test" /\ First(e, i) = First(e, i - 1)
           /\ e[i].op = "bin" =>
                /\ Left(e, i) \in 1 .. i - 2 /\ e[Left(e, i)].op # "test" /\ e[i - 1].op # "test"
                /\ First(e, i) = First(e, Left(e, i)) /\ First(e, i - 1) = Left(e, i) + 1
           /\ e[i].op = "logic" =>
                /\ Left(e, i) \in 1 .. i - 3 /\ e[Left(e, i)].op # "test" /\ e[i - 1].op # "test"
                /\ e[Left(e, i) + 1].op = "test" /\ First(e, Left(e, i) + 1) = First(e, Left(e, i))
                /\ First(e, i) = First(e, Left(e, i)) /\ First(e, i - 1) = Left(e, i) + 2
<1>1. \A j \in 1 .. Len(e) : e[j].size \in Nat /\ (e[j].op # "test" => e[j].size > 0)
  BY DEF Postfix
<1>2. e[i].op \notin Leaf => i > 1 /\ i - 1 \in 1 .. Len(e) /\ e[i - 1].op # "test"
  BY DEF Postfix
<1>3. First(e, i) \in Int
  <2>1. e[i].op = "test" => e[i].op \notin Leaf
    BY DEF Leaf
  <2> QED
    BY <1>1, <1>2, <2>1 DEF First
<1>4. e[i].op \in Leaf => First(e, i) = i
  BY DEF First, Leaf, Postfix
<1>5. e[i].op \in {"un", "test"} => i > 1 /\ e[i - 1].op # "test" /\ First(e, i) = First(e, i - 1)
  <2>1. e[i].op \in {"un", "test"} => e[i].op \notin Leaf
    BY DEF Leaf
  <2>2. e[i].op = "un" => e[i].size = e[i - 1].size + 1
    BY DEF Postfix
  <2>3. SUFFICES ASSUME e[i].op \in {"un", "test"} PROVE First(e, i) = First(e, i - 1)
    BY <1>2, <2>1
  <2>4. e[i - 1].size \in Nat /\ e[i - 1].op # "test"
    BY <1>1, <1>2, <2>1, <2>3
  <2>5. First(e, i) = i - e[i - 1].size
    <3>1. CASE e[i].op = "test"
      BY <3>1 DEF First
    <3>2. CASE e[i].op = "un"
      <4>1. First(e, i) = i - (e[i - 1].size + 1) + 1
        BY <2>2, <3>2 DEF First
      <4> QED
        BY <2>4, <4>1
    <3> QED
      BY <2>3, <3>1, <3>2
  <2>6. First(e, i - 1) = (i - 1) - e[i - 1].size + 1
    BY <2>4 DEF First
  <2> QED
    BY <2>4, <2>5, <2>6
<1>6. ASSUME e[i].op \in {"bin", "logic"}
      PROVE  /\ i > 1 /\ e[i - 1].op # "test" /\ e[i - 1].size \in Nat \ {0}
             /\ Left(e, i) \in 1 .. i - 2 /\ e[Left(e, i)].op # "test"
             /\ First(e, i) = First(e, Left(e, i))
             /\ First(e, i - 1) = i - e[i - 1].size
  <2>1. e[i].op \notin Leaf
    BY <1>6 DEF Leaf
  <2>2. Left(e, i) \in 1 .. i - 2
    <3>1. Left(e, i) > 0
      BY <1>6 DEF Postfix
    <3>2. i > 1 /\ e[i - 1].op # "test"
      BY <2>1 DEF Postfix
    <3>3. PICK m \in Nat : m = e[i - 1].size /\ m > 0
      BY <1>1, <3>2
    <3>4. Left(e, i) = i - 1 - m - (IF e[i].op = "logic" THEN 1 ELSE 0)
      BY <3>3 DEF Left
    <3>5. Left(e, i) \in Int /\ Left(e, i) <= i - 1 - m
      BY <3>3, <3>4
    <3> QED
      BY <3>1, <3>3, <3>5
  <2>3. /\ e[Left(e, i)].op # "test"
        /\ e[i].size = i - Left(e, i) + e[Left(e, i)].size
    BY <1>6 DEF Postfix
  <2>4. e[Left(e, i)].size \in Nat
    BY <1>1, <2>2
  <2>5. First(e, i) = First(e, Left(e, i))
    <3>1. First(e, Left(e, i)) = Left(e, i) - e[Left(e, i)].size + 1
      BY <2>3 DEF First
    <3>2. First(e, i) = i - e[i].size + 1
      BY <1>6 DEF First
    <3> QED
      BY <2>2, <2>3, <2>4, <3>1, <3>2
  <2> QED
    BY <1>1, <1>2, <2>1, <2>2, <2>3, <2>5 DEF First
<1>7. ASSUME e[i].op = "logic"
      PROVE  /\ e[Left(e, i) + 1].op = "test"
             /\ Left(e, i) \in 1 .. i - 3
             /\ First(e, Left(e, i) + 1) = First(e, Left(e, i))
  <2>1. e[Left(e, i) + 1].op = "test"
    BY <1>7 DEF Postfix
  <2>2. Left(e, i) \in 1 .. i - 3
    BY <1>6, <1>7 DEF Left
  <2>3. PICK l \in 1 .. i - 3 : l = Left(e, i)
    BY <2>2
  <2>4. First(e, l + 1) = First(e, l)
    <3>1. e[l].op # "test" /\ e[l].size \in Nat
      BY <1>1, <1>6, <1>7, <2>3
    <3>2. First(e, l + 1) = l + 1 - e[l].size
      <4>2. PICK m \in Int : m = l + 1
        OBVIOUS
      <4>3. e[m].op = "test"
        BY <2>1, <2>3, <4>2
      <4>4. First(e, m) = m - e[m - 1].size
        BY <4>3 DEF First
      <4>5. m - 1 = l
        BY <4>2
      <4>6. First(e, m) = m - e[l].size
        BY <4>4, <4>5
      <4> QED
        BY <3>1, <4>2, <4>6
    <3>3. First(e, l) = l - e[l].size + 1
      BY <3>1 DEF First
    <3> QED
      BY <3>1, <3>2, <3>3
  <2> QED
    BY <2>1, <2>2, <2>3, <2>4
<1>8. e[i].op = "bin" => First(e, i - 1) = Left(e, i) + 1
  BY <1>6 DEF Left
<1>9. ASSUME e[i].op = "logic" PROVE First(e, i - 1) = Left(e, i) + 2
  <2>1. PICK m \in Nat : m = e[i - 1].size
    BY <1>6, <1>9
  <2>2. Left(e, i) = i - 1 - m - 1
    BY <1>9, <2>1 DEF Left
  <2>3. First(e, i - 1) = i - m
    BY <1>6, <1>9, <2>1
  <2> QED
    BY <2>1, <2>2, <2>3
<1> QED
  BY <1>3, <1>4, <1>5, <1>6, <1>7, <1>8, <1>9

\* The tree of a node reaches back to its first node and lies within the tree
\* of every node it is part of.
LEMMA Nested ==
    ASSUME NEW e, Len(e) \in Nat, Postfix(e), NEW i \in 1 .. Len(e)
    PROVE  /\ First(e, i) \in 1 .. i
           /\ \A j \in First(e, i) .. i : First(e, i) <= First(e, j)
<1> DEFINE Good(k) == First(e, k) \in 1 .. k /\ \A j \in First(e, k) .. k : First(e, k) <= First(e, j)
           bad == {k \in 1 .. Len(e) : ~Good(k)}
<1>1. SUFFICES ASSUME i \in bad PROVE FALSE
  OBVIOUS
<1>2. bad \in SUBSET Nat
  OBVIOUS
<1>3. PICK k \in bad : \A m \in bad : k <= m
  BY <1>1, <1>2, LeastNat
<1>4. k \in 1 .. Len(e) /\ ~Good(k)
  OBVIOUS
<1>5. \A m \in 1 .. k - 1 : Good(m)
  BY <1>3, <1>4
<1> HIDE DEF bad
<1>6. First(e, k) \in Int /\ \A m \in 1 .. Len(e) : First(e, m) \in Int
  BY <1>4, Shape
<1>7. CASE e[k].op \in Leaf
  <2>1. First(e, k) = k
    BY <1>4, <1>7, Shape
  <2> QED
    BY <1>4, <2>1
<1>8. CASE e[k].op \in {"un", "test"}
  <2>1. k > 1 /\ First(e, k) = First(e, k - 1)
    BY <1>4, <1>8, Shape
  <2>2. k - 1 \in 1 .. k - 1 /\ Good(k - 1)
    BY <1>4, <1>5, <2>1
  <2>3. \A j \in First(e, k) .. k : j \in First(e, k - 1) .. k - 1 \/ j = k
    BY <1>4, <1>6, <2>1
  <2> QED
    BY <1>4, <1>6, <2>1, <2>2, <2>3
<1>9. CASE e[k].op = "bin"
  <2>1. PICK l \in 1 .. k - 2 : l = Left(e, k)
    BY <1>4, <1>9, Shape
  <2>2. First(e, k) = First(e, l) /\ First(e, k - 1) = l + 1
    BY <1>4, <1>9, <2>1, Shape
  <2>3. Good(l) /\ Good(k - 1) /\ First(e, l) \in Int
    BY <1>4, <1>5, <1>6, <2>1
  <2>4. \A j \in First(e, k) .. k : j \in First(e, l) .. l \/ j \in First(e, k - 1) .. k - 1 \/ j = k
    BY <1>4, <1>6, <2>1, <2>2, <2>3
  <2>5. \A j \in First(e, k - 1) .. k - 1 : j \in 1 .. Len(e) /\ l + 1 <= First(e, j) /\ First(e, j) \in Int
    BY <1>4, <1>6, <2>1, <2>2, <2>3
  <2> QED
    BY <1>4, <1>6, <2>1, <2>2, <2>3, <2>4, <2>5
<1>10. CASE e[k].op = "logic"
  <2>1. PICK l \in 1 .. k - 3 : l = Left(e, k)
    BY <1>4, <1>10, Shape
  <2>2. First(e, k) = First(e, l) /\ First(e, l + 1) = First(e, l) /\ First(e, k - 1) = l + 2
    BY <1>4, <1>10, <2>1, Shape
  <2>3. Good(l + 1) /\ Good(l) /\ Good(k - 1) /\ First(e, l) \in Int
    <3>1. l + 1 \in 1 .. k - 1 /\ l \in 1 .. k - 1 /\ k - 1 \in 1 .. k - 1
      BY <1>4, <2>1
    <3>2. Good(l + 1) /\ Good(l) /\ Good(k - 1)
      BY <1>5, <3>1
    <3> QED
      BY <2>1, <3>2
  <2>4. \A j \in First(e, k) .. k : j \in First(e, l + 1) .. l + 1 \/ j \in First(e, k - 1) .. k - 1 \/ j = k
    BY <1>4, <1>6, <2>1, <2>2, <2>3
  <2>5. \A j \in First(e, k - 1) .. k - 1 : j \in 1 .. Len(e) /\ l + 2 <= First(e, j) /\ First(e, j) \in Int
    BY <1>4, <1>6, <2>1, <2>2, <2>3
  <2> QED
    BY <1>4, <1>6, <2>1, <2>2, <2>3, <2>4, <2>5
<1> QED
  BY <1>4, <1>7, <1>8, <1>9, <1>10 DEF Postfix

-----------------------------------------------------------------------------
(* The values on the stack.                                                *)

\* The roots of the forest in front of node n, but for tests, which leave no
\* value.
Open(e, n) == {i \in 1 .. n - 1 : e[i].op # "test" /\ \A j \in i + 1 .. n - 1 : First(e, j) > i}

\* They are the nodes whose values no operator has taken yet.
LEMMA UntakenAreOpen ==
    ASSUME NEW e, Len(e) \in Nat, Postfix(e), NEW n \in 1 .. Len(e) + 1
    PROVE  {i \in 1 .. n - 1 : e[i].op # "test" /\ ~\E j \in i + 1 .. n - 1 : i \in Operands(e, j)} = Open(e, n)
<1>1. ASSUME NEW j \in 1 .. Len(e), NEW i \in Operands(e, j), i \in Int PROVE First(e, j) <= i
  <2>1. CASE e[j].op \in {"un", "test"}
    <3>1. i = j - 1 /\ j > 1 /\ First(e, j) = First(e, i)
      BY <1>1, <2>1, Shape DEF Operands
    <3>2. i \in 1 .. Len(e)
      BY <3>1
    <3> QED
      BY <3>1, <3>2, Nested
  <2>2. CASE e[j].op \in {"bin", "logic"}
    <3>1. Left(e, j) \in 1 .. j - 2 /\ First(e, j) = First(e, Left(e, j))
      BY <2>2, Shape
    <3>2. PICK l \in 1 .. j - 2 : l = Left(e, j)
      BY <3>1
    <3>3. First(e, l) \in 1 .. l
      BY <3>2, Nested
    <3>4. i \in {l, j - 1}
      BY <1>1, <2>2, <3>2 DEF Operands
    <3> QED
      BY <3>1, <3>2, <3>3, <3>4
  <2>3. CASE e[j].op \in Leaf
    BY <1>1, <2>3 DEF Operands, Leaf
  <2> QED
    BY <2>1, <2>2, <2>3 DEF Postfix
<1>2. ASSUME NEW i \in 1 .. n - 1, e[i].op # "test", NEW k \in i + 1 .. n - 1, First(e, k) <= i
      PROVE  \E j \in i + 1 .. n - 1 : i \in Operands(e, j)
  <2> DEFINE over == {j \in i + 1 .. n - 1 : First(e, j) <= i}
  <2>1. over \in SUBSET Nat /\ k \in over
    BY <1>2
  <2>2. PICK j \in over : \A m \in over : j <= m
    BY <2>1, LeastNat
  <2>3. j \in i + 1 .. n - 1 /\ First(e, j) <= i /\ j \in 1 .. Len(e)
    BY <1>2
  <2>4. \A m \in i + 1 .. j - 1 : ~(First(e, m) <= i)
    BY <2>2, <2>3
  <2> HIDE DEF over
  <2>5. \A m \in 1 .. Len(e) : First(e, m) \in 1 .. m
    BY Nested
  <2>6. CASE e[j].op \in Leaf
    BY <2>3, <2>6, Shape
  <2>7. CASE e[j].op \in {"un", "test"}
    <3>1. First(e, j) = First(e, j - 1)
      BY <2>3, <2>7, Shape
    <3>2. j - 1 = i
      BY <2>3, <2>4, <3>1
    <3> QED
      BY <2>3, <2>7, <3>2 DEF Operands
  <2>8. CASE e[j].op \in {"bin", "logic"}
    <3>1. PICK l \in 1 .. j - 2 : l = Left(e, j)
      BY <2>3, <2>8, Shape
    <3>2. Operands(e, j) = {l, j - 1}
      BY <2>8, <3>1 DEF Operands
    <3>3. First(e, j) = First(e, l)
      BY <2>3, <2>8, <3>1, Shape
    <3>4. ~(i < l)
      BY <2>3, <2>4, <3>1, <3>3
    <3>5. e[j].op = "bin" => First(e, j - 1) = l + 1
      BY <2>3, <3>1, Shape
    <3>6. e[j].op = "logic" => First(e, j - 1) = l + 2 /\ e[l + 1].op = "test"
      BY <2>3, <3>1, Shape
    <3>7. i > l /\ i # j - 1 => i < First(e, j - 1)
      BY <2>3, <2>4, <2>5
    <3>8. i > l => i = j - 1
      BY <1>2, <2>3, <2>8, <3>1, <3>5, <3>6, <3>7
    <3> QED
      BY <2>3, <3>1, <3>2, <3>4, <3>8
  <2> QED
    BY <2>3, <2>6, <2>7, <2>8 DEF Postfix
<1>3. \A j \in 1 .. Len(e) : First(e, j) \in Int
  BY Shape
<1>4. ASSUME NEW i \in 1 .. n - 1, e[i].op # "test"
      PROVE  (\E j \in i + 1 .. n - 1 : i \in Operands(e, j)) <=> ~\A j \in i + 1 .. n - 1 : First(e, j) > i
  <2>1. \A j \in i + 1 .. n - 1 : j \in 1 .. Len(e) /\ First(e, j) \in Int
    BY <1>3
  <2> QED
    BY <1>1, <1>2, <1>4, <2>1
<1> QED
  BY <1>4 DEF Open

\* What is open behind node i: what was open in front of it, and i.
LEMMA OpenBehind ==
    ASSUME NEW e, Len(e) \in Nat, Postfix(e), NEW i \in 1 .. Len(e)
    PROVE  Open(e, i + 1) = Open(e, First(e, i)) \cup (IF e[i].op = "test" THEN {} ELSE {i})
<1>1. First(e, i) \in 1 .. i /\ \A j \in First(e, i) .. i : First(e, i) <= First(e, j)
  BY Nested
<1>2. PICK f \in 1 .. i : f = First(e, i)
  BY <1>1
<1>3. \A j \in 1 .. Len(e) : First(e, j) \in Int
  BY Shape
<1>4. \A j \in f .. i : f <= First(e, j) /\ First(e, j) \in Int
  BY <1>1, <1>2, <1>3
<1>5. ASSUME NEW k \in 1 .. f - 1
      PROVE  (\A j \in k + 1 .. i : First(e, j) > k) <=> (\A j \in k + 1 .. f - 1 : First(e, j) > k)
  <2>1. \A j \in k + 1 .. i : j \in k + 1 .. f - 1 \/ j \in f .. i
    OBVIOUS
  <2> QED
    BY <1>4, <2>1
<1>6. \A k \in f .. i - 1 : ~\A j \in k + 1 .. i : First(e, j) > k
  BY <1>2
<1> DEFINE Free(k, m) == \A j \in k + 1 .. m : First(e, j) > k
<1>8. ASSUME NEW k, k \in 1 .. i PROVE k \in Open(e, i + 1) <=> e[k].op # "test" /\ Free(k, i)
  <2>1. (i + 1) - 1 = i
    OBVIOUS
  <2> QED
    BY <1>8, <2>1, Zenon DEF Open
<1>7. ASSUME NEW k PROVE k \in Open(e, i + 1) <=> k \in Open(e, f) \/ (k = i /\ e[i].op # "test")
  <2>1. CASE k \in 1 .. f - 1
    <3>1. k \in Open(e, f) <=> e[k].op # "test" /\ Free(k, f - 1)
      BY <2>1, Zenon DEF Open
    <3>2. k \in 1 .. i /\ k # i
      BY <2>1
    <3> QED
      BY <1>5, <1>8, <2>1, <3>1, <3>2, Zenon
  <2>2. CASE k \in f .. i - 1
    BY <1>6, <2>2 DEF Open
  <2>3. CASE k = i
    BY <2>3 DEF Open
  <2>4. CASE k \notin 1 .. i
    BY <2>4 DEF Open
  <2> QED
    BY <2>1, <2>2, <2>3, <2>4
<1> HIDE DEF Open
<1> QED
  BY <1>2, <1>7

LEMMA OpenBehindTest ==
    ASSUME NEW e, Len(e) \in Nat, Postfix(e), NEW i \in 1 .. Len(e), e[i].op = "test"
    PROVE  Open(e, i + 1) = Open(e, First(e, i))
<1>1. PICK S : S = Open(e, First(e, i))
  OBVIOUS
<1>2. Open(e, i + 1) = S \cup (IF e[i].op = "test" THEN {} ELSE {i})
  BY <1>1, OpenBehind
<1> QED
  BY <1>1, <1>2

LEMMA OpenInFront ==
    ASSUME NEW e, Len(e) \in Nat, Postfix(e), NEW i \in 1 .. Len(e)
    PROVE  Open(e, First(e, i)) \in SUBSET (1 .. i - 1)
<1>1. PICK f \in 1 .. i : f = First(e, i)
  BY Nested
<1>2. ASSUME NEW k \in Open(e, f) PROVE k \in 1 .. i - 1
  <2>1. k \in 1 .. f - 1
    BY Zenon DEF Open
  <2> QED
    BY <2>1
<1> QED
  BY <1>1, <1>2

\* The value of i goes to one operator.
LEMMA OneTaker ==
    ASSUME NEW e, Len(e) \in Nat, Postfix(e), NEW i \in 1 .. Len(e), i + 1 \in 1 .. Len(e), i \in Operands(e, i + 1)
    PROVE  \A k \in 1 .. Len(e) : e[k].op = "bin" => Left(e, k) # i
<1>1. SUFFICES ASSUME NEW k \in 1 .. Len(e), e[k].op = "bin", Left(e, k) = i PROVE FALSE
  OBVIOUS
<1>2. i \in 1 .. k - 2 /\ First(e, k - 1) = i + 1
  BY <1>1, Shape
<1>3. First(e, i + 1) >= i + 1
  <2>1. k - 1 \in 1 .. Len(e) /\ i + 1 \in i + 1 .. k - 1
    BY <1>2
  <2>2. \A j \in i + 1 .. k - 1 : i + 1 <= First(e, j)
    BY <1>2, <2>1, Nested
  <2> QED
    BY <2>1, <2>2, Shape
<1>4. First(e, i + 1) <= i
  <2>1. PICK m \in 1 .. Len(e) : m = i + 1
    OBVIOUS
  <2>2. e[m].op \notin Leaf
    BY <2>1 DEF Operands, Leaf
  <2>3. CASE e[m].op \in {"un", "test"}
    <3>1. First(e, m) = First(e, m - 1) /\ m - 1 \in 1 .. Len(e)
      BY <2>3, Shape
    <3>2. First(e, m - 1) \in 1 .. m - 1
      BY <3>1, Nested
    <3> QED
      BY <2>1, <3>1, <3>2
  <2>4. CASE e[m].op \in {"bin", "logic"}
    <3>1. First(e, m) = First(e, Left(e, m)) /\ Left(e, m) \in 1 .. m - 2
      BY <2>4, Shape
    <3>2. First(e, Left(e, m)) \in 1 .. Left(e, m)
      BY <3>1, Nested
    <3> QED
      BY <2>1, <3>1, <3>2
  <2> QED
    BY <2>2, <2>3, <2>4 DEF Postfix
<1> QED
  BY <1>3, <1>4, Shape

\* The machine enters a constant subtree at its first node.
AtFirst(e, const, n) ==
    \A i \in 1 .. Len(e) : const[i] # None /\ n \in Under(e, i) => First(e, i) = n

\* It still does when it goes on behind a subtree that no constant one contains.
LEMMA AtFirstBehind ==
    ASSUME NEW e, Len(e) \in Nat, Postfix(e), NEW const, NEW n \in 1 .. Len(e), NEW i \in n .. Len(e),
           First(e, i) <= n,
           \A r \in n .. Len(e) : const[r] # None /\ n \in Under(e, r) => r <= i,
           \A r \in 1 .. Len(e) : const[r] # None => e[r].op # "test"
    PROVE  AtFirst(e, const, i + 1)
<1>1. SUFFICES ASSUME NEW r \in 1 .. Len(e), const[r] # None, i + 1 \in Under(e, r), First(e, r) # i + 1
               PROVE  FALSE
  BY DEF AtFirst
<1>2. Under(e, r) = First(e, r) .. r
  BY <1>1 DEF Under, First
<1>3. First(e, r) \in 1 .. r /\ \A j \in First(e, r) .. r : First(e, r) <= First(e, j)
  BY Nested
<1>4. First(e, r) <= i /\ i + 1 <= r
  BY <1>1, <1>2, <1>3
<1>5. First(e, r) <= First(e, i) /\ First(e, i) \in Int
  BY <1>3, <1>4, Shape
<1>6. n \in Under(e, r) /\ r \in n .. Len(e)
  BY <1>2, <1>3, <1>4, <1>5
<1> QED
  BY <1>1, <1>4, <1>6

-----------------------------------------------------------------------------
(* Places on the stack.                                                    *)

Depth(S, i) == Cardinality({j \in S : j <= i})

\* The place of a node does not change when a later one is put on top.
LEMMA DepthPush ==
    ASSUME NEW m \in Nat, NEW S \in SUBSET (1 .. m - 1)
    PROVE  /\ Cardinality(S) \in Nat /\ Cardinality(S \cup {m}) = Cardinality(S) + 1
           /\ Depth(S \cup {m}, m) = Cardinality(S) + 1
           /\ \A i \in S : Depth(S \cup {m}, i) = Depth(S, i) /\ Depth(S, i) \in 1 .. Cardinality(S)
<1>1. IsFiniteSet(S) /\ Cardinality(S) \in Nat
  <2>1. IsFiniteSet(1 .. m - 1)
    BY FS_Interval
  <2> QED
    BY <2>1, FS_Subset, FS_CardinalityType
<1>2. m \notin S
  OBVIOUS
<1>3. Cardinality(S \cup {m}) = Cardinality(S) + 1
  BY <1>1, <1>2, FS_AddElement
<1>4. {j \in S \cup {m} : j <= m} = S \cup {m}
  <2>1. \A j \in S \cup {m} : j <= m
    OBVIOUS
  <2> QED
    BY <2>1, Zenon
<1>5. ASSUME NEW i \in S PROVE Depth(S \cup {m}, i) = Depth(S, i) /\ Depth(S, i) \in 1 .. Cardinality(S)
  <2>1. {j \in S \cup {m} : j <= i} = {j \in S : j <= i}
    OBVIOUS
  <2> DEFINE T == {j \in S : j <= i}
  <2>2. i \in T /\ T \subseteq S
    OBVIOUS
  <2>3. IsFiniteSet(T) /\ Cardinality(T) \in Nat /\ Cardinality(T) <= Cardinality(S)
    BY <1>1, <2>2, FS_Subset, FS_CardinalityType
  <2>4. Cardinality(T) # 0
    BY <2>2, <2>3, FS_EmptySet
  <2> QED
    BY <1>1, <2>1, <2>3, <2>4 DEF Depth
<1> QED
  BY <1>1, <1>3, <1>4, <1>5 DEF Depth

-----------------------------------------------------------------------------
(* What lowering leaves to the machine.                                    *)

\* Node i is an operand of an arithmetic operator; it is one whose tag is not
\* looked at before its operator, or statement, takes it.
Wanted(st, i) ==
    \E k \in i + 1 .. Len(st.e) :
       st.e[k].op \in {"bin", "un"} /\ i \in Operands(st.e, k) /\ st.e[k].o \in Arith \cup Bitwise
AsIs(st, i) ==
    \/ \E k \in i + 1 .. Len(st.e) :
          /\ st.e[k].op \in {"bin", "un"} /\ i \in Operands(st.e, k)
          /\ \/ st.e[k].o = ".."
             \/ /\ st.e[k].o \in Equality
                /\ \A j \in Operands(st.e, k) : st.kinds[j] = "Tagged" => st.e[j].op = "var"
    \/ Len(st.e) = 1 /\ st.k \in {"assign", "print", "if"}

\* Node i of statement st may evaluate to v.  No operator but a read of a
\* local yields a TaggedValue that is not a number.
Yields(st, i, v) ==
    /\ Fits(v, st.kinds[i])
    /\ st.kinds[i] = "Tagged" /\ st.e[i].op # "var" => Tag(v) = "num"
    /\ i \in st.ints => Integral(v)

\* v is fit to be handed to what takes the value of node i.
Suits(st, i, v) ==
    /\ Fits(v, IF Wanted(st, i) /\ st.kinds[i] # "Table" THEN "Number" ELSE st.kinds[i])
    /\ st.kinds[i] = "Tagged" /\ (st.e[i].op # "var" \/ ~AsIs(st, i)) => Tag(v) = "num"
    /\ i \in st.ints => Integral(v)

SoundOperator(kind, n, l, r) ==
    /\ n.op = "un" =>
         /\ kind = IF n.o = "not" THEN "Bool" ELSE "Number"
         /\ \/ n.o = "not"
            \/ n.o = "#" /\ r \in {"String", "Table"}
            \/ n.o \in {"-", "~"} /\ r \in {"Number", "Table", "Tagged"}
    /\ n.op = "bin" =>
         /\ n.o \in Arith \cup Bitwise \cup Ordering \cup Equality \cup {".."}
         /\ kind = IF n.o = ".." THEN "String" ELSE IF n.o \in Ordering \cup Equality THEN "Bool" ELSE "Number"
         /\ n.o \in Arith \cup Bitwise /\ "Table" \in {l, r} => l = r
    /\ n.op = "logic" => kind = l /\ kind = r

SoundNode(u, st, i) ==
    LET n == st.e[i] IN
    /\ st.kinds[i] \in Kind
    /\ st.const[i] # None => n.op \in {"int", "float", "lit", "bin"} /\ Yields(st, i, st.const[i])
    /\ Wanted(st, i) => st.kinds[i] \notin {"Bool", "Nil"}
    /\ i \in st.ints =>
         /\ st.kinds[i] = "Number"
         /\ \/ st.const[i] # None
            \/ n.op = "var" /\ n.x \in u.slots
            \/ n.op = "bin" /\ n.o \in IntOps /\ Left(st.e, i) \in st.ints /\ i - 1 \in st.ints
    /\ n.op = "var" => n.x \in Var /\ st.kinds[i] = u.kind[n.x] /\ (n.x \in u.slots => i \in st.ints \/ st.k = "print")
    /\ n.op = "call" => n.x \in Fun /\ st.kinds[i] = KindOfTag[Tag(Returns[n.x])]
    /\ n.op = "callee" => st.kinds[i] = "Number"
    /\ SoundOperator(st.kinds[i], n, st.kinds[Left(st.e, i)], st.kinds[i - 1])

SoundStatement(u, st) ==
    /\ st.e \in Seq(Range(st.e)) /\ Postfix(st.e) /\ Len(st.hoists) \in Nat
    /\ \A i \in 1 .. Len(st.e) : SoundNode(u, st, i)
    /\ st.k = "assign" =>
         /\ st.x \in Var /\ Len(st.e) > 0 /\ u.kind[st.x] = st.kinds[Len(st.e)]
         /\ st.x \in u.slots => Len(st.e) \in st.ints

Sound(u) ==
    /\ u.slots \subseteq Var
    /\ \A s \in 1 .. Len(u.code) : SoundStatement(u, u.code[s])

-----------------------------------------------------------------------------
(* The inductive invariant.                                                *)

Laid(st, S, s) ==
    /\ s \in Seq(Range(s)) /\ Len(s) = Cardinality(S)
    /\ \A i \in S : Suits(st, i, s[Depth(S, i)])

Evaluating(st, n, s) ==
    n \in 1 .. Len(st.e) + 1 /\ AtFirst(st.e, st.const, n) /\ Laid(st, Open(st.e, n), s)

Stored(u, values) ==
    /\ DOMAIN values = Var
    /\ \A x \in Var : Fits(values[x], u.kind[x])
    /\ \A x \in u.slots : Integral(values[x])

\* What a print of a local is about to show is the value of the local.
Printing ==
    Running /\ Here.k = "print" /\ Size = 1 /\ Here.e[1].op = "var" /\ pc.n = 2 => Top = store[Here.e[1].x]

IInv ==
    /\ Sound(unit) /\ Stored(unit, store) /\ Printing
    /\ trace \in Seq(Range(trace))
    /\ DOMAIN pc = {"at", "h", "n"}
    /\ Running => Evaluating(Here, pc.n, stack)
    /\ ~Ready => stack = <<>>

-----------------------------------------------------------------------------
(* Values and the results of operators.                                    *)

LEMMA TagsOfKinds ==
    ASSUME NEW v
    PROVE  /\ Fits(v, "Number") <=> Tag(v) = "num"
           /\ Fits(v, "String") <=> Tag(v) = "str"
           /\ Fits(v, "Bool") <=> Tag(v) = "bool"
           /\ Fits(v, "Tagged") <=> Tag(v) \in {"num", "bool", "str", "nil", "table"}
           /\ \A kind \in Kind : Fits(v, kind) => Fits(v, "Tagged")
BY DEF Fits, KindOfTag, Kind

LEMMA TagsOfValues ==
    /\ \A n : Tag(Num(n)) = "num"
    /\ \A b : Tag(Bool(b)) = "bool"
    /\ \A s : Tag(Str(s)) = "str"
    /\ Tag(Trap) = "trap" /\ Tag(Garbage) = "garbage" /\ Tag(None) = "none"
BY DEF Tag, Num, Bool, Str, Trap, Garbage, None

\* Operators on doubles give numbers.
LEMMA FloatsAreNumbers ==
    ASSUME NEW a, NEW b, Tag(a) = "num"
    PROVE  Tag(AddF(a, b)) = "num" /\ Tag(SubF(a, b)) = "num" /\ Tag(ModF(a, b)) = "num" /\ Tag(NegF(a)) = "num"
<1>1. \A p, q : Tag(Frac(p, q)) = "num"
  BY DEF Frac, Tag
<1>2. \A c : Tag(AddF(a, c)) = "num"
  <2>1. \A p, q, c : Tag(AddF(a, c)) = "num"
    BY <1>1 DEF AddF
  <2> QED
    BY <2>1
<1>3. Tag(NegF(a)) = "num"
  BY DEF NegF, Tag
<1> QED
  BY <1>2, <1>3 DEF SubF, ModF

LEMMA ProductsAreNumbers ==
    ASSUME NEW a, NEW b
    PROVE  Tag(MulF(a, b)) = "num" /\ Tag(DivF(a, b)) = "num" /\ Tag(FloorF(DivF(a, b))) = "num"
<1>1. \A p, q : Tag(Frac(p, q)) = "num"
  BY DEF Frac, Tag
<1>2. Tag(DivF(a, b)) = "num" /\ Tag(MulF(a, b)) = "num"
  BY <1>1 DEF DivF, MulF
<1>3. \A c : Tag(c) = "num" => Tag(FloorF(c)) = "num"
  BY TagsOfValues DEF FloorF
<1> QED
  BY <1>2, <1>3

\* emit_binop: a number out of every arithmetic operator that does not stop,
\* a Bool out of every comparison.
LEMMA BinopTags ==
    ASSUME NEW a, NEW b, NEW op
    PROVE  /\ op \in Arith \cup Bitwise /\ Tag(a) = "num" => BinopF(op, a, b) = Trap \/ Tag(BinopF(op, a, b)) = "num"
           /\ op \in Ordering \cup Equality => Tag(BinopF(op, a, b)) = "bool"
<1>1. Tag(BitwiseF(op, a, b)) = "num" \/ BitwiseF(op, a, b) = Trap
  BY TagsOfValues DEF BitwiseF
<1>2. ASSUME op \in Ordering \cup Equality PROVE BinopF(op, a, b) = Bool(CompareF(op, a, b))
  BY <1>2 DEF BinopF, Ordering, Equality, Bitwise
<1>3. ASSUME op \in Bitwise PROVE BinopF(op, a, b) = BitwiseF(op, a, b)
  BY <1>3 DEF BinopF, Ordering, Equality, Bitwise
<1>4. ASSUME op \in Arith
      PROVE  BinopF(op, a, b) \in {AddF(a, b), SubF(a, b), MulF(a, b), DivF(a, b), ModF(a, b), FloorF(DivF(a, b))}
  BY <1>4 DEF BinopF, Ordering, Equality, Bitwise, Arith
<1> QED
  BY <1>1, <1>2, <1>3, <1>4, FloatsAreNumbers, ProductsAreNumbers, TagsOfValues

LEMMA ConversionTags ==
    ASSUME NEW v
    PROVE  /\ TaggedNumber(v) = Trap \/ Tag(TaggedNumber(v)) = "num"
           /\ Tag(v) = "num" => TaggedNumber(v) = v
<1>1. Tag(v) = "num" => TaggedNumber(v) = v
  BY DEF TaggedNumber
<1>2. ASSUME Tag(v) = "str" PROVE TaggedNumber(v) = Trap \/ Tag(TaggedNumber(v)) = "num"
  <2>1. TaggedNumber(v) = ToNumber(v)
    BY <1>2 DEF TaggedNumber
  <2> QED
    BY <2>1 DEF ToNumber
<1>3. ASSUME Tag(v) \notin {"num", "str"} PROVE TaggedNumber(v) = Trap
  BY <1>3 DEF TaggedNumber
<1> QED
  BY <1>1, <1>2, <1>3

-----------------------------------------------------------------------------
(* Integers of Width bits.                                                 *)

\* Recursion on m .. n that asks for lower places only.
Backward(m, n, G, F) ==
    \A g, h \in G : \A i \in m .. n : (\A j \in m .. i - 1 : g[j] = h[j]) => F[g][i] = F[h][i]

LEMMA BackwardSolved ==
    ASSUME NEW m \in Nat, NEW n \in Nat, NEW V, NEW G \in SUBSET [m .. n -> V], G # {},
           NEW F \in [G -> G], Backward(m, n, G, F)
    PROVE  Solvable(G, F)
<1> DEFINE D == m .. n
           rank == [i \in D |-> i]
<1>1. rank \in [D -> 0 .. n]
  OBVIOUS
<1>2. Local(D, rank, G, F)
  <2> SUFFICES ASSUME NEW g \in G, NEW h \in G, NEW i \in D, \A y \in D : rank[y] < rank[i] => g[y] = h[y]
               PROVE  F[g][i] = F[h][i]
    BY DEF Local
  <2>1. \A j \in m .. i - 1 : g[j] = h[j]
    OBVIOUS
  <2> QED
    BY <2>1 DEF Backward
<1>3. G \in SUBSET [D -> V]
  OBVIOUS
<1> HIDE DEF rank, D
<1> QED
  BY <1>1, <1>2, <1>3, RecursionSolved

LEMMA Powers ==
    \A i \in 0 .. Width : Pow2[i] \in Nat \ {0} /\ (i > 0 => Pow2[i] = 2 * Pow2[i - 1])
<1> DEFINE D == 0 .. Width
           Body(f, i) == IF i = 0 THEN 1 ELSE 2 * f[i - 1]
           All(f) == [i \in D |-> Body(f, i)]
           G == [D -> Nat \ {0}]
           F == [g \in G |-> All(g)]
<1>1. Width \in Nat
  BY WidthAssumption
<1>2. ASSUME NEW g \in G PROVE All(g) \in G
  <2>1. \A i \in D : Body(g, i) \in Nat \ {0}
    <3>1. \A i \in D : i # 0 => i - 1 \in D
      BY <1>1
    <3>2. \A i \in D : i # 0 => g[i - 1] \in Nat \ {0}
      BY <3>1
    <3> QED
      BY <3>2
  <2> QED
    BY <2>1
<1>3. F \in [G -> G]
  BY <1>2
<1>4. Backward(0, Width, G, F)
  <2> SUFFICES ASSUME NEW g \in G, NEW h \in G, NEW i \in D, \A j \in 0 .. i - 1 : g[j] = h[j]
               PROVE  F[g][i] = F[h][i]
    BY DEF Backward
  <2>1. i # 0 => i - 1 \in 0 .. i - 1
    OBVIOUS
  <2>2. Body(g, i) = Body(h, i)
    BY <2>1
  <2>3. F[g] = All(g) /\ F[h] = All(h)
    OBVIOUS
  <2> QED
    BY <2>2, <2>3
<1>5. G # {}
  <2>1. [i \in D |-> 1] \in G
    OBVIOUS
  <2> QED
    BY <2>1
<1>6. PICK g \in G : g = F[g]
  <2>1. G \in SUBSET [0 .. Width -> Nat \ {0}]
    OBVIOUS
  <2> HIDE DEF F, G
  <2>2. Solvable(G, F)
    BY <1>1, <1>3, <1>4, <1>5, <2>1, BackwardSolved
  <2> QED
    BY <2>2 DEF Solvable
<1>7. g = All(g)
  BY <1>6
<1>8. Pow2 = CHOOSE f : f = All(f)
  BY DEF Pow2
<1>9. Pow2 = All(Pow2)
  <2> HIDE DEF All
  <2> QED
    BY <1>7, <1>8
<1>10. \A i \in D : Pow2[i] = Body(Pow2, i)
  <2> HIDE DEF Body
  <2> QED
    BY <1>9
<1> DEFINE bad == {i \in D : Pow2[i] \notin Nat \ {0}}
<1>11. bad = {}
  <2>1. SUFFICES ASSUME bad # {} PROVE FALSE
    OBVIOUS
  <2>2. bad \in SUBSET Nat
    BY <1>1
  <2>4. PICK i \in bad : \A j \in bad : i <= j
    BY <2>1, <2>2, LeastNat
  <2>3. i = 0 \/ (i - 1 \in D /\ i - 1 \notin bad)
    BY <1>1, <2>4
  <2> QED
    BY <1>10, <2>4, <2>3
<1> QED
  BY <1>10, <1>11

LEMMA Limits == MaxInteger \in Nat /\ Pow2[Width] = 2 * MaxInteger + 2
<1>1. Width \in Nat /\ Width > 1
  BY WidthAssumption
<1>2. Width - 1 \in 0 .. Width /\ Width \in 0 .. Width
  BY <1>1
<1>3. Pow2[Width - 1] \in Nat \ {0} /\ Pow2[Width] = 2 * Pow2[Width - 1]
  BY <1>1, <1>2, Powers
<1> QED
  BY <1>3 DEF MaxInteger

\* Arithmetic modulo 2^Width ends in the range of the integers.
LEMMA WrapInRange ==
    ASSUME NEW n \in Int
    PROVE  Integral(Num(Wrap(n)))
<1>1. PICK m \in Nat : m = MaxInteger
  BY Limits
<1>2. PICK p \in Nat : p = Pow2[Width] /\ p = 2 * m + 2
  BY <1>1, Limits
<1>3. PICK r \in Int : r = (n + m + 1) % p
  BY <1>2
<1>4. r \in 0 .. p - 1
  BY <1>2, <1>3
<1>5. Wrap(n) = r - m - 1
  BY <1>1, <1>2, <1>3 DEF Wrap
<1>6. Wrap(n) \in Int /\ InRange(Wrap(n))
  BY <1>1, <1>2, <1>4, <1>5 DEF InRange
<1> QED
  BY <1>6 DEF Integral, Num, Tag, IsInteger

LEMMA BitsInRange ==
    ASSUME NEW s \in SUBSET (0 .. Width - 1)
    PROVE  Integral(Num(OfBits(s)))
<1>1. Width \in Nat
  BY WidthAssumption
<1>2. IsFiniteSet(s)
  <2>1. IsFiniteSet(0 .. Width - 1)
    BY <1>1, FS_Interval
  <2> QED
    BY <2>1, FS_Subset
<1>3. \A i \in s : Pow2[i] \in Nat
  BY <1>1, Powers
<1>4. SumFunctionOnSet(Pow2, s) = Cardinality(Cells(Pow2, s))
  BY <1>2, <1>3, SumIsCells
<1>5. Cardinality(Cells(Pow2, s)) \in Nat
  BY <1>2, <1>3, CellsFinite, FS_CardinalityType
<1> QED
  BY <1>4, <1>5, WrapInRange DEF OfBits

LEMMA BitwiseInRange ==
    ASSUME NEW a, NEW b, NEW op \in {"&", "|", "~"}
    PROVE  Integral(Num(BitwiseI(op, a, b)))
<1>1. Bits(a) \subseteq 0 .. Width - 1 /\ Bits(b) \subseteq 0 .. Width - 1
  BY DEF Bits
<1>2. CASE op = "&"
  <2>1. BitwiseI(op, a, b) = OfBits(Bits(a) \cap Bits(b))
    BY <1>2 DEF BitwiseI
  <2> QED
    BY <1>1, <2>1, BitsInRange
<1>3. CASE op = "|"
  <2>1. BitwiseI(op, a, b) = OfBits(Bits(a) \cup Bits(b))
    BY <1>3 DEF BitwiseI
  <2>2. Bits(a) \cup Bits(b) \in SUBSET (0 .. Width - 1)
    BY <1>1
  <2> QED
    BY <2>1, <2>2, BitsInRange
<1>4. CASE op = "~"
  <2>1. BitwiseI(op, a, b) = OfBits((Bits(a) \cup Bits(b)) \ (Bits(a) \cap Bits(b)))
    BY <1>4 DEF BitwiseI
  <2>2. (Bits(a) \cup Bits(b)) \ (Bits(a) \cap Bits(b)) \in SUBSET (0 .. Width - 1)
    BY <1>1
  <2> QED
    BY <2>1, <2>2, BitsInRange
<1> QED
  BY <1>2, <1>3, <1>4

\* remsi, corrected to the sign of the divisor, stays below the divisor.
LEMMA ModInRange ==
    ASSUME NEW a \in Int, NEW b \in Int, b # 0, InRange(b)
    PROVE  Integral(Num(ModI(a, b))) /\ RemI(a, b) \in Int
<1>1. PICK m \in Nat : m = MaxInteger
  BY Limits
<1>2. PICK d \in Nat : d = Abs(b) /\ d > 0 /\ (b = d \/ b = -d)
  BY DEF Abs
<1>3. PICK q \in Nat : q = Abs(a) % d /\ q < d
  <2>1. PICK c \in Nat : c = Abs(a)
    BY DEF Abs
  <2>2. c % d \in Nat /\ c % d < d
    BY <1>2, <2>1
  <2> QED
    BY <2>1, <2>2
<1>4. RemI(a, b) \in {q, -q, 0}
  <2>1. RemI(a, b) = Sign(a) * q
    BY <1>2, <1>3 DEF RemI
  <2>2. Sign(a) \in {-1, 0, 1}
    BY DEF Sign
  <2> QED
    BY <2>1, <2>2
<1>5. PICK r \in Int : r = RemI(a, b) /\ -d < r /\ r < d
  BY <1>2, <1>3, <1>4
<1>6. ModI(a, b) = r + (IF r # 0 /\ Sign(r) # Sign(b) THEN b ELSE 0)
  BY <1>5 DEF ModI, NeedsFix
<1>7. ModI(a, b) \in Int /\ -d < ModI(a, b) /\ ModI(a, b) < d
  BY <1>2, <1>5, <1>6 DEF Sign
<1>8. InRange(ModI(a, b))
  BY <1>1, <1>2, <1>7 DEF InRange
<1> QED
  BY <1>5, <1>7, <1>8 DEF Integral, Num, Tag, IsInteger

LEMMA FloorDivInRange ==
    ASSUME NEW a \in Int, NEW b \in Int, b # 0
    PROVE  Integral(Num(FloorDivI(a, b)))
<1>1. PICK q \in Int : q = Abs(a) \div Abs(b)
  <2>1. Abs(a) \in Nat /\ Abs(b) \in Nat \ {0}
    BY DEF Abs
  <2> QED
    BY <2>1
<1>2. Sign(a) \in {-1, 0, 1} /\ Sign(b) \in {-1, 0, 1}
  BY DEF Sign
<1>3. PICK s \in Int : s = Sign(a) * Sign(b)
  BY <1>2
<1>4. s \in {-1, 0, 1}
  BY <1>2, <1>3
<1>5. QuotI(a, b) = s * q
  BY <1>1, <1>3 DEF QuotI
<1>6. QuotI(a, b) \in Int
  BY <1>1, <1>4, <1>5
<1> QED
  BY <1>6, WrapInRange DEF FloorDivI

\* emit_int_expr: integers of Width bits out of integers of Width bits.
LEMMA LaneStaysInRange ==
    ASSUME NEW op \in IntOps, NEW a, NEW b, Integral(a), Integral(b)
    PROVE  BinopI(op, a, b) = Trap \/ Integral(BinopI(op, a, b))
<1>1. a[2] \in Int /\ b[2] \in Int /\ InRange(b[2])
  BY DEF Integral
<1>2. CASE op \in {"+", "-", "*"}
  <2>1. a[2] + b[2] \in Int /\ a[2] - b[2] \in Int /\ a[2] * b[2] \in Int
    BY <1>1
  <2>2. BinopI(op, a, b) \in {Num(Wrap(a[2] + b[2])), Num(Wrap(a[2] - b[2])), Num(Wrap(a[2] * b[2]))}
    BY <1>2 DEF BinopI
  <2> QED
    BY <2>1, <2>2, WrapInRange
<1>3. CASE op \in {"//", "%"} /\ b[2] = 0
  BY <1>3 DEF BinopI
<1>4. CASE op = "//" /\ b[2] # 0
  <2>1. BinopI(op, a, b) = Num(FloorDivI(a[2], b[2]))
    BY <1>4 DEF BinopI
  <2> QED
    BY <1>1, <1>4, <2>1, FloorDivInRange
<1>5. CASE op = "%" /\ b[2] # 0
  <2>1. BinopI(op, a, b) = Num(ModI(a[2], b[2]))
    BY <1>5 DEF BinopI
  <2> QED
    BY <1>1, <1>5, <2>1, ModInRange
<1>6. CASE op \in {"&", "|", "~"}
  <2>1. BinopI(op, a, b) = Num(BitwiseI(op, a[2], b[2]))
    BY <1>6 DEF BinopI
  <2> QED
    BY <1>6, <2>1, BitwiseInRange
<1> QED
  BY <1>2, <1>3, <1>4, <1>5, <1>6 DEF IntOps

\* A quotient is not further from zero than the number, and as far only for
\* a divisor of one.
LEMMA QuotientInRange ==
    ASSUME NEW m \in Nat, m > 0, NEW a \in Int, -m - 1 <= a, a <= m, NEW d \in Nat, d > 0
    PROVE  /\ a \div d \in Int /\ -m - 1 <= a \div d /\ a \div d <= m
           /\ a \div d = -m - 1 => d = 1 /\ a = -m - 1
<1>1. PICK k \in Int, r \in Nat : k = a \div d /\ a = d * k + r /\ r < d
  <2>1. a \div d \in Int /\ a % d \in Nat /\ a = d * (a \div d) + (a % d) /\ a % d < d
    OBVIOUS
  <2> QED
    BY <2>1
<1>2. PICK c \in Nat : c = d - 1
  OBVIOUS
<1>3. CASE k >= 0
  <2>1. d * k = c * k + k /\ c * k >= 0
    BY <1>2, <1>3
  <2> QED
    BY <1>1, <1>3, <2>1
<1>4. CASE k < 0
  <2>1. PICK n \in Nat : n = -k - 1
    BY <1>4
  <2>2. PICK t \in Nat : t = c * n
    OBVIOUS
  <2>3. d * k = -t - n - d
    <3>1. d * k = (c + 1) * (-n - 1)
      BY <1>2, <2>1
    <3>2. (c + 1) * (-n - 1) = -(c * n) - n - c - 1
      OBVIOUS
    <3> QED
      BY <1>2, <2>2, <3>1, <3>2
  <2>4. n + t <= m
    BY <1>1, <2>2, <2>3
  <2>5. ASSUME n = m PROVE c = 0
    <3>1. SUFFICES ASSUME NEW z \in Nat, c = z + 1 PROVE FALSE
      OBVIOUS
    <3>2. c * m = z * m + m /\ z * m >= 0
      BY <3>1
    <3> QED
      BY <2>2, <2>4, <2>5, <3>2
  <2>6. n = m => d = 1 /\ a = -m - 1
    <3>1. SUFFICES ASSUME n = m PROVE d = 1 /\ a = -m - 1
      OBVIOUS
    <3>2. d = 1
      BY <1>2, <2>5, <3>1
    <3> QED
      BY <1>1, <2>1, <3>1, <3>2
  <2> QED
    BY <1>1, <1>4, <2>1, <2>4, <2>6
<1> QED
  BY <1>1, <1>3, <1>4

\* lower_expr folds integers into integers, unless it panics.
LEMMA FoldStaysInRange ==
    ASSUME NEW op, NEW a \in Int, NEW b \in Int, InRange(a), InRange(b), ~FoldPanics(op, a, b)
    PROVE  FoldInts(op, a, b) = None \/ Integral(FoldInts(op, a, b))
<1>1. PICK m \in Nat : m = MaxInteger /\ m > 0
  <2>1. Width \in Nat /\ Width > 1
    BY WidthAssumption
  <2>2. Width - 1 \in 0 .. Width /\ (Width - 1) - 1 \in 0 .. Width
    BY <2>1
  <2>3. Pow2[(Width - 1) - 1] \in Nat \ {0} /\ Pow2[Width - 1] = 2 * Pow2[(Width - 1) - 1]
    BY <2>1, <2>2, Powers
  <2> QED
    BY <2>3 DEF MaxInteger
<1>2. -m - 1 <= a /\ a <= m /\ -m - 1 <= b /\ b <= m
  BY <1>1 DEF InRange
<1>3. \A n \in Int : -m - 1 <= n /\ n <= m => Integral(Num(n))
  BY <1>1 DEF InRange, Integral, Num, Tag, IsInteger
<1>4. \A n \in Int : Checked(n) = None \/ Integral(Checked(n))
  BY <1>1, <1>3 DEF Checked, InRange
<1>5. b # 0 => Abs(b) \in 1 .. m + 1
  BY <1>2 DEF Abs
<1>6. CASE op \in {"+", "-", "*"}
  <2>1. FoldInts(op, a, b) \in {Checked(a + b), Checked(a - b), Checked(a * b)}
    BY <1>6 DEF FoldInts
  <2> QED
    BY <1>4, <2>1
<1>7. CASE op = "//" /\ b # 0
  <2>1. FoldInts(op, a, b) = Num(Sign(b) * (a \div Abs(b)))
    BY <1>7 DEF FoldInts
  <2>2. PICK d \in Nat : d = Abs(b) /\ d > 0 /\ d <= m + 1
    BY <1>5, <1>7
  <2>3. PICK k \in Int : k = a \div d
    BY <2>2
  <2>4. -m - 1 <= k /\ k <= m /\ (k = -m - 1 => d = 1 /\ a = k)
    BY <1>1, <1>2, <2>2, <2>3, QuotientInRange
  <2>5. b < 0 => k > -m - 1
    <3>1. SUFFICES ASSUME b < 0, k = -m - 1 PROVE FALSE
      BY <2>3, <2>4
    <3>2. b = -1
      BY <2>2, <2>4, <3>1 DEF Abs
    <3> QED
      BY <1>1, <1>7, <2>4, <3>1, <3>2 DEF FoldPanics
  <2>6. Sign(b) * k \in Int /\ -m - 1 <= Sign(b) * k /\ Sign(b) * k <= m
    BY <1>7, <2>3, <2>4, <2>5 DEF Sign
  <2> QED
    BY <1>3, <2>1, <2>2, <2>3, <2>6
<1>8. CASE op = "%" /\ b # 0
  <2>1. FoldInts(op, a, b) = Num(a % Abs(b))
    BY <1>8 DEF FoldInts, EuclidRem
  <2>2. PICK d \in 1 .. m + 1 : d = Abs(b)
    BY <1>5, <1>8
  <2>3. a % d \in Int /\ 0 <= a % d /\ a % d < d
    BY <2>2
  <2> QED
    BY <1>3, <2>1, <2>2, <2>3
<1>9. CASE op \in {"&", "|", "~"}
  <2>1. FoldInts(op, a, b) = Num(BitwiseI(op, a, b))
    BY <1>9 DEF FoldInts
  <2> QED
    BY <1>9, <2>1, BitwiseInRange
<1>10. CASE op \in {"<<", ">>"} /\ b \in 0 .. Width - 1
  <2>1. Width \in Nat /\ b \in 0 .. Width /\ Width \in 0 .. Width
    BY <1>10, WidthAssumption
  <2>2. PICK p \in Nat \ {0} : p = Pow2[b]
    BY <2>1, Powers
  <2>3. PICK w \in Nat \ {0} : w = Pow2[Width]
    BY <2>1, Powers
  <2>4. a * p \in Int /\ (a % w) \div p \in Int
    <3>1. PICK c \in Int : c = a % w
      BY <2>3
    <3> QED
      BY <2>2, <3>1
  <2>5. FoldInts(op, a, b) \in {Num(Wrap(a * p)), Num(Wrap((a % w) \div p))}
    BY <1>10, <2>2, <2>3 DEF FoldInts, BitwiseI
  <2> QED
    BY <2>4, <2>5, WrapInRange
<1>11. CASE \/ op \notin {"+", "-", "*", "//", "%", "&", "|", "~", "<<", ">>"}
            \/ op \in {"//", "%"} /\ b = 0
            \/ op \in {"<<", ">>"} /\ b \notin 0 .. Width - 1
  BY <1>11 DEF FoldInts
<1> QED
  BY <1>6, <1>7, <1>8, <1>9, <1>10, <1>11

-----------------------------------------------------------------------------
(* A number is the same whichever way it is computed.                      *)

LEMMA QuotientUnique ==
    ASSUME NEW d \in Nat, d > 0, NEW k \in Int, NEW r \in 0 .. d - 1, NEW a \in Int, a = d * k + r
    PROVE  a \div d = k
<1>1. PICK l \in Int, t \in 0 .. d - 1 : l = a \div d /\ a = d * l + t
  <2>1. a \div d \in Int /\ a % d \in 0 .. d - 1 /\ a = d * (a \div d) + (a % d)
    OBVIOUS
  <2> QED
    BY <2>1
<1>2. PICK x \in Int : x = k - l
  OBVIOUS
<1>3. d * x = t - r
  <2>1. d * x = d * k - d * l
    BY <1>2
  <2> QED
    BY <1>1, <2>1
<1>4. CASE x > 0
  <2>1. d * x >= d
    BY <1>4
  <2> QED
    BY <1>1, <1>3, <2>1
<1>5. CASE x < 0
  <2>1. d * (-x) >= d
    BY <1>5
  <2>2. d * (-x) = -(d * x)
    OBVIOUS
  <2> QED
    BY <1>1, <1>3, <2>1, <2>2
<1> QED
  BY <1>1, <1>2, <1>4, <1>5

LEMMA WrapKeeps ==
    ASSUME NEW n \in Int, InRange(n)
    PROVE  Wrap(n) = n
<1>1. PICK m \in Nat : m = MaxInteger
  BY Limits
<1>2. PICK p \in Nat : p = Pow2[Width] /\ p = 2 * m + 2
  BY <1>1, Limits
<1>3. PICK k \in Int : k = n + m + 1
  BY <1>1
<1>4. k \in 0 .. p - 1
  BY <1>1, <1>2, <1>3 DEF InRange
<1>5. k % p = k
  BY <1>2, <1>4
<1> QED
  BY <1>1, <1>2, <1>3, <1>5 DEF Wrap

LEMMA GcdDivides ==
    ASSUME NEW a \in Nat, NEW b \in Nat \ {0}
    PROVE  /\ Gcd(a, b) \in 1 .. b
           /\ a % Gcd(a, b) = 0 /\ b % Gcd(a, b) = 0
<1> DEFINE D == {d \in 1 .. b : a % d = 0 /\ b % d = 0}
<1>1. 1 \in D
  OBVIOUS
<1>2. PICK g \in D : \A c \in D : c <= g
  <2>1. D \in SUBSET Nat /\ \A d \in D : d <= b
    OBVIOUS
  <2> HIDE DEF D
  <2> QED
    BY <1>1, <2>1, GreatestNat
<1>3. ASSUME NEW c \in g + 1 .. b PROVE ~(a % c = 0 /\ b % c = 0)
  <2>1. c \in 1 .. b /\ c > g
    OBVIOUS
  <2> QED
    BY <1>2, <2>1
<1>4. \E d \in 1 .. b : a % d = 0 /\ b % d = 0 /\ \A c \in d + 1 .. b : ~(a % c = 0 /\ b % c = 0)
  BY <1>2, <1>3
<1> QED
  BY <1>4 DEF Gcd

\* A fraction is in lowest terms.
LEMMA LowestTerms ==
    ASSUME NEW p \in Int, NEW q \in Nat \ {0}
    PROVE  \E g \in Nat \ {0}, m \in Int, n \in Nat \ {0} : p = g * m /\ q = g * n /\ Frac(p, q) = <<"num", m, n>>
<1>1. PICK c \in Nat : c = Abs(p) /\ (p = c \/ p = -c)
  BY DEF Abs
<1>2. PICK g \in 1 .. q : g = Gcd(Abs(p), q) /\ c % g = 0 /\ q % g = 0
  BY <1>1, GcdDivides
<1>3. PICK k \in Int : k = c \div g /\ c = g * k
  BY <1>2
<1>4. PICK n \in Int : n = q \div g /\ q = g * n
  BY <1>2
<1>5. n > 0
  <2>1. n <= 0 => g * n <= 0
    BY <1>2, <1>4
  <2> QED
    BY <1>4, <2>1
<1>6. PICK m \in Int : p = g * m
  <2>1. g * (-k) = -(g * k) /\ g * (-k) = -c /\ -k \in Int
    BY <1>2, <1>3
  <2>2. CASE p = c
    BY <1>3, <2>2
  <2>3. CASE p = -c
    BY <2>1, <2>3
  <2> QED
    BY <1>1, <2>2, <2>3
<1>7. p \div g = m
  <2>1. 0 \in 0 .. g - 1 /\ p = g * m + 0 /\ g \in Nat /\ g > 0
    BY <1>2, <1>6
  <2> QED
    BY <2>1, QuotientUnique
<1>8. Frac(p, q) = <<"num", m, n>>
  BY <1>2, <1>4, <1>7 DEF Frac
<1> QED
  BY <1>2, <1>4, <1>5, <1>6, <1>8

LEMMA WholeFrac ==
    ASSUME NEW n \in Int
    PROVE  Frac(n, 1) = Num(n)
<1>1. PICK g \in Nat \ {0}, m \in Int, k \in Nat \ {0} : n = g * m /\ 1 = g * k /\ Frac(n, 1) = <<"num", m, k>>
  <2>1. 1 \in Nat \ {0}
    OBVIOUS
  <2> QED
    BY <2>1, LowestTerms
<1>2. g = 1 /\ k = 1
  <2>1. g > 1 => g * k > 1
    BY <1>1
  <2>2. g = 1
    BY <1>1, <2>1
  <2> QED
    BY <1>1, <2>2
<1> QED
  BY <1>1, <1>2 DEF Num

LEMMA FloorOfFrac ==
    ASSUME NEW p \in Int, NEW q \in Nat \ {0}
    PROVE  FloorF(Frac(p, q)) = Num(p \div q)
<1>1. PICK g \in Nat \ {0}, m \in Int, n \in Nat \ {0} : p = g * m /\ q = g * n /\ Frac(p, q) = <<"num", m, n>>
  BY LowestTerms
<1>2. FloorF(Frac(p, q)) = Num(m \div n)
  BY <1>1 DEF FloorF
<1>3. PICK k \in Int, r \in 0 .. n - 1 : k = m \div n /\ m = n * k + r
  <2>1. m \div n \in Int /\ m % n \in 0 .. n - 1 /\ m = n * (m \div n) + (m % n)
    OBVIOUS
  <2> QED
    BY <2>1
<1>4. p = q * k + g * r
  <2>1. g * (n * k + r) = (g * n) * k + g * r
    BY <1>3
  <2> QED
    BY <1>1, <1>3, <2>1
<1>5. g * r \in 0 .. q - 1
  <2>1. PICK z \in Nat : n = r + 1 + z
    BY <1>3
  <2>2. g * n = g * r + g + g * z /\ g * z >= 0 /\ g * r >= 0
    BY <1>3, <2>1
  <2> QED
    BY <1>1, <1>3, <2>2
<1>6. p \div q = k
  BY <1>4, <1>5, QuotientUnique
<1> QED
  BY <1>2, <1>3, <1>6

\* Lua's // on integers.
Floored(a, b) == IF b > 0 THEN a \div b ELSE (-a) \div (-b)

\* emit_int_expr: the correction of a truncated quotient and remainder.
LEMMA LaneFloors ==
    ASSUME NEW a \in Int, NEW b \in Int, b # 0
    PROVE  /\ Floored(a, b) \in Int
           /\ FloorDivI(a, b) = Wrap(Floored(a, b))
           /\ ModI(a, b) = a - Floored(a, b) * b
<1>1. PICK d \in Nat \ {0} : d = Abs(b) /\ (b > 0 => b = d) /\ (b < 0 => b = -d)
  BY DEF Abs
<1>2. PICK c \in Nat : c = Abs(a) /\ (a >= 0 => a = c) /\ (a < 0 => a = -c)
  BY DEF Abs
<1>3. PICK q \in Int, r \in Int : q = c \div d /\ r = c % d /\ r \in 0 .. d - 1 /\ c = d * q + r
  <2>1. c \div d \in Int /\ c % d \in 0 .. d - 1 /\ c = d * (c \div d) + (c % d)
    OBVIOUS
  <2> QED
    BY <2>1
<1>4. PICK y \in Int : y = d * q /\ c = y + r
  BY <1>3
<1>5. QuotI(a, b) = Sign(a) * Sign(b) * q /\ RemI(a, b) = Sign(a) * r
  BY <1>1, <1>2, <1>3 DEF QuotI, RemI
<1>6. PICK n \in Int : (b > 0 => n = a) /\ (b < 0 => n = -a) /\ Floored(a, b) = n \div d
  <2>1. b > 0 => Floored(a, b) = a \div d
    BY <1>1 DEF Floored
  <2>2. b < 0 => Floored(a, b) = (-a) \div d
    <3>1. SUFFICES ASSUME b < 0 PROVE Floored(a, b) = (-a) \div d
      OBVIOUS
    <3>2. -b = d /\ ~(b > 0)
      BY <1>1, <3>1
    <3> QED
      BY <3>2 DEF Floored
  <2> QED
    BY <2>1, <2>2
<1>7. (n >= 0 => n = y + r) /\ (n < 0 => n = -y - r)
  BY <1>2, <1>4, <1>6
<1>8. a = 0 => q = 0 /\ r = 0
  <2>1. SUFFICES ASSUME a = 0 PROVE q = 0 /\ r = 0
    OBVIOUS
  <2>2. c = 0
    BY <1>2, <2>1
  <2>3. 0 = d * 0 + 0 /\ 0 \in 0 .. d - 1
    OBVIOUS
  <2>4. q = 0
    BY <1>3, <2>2, <2>3, QuotientUnique
  <2> QED
    BY <1>3, <2>2, <2>4
<1>9. (b > 0 => q * b = y) /\ (b < 0 => q * b = -y)
  <2>1. q * d = d * q
    OBVIOUS
  <2>2. q * (-d) = -(d * q)
    OBVIOUS
  <2> QED
    BY <1>1, <1>4, <2>1, <2>2
<1>10. (Sign(b) = 1 /\ b > 0) \/ (Sign(b) = -1 /\ b < 0)
  BY DEF Sign
<1>11. (Sign(a) = 1 /\ a > 0) \/ (Sign(a) = -1 /\ a < 0) \/ (Sign(a) = 0 /\ a = 0)
  BY DEF Sign
<1>12. /\ n >= 0 => QuotI(a, b) = q
       /\ n < 0 => QuotI(a, b) = -q
  BY <1>3, <1>5, <1>6, <1>8, <1>10, <1>11
<1>13. RemI(a, b) \in Int /\ (a >= 0 => RemI(a, b) = r) /\ (a < 0 => RemI(a, b) = -r)
  BY <1>3, <1>5, <1>8, <1>11
<1>14. 0 <= r /\ r < d
  BY <1>1, <1>3
<1>15. CASE n >= 0
  <2>1. n \div d = q
    <3>1. n = d * q + r
      BY <1>4, <1>7, <1>15
    <3> QED
      BY <1>1, <1>3, <3>1, QuotientUnique
  <2>2. RemI(a, b) # 0 => Sign(RemI(a, b)) = Sign(b)
    BY <1>6, <1>8, <1>13, <1>14, <1>15 DEF Sign
  <2>3. FloorDivI(a, b) = Wrap(q) /\ ModI(a, b) = RemI(a, b)
    BY <1>3, <1>12, <1>13, <1>15, <2>2 DEF FloorDivI, ModI, NeedsFix
  <2>4. PICK z \in Int : z = q * b
    BY <1>3
  <2>5. a - z = RemI(a, b)
    BY <1>3, <1>6, <1>7, <1>8, <1>9, <1>13, <1>15, <2>4
  <2> QED
    BY <1>3, <1>6, <2>1, <2>3, <2>4, <2>5
<1>16. CASE n < 0 /\ r = 0
  <2>1. PICK p \in Int : p = -q
    BY <1>3
  <2>2. d * p = -y
    <3>1. d * (-q) = -(d * q)
      BY <1>1, <1>3
    <3> QED
      BY <1>4, <2>1, <3>1
  <2>3. n \div d = p
    <3>1. n = d * p + 0 /\ 0 \in 0 .. d - 1
      BY <1>1, <1>7, <1>16, <2>2
    <3> QED
      BY <1>1, <3>1, QuotientUnique
  <2>4. RemI(a, b) = 0
    BY <1>13, <1>16
  <2>5. FloorDivI(a, b) = Wrap(p) /\ ModI(a, b) = 0
    BY <1>12, <1>16, <2>1, <2>4 DEF FloorDivI, ModI, NeedsFix
  <2>6. PICK z \in Int : z = q * b /\ p * b = -z
    <3>1. (-q) * b = -(q * b)
      BY <1>3
    <3> QED
      BY <1>3, <2>1, <3>1
  <2>7. a + z = 0
    BY <1>6, <1>7, <1>9, <1>16, <2>6
  <2> QED
    BY <1>6, <2>1, <2>3, <2>5, <2>6, <2>7
<1>17. CASE n < 0 /\ r > 0
  <2>1. PICK p \in Int : p = -q - 1
    BY <1>3
  <2>2. d * p = -y - d
    <3>1. d * (-q - 1) = -(d * q) - d
      BY <1>1, <1>3
    <3> QED
      BY <1>4, <2>1, <3>1
  <2>3. n \div d = p
    <3>1. PICK t \in 0 .. d - 1 : t = d - r
      BY <1>1, <1>14, <1>17
    <3>2. n = d * p + t
      BY <1>3, <1>7, <1>17, <2>2, <3>1
    <3>3. d \in Nat /\ d > 0
      OBVIOUS
    <3> QED
      BY ONLY <3>1, <3>2, <3>3, p \in Int, n \in Int, t \in 0 .. d - 1, QuotientUnique
  <2>4. NeedsFix(a, b)
    BY <1>6, <1>13, <1>17 DEF NeedsFix, Sign
  <2>5. FloorDivI(a, b) = Wrap(p) /\ ModI(a, b) = RemI(a, b) + b
    BY <1>12, <1>17, <2>1, <2>4 DEF FloorDivI, ModI
  <2>6. PICK z \in Int : z = q * b /\ p * b = -z - b
    <3>1. (-q - 1) * b = -(q * b) - b
      BY <1>3
    <3> QED
      BY <1>3, <2>1, <3>1
  <2>7. a + z = RemI(a, b)
    BY <1>3, <1>6, <1>7, <1>9, <1>13, <1>17, <2>6
  <2> QED
    BY <1>6, <1>13, <2>1, <2>3, <2>5, <2>6, <2>7
<1> QED
  BY <1>14, <1>15, <1>16, <1>17, <1>6, <1>3

\* emit_binop and emit_lua_mod on doubles that are integers.
LEMMA DoublesFloor ==
    ASSUME NEW a \in Int, NEW b \in Int, b # 0
    PROVE  /\ FloorF(DivF(Num(a), Num(b))) = Num(Floored(a, b))
           /\ ModF(Num(a), Num(b)) = Num(a - Floored(a, b) * b)
<1>1. PICK d \in Nat \ {0}, n \in Int : d = Abs(b) /\ n = (IF b > 0 THEN a ELSE -a) /\ Floored(a, b) = n \div d
  BY DEF Abs, Floored
<1>2. DivF(Num(a), Num(b)) = Frac(n, d)
  <2>1. DivF(Num(a), Num(b)) = Frac(a * 1 * Sign(b), 1 * Abs(b))
    BY DEF DivF, Num
  <2>2. a * 1 * Sign(b) = n /\ 1 * Abs(b) = d
    BY <1>1 DEF Sign
  <2> QED
    BY <2>1, <2>2
<1>3. FloorF(DivF(Num(a), Num(b))) = Num(Floored(a, b))
  BY <1>1, <1>2, FloorOfFrac
<1>4. PICK k \in Int : k = Floored(a, b)
  BY LaneFloors
<1>5. MulF(Num(k), Num(b)) = Num(k * b)
  <2>1. MulF(Num(k), Num(b)) = Frac(k * b, 1 * 1)
    BY DEF MulF, Num
  <2>2. PICK x \in Int : x = k * b
    OBVIOUS
  <2> QED
    BY <2>1, <2>2, WholeFrac
<1>6. PICK x \in Int : x = k * b
  OBVIOUS
<1>7. ModF(Num(a), Num(b)) = SubF(Num(a), Num(x))
  BY <1>3, <1>4, <1>5, <1>6 DEF ModF
<1>8. SubF(Num(a), Num(x)) = AddF(<<"num", a, 1>>, <<"num", -x, 1>>)
  BY DEF SubF, NegF, Num
<1>9. AddF(<<"num", a, 1>>, <<"num", -x, 1>>) = Frac(a * 1 + (-x) * 1, 1 * 1)
  BY DEF AddF
<1>10. a * 1 + (-x) * 1 = a - x /\ 1 * 1 = 1
  BY <1>6
<1> QED
  BY <1>3, <1>4, <1>6, <1>7, <1>8, <1>9, <1>10, WholeFrac

\* Whether lower_expr folds an operator on integers, emit_int_expr runs it on
\* i64 slots, or emit_binop on doubles, the number is the same: a result in
\* the range of the integers for the lane, a positive divisor for the fold
\* (div_euclid and rem_euclid round another way for a negative one).
THEOREM ThreeWaysAgree ==
    ASSUME NEW op \in IntOps, NEW a \in Int, NEW b \in Int, InRange(a), InRange(b),
           op \in {"//", "%"} => b # 0
    PROVE  LET double == BinopF(op, Num(a), Num(b)) IN
           /\ InRange(double[2]) => BinopI(op, Num(a), Num(b)) = double
           /\ FoldInts(op, a, b) # None /\ (op \in {"//", "%"} => b > 0) => FoldInts(op, a, b) = double
<1>1. \A n : Num(n)[2] = n
  BY DEF Num
<1>2. ASSUME NEW n \in Int, BinopF(op, Num(a), Num(b)) = Num(n),
             BinopI(op, Num(a), Num(b)) = Num(Wrap(n)), FoldInts(op, a, b) = Checked(n)
      PROVE  LET double == BinopF(op, Num(a), Num(b)) IN
             /\ InRange(double[2]) => BinopI(op, Num(a), Num(b)) = double
             /\ FoldInts(op, a, b) # None => FoldInts(op, a, b) = double
  BY <1>1, <1>2, WrapKeeps DEF Checked
<1>3. CASE op = "+"
  <2>1. PICK n \in Int : n = a + b
    OBVIOUS
  <2>2. BinopF(op, Num(a), Num(b)) = Frac(a * 1 + b * 1, 1 * 1)
    BY <1>3 DEF BinopF, AddF, Num, Bitwise, Ordering, Equality
  <2>3. a * 1 + b * 1 = n /\ 1 * 1 = 1
    BY <2>1
  <2>4. BinopF(op, Num(a), Num(b)) = Num(n)
    BY <2>2, <2>3, WholeFrac
  <2>5. BinopI(op, Num(a), Num(b)) = Num(Wrap(n)) /\ FoldInts(op, a, b) = Checked(n)
    BY <1>1, <1>3, <2>1 DEF BinopI, FoldInts
  <2> QED
    BY <1>2, <2>4, <2>5
<1>4. CASE op = "-"
  <2>1. PICK n \in Int : n = a - b
    OBVIOUS
  <2>2. BinopF(op, Num(a), Num(b)) = Frac(a * 1 + (-b) * 1, 1 * 1)
    BY <1>4 DEF BinopF, SubF, NegF, AddF, Num, Bitwise, Ordering, Equality
  <2>3. a * 1 + (-b) * 1 = n /\ 1 * 1 = 1
    BY <2>1
  <2>4. BinopF(op, Num(a), Num(b)) = Num(n)
    BY <2>2, <2>3, WholeFrac
  <2>5. BinopI(op, Num(a), Num(b)) = Num(Wrap(n)) /\ FoldInts(op, a, b) = Checked(n)
    BY <1>1, <1>4, <2>1 DEF BinopI, FoldInts
  <2> QED
    BY <1>2, <2>4, <2>5
<1>5. CASE op = "*"
  <2>1. PICK n \in Int : n = a * b
    OBVIOUS
  <2>2. BinopF(op, Num(a), Num(b)) = Frac(n, 1 * 1)
    BY <1>5, <2>1 DEF BinopF, MulF, Num, Bitwise, Ordering, Equality
  <2>3. BinopF(op, Num(a), Num(b)) = Num(n)
    BY <2>2, WholeFrac
  <2>4. BinopI(op, Num(a), Num(b)) = Num(Wrap(n)) /\ FoldInts(op, a, b) = Checked(n)
    BY <1>1, <1>5, <2>1 DEF BinopI, FoldInts
  <2> QED
    BY <1>2, <2>3, <2>4
<1>6. CASE op = "//"
  <2>1. PICK k \in Int : k = Floored(a, b) /\ FloorDivI(a, b) = Wrap(k)
    BY <1>6, LaneFloors
  <2>2. BinopF(op, Num(a), Num(b)) = Num(k)
    BY <1>6, <2>1, DoublesFloor DEF BinopF, Bitwise, Ordering, Equality
  <2>3. BinopI(op, Num(a), Num(b)) = Num(Wrap(k))
    BY <1>1, <1>6, <2>1 DEF BinopI
  <2>4. b > 0 => FoldInts(op, a, b) = Num(k)
    <3>1. SUFFICES ASSUME b > 0 PROVE FoldInts(op, a, b) = Num(k)
      OBVIOUS
    <3>2. FoldInts(op, a, b) = Num(Sign(b) * (a \div Abs(b)))
      BY <1>6 DEF FoldInts
    <3>3. Sign(b) = 1 /\ Abs(b) = b /\ a \div b = k
      BY <2>1, <3>1 DEF Sign, Abs, Floored
    <3> QED
      BY <3>2, <3>3
  <2> QED
    BY <1>1, <1>6, <2>2, <2>3, <2>4, WrapKeeps
<1>7. CASE op = "%"
  <2>1. PICK k \in Int : k = Floored(a, b) /\ ModI(a, b) = a - k * b
    BY <1>7, LaneFloors
  <2>2. BinopF(op, Num(a), Num(b)) = Num(a - k * b)
    BY <1>7, <2>1, DoublesFloor DEF BinopF, Bitwise, Ordering, Equality
  <2>3. BinopI(op, Num(a), Num(b)) = Num(a - k * b)
    BY <1>1, <1>7, <2>1 DEF BinopI
  <2>4. b > 0 => FoldInts(op, a, b) = Num(a - k * b)
    <3>1. SUFFICES ASSUME b > 0 PROVE FoldInts(op, a, b) = Num(a - k * b)
      OBVIOUS
    <3>2. FoldInts(op, a, b) = Num(a % b)
      BY <1>7, <3>1 DEF FoldInts, EuclidRem, Abs
    <3>3. a % b = a - b * (a \div b)
      BY <3>1
    <3>4. k = a \div b
      BY <2>1, <3>1 DEF Floored
    <3>5. b * k = k * b
      OBVIOUS
    <3> QED
      BY <3>2, <3>3, <3>4, <3>5
  <2> QED
    BY <1>7, <2>2, <2>3, <2>4
<1>8. CASE op \in {"&", "|", "~"}
  <2>1. IsInteger(Num(a)) /\ IsInteger(Num(b)) /\ op \in Bitwise
    BY <1>8 DEF IsInteger, Num, Bitwise
  <2>2. BinopF(op, Num(a), Num(b)) = Num(BitwiseI(op, a, b))
    BY <1>1, <1>8, <2>1 DEF BinopF, BitwiseF, Bitwise, Ordering, Equality
  <2>3. BinopI(op, Num(a), Num(b)) = Num(BitwiseI(op, a, b)) /\ FoldInts(op, a, b) = Num(BitwiseI(op, a, b))
    BY <1>1, <1>8 DEF BinopI, FoldInts
  <2> QED
    BY <2>2, <2>3
<1> QED
  BY <1>3, <1>4, <1>5, <1>6, <1>7, <1>8 DEF IntOps

-----------------------------------------------------------------------------
(* The stack and what is open.                                             *)

LEMMA OwnRange ==
    ASSUME NEW T, NEW s \in Seq(T)
    PROVE  s \in Seq(Range(s))
<1>1. Len(s) \in Nat /\ s \in [1 .. Len(s) -> T]
  OBVIOUS
<1>2. s \in [1 .. Len(s) -> Range(s)]
  BY <1>1 DEF Range
<1> QED
  BY <1>1, <1>2, SeqDef

\* A value that suits the next node goes on top of the others.
LEMMA Push ==
    ASSUME NEW st, NEW m \in Nat, NEW S \in SUBSET (1 .. m - 1), NEW s, Laid(st, S, s), NEW v, Suits(st, m, v)
    PROVE  Laid(st, S \cup {m}, Append(s, v))
<1>1. s \in Seq(Range(s)) /\ Len(s) \in Nat /\ Len(s) = Cardinality(S)
  BY DEF Laid
<1>2. Append(s, v) \in Seq(Range(s) \cup {v}) /\ Len(Append(s, v)) = Len(s) + 1
  <2>1. s \in Seq(Range(s) \cup {v})
    BY <1>1
  <2> QED
    BY <1>1, <2>1
<1>3. Append(s, v) \in Seq(Range(Append(s, v)))
  BY <1>2, OwnRange
<1>4. Append(s, v)[Len(s) + 1] = v /\ \A k \in 1 .. Len(s) : Append(s, v)[k] = s[k]
  BY <1>1
<1>5. Suits(st, m, Append(s, v)[Depth(S \cup {m}, m)])
  BY <1>1, <1>4, DepthPush
<1>6. ASSUME NEW i \in S PROVE Suits(st, i, Append(s, v)[Depth(S \cup {m}, i)])
  <2>1. Suits(st, i, s[Depth(S, i)])
    BY DEF Laid
  <2> QED
    BY <1>1, <1>4, <2>1, DepthPush
<1> QED
  BY <1>1, <1>2, <1>3, <1>5, <1>6, DepthPush DEF Laid

\* The last node's value is on top.
LEMMA Pop ==
    ASSUME NEW st, NEW m \in Nat, NEW S \in SUBSET (1 .. m - 1), NEW s, Laid(st, S \cup {m}, s)
    PROVE  /\ Len(s) \in Nat \ {0} /\ s \in Seq(Range(s)) /\ Suits(st, m, s[Len(s)])
           /\ Laid(st, S, SubSeq(s, 1, Len(s) - 1))
<1>1. s \in Seq(Range(s)) /\ Len(s) \in Nat \ {0} /\ Len(s) = Cardinality(S) + 1
  BY DepthPush DEF Laid
<1> DEFINE rest == SubSeq(s, 1, Len(s) - 1)
<1>2. rest \in Seq(Range(s)) /\ Len(rest) = Cardinality(S) /\ \A k \in 1 .. Cardinality(S) : rest[k] = s[k]
  <2>1. Len(s) - 1 \in 0 .. Len(s)
    BY <1>1
  <2>2. Cardinality(S) \in Nat
    BY DepthPush
  <2>3. \A k \in 1 .. Len(s) - 1 : s[k] \in Range(s)
    BY <1>1 DEF Range
  <2> QED
    BY <1>1, <2>1, <2>2, <2>3, SubSeqProperties
<1>3. rest \in Seq(Range(rest))
  BY <1>2, OwnRange
<1>4. Suits(st, m, s[Len(s)])
  <2>1. Suits(st, m, s[Depth(S \cup {m}, m)])
    BY DEF Laid
  <2> QED
    BY <1>1, <2>1, DepthPush
<1>5. ASSUME NEW i \in S PROVE Suits(st, i, rest[Depth(S, i)])
  <2>1. Suits(st, i, s[Depth(S, i)])
    BY DepthPush DEF Laid
  <2> QED
    BY <1>2, <2>1, DepthPush
<1> HIDE DEF rest
<1>6. Laid(st, S, rest)
  BY <1>2, <1>3, <1>5 DEF Laid
<1> QED
  BY <1>1, <1>4, <1>6 DEF rest

-----------------------------------------------------------------------------
(* Values on their way.                                                    *)

\* The statement under way, and what its nodes hand over.
LEMMA UnderWay ==
    ASSUME IInv, Running
    PROVE  /\ SoundStatement(unit, Here) /\ Here.e \in Seq(Range(Here.e)) /\ Size \in Nat /\ Postfix(Here.e)
           /\ \A i \in 1 .. Size : SoundNode(unit, Here, i)
           /\ \A i \in 1 .. Size : Here.const[i] # None => Here.e[i].op # "test"
<1>1. SoundStatement(unit, Here)
  BY DEF IInv, Sound, Here, Running
<1>2. \A i \in 1 .. Size : SoundNode(unit, Here, i)
  BY <1>1 DEF SoundStatement, Size
<1>3. \A i \in 1 .. Size : Here.const[i] # None => Here.e[i].op \in {"int", "float", "lit", "bin"}
  BY <1>2 DEF SoundNode
<1> QED
  BY <1>1, <1>2, <1>3 DEF SoundStatement, Size

LEMMA Consumed ==
    ASSUME NEW i, Size \in Nat
    PROVE  /\ TakenAsNumber(i) <=> Wanted(Here, i)
           /\ TakenAsIs(i) <=> AsIs(Here, i)
<1>1. TakenAsNumber(i) <=> Wanted(Here, i)
  BY Zenon DEF TakenAsNumber, Wanted, Consumers, Size
<1>2. TakenAsIs(i) <=> AsIs(Here, i)
  BY Zenon DEF TakenAsIs, AsIs, ByTag, Consumers, Size
<1> QED
  BY <1>1, <1>2

\* Conversion and the check of a tag make a value fit for what takes it, or
\* stop the program; no i64 slot is read as a double.
LEMMA Handover ==
    ASSUME Size \in Nat, NEW i \in 1 .. Size, SoundNode(unit, Here, i), NEW v, Yields(Here, i, v), Delivered(i, v) # Trap
    PROVE  Suits(Here, i, Delivered(i, v))
<1> DEFINE kind == Here.kinds[i]
           wanted == Wanted(Here, i)
           asIs == AsIs(Here, i)
           tagged == TaggedLocal(i)
<1>1. /\ kind \in Kind
      /\ wanted => kind \notin {"Bool", "Nil"}
      /\ i \in Here.ints => kind = "Number"
      /\ tagged <=> Here.e[i].op = "var" /\ kind = "Tagged"
      /\ ~(Here.e[i].op = "var" /\ Here.e[i].x \in unit.slots /\ i \notin Here.ints /\ Here.k # "print")
  BY DEF SoundNode, TaggedLocal, TaggedVar
<1>2. /\ Fits(v, kind)
      /\ kind = "Tagged" /\ Here.e[i].op # "var" => Tag(v) = "num"
      /\ i \in Here.ints => Integral(v)
  BY DEF Yields
<1>3. (TakenAsNumber(i) <=> wanted) /\ (TakenAsIs(i) <=> asIs)
  BY Consumed
<1> HIDE DEF kind, wanted, asIs, tagged
<1>4. Delivered(i, v) = IF wanted /\ (tagged \/ kind = "String") THEN TaggedNumber(v)
                        ELSE IF tagged /\ ~asIs /\ Tag(v) # "num" THEN Trap ELSE v
  BY <1>1, <1>3 DEF Delivered, kind, tagged
<1>5. ASSUME NEW d, d = Delivered(i, v), d # Trap
      PROVE  /\ Fits(d, IF wanted /\ kind # "Table" THEN "Number" ELSE kind)
             /\ kind = "Tagged" /\ (Here.e[i].op # "var" \/ ~asIs) => Tag(d) = "num"
             /\ i \in Here.ints => Integral(d)
  <2>1. CASE wanted /\ (tagged \/ kind = "String")
    <3>1. d = TaggedNumber(v)
      BY <1>4, <1>5, <2>1
    <3>2. Tag(d) = "num"
      BY <1>5, <3>1, ConversionTags
    <3> QED
      BY <1>1, <2>1, <3>2, TagsOfKinds
  <2>2. CASE ~(wanted /\ (tagged \/ kind = "String"))
    <3>1. d = v /\ (tagged /\ ~asIs => Tag(v) = "num")
      BY <1>4, <1>5, <2>2
    <3>2. wanted /\ kind # "Table" => Fits(d, "Number")
      BY <1>1, <1>2, <2>2, <3>1, TagsOfKinds DEF Kind
    <3> QED
      BY <1>1, <1>2, <3>1, <3>2
  <2> QED
    BY <2>1, <2>2
<1> QED
  BY <1>5 DEF Suits, kind, wanted, asIs

-----------------------------------------------------------------------------
(* Steps of the machine.                                                   *)

\* Everything node i needs has been taken from the stack, and the machine
\* stands at the first node of every constant subtree that begins behind it.
Taken(i, below) ==
    /\ i \in 1 .. Size /\ Here.e[i].op # "test"
    /\ Laid(Here, Open(Here.e, First(Here.e, i)), below)
    /\ AtFirst(Here.e, Here.const, i + 1)

LEMMA Put ==
    ASSUME IInv, Ready, NEW i, NEW below, Taken(i, below), NEW v, Yields(Here, i, v), Delivered(i, v) # Trap,
           Here.e[i].op = "var" => v = store[Here.e[i].x],
           pc' = [pc EXCEPT !.n = i + 1], stack' = Append(below, Delivered(i, v)), unit' = unit, store' = store,
           trace' \in Seq(Range(trace'))
    PROVE  IInv'
<1>1. Running /\ Size \in Nat /\ Postfix(Here.e) /\ i \in 1 .. Size /\ SoundNode(unit, Here, i) /\ Here.e[i].op # "test"
  BY UnderWay DEF Ready, Taken
<1>2. /\ DOMAIN pc' = {"at", "h", "n"} /\ pc'.at = pc.at /\ pc'.h = pc.h /\ pc'.n = i + 1
  BY DEF IInv
<1>3. (Running' <=> Running) /\ Here' = Here /\ (Ready' <=> Ready)
  BY <1>2 DEF Running, Here, Ready
<1>4. Suits(Here, i, Delivered(i, v))
  BY <1>1, Handover
<1> DEFINE S == Open(Here.e, First(Here.e, i))
<1>5. Open(Here.e, i + 1) = S \cup {i} /\ S \in SUBSET (1 .. i - 1)
  <2>1. Len(Here.e) \in Nat /\ i \in 1 .. Len(Here.e)
    BY <1>1 DEF Size
  <2> QED
    BY <1>1, <2>1, OpenBehind, OpenInFront
<1>6. Laid(Here, S \cup {i}, stack')
  <2>1. i \in Nat /\ Laid(Here, S, below)
    BY <1>1 DEF Taken
  <2> HIDE DEF S
  <2> QED
    BY <1>4, <1>5, <2>1, Push
<1>7. Evaluating(Here, i + 1, stack')
  <2>1. i + 1 \in 1 .. Len(Here.e) + 1
    BY <1>1 DEF Size
  <2> QED
    BY <1>5, <1>6, <2>1 DEF Evaluating, Taken
<1>8. Printing'
  <2>1. SUFFICES ASSUME Here.k = "print", Size = 1, Here.e[1].op = "var", i = 1 PROVE Top' = store[Here.e[1].x]
    <3>1. Size' = Size /\ store' = store
      BY <1>3 DEF Size
    <3>2. pc'.n = 2 => i = 1
      BY <1>1, <1>2
    <3> QED
      BY <1>3, <3>1, <3>2 DEF Printing
  <2>2. ~TakenAsNumber(1) /\ TakenAsIs(1)
    <3>1. Consumers(1) = {}
      BY <2>1 DEF Consumers
    <3> QED
      BY <2>1, <3>1 DEF TakenAsNumber, TakenAsIs
  <2>3. Delivered(i, v) = store[Here.e[1].x]
    BY <2>1, <2>2 DEF Delivered
  <2>4. below \in Seq(Range(below))
    BY DEF Taken, Laid
  <2>5. Top' = stack'[Len(stack')]
    BY DEF Top
  <2> QED
    BY <2>3, <2>4, <2>5
<1> QED
  BY <1>2, <1>3, <1>7, <1>8 DEF IInv, Stored

\* The trace is a sequence.
LEMMA Longer ==
    ASSUME trace \in Seq(Range(trace)), NEW x
    PROVE  Append(trace, x) \in Seq(Range(Append(trace, x)))
<1> DEFINE T == Range(trace) \cup {x}
<1>1. trace \in Seq(T) /\ x \in T
  <2>1. Len(trace) \in Nat /\ trace \in [1 .. Len(trace) -> Range(trace)]
    OBVIOUS
  <2>2. trace \in [1 .. Len(trace) -> T]
    BY <2>1
  <2> QED
    BY <2>1, <2>2, SeqDef
<1> HIDE DEF T
<1>2. Append(trace, x) \in Seq(T)
  BY <1>1
<1> QED
  BY <1>2, OwnRange

LEMMA Halt ==
    ASSUME IInv, NEW events, events = <<>> \/ (\E x : events = <<x>>), StopAfter(events)
    PROVE  IInv'
<1>1. /\ pc' = Stopped /\ stack' = <<>> /\ unit' = unit /\ store' = store
      /\ trace' = trace \o events \o <<Trap>>
  BY DEF StopAfter
<1>2. DOMAIN pc' = {"at", "h", "n"} /\ ~Running'
  BY <1>1 DEF Stopped, Running
<1>3. trace' \in Seq(Range(trace'))
  <2>1. PICK x : events = <<>> \/ events = <<x>>
    OBVIOUS
  <2> DEFINE T == Range(trace) \cup {x, Trap}
  <2>2. trace \in Seq(T) /\ events \in Seq(T) /\ <<Trap>> \in Seq(T)
    <3>1. Len(trace) \in Nat /\ trace \in [1 .. Len(trace) -> Range(trace)]
      BY DEF IInv
    <3>2. trace \in [1 .. Len(trace) -> T]
      BY <3>1
    <3>3. trace \in Seq(T) /\ x \in T /\ Trap \in T
      BY <3>1, <3>2, SeqDef
    <3> HIDE DEF T
    <3>4. <<>> \in Seq(T) /\ <<x>> \in Seq(T) /\ <<Trap>> \in Seq(T)
      BY <3>3
    <3> QED
      BY <2>1, <3>3, <3>4
  <2> HIDE DEF T
  <2>3. trace' \in Seq(T)
    BY <1>1, <2>2
  <2> QED
    BY <2>3, OwnRange
<1> QED
  BY <1>1, <1>2, <1>3 DEF IInv, Stored, Printing

LEMMA Halted == IInv /\ Stop => IInv'
BY Halt DEF Stop

LEMMA GivesSound ==
    ASSUME IInv, Ready, NEW i, NEW below, Taken(i, below), NEW v, v = Trap \/ Yields(Here, i, v),
           Here.e[i].op = "var" => v = store[Here.e[i].x], Gives(i, below, v)
    PROVE  IInv'
<1>1. CASE v = Trap \/ Delivered(i, v) = Trap
  BY <1>1, Halted DEF Gives
<1>2. CASE ~(v = Trap \/ Delivered(i, v) = Trap)
  BY <1>2, Put DEF Gives, IInv
<1> QED
  BY <1>1, <1>2

LEMMA InvokeSound ==
    ASSUME IInv, Ready, NEW i, NEW below, Taken(i, below), NEW f, NEW args, NEW v, Yields(Here, i, v),
           Here.e[i].op # "var", Invoke(i, below, f, args, v)
    PROVE  IInv'
<1>1. CASE Delivered(i, v) = Trap
  BY <1>1, Halt DEF Invoke
<1>2. CASE Delivered(i, v) # Trap
  <2>1. trace' = Append(trace, <<f, args>>)
    BY <1>2 DEF Invoke
  <2>2. trace' \in Seq(Range(trace'))
    BY <2>1, Longer DEF IInv
  <2> QED
    BY <1>2, <2>2, Put DEF Invoke
<1> QED
  BY <1>1, <1>2

\* A handler among the candidates returns a value of the kind asked for.
LEMMA MetamethodSound ==
    ASSUME IInv, Ready, NEW i, NEW below, Taken(i, below), NEW t, NEW event, NEW args,
           NEW ret \in {"Number", "Bool", "String"}, NEW miss,
           Here.kinds[i] = ret, i \notin Here.ints, Here.e[i].op # "var",
           Here.e[i].o = "~=" => ret = "Bool",
           (Here.e[i].o # "~=" /\ miss = Trap) \/ Fits(miss, ret),
           Metamethod(i, below, t, event, args, ret, miss)
    PROVE  IInv'
<1> DEFINE callable == Candidates(Len(args), ret)
           h == Handler(t, event)
           Result(v) == IF Here.e[i].o = "~=" THEN Bool(~v[2]) ELSE v
<1>1. ASSUME NEW v, Fits(v, ret) PROVE Yields(Here, i, Result(v))
  <2>1. Fits(Result(v), ret)
    BY <1>1, TagsOfValues, TagsOfKinds
  <2> QED
    BY <2>1 DEF Yields
<1>2. CASE callable = {} \/ h = Null
  <2>1. Gives(i, below, Result(miss))
    BY <1>2 DEF Metamethod
  <2>2. Result(miss) = Trap \/ Yields(Here, i, Result(miss))
    BY <1>1
  <2> HIDE DEF Result
  <2> QED
    BY <2>1, <2>2, GivesSound
<1>3. CASE ~(callable = {} \/ h = Null) /\ h \in callable
  <2>1. Invoke(i, below, h, args, Result(Returns[h]))
    BY <1>3 DEF Metamethod
  <2>2. h \in Fun /\ KindOfTag[Tag(Returns[h])] = ret
    BY <1>3 DEF Candidates
  <2>3. Fits(Returns[h], ret)
    BY <2>2, ChunksAssumption DEF Fits
  <2>4. Yields(Here, i, Result(Returns[h]))
    BY <1>1, <2>3
  <2> HIDE DEF Result, h
  <2> QED
    BY <2>1, <2>4, InvokeSound
<1>4. CASE ~(callable = {} \/ h = Null) /\ h \notin callable
  <2>1. Stop
    BY <1>4 DEF Metamethod
  <2> QED
    BY <2>1, Halted
<1> QED
  BY <1>2, <1>3, <1>4

\* A statement begins with nothing on the stack.
LEMMA Fresh ==
    ASSUME NEW u, NEW st, SoundStatement(u, st)
    PROVE  Evaluating(st, 1, <<>>)
<1>1. Len(st.e) \in Nat /\ Postfix(st.e)
  BY DEF SoundStatement
<1>2. Open(st.e, 1) = {}
  BY DEF Open
<1>3. Laid(st, {}, <<>>)
  <2>1. <<>> \in Seq(Range(<<>>)) /\ Len(<<>>) = 0
    OBVIOUS
  <2> QED
    BY <2>1, FS_EmptySet DEF Laid
<1>4. AtFirst(st.e, st.const, 1)
  <2> SUFFICES ASSUME NEW i \in 1 .. Len(st.e), st.const[i] # None, 1 \in Under(st.e, i) PROVE First(st.e, i) = 1
    BY DEF AtFirst
  <2>1. st.e[i].op # "test"
    BY DEF SoundStatement, SoundNode
  <2>2. Under(st.e, i) = First(st.e, i) .. i
    BY <2>1 DEF Under, First
  <2>3. First(st.e, i) \in 1 .. i
    BY <1>1, Nested
  <2> QED
    BY <2>2, <2>3
<1>5. 1 \in 1 .. Len(st.e) + 1
  BY <1>1
<1>6. Laid(st, Open(st.e, 1), <<>>)
  BY <1>2, <1>3
<1> QED
  BY <1>4, <1>5, <1>6 DEF Evaluating

LEMMA ProceedSound ==
    ASSUME IInv, NEW p, DOMAIN p = {"at", "h", "n"}, p.n = 1, Proceed(p), Stored(unit, store'), trace' \in Seq(Range(trace'))
    PROVE  IInv'
<1>1. pc' = p /\ stack' = <<>> /\ unit' = unit
  BY DEF Proceed
<1>2. ASSUME Running' PROVE SoundStatement(unit, Here')
  BY <1>1, <1>2 DEF Running, Here, IInv, Sound
<1>3. Running' => Evaluating(Here', 1, <<>>)
  BY <1>2, Fresh
<1> QED
  BY <1>1, <1>3 DEF IInv, Printing

-----------------------------------------------------------------------------
(* Nodes that are evaluated.                                               *)

\* Node n is next and is not part of a constant.
At(n) == Ready /\ n = pc.n /\ n <= Size /\ Roots(n) = {}

LEMMA Standing ==
    ASSUME IInv, NEW n, At(n)
    PROVE  /\ Running /\ n \in 1 .. Size /\ Len(Here.e) = Size /\ Size \in Nat /\ Postfix(Here.e)
           /\ SoundNode(unit, Here, n) /\ Laid(Here, Open(Here.e, n), stack)
           /\ Here.e[n].op # "test" => Here.const[n] = None
<1>1. Running /\ Size \in Nat /\ Len(Here.e) = Size /\ Postfix(Here.e)
  BY UnderWay DEF At, Ready, Size
<1>2. Evaluating(Here, n, stack)
  BY <1>1 DEF IInv, At
<1>3. n \in 1 .. Size
  BY <1>1, <1>2 DEF Evaluating, At
<1>4. SoundNode(unit, Here, n)
  BY <1>1, <1>3, UnderWay
<1>5. ASSUME Here.e[n].op # "test" PROVE Here.const[n] = None
  <2>1. Here.e[n].size \in Nat /\ Here.e[n].size > 0
    BY <1>1, <1>3, <1>5 DEF Postfix
  <2>2. n \in Under(Here.e, n)
    BY <1>3, <2>1 DEF Under
  <2>3. n \in n .. Size
    BY <1>3
  <2> QED
    BY <2>2, <2>3 DEF At, Roots
<1> QED
  BY <1>1, <1>2, <1>3, <1>4, <1>5 DEF Evaluating

\* The machine may go on behind a node whose tree is done, to the and or or
\* it ends as well.
LEMMA GoesOn ==
    ASSUME IInv, NEW n, At(n), NEW i \in n .. Size, First(Here.e, i) <= n
    PROVE  AtFirst(Here.e, Here.const, i + 1)
<1>1. n \in 1 .. Len(Here.e) /\ i \in n .. Len(Here.e) /\ Len(Here.e) \in Nat /\ Postfix(Here.e) /\ Running
  BY Standing
<1>2. \A r \in n .. Len(Here.e) : ~(Here.const[r] # None /\ n \in Under(Here.e, r))
  BY <1>1, Standing DEF At, Roots
<1>3. \A r \in 1 .. Len(Here.e) : Here.const[r] # None => Here.e[r].op # "test"
  BY <1>1, UnderWay, Standing
<1> QED
  BY <1>1, <1>2, <1>3, AtFirstBehind

\* A value on top, and what is under it.
LEMMA TakeTop ==
    ASSUME NEW st, Len(st.e) \in Nat, Postfix(st.e), NEW k \in 1 .. Len(st.e), st.e[k].op # "test",
           NEW s, Laid(st, Open(st.e, k + 1), s)
    PROVE  /\ Len(s) \in Nat \ {0} /\ s \in Seq(Range(s)) /\ Suits(st, k, s[Len(s)])
           /\ Laid(st, Open(st.e, First(st.e, k)), SubSeq(s, 1, Len(s) - 1))
<1> DEFINE S == Open(st.e, First(st.e, k))
<1>1. Open(st.e, k + 1) = S \cup {k}
  BY OpenBehind
<1>5. k \in Nat /\ S \in SUBSET (1 .. k - 1)
  BY OpenInFront
<1> HIDE DEF S
<1>6. Laid(st, S \cup {k}, s)
  BY <1>1
<1>7. /\ Len(s) \in Nat \ {0} /\ s \in Seq(Range(s)) /\ Suits(st, k, s[Len(s)])
      /\ Laid(st, S, SubSeq(s, 1, Len(s) - 1))
  BY <1>5, <1>6, Pop
<1> QED
  BY <1>7 DEF S

\* A node without operands.
LEMMA LeafTaken ==
    ASSUME IInv, NEW n, At(n), Here.e[n].op \in Leaf
    PROVE  Taken(n, stack) /\ Here.const[n] = None
<1>1. n \in 1 .. Len(Here.e) /\ Len(Here.e) \in Nat /\ Len(Here.e) = Size /\ Postfix(Here.e)
  BY Standing
<1>2. First(Here.e, n) = n /\ Here.e[n].op # "test"
  BY <1>1, Shape DEF Leaf
<1>3. AtFirst(Here.e, Here.const, n + 1)
  <2>1. n \in n .. Size /\ First(Here.e, n) <= n
    BY <1>1, <1>2
  <2> QED
    BY <2>1, GoesOn
<1> QED
  BY <1>1, <1>2, <1>3, Standing DEF Taken

\* A node behind its only, or its last, operand.
LEMMA LastOperand ==
    ASSUME IInv, NEW n, At(n), Here.e[n].op \notin Leaf
    PROVE  /\ n - 1 \in 1 .. Size /\ Here.e[n - 1].op # "test"
           /\ Len(stack) \in Nat \ {0} /\ stack \in Seq(Range(stack)) /\ Suits(Here, n - 1, Top)
           /\ Front(stack) = SubSeq(stack, 1, Len(stack) - 1)
           /\ Laid(Here, Open(Here.e, First(Here.e, n - 1)), Front(stack))
<1>1. n \in 1 .. Len(Here.e) /\ Len(Here.e) \in Nat /\ Len(Here.e) = Size /\ Postfix(Here.e)
  BY Standing
<1>2. n > 1 /\ Here.e[n - 1].op # "test"
  BY <1>1 DEF Postfix
<1>3. PICK k \in 1 .. Len(Here.e) : k = n - 1 /\ n = k + 1
  BY <1>1, <1>2
<1>4. Laid(Here, Open(Here.e, k + 1), stack)
  BY <1>3, Standing
<1>5. /\ Len(stack) \in Nat \ {0} /\ stack \in Seq(Range(stack)) /\ Suits(Here, k, stack[Len(stack)])
      /\ Laid(Here, Open(Here.e, First(Here.e, k)), SubSeq(stack, 1, Len(stack) - 1))
  BY <1>1, <1>2, <1>3, <1>4, TakeTop
<1>6. Front(stack) = SubSeq(stack, 1, Len(stack) - 1)
  BY DEF Front
<1> QED
  BY <1>1, <1>2, <1>3, <1>5, <1>6 DEF Top

\* A constant subtree is left behind in one step.
LEMMA ConstantSound == IInv /\ Constant => IInv'
<1> SUFFICES ASSUME IInv, Constant PROVE IInv'
  OBVIOUS
<1>1. Ready /\ Running /\ pc.n <= Size /\ Roots(pc.n) # {}
  BY DEF Constant, Ready
<1>2. Size \in Nat /\ Len(Here.e) = Size /\ Postfix(Here.e) /\ Evaluating(Here, pc.n, stack)
  BY <1>1, UnderWay DEF IInv, Size
<1>3. PICK n \in 1 .. Size : n = pc.n
  BY <1>1, <1>2 DEF Evaluating
<1>4. Roots(n) \in SUBSET Nat /\ \A r \in Roots(n) : r <= Size
  BY <1>2, <1>3 DEF Roots
<1>5. PICK i \in Roots(n) : \A r \in Roots(n) : r <= i
  BY <1>1, <1>2, <1>3, <1>4, GreatestNat
<1>6. Max(Roots(n)) \in Roots(n) /\ \A r \in Roots(n) : r <= Max(Roots(n))
  <2>1. \A r \in Roots(n) : i >= r
    BY <1>4, <1>5
  <2>2. Max(Roots(n)) \in Roots(n) /\ \A r \in Roots(n) : Max(Roots(n)) >= r
    BY <1>5, <2>1, Zenon DEF Max
  <2> QED
    BY <1>4, <2>2
<1>7. PICK m : m = Max(Roots(n))
  OBVIOUS
<1>8. m \in n .. Size /\ Here.const[m] # None /\ n \in Under(Here.e, m) /\ m \in 1 .. Size
  BY <1>2, <1>3, <1>6, <1>7 DEF Roots
<1>9. SoundNode(unit, Here, m)
  BY <1>1, <1>8, UnderWay
<1>10. Here.e[m].op \notin {"test", "var"} /\ Yields(Here, m, Here.const[m])
  BY <1>8, <1>9 DEF SoundNode
<1>11. First(Here.e, m) = n
  BY <1>2, <1>3, <1>8 DEF Evaluating, AtFirst
<1>12. \A r \in n .. Len(Here.e) : Here.const[r] # None /\ n \in Under(Here.e, r) => r <= m
  BY <1>2, <1>6, <1>7 DEF Roots
<1>13. \A r \in 1 .. Len(Here.e) : Here.const[r] # None => Here.e[r].op # "test"
  BY <1>1, <1>2, UnderWay
<1>14. n \in 1 .. Len(Here.e) /\ m \in n .. Len(Here.e) /\ Len(Here.e) \in Nat
  BY <1>2, <1>3, <1>8
<1>15. First(Here.e, m) <= n
  BY <1>3, <1>11
<1>16. AtFirst(Here.e, Here.const, m + 1)
  BY <1>2, <1>12, <1>13, <1>14, <1>15, AtFirstBehind
<1>17. Taken(m, stack)
  BY <1>2, <1>3, <1>8, <1>10, <1>11, <1>16 DEF Taken, Evaluating
<1>18. Gives(m, stack, Here.const[m])
  BY <1>3, <1>7 DEF Constant
<1> QED
  BY <1>1, <1>10, <1>17, <1>18, GivesSound

LEMMA LoadSound == IInv /\ Load => IInv'
<1> SUFFICES ASSUME IInv, Load PROVE IInv'
  OBVIOUS
<1>1. PICK n : n = pc.n
  OBVIOUS
<1>2. At(n) /\ Ready /\ Here.e[n].op = "var" /\ Gives(n, stack, store[Here.e[n].x])
  BY <1>1 DEF Load, AtNode, At
<1>3. Taken(n, stack) /\ Here.const[n] = None
  BY <1>2, LeafTaken DEF Leaf
<1>4. SoundNode(unit, Here, n)
  BY <1>2, Standing
<1>5. Yields(Here, n, store[Here.e[n].x])
  BY <1>2, <1>3, <1>4 DEF SoundNode, Yields, IInv, Stored
<1> QED
  BY <1>2, <1>3, <1>5, GivesSound

\* The kind of a function is the kind of what it returns.
LEMMA ReturnedKind ==
    ASSUME NEW f \in Fun
    PROVE  Fits(Returns[f], KindOfTag[Tag(Returns[f])]) /\ KindOfTag[Tag(Returns[f])] # "Tagged"
BY ChunksAssumption DEF Fits, KindOfTag

LEMMA CallUserSound == IInv /\ CallUser => IInv'
<1> SUFFICES ASSUME IInv, CallUser PROVE IInv'
  OBVIOUS
<1>1. PICK n, f : n = pc.n /\ f = Here.e[n].x
  OBVIOUS
<1>2. At(n) /\ Ready /\ Here.e[n].op = "call" /\ Invoke(n, stack, f, <<>>, Returns[f])
  BY <1>1 DEF CallUser, AtNode, At
<1>3. Taken(n, stack) /\ Here.const[n] = None
  BY <1>2, LeafTaken DEF Leaf
<1>4. f \in Fun /\ Here.kinds[n] = KindOfTag[Tag(Returns[f])] /\ n \notin Here.ints
  BY <1>1, <1>2, <1>3, Standing DEF SoundNode
<1>5. Yields(Here, n, Returns[f])
  BY <1>4, ReturnedKind DEF Yields
<1> QED
  BY <1>2, <1>3, <1>5, InvokeSound

LEMMA CallHoistedSound == IInv /\ CallHoisted => IInv'
<1> SUFFICES ASSUME IInv, CallHoisted PROVE IInv'
  OBVIOUS
<1>1. PICK n, f : n = pc.n /\ f = ahead[<<pc.at, n>>]
  OBVIOUS
<1>2. /\ At(n) /\ Ready /\ Here.e[n].op = "callee"
      /\ IF f \in Candidates(0, "Number") THEN Invoke(n, stack, f, <<>>, Returns[f]) ELSE Stop
  BY <1>1 DEF CallHoisted, AtNode, At
<1>3. CASE f \notin Candidates(0, "Number")
  BY <1>2, <1>3, Halted
<1>4. CASE f \in Candidates(0, "Number")
  <2>1. Taken(n, stack) /\ Here.const[n] = None
    BY <1>2, LeafTaken DEF Leaf
  <2>2. Here.kinds[n] = "Number" /\ n \notin Here.ints
    BY <1>2, <2>1, Standing DEF SoundNode
  <2>3. f \in Fun /\ KindOfTag[Tag(Returns[f])] = "Number"
    BY <1>4 DEF Candidates
  <2>4. Yields(Here, n, Returns[f])
    BY <2>2, <2>3, ReturnedKind DEF Yields
  <2> QED
    BY <1>2, <1>4, <2>1, <2>4, InvokeSound
<1> QED
  BY <1>3, <1>4

\* The value that an and or or takes over from an operand, or tests, is not
\* the operand of an arithmetic operator.
LEMMA TakenOver ==
    ASSUME IInv, NEW n, At(n), Here.e[n].op \in {"test", "logic"}, NEW v, Suits(Here, n - 1, v),
           NEW i \in 1 .. Size, Here.e[i].op = "logic", Here.kinds[i] = Here.kinds[n - 1], SoundNode(unit, Here, i)
    PROVE  Yields(Here, i, v)
<1>1. n \in 1 .. Len(Here.e) /\ Len(Here.e) \in Nat /\ Len(Here.e) = Size /\ Postfix(Here.e)
  BY Standing
<1>2. PICK j \in 1 .. Size : j = n - 1 /\ n = j + 1
  BY <1>1, LastOperand DEF Leaf
<1>3. j \in Operands(Here.e, j + 1) /\ j + 1 \in 1 .. Len(Here.e) /\ j \in 1 .. Len(Here.e)
  BY <1>1, <1>2 DEF Operands
<1>4. \A k \in 1 .. Len(Here.e) : Here.e[k].op = "bin" => Left(Here.e, k) # j
  BY <1>1, <1>3, OneTaker
<1>5. ASSUME NEW k \in j + 1 .. Len(Here.e), Here.e[k].op \in {"bin", "un"} PROVE j \notin Operands(Here.e, k)
  <2>1. SUFFICES ASSUME j \in Operands(Here.e, k) PROVE FALSE
    OBVIOUS
  <2>2. k \in 1 .. Len(Here.e) /\ k # n
    BY <1>1, <1>2, <1>5
  <2>3. j = k - 1
    BY <1>4, <1>5, <2>1, <2>2 DEF Operands
  <2> QED
    BY <1>1, <1>2, <2>2, <2>3
<1>6. ~Wanted(Here, j) /\ ~AsIs(Here, j)
  <2>1. Len(Here.e) # 1
    BY <1>1, <1>2
  <2> QED
    BY <1>5, <2>1, Zenon DEF Wanted, AsIs
<1>7. i \notin Here.ints
  BY DEF SoundNode
<1> QED
  BY <1>2, <1>6, <1>7 DEF Suits, Yields

LEMMA TestSound == IInv /\ Test => IInv'
<1> SUFFICES ASSUME IInv, Test PROVE IInv'
  OBVIOUS
<1>1. PICK n : n = pc.n
  OBVIOUS
<1>2. PICK decided : decided = (Truthy(Here.kinds[n - 1], Top) = (Here.e[n].o = "or"))
  OBVIOUS
<1>3. /\ At(n) /\ Ready /\ Here.e[n].op = "test"
      /\ IF decided THEN Gives(LogicOf(n), Front(stack), Top)
         ELSE pc' = [pc EXCEPT !.n = @ + 1] /\ stack' = Front(stack) /\ UNCHANGED <<unit, store, trace>>
  BY <1>1, <1>2 DEF Test, AtNode, At
<1>4. /\ n \in 1 .. Len(Here.e) /\ Len(Here.e) \in Nat /\ Len(Here.e) = Size /\ Postfix(Here.e) /\ Running
  BY <1>3, Standing
<1>5. /\ n - 1 \in 1 .. Size /\ Suits(Here, n - 1, Top)
      /\ Laid(Here, Open(Here.e, First(Here.e, n - 1)), Front(stack))
  BY <1>3, LastOperand DEF Leaf
<1>6. First(Here.e, n) = First(Here.e, n - 1)
  BY <1>3, <1>4, Shape
<1>7. CASE decided
  <2>1. PICK i : i = LogicOf(n)
    OBVIOUS
  <2>2. i \in n + 1 .. Size /\ Here.e[i].op = "logic" /\ Left(Here.e, i) = n - 1
    <3>1. \E j \in n + 1 .. Size : Here.e[j].op = "logic" /\ Left(Here.e, j) = n - 1
      BY <1>3, <1>4 DEF Postfix
    <3> QED
      BY <2>1, <3>1 DEF LogicOf
  <2>3. i \in 1 .. Size /\ i \in n .. Size
    BY <1>4, <2>2
  <2>4. First(Here.e, i) = First(Here.e, n - 1)
    BY <1>4, <2>2, <2>3, Shape
  <2>5. First(Here.e, i) <= n
    <3>1. First(Here.e, n) \in 1 .. n
      BY <1>4, Nested
    <3> QED
      BY <1>4, <1>6, <2>4, <3>1
  <2>6. AtFirst(Here.e, Here.const, i + 1)
    BY <1>3, <2>3, <2>5, GoesOn
  <2>7. Taken(i, Front(stack))
    BY <1>5, <2>2, <2>3, <2>4, <2>6 DEF Taken
  <2>8. SoundNode(unit, Here, i) /\ Here.e[i].op # "var"
    BY <1>4, <2>2, <2>3, UnderWay
  <2>9. Here.kinds[i] = Here.kinds[n - 1]
    BY <2>2, <2>8 DEF SoundNode, SoundOperator
  <2>10. Yields(Here, i, Top)
    BY <1>3, <1>5, <2>2, <2>3, <2>8, <2>9, TakenOver
  <2> QED
    BY <1>3, <1>7, <2>1, <2>7, <2>8, <2>10, GivesSound
<1>8. CASE ~decided
  <2>1. pc' = [pc EXCEPT !.n = @ + 1] /\ stack' = Front(stack) /\ unit' = unit /\ store' = store /\ trace' = trace
    BY <1>3, <1>8
  <2>2. DOMAIN pc' = {"at", "h", "n"} /\ pc'.at = pc.at /\ pc'.h = pc.h /\ pc'.n = n + 1
    BY <1>1, <2>1 DEF IInv
  <2>3. (Running' <=> Running) /\ Here' = Here /\ (Ready' <=> Ready)
    BY <2>1, <2>2 DEF Running, Here, Ready
  <2>4. Open(Here.e, n + 1) = Open(Here.e, First(Here.e, n))
    BY <1>3, <1>4, OpenBehindTest
  <2>5. AtFirst(Here.e, Here.const, n + 1)
    <3>1. First(Here.e, n) <= n /\ n \in n .. Size
      BY <1>4, Nested
    <3> QED
      BY <1>3, <3>1, GoesOn
  <2>6. Evaluating(Here, n + 1, stack')
    <3>1. n + 1 \in 1 .. Len(Here.e) + 1
      BY <1>4
    <3> QED
      BY <1>5, <1>6, <2>1, <2>4, <2>5, <3>1 DEF Evaluating
  <2>7. Printing'
    <3>1. pc'.n = 2 => Here.e[1].op = "test"
      BY <1>1, <1>3, <1>4, <2>2
    <3> QED
      BY <2>3, <3>1 DEF Printing
  <2> QED
    BY <1>3, <2>1, <2>2, <2>3, <2>6, <2>7 DEF IInv, Stored
<1> QED
  BY <1>7, <1>8

LEMMA EndLogicSound == IInv /\ EndLogic => IInv'
<1> SUFFICES ASSUME IInv, EndLogic PROVE IInv'
  OBVIOUS
<1>1. PICK n : n = pc.n
  OBVIOUS
<1>2. At(n) /\ Ready /\ Here.e[n].op = "logic" /\ Gives(n, Front(stack), Top)
  BY <1>1 DEF EndLogic, AtNode, At
<1>3. n \in 1 .. Len(Here.e) /\ Len(Here.e) \in Nat /\ Len(Here.e) = Size /\ Postfix(Here.e) /\ SoundNode(unit, Here, n)
  BY <1>2, Standing
<1>4. Suits(Here, n - 1, Top) /\ Laid(Here, Open(Here.e, First(Here.e, n - 1)), Front(stack))
  BY <1>2, LastOperand DEF Leaf
<1>5. PICK l \in 1 .. n - 3 : l = Left(Here.e, n)
  BY <1>2, <1>3, Shape
<1>6. PICK t \in 1 .. Len(Here.e) : t = l + 1
  BY <1>3, <1>5
<1>7. Here.e[t].op = "test" /\ First(Here.e, t) = First(Here.e, n) /\ First(Here.e, n - 1) = t + 1
  BY <1>2, <1>3, <1>5, <1>6, Shape
<1>8. Open(Here.e, t + 1) = Open(Here.e, First(Here.e, n))
  BY <1>3, <1>7, OpenBehindTest
<1>9. AtFirst(Here.e, Here.const, n + 1)
  <2>1. First(Here.e, n) <= n /\ n \in n .. Size
    BY <1>3, Nested
  <2> QED
    BY <1>2, <2>1, GoesOn
<1>10. Taken(n, Front(stack))
  BY <1>2, <1>3, <1>4, <1>7, <1>8, <1>9 DEF Taken
<1>11. Yields(Here, n, Top)
  <2>1. Here.kinds[n] = Here.kinds[n - 1]
    BY <1>2, <1>3 DEF SoundNode, SoundOperator
  <2> QED
    BY <1>2, <1>3, <1>4, <2>1, TakenOver
<1> QED
  BY <1>2, <1>10, <1>11, GivesSound

LEMMA UnarySound == IInv /\ Unary => IInv'
<1> SUFFICES ASSUME IInv, Unary PROVE IInv'
  OBVIOUS
<1>1. PICK n, op, kind, below : n = pc.n /\ op = Here.e[n].o /\ kind = Here.kinds[n - 1] /\ below = Front(stack)
  OBVIOUS
<1>2. PICK v : v = IF op \in {"-", "~"} /\ TaggedLocal(n - 1) THEN TaggedNumber(Top) ELSE Top
  OBVIOUS
<1>17. PICK event : event = IF op = "-" THEN "neg" ELSE "bnot"
  OBVIOUS
<1>3. /\ At(n) /\ Ready /\ Here.e[n].op = "un"
      /\ op = "not" => Gives(n, below, Bool(~Truthy(kind, v)))
      /\ op = "#" /\ kind = "String" => Gives(n, below, Num(Len(v[2])))
      /\ op = "#" /\ kind = "Table" => Metamethod(n, below, v, "#", <<v>>, "Number", Num(RawLen[v[2]]))
      /\ op \in {"-", "~"} /\ kind = "Table" => Metamethod(n, below, v, event, <<v>>, "Number", Trap)
      /\ op \in {"-", "~"} /\ kind # "Table" /\ v = Trap => Stop
      /\ op = "-" /\ kind # "Table" /\ v # Trap => Gives(n, below, NegF(v))
      /\ op = "~" /\ kind # "Table" /\ v # Trap =>
            Gives(n, below, IF IsInteger(v) THEN Num(-v[2] - 1) ELSE Trap)
  BY <1>1, <1>2, <1>17 DEF Unary, AtNode, At
<1>4. n \in 1 .. Len(Here.e) /\ Len(Here.e) \in Nat /\ Len(Here.e) = Size /\ Postfix(Here.e)
      /\ SoundNode(unit, Here, n) /\ Here.const[n] = None
  BY <1>3, Standing
<1>5. Laid(Here, Open(Here.e, First(Here.e, n - 1)), below)
  BY <1>1, <1>3, LastOperand DEF Leaf
<1>6. First(Here.e, n) = First(Here.e, n - 1)
  BY <1>3, <1>4, Shape
<1>7. Taken(n, below)
  <2>1. First(Here.e, n) <= n /\ n \in n .. Size
    BY <1>4, Nested
  <2>2. AtFirst(Here.e, Here.const, n + 1)
    BY <1>3, <2>1, GoesOn
  <2> QED
    BY <1>3, <1>4, <1>5, <1>6, <2>2 DEF Taken
<1>8. /\ Here.kinds[n] = IF op = "not" THEN "Bool" ELSE "Number"
      /\ \/ op = "not"
         \/ op = "#" /\ kind \in {"String", "Table"}
         \/ op \in {"-", "~"} /\ kind \in {"Number", "Table", "Tagged"}
      /\ n \notin Here.ints
  BY <1>1, <1>3, <1>4 DEF SoundNode, SoundOperator
<1>9. \A w : Tag(w) = (IF op = "not" THEN "bool" ELSE "num") => Yields(Here, n, w)
  BY <1>8, TagsOfKinds DEF Yields
<1>10. CASE op = "not"
  <2>1. Gives(n, below, Bool(~Truthy(kind, v)))
    BY <1>3, <1>10
  <2> QED
    BY <1>3, <1>7, <1>9, <1>10, <2>1, TagsOfValues, GivesSound
<1>11. CASE op = "#" /\ kind = "String"
  <2>1. Gives(n, below, Num(Len(v[2])))
    BY <1>3, <1>11
  <2> QED
    BY <1>3, <1>7, <1>9, <1>11, <2>1, TagsOfValues, GivesSound
<1>12. CASE op = "#" /\ kind = "Table"
  <2>1. Metamethod(n, below, v, "#", <<v>>, "Number", Num(RawLen[v[2]]))
    BY <1>3, <1>12
  <2>2. Fits(Num(RawLen[v[2]]), "Number")
    BY TagsOfValues, TagsOfKinds
  <2> QED
    BY <1>1, <1>3, <1>7, <1>8, <1>12, <2>1, <2>2, MetamethodSound
<1>13. CASE op \in {"-", "~"} /\ kind = "Table"
  <2>1. Metamethod(n, below, v, event, <<v>>, "Number", Trap)
    BY <1>3, <1>13
  <2> QED
    BY <1>1, <1>3, <1>7, <1>8, <1>13, <2>1, MetamethodSound
<1>14. CASE op \in {"-", "~"} /\ kind # "Table" /\ v = Trap
  <2>1. Stop
    BY <1>3, <1>14
  <2> QED
    BY <2>1, Halted
<1>15. CASE op = "-" /\ kind # "Table" /\ v # Trap
  <2>1. Gives(n, below, NegF(v))
    BY <1>3, <1>15
  <2>2. Tag(NegF(v)) = "num"
    BY DEF NegF, Tag
  <2> QED
    BY <1>3, <1>7, <1>9, <1>15, <2>1, <2>2, GivesSound
<1>16. CASE op = "~" /\ kind # "Table" /\ v # Trap
  <2>1. PICK w : w = (IF IsInteger(v) THEN Num(-v[2] - 1) ELSE Trap)
    OBVIOUS
  <2>2. Gives(n, below, w) /\ (w = Trap \/ Tag(w) = "num")
    BY <1>3, <1>16, <2>1, TagsOfValues
  <2> QED
    BY <1>3, <1>7, <1>9, <1>16, <2>2, GivesSound
<1> QED
  BY <1>8, <1>10, <1>11, <1>12, <1>13, <1>14, <1>15, <1>16

\* The two operands of an operator are on top of what is under it.
LEMMA BothOperands ==
    ASSUME IInv, NEW n, At(n), Here.e[n].op = "bin"
    PROVE  /\ n - 1 \in 1 .. n - 1 /\ Left(Here.e, n) \in 1 .. n - 2 /\ Operands(Here.e, n) = {Left(Here.e, n), n - 1}
           /\ Suits(Here, n - 1, Top) /\ Suits(Here, Left(Here.e, n), stack[Len(stack) - 1])
           /\ Taken(n, SubSeq(stack, 1, Len(stack) - 2))
<1>1. n \in 1 .. Len(Here.e) /\ Len(Here.e) \in Nat /\ Len(Here.e) = Size /\ Postfix(Here.e)
  BY Standing
<1>2. PICK l \in 1 .. n - 2 : l = Left(Here.e, n)
  BY <1>1, Shape
<1>3. First(Here.e, n) = First(Here.e, l) /\ First(Here.e, n - 1) = l + 1 /\ Here.e[l].op # "test"
  BY <1>1, <1>2, Shape
<1>4. PICK s : s = Front(stack)
  OBVIOUS
<1>5. /\ Len(stack) \in Nat \ {0} /\ stack \in Seq(Range(stack)) /\ Suits(Here, n - 1, Top)
      /\ s = SubSeq(stack, 1, Len(stack) - 1) /\ Laid(Here, Open(Here.e, l + 1), s)
  BY <1>3, <1>4, LastOperand DEF Leaf
<1>6. /\ Len(s) \in Nat \ {0} /\ Suits(Here, l, s[Len(s)])
      /\ Laid(Here, Open(Here.e, First(Here.e, l)), SubSeq(s, 1, Len(s) - 1))
  <2>1. l \in 1 .. Len(Here.e)
    BY <1>1, <1>2
  <2> QED
    BY <1>1, <1>3, <1>5, <2>1, TakeTop
<1>7. PICK m \in Nat : m = Len(stack) /\ m > 0
  BY <1>5
<1>14. \A k \in 1 .. m - 1 : stack[k] \in Range(stack)
  BY <1>5, <1>7 DEF Range
<1>8. Len(s) = m - 1 /\ \A k \in 1 .. m - 1 : s[k] = stack[k]
  BY <1>5, <1>7, <1>14, SubSeqProperties
<1>9. s[Len(s)] = stack[m - 1] /\ m - 1 > 0
  BY <1>6, <1>7, <1>8
<1>10. SubSeq(s, 1, Len(s) - 1) = SubSeq(stack, 1, m - 2)
  <2>1. Len(s) - 1 = m - 2 /\ m - 2 \in Nat
    BY <1>7, <1>8, <1>9
  <2>2. \A k \in 1 .. m - 2 : s[k] \in Range(s) /\ stack[k] \in Range(stack) /\ s[k] = stack[k]
    <3>1. s \in Seq(Range(s)) /\ Len(s) = m - 1
      BY <1>5, <1>8 DEF Laid
    <3>2. \A k \in 1 .. m - 1 : s[k] \in Range(s)
      BY <3>1 DEF Range
    <3> QED
      BY <1>7, <1>8, <1>14, <3>2
  <2>3. /\ SubSeq(s, 1, m - 2) \in Seq(Range(s)) /\ SubSeq(stack, 1, m - 2) \in Seq(Range(stack))
        /\ Len(SubSeq(s, 1, m - 2)) = m - 2 /\ Len(SubSeq(stack, 1, m - 2)) = m - 2
        /\ \A k \in 1 .. m - 2 : SubSeq(s, 1, m - 2)[k] = s[k] /\ SubSeq(stack, 1, m - 2)[k] = stack[k]
    BY <1>7, <2>1, <2>2, SubSeqProperties
  <2>4. \A k \in 1 .. m - 2 : SubSeq(s, 1, m - 2)[k] = SubSeq(stack, 1, m - 2)[k]
    BY <2>2, <2>3
  <2> QED
    BY <2>1, <2>3, <2>4, SeqEqual
<1>11. AtFirst(Here.e, Here.const, n + 1)
  <2>1. First(Here.e, n) <= n /\ n \in n .. Size
    BY <1>1, Nested
  <2> QED
    BY <2>1, GoesOn
<1>12. Taken(n, SubSeq(stack, 1, Len(stack) - 2))
  BY <1>1, <1>3, <1>6, <1>7, <1>10, <1>11 DEF Taken
<1>13. Suits(Here, l, stack[Len(stack) - 1])
  BY <1>6, <1>7, <1>9
<1> QED
  BY <1>1, <1>2, <1>5, <1>12, <1>13 DEF Operands

\* An operand of an arithmetic operator that is not a table has become a number.
LEMMA NumberOperand ==
    ASSUME Size \in Nat, NEW n \in 1 .. Size, Here.e[n].op = "bin", Here.e[n].o \in Arith \cup Bitwise,
           NEW l \in 1 .. n - 1, l \in Operands(Here.e, n), Here.kinds[l] # "Table", NEW v, Suits(Here, l, v)
    PROVE  Tag(v) = "num"
<1>1. n \in l + 1 .. Len(Here.e)
  BY DEF Size
<1>2. Wanted(Here, l)
  BY <1>1 DEF Wanted
<1> QED
  BY <1>2, TagsOfKinds DEF Suits

\* emit_expr: an operator that asks no metatable yields a value of the kind
\* that was inferred for it, or stops.
LEMMA BinResultYields ==
    ASSUME IInv, NEW n, At(n), Here.e[n].op = "bin", NEW a, NEW b,
           Suits(Here, Left(Here.e, n), a), Suits(Here, n - 1, b),
           {Here.kinds[Left(Here.e, n)], Here.kinds[n - 1]} # {"Table"}
    PROVE  BinResult(n, Here.e[n].o, a, b) = Trap \/ Yields(Here, n, BinResult(n, Here.e[n].o, a, b))
<1>1. n \in 1 .. Size /\ Size \in Nat /\ SoundNode(unit, Here, n) /\ Here.const[n] = None
  BY Standing
<1>2. PICK op : op = Here.e[n].o
  OBVIOUS
<1>3. PICK l \in 1 .. n - 2 : l = Left(Here.e, n)
  BY BothOperands
<1>4. l \in Operands(Here.e, n) /\ l \in 1 .. n - 1
  BY <1>1, <1>3, BothOperands
<1>5. /\ op \in Arith \cup Bitwise \cup Ordering \cup Equality \cup {".."}
      /\ Here.kinds[n] = IF op = ".." THEN "String" ELSE IF op \in Ordering \cup Equality THEN "Bool" ELSE "Number"
      /\ op \in Arith \cup Bitwise /\ "Table" \in {Here.kinds[l], Here.kinds[n - 1]} => Here.kinds[l] = Here.kinds[n - 1]
      /\ n \in Here.ints => Here.kinds[n] = "Number" /\ op \in IntOps /\ l \in Here.ints /\ n - 1 \in Here.ints
  BY <1>1, <1>2, <1>3 DEF SoundNode, SoundOperator
<1>6. \A w : n \notin Here.ints /\ Fits(w, Here.kinds[n]) => Yields(Here, n, w)
  BY <1>5 DEF Yields
<1> DEFINE tagged == (TaggedLocal(l) \/ TaggedLocal(n - 1)) /\ ByTag(n)
           text == Here.kinds[l] = "String"
<1>7. BinResult(n, op, a, b) =
        IF n \in Here.ints THEN BinopI(op, a, b)
        ELSE IF op \in Equality /\ tagged THEN Bool(TaggedEq(a, b) = (op = "=="))
        ELSE IF op = ".." THEN Concat(Text(l, a), Text(n - 1, b))
        ELSE IF op \in Ordering \cup Equality /\ text THEN Bool(CompareStr(op, a, b))
        ELSE BinopF(op, a, b)
  BY <1>3 DEF BinResult
<1> HIDE DEF tagged, text
<1>8. CASE n \in Here.ints
  <2>1. Integral(a) /\ Integral(b)
    BY <1>3, <1>5, <1>8 DEF Suits
  <2>2. BinopI(op, a, b) = Trap \/ Integral(BinopI(op, a, b))
    BY <1>5, <1>8, <2>1, LaneStaysInRange
  <2>3. \A w : Integral(w) => Yields(Here, n, w)
    BY <1>5, <1>8, TagsOfKinds DEF Yields, Integral
  <2> QED
    BY <1>2, <1>7, <1>8, <2>2, <2>3
<1>9. CASE n \notin Here.ints /\ op \in Ordering \cup Equality
  <2>1. Tag(BinopF(op, a, b)) = "bool"
    BY <1>9, BinopTags
  <2>2. op # ".."
    BY <1>9 DEF Ordering, Equality
  <2>3. Tag(BinResult(n, op, a, b)) = "bool"
    BY <1>7, <1>9, <2>1, <2>2, TagsOfValues
  <2>4. Here.kinds[n] = "Bool"
    BY <1>5, <1>9, <2>2
  <2> QED
    BY <1>2, <1>6, <1>9, <2>3, <2>4, TagsOfKinds
<1>10. CASE n \notin Here.ints /\ op = ".."
  <2>1. op \notin Equality /\ Here.kinds[n] = "String"
    BY <1>5, <1>10 DEF Equality
  <2>2. Tag(BinResult(n, op, a, b)) = "str"
    BY <1>7, <1>10, <2>1, TagsOfValues DEF Concat
  <2> QED
    BY <1>2, <1>6, <1>10, <2>1, <2>2, TagsOfKinds
<1>11. CASE n \notin Here.ints /\ op \in Arith \cup Bitwise
  <2>1. op # ".." /\ op \notin Ordering \cup Equality
    BY <1>11 DEF Arith, Bitwise, Ordering, Equality
  <2>2. Here.kinds[n] = "Number" /\ BinResult(n, op, a, b) = BinopF(op, a, b)
    BY <1>5, <1>7, <1>11, <2>1
  <2>3. Here.kinds[l] # "Table"
    BY <1>3, <1>5, <1>11
  <2>4. Tag(a) = "num"
    BY <1>1, <1>2, <1>3, <1>4, <1>11, <2>3, NumberOperand
  <2>5. BinopF(op, a, b) = Trap \/ Tag(BinopF(op, a, b)) = "num"
    BY <1>11, <2>4, BinopTags
  <2> QED
    BY <1>2, <1>6, <1>11, <2>2, <2>5, TagsOfKinds
<1> QED
  BY <1>5, <1>8, <1>9, <1>10, <1>11

\* A comparison of two tables.
LEMMA TableCompareSound ==
    ASSUME IInv, Ready, NEW i, NEW below, Taken(i, below), NEW op \in Ordering \cup Equality, op = Here.e[i].o,
           Here.kinds[i] = "Bool", i \notin Here.ints, Here.e[i].op = "bin", NEW a, NEW b, TableCompare(i, below, op, a, b)
    PROVE  IInv'
<1>1. /\ op \in Equality /\ a = b => Gives(i, below, Bool(op = "=="))
      /\ op \in Equality /\ a # b => Metamethod(i, below, a, "==", <<a, b>>, "Bool", Bool(FALSE))
      /\ op \in {"<", "<="} => Metamethod(i, below, a, op, <<a, b>>, "Bool", Trap)
      /\ op = ">" => Metamethod(i, below, b, "<", <<b, a>>, "Bool", Trap)
      /\ op = ">=" => Metamethod(i, below, b, "<=", <<b, a>>, "Bool", Trap)
  BY DEF TableCompare, Ordering, Equality
<1>2. \A x : Fits(Bool(x), "Bool") /\ Yields(Here, i, Bool(x))
  BY TagsOfValues, TagsOfKinds DEF Yields
<1>3. CASE op \in Equality /\ a = b
  BY <1>1, <1>2, <1>3, GivesSound
<1>4. CASE op \in Equality /\ a # b
  BY <1>1, <1>2, <1>4, MetamethodSound
<1>5. op \in Ordering => op # "~="
  BY DEF Ordering
<1>6. CASE op \in {"<", "<="}
  BY <1>1, <1>6, MetamethodSound
<1>7. CASE op = ">"
  BY <1>1, <1>7, MetamethodSound
<1>8. CASE op = ">="
  BY <1>1, <1>8, MetamethodSound
<1> QED
  BY <1>3, <1>4, <1>6, <1>7, <1>8 DEF Ordering

LEMMA BinarySound == IInv /\ Binary => IInv'
<1> SUFFICES ASSUME IInv, Binary PROVE IInv'
  OBVIOUS
<1>1. PICK n, op, a, b, below, tables :
        /\ n = pc.n /\ op = Here.e[n].o /\ b = Top /\ a = stack[Len(stack) - 1]
        /\ below = SubSeq(stack, 1, Len(stack) - 2)
        /\ tables = ({Here.kinds[Left(Here.e, n)], Here.kinds[n - 1]} = {"Table"})
  OBVIOUS
<1>2. /\ At(n) /\ Ready /\ Here.e[n].op = "bin"
      /\ IF Garbage \in {a, b} THEN Gives(n, below, Garbage)
         ELSE IF ~tables THEN Gives(n, below, BinResult(n, op, a, b))
         ELSE IF op = ".." THEN Metamethod(n, below, a, "..", <<a, b>>, "String", Trap)
         ELSE IF op \in Ordering \cup Equality THEN TableCompare(n, below, op, a, b)
         ELSE Metamethod(n, below, a, op, <<a, b>>, "Number", Trap)
  BY <1>1 DEF Binary, AtNode, At
<1>3. /\ Left(Here.e, n) \in 1 .. n - 2 /\ Taken(n, below)
      /\ Suits(Here, n - 1, b) /\ Suits(Here, Left(Here.e, n), a)
  BY <1>1, <1>2, BothOperands
<1>4. Garbage \notin {a, b}
  <2>1. Tag(a) # "garbage" /\ Tag(b) # "garbage"
    BY <1>3 DEF Suits, Fits, KindOfTag
  <2> QED
    BY <2>1, TagsOfValues
<1>5. CASE ~tables
  <2>1. Gives(n, below, BinResult(n, op, a, b))
    BY <1>2, <1>4, <1>5
  <2>2. BinResult(n, op, a, b) = Trap \/ Yields(Here, n, BinResult(n, op, a, b))
    BY <1>1, <1>2, <1>3, <1>5, BinResultYields
  <2> QED
    BY <1>2, <1>3, <2>1, <2>2, GivesSound
<1>6. CASE tables
  <2>1. Here.kinds[Left(Here.e, n)] = "Table"
    BY <1>1, <1>6
  <2>2. SoundNode(unit, Here, n) /\ Here.const[n] = None /\ n \in 1 .. Size /\ Size \in Nat
    BY <1>2, Standing
  <2>3. SoundNode(unit, Here, Left(Here.e, n))
    <3>1. Left(Here.e, n) \in 1 .. Size /\ Running
      BY <1>2, <1>3, <2>2 DEF Ready
    <3> QED
      BY <3>1, UnderWay
  <2>4. n \notin Here.ints
    BY <1>2, <2>1, <2>2, <2>3 DEF SoundNode
  <2>5. /\ op \in Arith \cup Bitwise \cup Ordering \cup Equality \cup {".."}
        /\ Here.kinds[n] = IF op = ".." THEN "String" ELSE IF op \in Ordering \cup Equality THEN "Bool" ELSE "Number"
    BY <1>1, <1>2, <2>2 DEF SoundNode, SoundOperator
  <2>6. CASE op = ".."
    <3>1. Metamethod(n, below, a, "..", <<a, b>>, "String", Trap)
      BY <1>2, <1>4, <1>6, <2>6
    <3> QED
      BY <1>1, <1>2, <1>3, <2>4, <2>5, <2>6, <3>1, MetamethodSound
  <2>7. CASE op \in Ordering \cup Equality
    <3>1. op # ".."
      BY <2>7 DEF Ordering, Equality
    <3>2. TableCompare(n, below, op, a, b)
      BY <1>2, <1>4, <1>6, <2>7, <3>1
    <3> QED
      BY <1>1, <1>2, <1>3, <2>4, <2>5, <2>7, <3>1, <3>2, TableCompareSound
  <2>8. CASE op # ".." /\ op \notin Ordering \cup Equality
    <3>1. Metamethod(n, below, a, op, <<a, b>>, "Number", Trap)
      BY <1>2, <1>4, <1>6, <2>8
    <3>2. op # "~="
      BY <2>8 DEF Equality
    <3> QED
      BY <1>1, <1>2, <1>3, <2>4, <2>5, <2>8, <3>1, <3>2, MetamethodSound
  <2> QED
    BY <2>6, <2>7, <2>8
<1> QED
  BY <1>5, <1>6

-----------------------------------------------------------------------------
(* Statements that are done.                                               *)

LEMMA ReadAheadSound == IInv /\ ReadAhead => IInv'
<1> SUFFICES ASSUME IInv, ReadAhead PROVE IInv'
  OBVIOUS
<1>1. /\ Running /\ pc.h < Len(Here.hoists) /\ pc' = [pc EXCEPT !.h = @ + 1]
      /\ stack' = stack /\ unit' = unit /\ store' = store /\ trace' = trace
  BY DEF ReadAhead
<1>2. DOMAIN pc' = {"at", "h", "n"} /\ pc'.at = pc.at /\ pc'.n = pc.n
  BY <1>1 DEF IInv
<1>3. (Running' <=> Running) /\ Here' = Here
  BY <1>1, <1>2 DEF Running, Here
<1>4. Len(Here.hoists) \in Nat
  BY <1>1, UnderWay DEF SoundStatement
<1>5. stack = <<>>
  <2>1. ~Ready
    BY <1>1, <1>4 DEF Ready
  <2> QED
    BY <2>1 DEF IInv
<1>6. Printing'
  BY <1>1, <1>2, <1>3 DEF IInv, Printing, Size, Top
<1> QED
  BY <1>1, <1>2, <1>3, <1>5, <1>6 DEF IInv, Stored

\* The value of the expression of a statement is alone on the stack.
LEMMA LastValue ==
    ASSUME IInv, Ready, pc.n > Size, Size > 0
    PROVE  Suits(Here, Size, Top) /\ ~Wanted(Here, Size)
<1>1. Running /\ Size \in Nat /\ Len(Here.e) = Size /\ Postfix(Here.e) /\ Evaluating(Here, pc.n, stack)
  BY UnderWay DEF Ready, IInv, Size
<1>2. pc.n = Size + 1
  BY <1>1 DEF Evaluating
<1>3. Size \in 1 .. Len(Here.e) /\ Here.e[Size].op # "test"
  <2>1. Here.e # <<>>
    BY <1>1
  <2> QED
    BY <1>1, <2>1 DEF Postfix
<1>4. Laid(Here, Open(Here.e, Size + 1), stack)
  BY <1>1, <1>2 DEF Evaluating
<1>5. Suits(Here, Size, Top)
  BY <1>1, <1>3, <1>4, TakeTop DEF Top
<1>6. ~Wanted(Here, Size)
  BY <1>1 DEF Wanted
<1> QED
  BY <1>5, <1>6

LEMMA AssignSound == IInv /\ AssignLocal => IInv'
<1> SUFFICES ASSUME IInv, AssignLocal PROVE IInv'
  OBVIOUS
<1>1. PICK x, v : x = Here.x /\ v = Top
  OBVIOUS
<1>2. /\ Ready /\ Running /\ pc.n > Size /\ Here.k = "assign"
      /\ store' = [store EXCEPT ![x] = v] /\ Proceed(Entry(pc.at + 1)) /\ trace' = trace
  BY <1>1 DEF AssignLocal, Done, Ready
<1>3. /\ x \in Var /\ Size > 0 /\ unit.kind[x] = Here.kinds[Size]
      /\ x \in unit.slots => Size \in Here.ints
  BY <1>1, <1>2, UnderWay DEF SoundStatement, Size
<1>4. Suits(Here, Size, v) /\ ~Wanted(Here, Size)
  BY <1>1, <1>2, <1>3, LastValue
<1>5. Fits(v, unit.kind[x]) /\ (x \in unit.slots => Integral(v))
  BY <1>3, <1>4 DEF Suits
<1>6. DOMAIN store = Var /\ unit.slots \subseteq Var
  BY DEF IInv, Stored, Sound
<1>7. DOMAIN store' = Var /\ store'[x] = v /\ \A y \in Var : y # x => store'[y] = store[y]
  BY <1>2, <1>3, <1>6
<1>8. Stored(unit, store')
  <2>1. ASSUME NEW y \in Var PROVE Fits(store'[y], unit.kind[y]) /\ (y \in unit.slots => Integral(store'[y]))
    <3>1. CASE y = x
      BY <1>5, <1>7, <3>1
    <3>2. CASE y # x
      BY <1>7, <3>2 DEF IInv, Stored
    <3> QED
      BY <3>1, <3>2
  <2> QED
    BY <1>6, <1>7, <2>1 DEF Stored
<1> QED
  BY <1>2, <1>8, ProceedSound DEF Entry, IInv

LEMMA StatementSound ==
    IInv /\ (PrintValue \/ Branch \/ LoopBack \/ UntilDone \/ EnterBlock) => IInv'
<1> SUFFICES ASSUME IInv, PrintValue \/ Branch \/ LoopBack \/ UntilDone \/ EnterBlock PROVE IInv'
  OBVIOUS
<1>1. /\ store' = store
      /\ \/ \E s : Proceed(Entry(s))
         \/ \E s : Proceed(Reenter(s))
      /\ trace' = trace \/ \E x : trace' = Append(trace, x)
  BY DEF PrintValue, Branch, LoopBack, UntilDone, EnterBlock
<1>2. Stored(unit, store')
  BY <1>1 DEF IInv
<1>3. \A s : /\ DOMAIN Entry(s) = {"at", "h", "n"} /\ Entry(s).n = 1
             /\ DOMAIN Reenter(s) = {"at", "h", "n"} /\ Reenter(s).n = 1
  BY DEF Entry, Reenter
<1>4. trace' \in Seq(Range(trace'))
  BY <1>1, Longer DEF IInv
<1> QED
  BY <1>1, <1>2, <1>3, <1>4, ProceedSound

LEMMA NextSound == IInv /\ [Next]_vars => IInv'
<1> SUFFICES ASSUME IInv, [Next]_vars PROVE IInv'
  OBVIOUS
<1>1. CASE UNCHANGED vars
  <2>1. unit' = unit /\ store' = store /\ pc' = pc /\ stack' = stack /\ trace' = trace
    BY <1>1 DEF vars
  <2> QED
    BY <2>1 DEF IInv, Running, Ready, Here, Size, Top, Stored, Printing
<1>2. CASE Next
  BY <1>2, ReadAheadSound, ConstantSound, LoadSound, CallUserSound, CallHoistedSound, TestSound, EndLogicSound,
     BinarySound, UnarySound, AssignSound, StatementSound DEF Next
<1> QED
  BY <1>1, <1>2

\* The inductive invariant says of the stack what TypeOK says.
LEMMA IInvTypeOK == IInv => TypeOK
<1> SUFFICES ASSUME IInv PROVE TypeOK
  OBVIOUS
<1>1. \A x \in Var : Fits(store[x], unit.kind[x])
  BY DEF IInv, Stored
<1>2. \A x \in unit.slots : Integral(store[x])
  BY DEF IInv, Stored
<1>3. ASSUME Ready
      PROVE  /\ Len(stack) = Cardinality(Pending)
             /\ \A i \in Pending :
                   LET v == stack[Cardinality({j \in Pending : j <= i})]
                   IN Fits(v, IF TakenAsNumber(i) /\ Here.kinds[i] # "Table" THEN "Number" ELSE Here.kinds[i])
  <2>1. Size \in Nat /\ Len(Here.e) = Size /\ Postfix(Here.e) /\ Evaluating(Here, pc.n, stack)
    BY <1>3, UnderWay DEF Ready, IInv, Size
  <2>2. PICK n \in 1 .. Len(Here.e) + 1 : n = pc.n
    BY <2>1 DEF Evaluating
  <2>3. Pending = {i \in 1 .. n - 1 : Here.e[i].op # "test" /\ ~\E j \in i + 1 .. n - 1 : i \in Operands(Here.e, j)}
    BY <2>2, Zenon DEF Pending, Used
  <2>4. Pending = Open(Here.e, n)
    BY <2>1, <2>3, UntakenAreOpen
  <2>5. Laid(Here, Pending, stack)
    BY <2>1, <2>2, <2>4 DEF Evaluating
  <2> QED
    BY <2>1, <2>5, Consumed DEF Laid, Suits, Depth
<1> QED
  BY <1>1, <1>2, <1>3 DEF TypeOK, IInv

-----------------------------------------------------------------------------
(* The passes of lowering: what they infer, node by node.                  *)

\* What holds in front of a place holds at it.
Steady(m, n, f, T) == \A i \in m .. n : (\A j \in m .. i - 1 : f[j] \in T) => f[i] \in T

LEMMA SteadyHolds ==
    ASSUME NEW m \in Nat, NEW n \in Nat, NEW f, NEW T, Steady(m, n, f, T)
    PROVE  \A i \in m .. n : f[i] \in T
<1> DEFINE bad == {i \in m .. n : f[i] \notin T}
<1>1. SUFFICES ASSUME bad # {} PROVE FALSE
  OBVIOUS
<1>2. bad \in SUBSET Nat
  OBVIOUS
<1>3. PICK i \in bad : \A j \in bad : i <= j
  BY <1>1, <1>2, LeastNat
<1>4. \A j \in m .. i - 1 : f[j] \in T
  <2>1. \A j \in m .. i - 1 : j \in m .. n /\ ~(i <= j)
    OBVIOUS
  <2> QED
    BY <1>3, <2>1
<1> QED
  BY <1>3, <1>4 DEF Steady

\* An expression as the parser and the resolution of names leave it.
Lowerable(P, e) ==
    /\ P.kind \in [Var -> Kind]
    /\ Len(e) \in Nat /\ Postfix(e)
    /\ \A i \in 1 .. Len(e) : Resolved(e[i])

\* infer_kind gives every node a kind.
LEMMA KindOfNodeIsKind ==
    ASSUME NEW P, NEW e, Lowerable(P, e), NEW i \in 1 .. Len(e), NEW K,
           e[i].op = "logic" => K[Left(e, i)] \in Kind
    PROVE  KindOfNode(P, e, K, i) \in Kind
<1>1. /\ e[i].op \in Leaf \cup {"un", "test", "bin", "logic"}
      /\ P.kind \in [Var -> Kind]
  BY DEF Lowerable, Postfix
<1>2. /\ e[i].op = "lit" => Fits(e[i].v, "Tagged")
      /\ e[i].op = "var" => e[i].x \in Var
      /\ e[i].op = "call" => e[i].x \in Fun
  BY DEF Lowerable, Resolved
<1>3. \A v : Fits(v, "Tagged") => KindOfTag[Tag(v)] \in Kind
  BY DEF Fits, KindOfTag, Kind
<1>4. e[i].op = "call" => Fits(Returns[e[i].x], "Tagged")
  BY <1>2, ChunksAssumption
<1>5. CASE e[i].op = "lit"
  BY <1>2, <1>3, <1>5 DEF KindOfNode
<1>6. CASE e[i].op = "call"
  BY <1>3, <1>4, <1>6 DEF KindOfNode
<1>7. CASE e[i].op = "var"
  BY <1>1, <1>2, <1>7 DEF KindOfNode
<1>8. CASE e[i].op \in {"int", "float", "callee", "un", "bin", "test"}
  BY <1>8 DEF KindOfNode, Kind
<1>9. CASE e[i].op = "logic"
  BY <1>9 DEF KindOfNode
<1> QED
  BY <1>1, <1>5, <1>6, <1>7, <1>8, <1>9 DEF Leaf

LEMMA KindsSolved ==
    ASSUME NEW P, NEW e, Lowerable(P, e)
    PROVE  \A i \in 1 .. Len(e) : Kinds(P, e)[i] = KindOfNode(P, e, Kinds(P, e), i) /\ Kinds(P, e)[i] \in Kind
<1> DEFINE D == 1 .. Len(e)
           All(f) == [i \in D |-> KindOfNode(P, e, f, i)]
           G == [D -> Kind]
           F == [g \in G |-> All(g)]
<1>1. Len(e) \in Nat /\ Postfix(e)
  BY DEF Lowerable
<1>2. ASSUME NEW i \in D, e[i].op = "logic" PROVE Left(e, i) \in 1 .. i - 1 /\ Left(e, i) \in D
  <2>1. Left(e, i) \in 1 .. i - 3
    BY <1>1, <1>2, Shape
  <2> QED
    BY <1>1, <2>1
<1>3. ASSUME NEW g \in G PROVE All(g) \in G
  <2>1. \A i \in D : KindOfNode(P, e, g, i) \in Kind
    BY <1>2, KindOfNodeIsKind
  <2> QED
    BY <2>1
<1>4. F \in [G -> G]
  BY <1>3
<1>5. Backward(1, Len(e), G, F)
  <2> SUFFICES ASSUME NEW g \in G, NEW h \in G, NEW i \in D, \A j \in 1 .. i - 1 : g[j] = h[j]
               PROVE  F[g][i] = F[h][i]
    BY DEF Backward
  <2>1. e[i].op = "logic" => g[Left(e, i)] = h[Left(e, i)]
    BY <1>2
  <2>2. KindOfNode(P, e, g, i) = KindOfNode(P, e, h, i)
    BY <2>1 DEF KindOfNode
  <2>3. F[g] = All(g) /\ F[h] = All(h)
    OBVIOUS
  <2> QED
    BY <2>2, <2>3
<1>6. G # {}
  <2>1. [i \in D |-> "Nil"] \in G
    BY DEF Kind
  <2> QED
    BY <2>1
<1>7. PICK g \in G : g = F[g]
  <2>1. G \in SUBSET [1 .. Len(e) -> Kind]
    OBVIOUS
  <2> HIDE DEF F, G
  <2>2. Solvable(G, F)
    BY <1>1, <1>4, <1>5, <1>6, <2>1, BackwardSolved
  <2> QED
    BY <2>2 DEF Solvable
<1>8. g = All(g)
  BY <1>7
<1>9. Kinds(P, e) = CHOOSE f : f = All(f)
  BY DEF Kinds
<1>10. Kinds(P, e) = All(Kinds(P, e))
  <2> HIDE DEF All
  <2> QED
    BY <1>8, <1>9
<1>11. \A i \in D : Kinds(P, e)[i] = KindOfNode(P, e, Kinds(P, e), i)
  <2>1. PICK K : K = Kinds(P, e)
    OBVIOUS
  <2>2. K = [i \in D |-> KindOfNode(P, e, K, i)]
    BY <1>10, <2>1
  <2> QED
    BY <2>1, <2>2
<1>12. Steady(1, Len(e), Kinds(P, e), Kind)
  BY <1>2, <1>11, KindOfNodeIsKind DEF Steady
<1> QED
  BY <1>1, <1>11, <1>12, SteadyHolds

\* A folded operator is arithmetic, on integers, and gives an integer of any size.
LEMMA FoldIsInteger ==
    ASSUME NEW op, NEW a \in Int, NEW b \in Int
    PROVE  /\ FoldInts(op, a, b) \in {None} \cup {Num(n) : n \in Int}
           /\ op \notin Arith \cup Bitwise => FoldInts(op, a, b) = None
<1> DEFINE Whole == {None} \cup {Num(n) : n \in Int}
<1>1. \A v : Integral(v) /\ (\E n : v = Num(n)) => v \in Whole
  BY DEF Integral, Num
<1>2. CASE op \in {"+", "-", "*"}
  <2>1. FoldInts(op, a, b) \in {Checked(a + b), Checked(a - b), Checked(a * b)}
    BY <1>2 DEF FoldInts
  <2>2. \A n \in Int : Checked(n) \in Whole
    BY DEF Checked
  <2> QED
    BY <1>2, <2>1, <2>2 DEF Arith
<1>3. CASE op \in {"//", "%"} /\ b # 0
  <2>1. PICK d \in Nat : d = Abs(b) /\ d > 0
    BY <1>3 DEF Abs
  <2>2. PICK q \in Int, r \in Int, t \in Int : q = a \div d /\ r = a % d /\ t = Sign(b) * q
    <3>1. PICK q \in Int : q = a \div d
      BY <2>1
    <3>2. Sign(b) * q \in Int
      BY DEF Sign
    <3> QED
      BY <2>1, <3>1, <3>2
  <2>3. FoldInts(op, a, b) \in {Num(t), Num(r)}
    BY <1>3, <2>1, <2>2 DEF FoldInts, EuclidRem
  <2> QED
    BY <1>3, <2>2, <2>3 DEF Arith
<1>4. CASE op \in {"&", "|", "~"}
  <2>1. FoldInts(op, a, b) = Num(BitwiseI(op, a, b))
    BY <1>4 DEF FoldInts
  <2> QED
    BY <1>1, <1>4, <2>1, BitwiseInRange DEF Bitwise
<1>5. CASE op \in {"<<", ">>"} /\ b \in 0 .. Width - 1
  <2>1. ~FoldPanics(op, a, b)
    BY <1>5 DEF FoldPanics
  <2>2. Width \in Nat /\ b \in 0 .. Width /\ Width \in 0 .. Width
    BY <1>5, WidthAssumption
  <2>3. PICK p \in Nat \ {0} : p = Pow2[b]
    BY <2>2, Powers
  <2>4. PICK w \in Nat \ {0} : w = Pow2[Width]
    BY <2>2, Powers
  <2>5. a * p \in Int /\ (a % w) \div p \in Int
    <3>1. PICK c \in Int : c = a % w
      BY <2>4
    <3> QED
      BY <2>3, <3>1
  <2>6. FoldInts(op, a, b) \in {Num(Wrap(a * p)), Num(Wrap((a % w) \div p))}
    BY <1>5, <2>3, <2>4 DEF FoldInts, BitwiseI
  <2> QED
    BY <1>1, <1>5, <2>5, <2>6, WrapInRange DEF Bitwise
<1>6. CASE \/ op \notin {"+", "-", "*", "//", "%", "&", "|", "~", "<<", ">>"}
           \/ op \in {"//", "%"} /\ b = 0
           \/ op \in {"<<", ">>"} /\ b \notin 0 .. Width - 1
  BY <1>6 DEF FoldInts
<1> QED
  BY <1>2, <1>3, <1>4, <1>5, <1>6

LEMMA IntConstSolved ==
    ASSUME NEW P, NEW e, Lowerable(P, e), \A i \in 1 .. Len(e) : ~Panics(e, i)
    PROVE  \A i \in 1 .. Len(e) :
              /\ IntConst(e)[i] = None \/ Integral(IntConst(e)[i])
              /\ IntConst(e)[i] # None => e[i].op = "int" \/ IsBin(e, i, Arith \cup Bitwise)
<1> DEFINE D == 1 .. Len(e)
           Literals == {e[i].v : i \in {j \in D : e[j].op = "int"}}
           V == {None} \cup Literals \cup {Num(n) : n \in Int}
           All(f) == [i \in D |-> IntOfNode(e, f, i)]
           G == [D -> V]
           F == [g \in G |-> All(g)]
<1>1. Len(e) \in Nat /\ Postfix(e) /\ \A i \in D : e[i].op = "int" => Integral(e[i].v)
  BY DEF Lowerable, Resolved
<1>2. ASSUME NEW i \in D, e[i].op = "bin"
      PROVE  Left(e, i) \in 1 .. i - 1 /\ Left(e, i) \in D /\ i - 1 \in 1 .. i - 1 /\ i - 1 \in D
  <2>1. Left(e, i) \in 1 .. i - 2
    BY <1>1, <1>2, Shape
  <2> QED
    BY <1>1, <2>1
<1>3. \A v \in V : v = None \/ v[2] \in Int
  BY <1>1 DEF Integral, Num
<1>4. ASSUME NEW i \in D, NEW f, e[i].op = "bin" => f[Left(e, i)] \in V /\ f[i - 1] \in V
      PROVE  IntOfNode(e, f, i) \in V
  <2>1. CASE e[i].op = "int"
    BY <2>1 DEF IntOfNode
  <2>2. CASE e[i].op # "int" /\ (e[i].op # "bin" \/ None \in {f[Left(e, i)], f[i - 1]})
    BY <2>2 DEF IntOfNode
  <2>3. CASE e[i].op = "bin" /\ None \notin {f[Left(e, i)], f[i - 1]}
    <3>1. f[Left(e, i)][2] \in Int /\ f[i - 1][2] \in Int
      BY <1>3, <1>4, <2>3
    <3>2. IntOfNode(e, f, i) = FoldInts(e[i].o, f[Left(e, i)][2], f[i - 1][2])
      BY <2>3 DEF IntOfNode
    <3>3. IntOfNode(e, f, i) \in {None} \cup {Num(n) : n \in Int}
      BY <3>1, <3>2, FoldIsInteger
    <3> QED
      BY <3>3
  <2> QED
    BY <2>1, <2>2, <2>3
<1>5. ASSUME NEW g \in G PROVE All(g) \in G
  <2>1. \A i \in D : IntOfNode(e, g, i) \in V
    <3> HIDE DEF V
    <3> QED
      BY <1>2, <1>4
  <2> QED
    BY <2>1
<1>6. F \in [G -> G]
  BY <1>5
<1>7. Backward(1, Len(e), G, F)
  <2> SUFFICES ASSUME NEW g \in G, NEW h \in G, NEW i \in D, \A j \in 1 .. i - 1 : g[j] = h[j]
               PROVE  F[g][i] = F[h][i]
    BY DEF Backward
  <2>1. e[i].op = "bin" => g[Left(e, i)] = h[Left(e, i)] /\ g[i - 1] = h[i - 1]
    BY <1>2
  <2>2. IntOfNode(e, g, i) = IntOfNode(e, h, i)
    BY <2>1 DEF IntOfNode
  <2>3. F[g] = All(g) /\ F[h] = All(h)
    OBVIOUS
  <2> QED
    BY <2>2, <2>3
<1>8. G # {}
  <2>1. [i \in D |-> None] \in G
    OBVIOUS
  <2> QED
    BY <2>1
<1>9. PICK g \in G : g = F[g]
  <2>1. G \in SUBSET [1 .. Len(e) -> V]
    OBVIOUS
  <2> HIDE DEF F, G, V
  <2>2. Solvable(G, F)
    BY <1>1, <1>6, <1>7, <1>8, <2>1, BackwardSolved
  <2> QED
    BY <2>2 DEF Solvable
<1>10. g = All(g)
  BY <1>9
<1>11. IntConst(e) = CHOOSE f : f = All(f)
  BY DEF IntConst
<1>12. IntConst(e) = All(IntConst(e))
  <2> HIDE DEF All
  <2> QED
    BY <1>10, <1>11
<1>13. PICK K : K = IntConst(e)
  OBVIOUS
<1>14. \A i \in D : K[i] = IntOfNode(e, K, i)
  <2>1. K = [i \in D |-> IntOfNode(e, K, i)]
    BY <1>12, <1>13
  <2> QED
    BY <2>1
<1> DEFINE T == {v \in V : v = None \/ Integral(v)}
<1>15. Steady(1, Len(e), K, T)
  <2> SUFFICES ASSUME NEW i \in D, \A j \in 1 .. i - 1 : K[j] \in T PROVE K[i] \in T
    BY DEF Steady
  <2> HIDE DEF V
  <2>1. K[i] \in V
    BY <1>2, <1>4, <1>14
  <2>2. CASE e[i].op # "bin" \/ None \in {K[Left(e, i)], K[i - 1]}
    BY <1>1, <1>14, <2>1, <2>2 DEF IntOfNode
  <2>3. CASE e[i].op = "bin" /\ None \notin {K[Left(e, i)], K[i - 1]}
    <3>1. PICK a, b : a = K[Left(e, i)] /\ b = K[i - 1]
      OBVIOUS
    <3>2. Integral(a) /\ Integral(b)
      BY <1>2, <2>3, <3>1
    <3>3. K[i] = FoldInts(e[i].o, a[2], b[2])
      BY <1>14, <2>3, <3>1 DEF IntOfNode
    <3>4. ~FoldPanics(e[i].o, a[2], b[2])
      BY <1>13, <2>3, <3>1 DEF Panics
    <3>5. K[i] = None \/ Integral(K[i])
      BY <3>2, <3>3, <3>4, FoldStaysInRange DEF Integral
    <3> QED
      BY <2>1, <3>5
  <2> QED
    BY <2>2, <2>3
<1> HIDE DEF T, V
<1>16. \A i \in D : K[i] \in T
  BY <1>1, <1>15, SteadyHolds
<1>17. ASSUME NEW i \in D, K[i] # None, e[i].op # "int" PROVE IsBin(e, i, Arith \cup Bitwise)
  <2>1. e[i].op = "bin" /\ None \notin {K[Left(e, i)], K[i - 1]} /\ K[i] = FoldInts(e[i].o, K[Left(e, i)][2], K[i - 1][2])
    BY <1>14, <1>17 DEF IntOfNode
  <2>2. K[Left(e, i)][2] \in Int /\ K[i - 1][2] \in Int
    BY <1>2, <1>16, <2>1 DEF T, Integral
  <2> QED
    BY <1>17, <2>1, <2>2, FoldIsInteger DEF IsBin
<1> QED
  BY <1>13, <1>16, <1>17 DEF T

LEMMA WholeTree ==
    ASSUME NEW P, NEW e, Lowerable(P, e), e # <<>>
    PROVE  Len(e) \in 1 .. Len(e) /\ Under(e, Len(e)) = 1 .. Len(e) /\ e[Len(e)].op # "test"
<1>1. Len(e) \in Nat /\ e[Len(e)].op # "test" /\ e[Len(e)].size = Len(e)
  BY DEF Lowerable, Postfix
<1>2. Len(e) > 0
  <2>1. Len(e) \in 1 .. Len(e) \/ Len(e) = 0
    BY <1>1
  <2> QED
    BY <1>1, <2>1 DEF Lowerable, Postfix
<1> QED
  BY <1>1, <1>2 DEF Under

\* classify_number_subtype: an expression of integers is an integer.
LEMMA IntegersOnly ==
    ASSUME NEW P, NEW e, Lowerable(P, e), e # <<>>, NEW Ints, IntTree(e, Len(e), Ints), NEW sub,
           \A i \in 1 .. Len(e) : e[i].op = "var" => sub[e[i].x] = "Integer"
    PROVE  Classify(e, sub)[Len(e)] = "Integer"
<1> DEFINE D == 1 .. Len(e)
           All(f) == [i \in D |-> ClassOfNode(e, sub, f, i)]
           g == [i \in D |-> "Integer"]
<1>1. Len(e) \in Nat /\ Postfix(e)
  BY DEF Lowerable
<1>2. ASSUME NEW i \in D, e[i].op = "bin"
      PROVE  Left(e, i) \in 1 .. i - 1 /\ Left(e, i) \in D /\ i - 1 \in 1 .. i - 1 /\ i - 1 \in D
  <2>1. Left(e, i) \in 1 .. i - 2
    BY <1>1, <1>2, Shape
  <2> QED
    BY <1>1, <2>1
<1>3. ASSUME NEW i \in D
      PROVE  IntConst(e)[i] # None \/ e[i].op = "var" \/ IsBin(e, i, IntOps)
  BY WholeTree DEF IntTree
<1>4. ASSUME NEW i \in D, NEW f, e[i].op = "bin" => f[Left(e, i)] = "Integer" /\ f[i - 1] = "Integer"
      PROVE  ClassOfNode(e, sub, f, i) = "Integer"
  <2>1. CASE IntConst(e)[i] # None
    BY <2>1 DEF ClassOfNode
  <2>2. CASE IntConst(e)[i] = None /\ e[i].op = "var"
    BY <2>2 DEF ClassOfNode
  <2>3. CASE IntConst(e)[i] = None /\ IsBin(e, i, IntOps)
    <3>1. IsBin(e, i, Arith \cup Bitwise) /\ e[i].op = "bin" /\ e[i].o # "/"
      BY <2>3 DEF IsBin, IntOps, Arith, Bitwise
    <3>2. {f[Left(e, i)], f[i - 1]} = {"Integer"}
      BY <1>4, <3>1
    <3> QED
      BY <2>3, <3>1, <3>2 DEF ClassOfNode
  <2> QED
    BY <1>3, <2>1, <2>2, <2>3
<1>5. g = All(g)
  BY <1>2, <1>4
<1>6. Classify(e, sub) = CHOOSE f : f = All(f)
  BY DEF Classify
<1>7. Classify(e, sub) = All(Classify(e, sub))
  <2> HIDE DEF All, g
  <2> QED
    BY <1>5, <1>6
<1>8. PICK K : K = Classify(e, sub)
  OBVIOUS
<1>9. \A i \in D : K[i] = ClassOfNode(e, sub, K, i)
  <2>1. K = [i \in D |-> ClassOfNode(e, sub, K, i)]
    BY <1>7, <1>8
  <2> QED
    BY <2>1
<1>10. Steady(1, Len(e), K, {"Integer"})
  BY <1>2, <1>4, <1>9 DEF Steady
<1> QED
  BY <1>1, <1>8, <1>10, SteadyHolds, WholeTree

\* What WellFormed and Compiles say of one statement.
LEMMA StatementLowerable ==
    ASSUME NEW P \in Chunks, Compiles(P), NEW s \in 1 .. Len(P.code)
    PROVE  /\ Len(P.code) \in Nat /\ Lowerable(P, P.code[s].e) /\ P.code[s].e \in Seq(Range(P.code[s].e))
           /\ \A i \in 1 .. Len(P.code[s].e) :
                 /\ Accepts(P, P.code[s].e, i) /\ ~Panics(P.code[s].e, i)
                 /\ P.code[s].e[i].op = "var" => Declared(P, s, P.code[s].e[i].x)
           /\ P.code[s].k = "assign" =>
                /\ P.code[s].x \in Var /\ P.code[s].e # <<>>
                /\ P.kind[P.code[s].x] = Kinds(P, P.code[s].e)[Len(P.code[s].e)]
           /\ P.code[s].k = "repeat" => P.code[s].to \in 1 .. Len(P.code)
<1>1. WellFormed(P)
  BY ChunksAssumption
<1>2. Len(P.code) \in Nat /\ P.kind \in [Var -> Kind]
  BY <1>1 DEF WellFormed
<1>3. PICK st : st = P.code[s]
  OBVIOUS
<1>4. /\ st.e \in Seq(Range(st.e)) /\ Postfix(st.e)
      /\ st.k = "assign" => st.x \in Var /\ st.e # <<>>
      /\ st.k = "repeat" => st.to \in s + 1 .. Len(P.code)
      /\ \A i \in 1 .. Len(st.e) :
            Resolved(st.e[i]) /\ (st.e[i].op = "var" => Declared(P, s, st.e[i].x))
  BY <1>1, <1>3 DEF WellFormed
<1>5. /\ \A i \in 1 .. Len(st.e) : Accepts(P, st.e, i) /\ ~Panics(st.e, i)
      /\ st.k = "assign" => P.kind[st.x] = Kinds(P, st.e)[Len(st.e)]
  BY <1>3 DEF Compiles
<1>6. st.k = "repeat" => st.to \in 1 .. Len(P.code)
  BY <1>2, <1>4
<1> QED
  BY <1>2, <1>3, <1>4, <1>5, <1>6 DEF Lowerable

\* Integers, slots, and operators of the lane on them.
IntNode(e, Ints, i) ==
    \/ IntConst(e)[i] # None
    \/ e[i].op = "var" /\ e[i].x \in Ints
    \/ IsBin(e, i, IntOps)

\* Such a node is a number; if it is a constant, it is an integer.
LEMMA IntNodes ==
    ASSUME NEW P, NEW e, Lowerable(P, e), \A j \in 1 .. Len(e) : ~Panics(e, j),
           NEW Ints, \A x \in Ints : P.kind[x] = "Number",
           NEW i \in 1 .. Len(e), IntNode(e, Ints, i)
    PROVE  /\ Kinds(P, e)[i] = "Number"
           /\ Constants(P, e)[i] # None => Integral(Constants(P, e)[i])
           /\ \/ Constants(P, e)[i] # None
              \/ e[i].op = "var" /\ e[i].x \in Ints
              \/ e[i].op = "bin" /\ e[i].o \in IntOps
           /\ e[i].op # "callee"
<1>1. Kinds(P, e)[i] = KindOfNode(P, e, Kinds(P, e), i)
  BY KindsSolved
<1>2. /\ IntConst(e)[i] = None \/ Integral(IntConst(e)[i])
      /\ IntConst(e)[i] # None => e[i].op = "int" \/ IsBin(e, i, Arith \cup Bitwise)
  BY IntConstSolved
<1>3. e[i].op = "int" \/ IsBin(e, i, Arith \cup Bitwise) \/ (e[i].op = "var" /\ e[i].x \in Ints)
  BY <1>2 DEF IntNode, IsBin, IntOps, Arith, Bitwise
<1>4. CASE e[i].op = "int"
  BY <1>1, <1>2, <1>4 DEF Constants, IntNode, IsBin, KindOfNode
<1>5. CASE e[i].op = "var" /\ e[i].x \in Ints
  BY <1>1, <1>2, <1>5 DEF Constants, IsBin, KindOfNode
<1>6. CASE IsBin(e, i, Arith \cup Bitwise)
  <2>1. e[i].op = "bin" /\ e[i].o \notin Ordering \cup Equality \cup {".."}
    BY <1>6 DEF IsBin, Arith, Bitwise, Ordering, Equality
  <2>2. Kinds(P, e)[i] = "Number"
    BY <1>1, <2>1 DEF KindOfNode
  <2>3. Constants(P, e)[i] = IntConst(e)[i]
    BY <2>1 DEF Constants, IsBin
  <2> QED
    BY <1>2, <2>1, <2>2, <2>3 DEF IntNode, IsBin
<1> QED
  BY <1>3, <1>4, <1>5, <1>6

\* is_gate_int_expr: a comparison of integers is a Bool, and what it compares
\* is made of such nodes.
LEMMA ComparisonNodes ==
    ASSUME NEW P, NEW e, Lowerable(P, e), e # <<>>, NEW Ints, IntComparison(e, Ints)
    PROVE  /\ Kinds(P, e)[Len(e)] = "Bool" /\ e[Len(e)].op = "bin"
           /\ \A i \in 1 .. Len(e) - 1 : IntNode(e, Ints, i)
<1>1. PICK n : n = Len(e)
  OBVIOUS
<1>2. n \in Nat /\ n \in 1 .. Len(e) /\ Postfix(e) /\ e[n].size = n
  BY <1>1, WholeTree DEF Lowerable, Postfix
<1>3. e[n].op = "bin" /\ e[n].o \in Ordering \cup Equality
  BY <1>1 DEF IntComparison, IsBin
<1>4. Kinds(P, e)[n] = "Bool"
  <2>1. Kinds(P, e)[n] = KindOfNode(P, e, Kinds(P, e), n)
    BY <1>2, KindsSolved
  <2>2. e[n].o # ".."
    BY <1>3 DEF Ordering, Equality
  <2> QED
    BY <1>3, <2>1, <2>2 DEF KindOfNode
<1>5. PICK l \in 1 .. n - 2 : l = Left(e, n)
  BY <1>2, <1>3, Shape
<1>6. First(e, l) = 1 /\ First(e, n - 1) = l + 1 /\ e[l].op # "test" /\ e[n - 1].op # "test"
  <2>1. First(e, n) = 1
    BY <1>2, <1>3 DEF First
  <2> QED
    BY <1>2, <1>3, <1>5, <2>1, Shape
<1>7. Under(e, l) = 1 .. l /\ Under(e, n - 1) = l + 1 .. n - 1
  BY <1>6 DEF Under, First
<1>8. IntTree(e, l, Ints) /\ IntTree(e, n - 1, Ints)
  BY <1>1, <1>5 DEF IntComparison
<1>9. ASSUME NEW i \in 1 .. n - 1 PROVE IntNode(e, Ints, i)
  <2>1. i \in Under(e, l) \/ i \in Under(e, n - 1)
    BY <1>2, <1>5, <1>7
  <2> QED
    BY <1>8, <2>1 DEF IntTree, IntNode
<1> QED
  BY <1>1, <1>3, <1>4, <1>9

LEMMA TreeNodes ==
    ASSUME NEW P, NEW e, Lowerable(P, e), e # <<>>, NEW Ints, IntTree(e, Len(e), Ints)
    PROVE  \A i \in 1 .. Len(e) : IntNode(e, Ints, i)
BY WholeTree DEF IntTree, IntNode

-----------------------------------------------------------------------------
(* A chunk with slots.                                                     *)

\* It has no blocks: nothing is hoisted out of its statements.
LEMMA NoBlocks ==
    ASSUME NEW P \in Chunks, Compiles(P), Eligible(P), NEW s \in 1 .. Len(P.code)
    PROVE  P.code[s].k \in {"assign", "print"} /\ ~InBlock(P, s)
<1>1. ASSUME NEW b \in 1 .. Len(P.code) PROVE P.code[b].k \in {"assign", "print"}
  BY <1>1 DEF Eligible
<1>2. ASSUME NEW b \in 1 .. Len(P.code) PROVE Callees(P.code[b].e) = {}
  <2>1. PICK st, e : st = P.code[b] /\ e = st.e
    OBVIOUS
  <2>2. /\ Lowerable(P, e) /\ \A i \in 1 .. Len(e) : ~Panics(e, i)
        /\ st.k = "assign" => e # <<>>
    BY <2>1, StatementLowerable
  <2>3. /\ st.k = "assign" => IntTree(e, Len(e), IntegerLocals(P)) \/ IntComparison(e, IntegerLocals(P))
        /\ st.k = "print" => Len(e) = 1 /\ e[1].op \in {"var", "int", "float", "lit"}
    BY <2>1 DEF Eligible
  <2>4. \A x \in IntegerLocals(P) : P.kind[x] = "Number"
    BY DEF IntegerLocals
  <2>5. ASSUME NEW i \in 1 .. Len(e) PROVE e[i].op # "callee"
    <3>1. CASE st.k = "print"
      <4>1. Len(e) = 1 /\ e[1].op # "callee"
        BY <2>3, <3>1
      <4>2. i \in 1 .. 1
        BY <4>1
      <4>3. i = 1
        BY <4>2
      <4> QED
        BY <4>1, <4>3
    <3>2. CASE st.k = "assign" /\ IntTree(e, Len(e), IntegerLocals(P))
      <4>1. IntNode(e, IntegerLocals(P), i)
        BY <2>2, <3>2, TreeNodes
      <4> QED
        BY <2>2, <2>4, <4>1, IntNodes
    <3>3. CASE st.k = "assign" /\ IntComparison(e, IntegerLocals(P))
      <4>1. e[Len(e)].op = "bin" /\ \A j \in 1 .. Len(e) - 1 : IntNode(e, IntegerLocals(P), j)
        BY <2>2, <3>3, ComparisonNodes
      <4>2. i = Len(e) \/ i \in 1 .. Len(e) - 1
        BY <2>2 DEF Lowerable
      <4> QED
        BY <2>2, <2>4, <4>1, <4>2, IntNodes
    <3> QED
      BY <1>1, <2>1, <2>3, <3>1, <3>2, <3>3
  <2> QED
    BY <2>1, <2>5 DEF Callees
<1>3. ASSUME NEW b \in 1 .. Len(P.code) PROVE Hoists(P, b) = <<>>
  <2>1. Source(P, b) = b /\ P.code[b].k # "until"
    BY <1>1 DEF Source
  <2>2. Cardinality(Callees(P.code[Source(P, b)].e)) = 0
    BY <1>2, <2>1, FS_EmptySet
  <2>3. 1 .. 0 = {}
    OBVIOUS
  <2>4. Hoists(P, b) = [n \in {} |->
            <<Source(P, b),
              CHOOSE i \in Callees(P.code[Source(P, b)].e) :
                 Cardinality({j \in Callees(P.code[Source(P, b)].e) : j <= i}) = n>>]
    BY <2>1, <2>2, <2>3 DEF Hoists
  <2>5. DOMAIN Hoists(P, b) = {} /\ Hoists(P, b) = [n \in {} |-> Hoists(P, b)[n]]
    BY <2>4
  <2> QED
    BY <2>5
<1>4. \A b \in 1 .. s : b \in 1 .. Len(P.code)
  BY StatementLowerable
<1>5. ~InBlock(P, s)
  BY <1>1, <1>3, <1>4 DEF InBlock
<1> QED
  BY <1>1, <1>5

\* A local that has been assigned before statement s + 1.
Assigned(P, s, x) == \E r \in 1 .. s : P.code[r].k = "assign" /\ P.code[r].x = x

\* The subtypes behind statement s: numbers that have been assigned are integers.
AfterIntegers(P, s) == [x \in Var |-> IF P.kind[x] = "Number" /\ Assigned(P, s, x) THEN "Integer" ELSE "Unknown"]

LEMMA IntegersPropagate ==
    ASSUME NEW P \in Chunks, Compiles(P), Eligible(P), NEW s \in 1 .. Len(P.code)
    PROVE  Propagate(P, s, AfterIntegers(P, s - 1)) = AfterIntegers(P, s)
<1> DEFINE sub == AfterIntegers(P, s - 1)
<1>1. PICK st, e : st = P.code[s] /\ e = st.e
  OBVIOUS
<1>2. /\ Len(P.code) \in Nat /\ Lowerable(P, e)
      /\ \A i \in 1 .. Len(e) : e[i].op = "var" => Declared(P, s, e[i].x)
      /\ st.k = "assign" => st.x \in Var /\ e # <<>> /\ P.kind[st.x] = Kinds(P, e)[Len(e)]
  BY <1>1, StatementLowerable
<1>3. st.k \in {"assign", "print"} /\ ~InBlock(P, s)
  BY <1>1, NoBlocks
<1>4. ASSUME NEW x PROVE Assigned(P, s, x) <=> Assigned(P, s - 1, x) \/ (st.k = "assign" /\ st.x = x)
  <2>1. \A r : r \in 1 .. s <=> r \in 1 .. s - 1 \/ r = s
    BY <1>2
  <2> QED
    BY <1>1, <2>1 DEF Assigned
<1>5. CASE st.k = "print"
  <2>1. Propagate(P, s, sub) = sub
    BY <1>1, <1>5 DEF Propagate
  <2>2. AfterIntegers(P, s) = sub
    BY <1>4, <1>5 DEF AfterIntegers
  <2> QED
    BY <2>1, <2>2
<1>6. CASE st.k = "assign" /\ P.kind[st.x] # "Number"
  <2>1. Propagate(P, s, sub) = sub
    BY <1>1, <1>6 DEF Propagate
  <2>2. AfterIntegers(P, s) = sub
    BY <1>4, <1>6 DEF AfterIntegers
  <2> QED
    BY <2>1, <2>2
<1>7. CASE st.k = "assign" /\ P.kind[st.x] = "Number"
  <2>1. IntTree(e, Len(e), IntegerLocals(P))
    <3>1. IntTree(e, Len(e), IntegerLocals(P)) \/ IntComparison(e, IntegerLocals(P))
      BY <1>1, <1>7 DEF Eligible
    <3>2. ~IntComparison(e, IntegerLocals(P))
      BY <1>2, <1>7, ComparisonNodes
    <3> QED
      BY <3>1, <3>2
  <2>2. ASSUME NEW i \in 1 .. Len(e), e[i].op = "var" PROVE sub[e[i].x] = "Integer"
    <3>1. IntNode(e, IntegerLocals(P), i)
      BY <1>2, <1>7, <2>1, TreeNodes
    <3>2. IntConst(e)[i] = None
      BY <1>1, <1>2, <2>2, IntConstSolved, StatementLowerable DEF IsBin
    <3>3. e[i].x \in IntegerLocals(P)
      BY <2>2, <3>1, <3>2 DEF IntNode, IsBin
    <3>4. e[i].x \in Var /\ P.kind[e[i].x] = "Number"
      BY <3>3 DEF IntegerLocals
    <3>5. Assigned(P, s - 1, e[i].x)
      BY <1>2, <2>2, <3>4 DEF Declared, Assigned
    <3> QED
      BY <3>4, <3>5 DEF AfterIntegers
  <2>3. Classify(e, sub)[Len(e)] = "Integer"
    <3> HIDE DEF sub
    <3> QED
      BY <1>2, <1>7, <2>1, <2>2, IntegersOnly
  <2>4. Propagate(P, s, sub) = [sub EXCEPT ![st.x] = Merge(sub[st.x], "Integer")]
    <3> HIDE DEF sub
    <3> QED
      BY <1>1, <1>3, <1>7, <2>3 DEF Propagate
  <2>5. st.x \in Var /\ sub[st.x] \in {"Integer", "Unknown"}
    BY <1>2, <1>7 DEF AfterIntegers
  <2>6. Merge(sub[st.x], "Integer") = "Integer"
    BY <2>5 DEF Merge
  <2>7. ASSUME NEW x \in Var PROVE AfterIntegers(P, s)[x] = IF x = st.x THEN "Integer" ELSE sub[x]
    BY <1>4, <1>7 DEF AfterIntegers
  <2>8. [sub EXCEPT ![st.x] = "Integer"] = [x \in Var |-> IF x = st.x THEN "Integer" ELSE sub[x]]
    BY <2>5 DEF AfterIntegers
  <2>9. AfterIntegers(P, s) = [x \in Var |-> AfterIntegers(P, s)[x]]
    BY DEF AfterIntegers
  <2>10. AfterIntegers(P, s) = [x \in Var |-> IF x = st.x THEN "Integer" ELSE sub[x]]
    <3> HIDE DEF sub
    <3> QED
      BY <2>7, <2>9
  <2> QED
    BY <2>4, <2>6, <2>8, <2>10
<1> QED
  BY <1>3, <1>5, <1>6, <1>7

\* mark_integer_slot_eligible: every number that is assigned gets a slot.
LEMMA AssignedNumbersAreSlots ==
    ASSUME NEW P \in Chunks, Compiles(P), Eligible(P), NEW s \in 1 .. Len(P.code),
           P.code[s].k = "assign", P.kind[P.code[s].x] = "Number"
    PROVE  P.code[s].x \in IntegerLocals(P)
<1> DEFINE N == Len(P.code)
           D == 0 .. N
           All(f) == [r \in D |-> IF r = 0 THEN [x \in Var |-> "Unknown"] ELSE Propagate(P, r, f[r - 1])]
           g == [r \in D |-> AfterIntegers(P, r)]
<1>1. N \in Nat /\ P.code[s].x \in Var
  BY StatementLowerable
<1>2. AfterIntegers(P, 0) = [x \in Var |-> "Unknown"]
  <2>1. \A x \in Var : ~Assigned(P, 0, x)
    BY DEF Assigned
  <2> QED
    BY <2>1 DEF AfterIntegers
<1>3. \A r \in 1 .. N : Propagate(P, r, AfterIntegers(P, r - 1)) = AfterIntegers(P, r)
  BY IntegersPropagate
<1>4. g = All(g)
  <2>1. ASSUME NEW r \in D PROVE g[r] = IF r = 0 THEN [x \in Var |-> "Unknown"] ELSE Propagate(P, r, g[r - 1])
    <3>1. CASE r = 0
      BY <1>2, <3>1
    <3>2. CASE r # 0
      <4>1. r \in 1 .. N /\ r - 1 \in D
        BY <1>1, <3>2
      <4>2. g[r] = AfterIntegers(P, r) /\ g[r - 1] = AfterIntegers(P, r - 1)
        BY <4>1
      <4> QED
        BY <1>3, <3>2, <4>1, <4>2
    <3> QED
      BY <3>1, <3>2
  <2> QED
    BY <2>1
<1>5. Subtypes(P) = (CHOOSE f : f = All(f))[N]
  BY DEF Subtypes
<1>6. PICK f : f = All(f) /\ Subtypes(P) = f[N]
  <2> HIDE DEF All, g
  <2> QED
    BY <1>4, <1>5
<1>7. \A r \in D : f[r] = AfterIntegers(P, r)
  <2> DEFINE bad == {r \in D : f[r] # AfterIntegers(P, r)}
  <2>1. SUFFICES ASSUME bad # {} PROVE FALSE
    OBVIOUS
  <2>2. bad \in SUBSET Nat
    BY <1>1
  <2>3. PICK r \in bad : \A t \in bad : r <= t
    BY <2>1, <2>2, LeastNat
  <2>4. r = 0 \/ (r - 1 \in D /\ r \in 1 .. N /\ r - 1 \notin bad)
    BY <1>1, <2>3
  <2>5. f[r] = IF r = 0 THEN [x \in Var |-> "Unknown"] ELSE Propagate(P, r, f[r - 1])
    BY <1>6, <2>3
  <2> QED
    BY <1>2, <1>3, <2>3, <2>4, <2>5
<1>8. Subtypes(P)[P.code[s].x] = "Integer"
  <2>1. Subtypes(P) = AfterIntegers(P, N)
    <3>1. N \in D
      BY <1>1
    <3> HIDE DEF D, All
    <3> QED
      BY <1>6, <1>7, <3>1
  <2>2. Assigned(P, N, P.code[s].x)
    BY DEF Assigned
  <2> QED
    BY <1>1, <2>1, <2>2 DEF AfterIntegers
<1> QED
  BY <1>1, <1>8 DEF IntegerLocals

-----------------------------------------------------------------------------
(* Lowering is sound.                                                      *)

\* The lane of a statement: its nodes are integers, and so are the operands
\* of its operators.
LEMMA LaneSound ==
    ASSUME NEW P \in Chunks, Compiles(P), NEW s \in 1 .. Len(P.code), NEW i \in IntLane(P, s)
    PROVE  LET e == P.code[s].e IN
           /\ i \in 1 .. Len(e) => /\ Kinds(P, e)[i] = "Number"
                                   /\ Constants(P, e)[i] # None => Integral(Constants(P, e)[i])
                                   /\ \/ Constants(P, e)[i] # None
                                      \/ e[i].op = "var" /\ e[i].x \in Slots(P)
                                      \/ e[i].op = "bin" /\ e[i].o \in IntOps /\ Left(e, i) \in IntLane(P, s)
                                         /\ i - 1 \in IntLane(P, s)
<1>1. PICK st, e : st = P.code[s] /\ e = st.e
  OBVIOUS
<1>2. /\ Lowerable(P, e) /\ \A j \in 1 .. Len(e) : ~Panics(e, j)
      /\ st.k = "assign" => st.x \in Var /\ e # <<>> /\ P.kind[st.x] = Kinds(P, e)[Len(e)]
  BY <1>1, StatementLowerable
<1>3. st.k = "assign" /\ e # <<>>
  BY <1>1, <1>2 DEF IntLane
<1>4. \A x \in Slots(P) : P.kind[x] = "Number"
  BY DEF Slots, IntegerLocals
<1>5. PICK k \in 0 .. Len(e) : IntLane(P, s) = 1 .. k /\ \A j \in 1 .. k : IntNode(e, Slots(P), j)
  <2>1. CASE st.x \in Slots(P)
    <3>1. Eligible(P) /\ Slots(P) = IntegerLocals(P) /\ P.kind[st.x] = "Number"
      BY <1>4, <2>1 DEF Slots
    <3>2. IntTree(e, Len(e), IntegerLocals(P)) \/ IntComparison(e, IntegerLocals(P))
      BY <1>1, <1>3, <3>1 DEF Eligible
    <3>3. ~IntComparison(e, IntegerLocals(P))
      BY <1>2, <1>3, <3>1, ComparisonNodes
    <3>4. \A j \in 1 .. Len(e) : IntNode(e, Slots(P), j)
      BY <1>2, <1>3, <3>1, <3>2, <3>3, TreeNodes
    <3>5. IntLane(P, s) = 1 .. Len(e)
      BY <1>1, <1>3, <2>1 DEF IntLane
    <3>6. Len(e) \in 0 .. Len(e)
      BY <1>2 DEF Lowerable
    <3> QED
      BY <3>4, <3>5, <3>6
  <2>2. CASE st.x \notin Slots(P)
    <3>1. IntComparison(e, Slots(P)) /\ IntLane(P, s) = 1 .. Len(e) - 1
      BY <1>1, <1>3, <2>2 DEF IntLane
    <3>2. \A j \in 1 .. Len(e) - 1 : IntNode(e, Slots(P), j)
      BY <1>2, <1>3, <3>1, ComparisonNodes
    <3>3. Len(e) - 1 \in 0 .. Len(e)
      BY <1>2, <1>3, WholeTree DEF Lowerable
    <3> QED
      BY <3>1, <3>2, <3>3
  <2> QED
    BY <2>1, <2>2
<1>6. i \in 1 .. Len(e) /\ IntNode(e, Slots(P), i)
  BY <1>2, <1>5 DEF Lowerable
<1>7. /\ Kinds(P, e)[i] = "Number"
      /\ Constants(P, e)[i] # None => Integral(Constants(P, e)[i])
      /\ \/ Constants(P, e)[i] # None
         \/ e[i].op = "var" /\ e[i].x \in Slots(P)
         \/ e[i].op = "bin" /\ e[i].o \in IntOps
  BY <1>2, <1>4, <1>6, IntNodes
<1>8. ASSUME e[i].op = "bin" PROVE Left(e, i) \in 1 .. k /\ i - 1 \in 1 .. k
  <2>1. Left(e, i) \in 1 .. i - 2
    BY <1>2, <1>6, <1>8, Shape DEF Lowerable
  <2> QED
    BY <1>5, <2>1
<1> QED
  BY <1>1, <1>5, <1>7, <1>8

\* A folded node is a value of the node's kind.
LEMMA ConstantYields ==
    ASSUME NEW P, NEW e, Lowerable(P, e), \A j \in 1 .. Len(e) : ~Panics(e, j),
           NEW i \in 1 .. Len(e), Constants(P, e)[i] # None
    PROVE  /\ e[i].op \in {"int", "float", "lit", "bin"}
           /\ Fits(Constants(P, e)[i], Kinds(P, e)[i]) /\ Kinds(P, e)[i] # "Tagged"
<1>1. Kinds(P, e)[i] = KindOfNode(P, e, Kinds(P, e), i) /\ Resolved(e[i])
  BY KindsSolved DEF Lowerable
<1>2. /\ IntConst(e)[i] = None \/ Integral(IntConst(e)[i])
      /\ IntConst(e)[i] # None => e[i].op = "int" \/ IsBin(e, i, Arith \cup Bitwise)
  BY IntConstSolved
<1>3. CASE e[i].op = "float"
  BY <1>1, <1>3, TagsOfKinds DEF Constants, KindOfNode, Resolved
<1>4. CASE e[i].op = "lit"
  <2>1. Fits(e[i].v, "Tagged") /\ Constants(P, e)[i] = e[i].v /\ Kinds(P, e)[i] = KindOfTag[Tag(e[i].v)]
    BY <1>1, <1>4 DEF Constants, KindOfNode, Resolved
  <2>2. \A v : Fits(v, "Tagged") => Fits(v, KindOfTag[Tag(v)]) /\ KindOfTag[Tag(v)] # "Tagged"
    BY DEF Fits, KindOfTag
  <2> QED
    BY <1>4, <2>1, <2>2
<1>5. CASE e[i].op \notin {"float", "lit"} /\ IntConst(e)[i] # None
  <2>1. Constants(P, e)[i] = IntConst(e)[i] /\ Integral(IntConst(e)[i])
    BY <1>2, <1>5 DEF Constants
  <2>2. Kinds(P, e)[i] = "Number" /\ e[i].op \in {"int", "bin"}
    <3>1. CASE e[i].op = "int"
      BY <1>1, <3>1 DEF KindOfNode
    <3>2. CASE IsBin(e, i, Arith \cup Bitwise)
      <4>1. e[i].op = "bin" /\ e[i].o \notin Ordering \cup Equality \cup {".."}
        BY <3>2 DEF IsBin, Arith, Bitwise, Ordering, Equality
      <4> QED
        BY <1>1, <4>1 DEF KindOfNode
    <3> QED
      BY <1>2, <1>5, <3>1, <3>2
  <2> QED
    BY <2>1, <2>2, TagsOfKinds DEF Integral
<1>6. CASE e[i].op \notin {"float", "lit"} /\ IntConst(e)[i] = None
  <2>1. IsBin(e, i, Equality) /\ Constants(P, e)[i] = EqConstant(P, e, i)
    BY <1>6 DEF Constants
  <2>2. e[i].op = "bin" /\ e[i].o \in Equality /\ e[i].o # ".."
    BY <2>1 DEF IsBin, Equality
  <2>3. Kinds(P, e)[i] = "Bool"
    BY <1>1, <2>2 DEF KindOfNode
  <2>4. Tag(EqConstant(P, e, i)) = "bool"
    BY <2>1, TagsOfValues DEF EqConstant
  <2> QED
    BY <2>1, <2>2, <2>3, <2>4, TagsOfKinds
<1> QED
  BY <1>3, <1>4, <1>5, <1>6


\* An operator that is compiled has operands it can work on.
LEMMA AcceptedSound ==
    ASSUME NEW P, NEW e, Lowerable(P, e), NEW i \in 1 .. Len(e), Accepts(P, e, i)
    PROVE  SoundOperator(Kinds(P, e)[i], e[i], Kinds(P, e)[Left(e, i)], Kinds(P, e)[i - 1])
<1>1. PICK K : K = Kinds(P, e)
  OBVIOUS
<1>2. PICK l, r : l = K[Left(e, i)] /\ r = K[i - 1]
  OBVIOUS
<1>3. K[i] = KindOfNode(P, e, K, i) /\ Resolved(e[i]) /\ Postfix(e) /\ Len(e) \in Nat
  BY <1>1, KindsSolved DEF Lowerable
<1>4. CASE e[i].op = "un"
  <2>1. \/ e[i].o = "#" /\ r \in {"String", "Table"}
        \/ e[i].o \in {"-", "~"} /\ r \in {"Number", "Table", "Tagged"}
        \/ e[i].o = "not"
    BY <1>1, <1>2, <1>4 DEF Accepts, IsBin
  <2>2. K[i] = IF e[i].o = "not" THEN "Bool" ELSE "Number"
    BY <1>3, <1>4 DEF KindOfNode
  <2>3. SoundOperator(K[i], e[i], l, r)
    BY <1>4, <2>1, <2>2 DEF SoundOperator
  <2> QED
    BY <1>1, <1>2, <2>3
<1>5. CASE e[i].op = "bin"
  <2>1. e[i].o \in Arith \cup Bitwise \cup Ordering \cup Equality \cup {".."}
    BY <1>3, <1>5 DEF Resolved
  <2>2. K[i] = IF e[i].o = ".." THEN "String" ELSE IF e[i].o \in Ordering \cup Equality THEN "Bool" ELSE "Number"
    BY <1>3, <1>5 DEF KindOfNode
  <2>3. e[i].o \in Arith \cup Bitwise => {l, r} = {"Table"} \/ {l, r} \subseteq {"Number", "Tagged", "String"}
    BY <1>1, <1>2, <1>5 DEF Accepts, IsBin, Arith, Bitwise, Ordering, Equality
  <2>4. SoundOperator(K[i], e[i], l, r)
    BY <1>5, <2>1, <2>2, <2>3 DEF SoundOperator
  <2> QED
    BY <1>1, <1>2, <2>4
<1>6. CASE e[i].op = "logic"
  <2>1. l = r
    BY <1>1, <1>2, <1>6 DEF Accepts, IsBin
  <2>2. K[i] = l
    BY <1>2, <1>3, <1>6 DEF KindOfNode
  <2>3. SoundOperator(K[i], e[i], l, r)
    BY <1>6, <2>1, <2>2 DEF SoundOperator
  <2> QED
    BY <1>1, <1>2, <2>3
<1>7. CASE e[i].op \notin {"un", "bin", "logic"}
  BY <1>7 DEF SoundOperator
<1> QED
  BY <1>4, <1>5, <1>6, <1>7

\* What an arithmetic operator takes is no Bool and not nil.
LEMMA AcceptedOperand ==
    ASSUME NEW P, NEW e, Lowerable(P, e), NEW k \in 1 .. Len(e), Accepts(P, e, k),
           e[k].op \in {"bin", "un"}, e[k].o \in Arith \cup Bitwise, NEW i \in Operands(e, k)
    PROVE  Kinds(P, e)[i] \notin {"Bool", "Nil"}
<1>1. CASE e[k].op = "un"
  <2>1. i = k - 1
    BY <1>1 DEF Operands
  <2>2. e[k].o \notin {"not", "#"}
    BY DEF Arith, Bitwise
  <2>3. SoundOperator(Kinds(P, e)[k], e[k], Kinds(P, e)[Left(e, k)], Kinds(P, e)[k - 1])
    BY AcceptedSound
  <2> QED
    BY <1>1, <2>1, <2>2, <2>3 DEF SoundOperator
<1>2. CASE e[k].op = "bin"
  <2>1. PICK l, r : l = Kinds(P, e)[Left(e, k)] /\ r = Kinds(P, e)[k - 1]
    OBVIOUS
  <2>2. {l, r} = {"Table"} \/ {l, r} \subseteq {"Number", "Tagged", "String"}
    BY <1>2, <2>1 DEF Accepts, IsBin, Arith, Bitwise, Ordering, Equality
  <2>3. i = Left(e, k) \/ i = k - 1
    BY <1>2 DEF Operands
  <2> QED
    BY <2>1, <2>2, <2>3
<1> QED
  BY <1>1, <1>2


\* mark_integer_slot_eligible: nothing but print reads a slot as a double.
LEMMA SlotReads ==
    ASSUME NEW P \in Chunks, Compiles(P), NEW s \in 1 .. Len(P.code),
           NEW i \in 1 .. Len(P.code[s].e), P.code[s].e[i].op = "var", P.code[s].e[i].x \in Slots(P)
    PROVE  i \in IntLane(P, s) \/ P.code[s].k = "print"
<1>1. PICK st, e : st = P.code[s] /\ e = st.e
  OBVIOUS
<1>2. Eligible(P) /\ Slots(P) = IntegerLocals(P)
  BY DEF Slots
<1>3. /\ Lowerable(P, e) /\ \A j \in 1 .. Len(e) : ~Panics(e, j)
      /\ st.k = "assign" => st.x \in Var /\ e # <<>> /\ P.kind[st.x] = Kinds(P, e)[Len(e)]
  BY <1>1, StatementLowerable
<1>4. st.k \in {"assign", "print"}
  BY <1>1, <1>2, NoBlocks
<1>5. CASE st.k = "assign" /\ IntTree(e, Len(e), IntegerLocals(P))
  <2>1. Len(e) \in 1 .. Len(e)
    BY <1>3, <1>5, WholeTree
  <2>2. IntNode(e, IntegerLocals(P), Len(e))
    BY <1>3, <1>5, <2>1, TreeNodes
  <2>3. \A x \in IntegerLocals(P) : P.kind[x] = "Number"
    BY DEF IntegerLocals
  <2>4. Kinds(P, e)[Len(e)] = "Number"
    BY <1>3, <2>1, <2>2, <2>3, IntNodes
  <2>5. st.x \in Slots(P)
    BY <1>1, <1>2, <1>3, <1>5, <2>4, AssignedNumbersAreSlots
  <2>6. IntLane(P, s) = 1 .. Len(e)
    BY <1>1, <1>5, <2>5 DEF IntLane
  <2> QED
    BY <1>1, <2>6
<1>6. CASE st.k = "assign" /\ IntComparison(e, IntegerLocals(P))
  <2>1. Kinds(P, e)[Len(e)] = "Bool" /\ e[Len(e)].op = "bin"
    BY <1>3, <1>6, ComparisonNodes
  <2>2. P.kind[st.x] = "Bool" /\ st.x \notin Slots(P)
    BY <1>2, <1>3, <1>6, <2>1 DEF IntegerLocals
  <2>3. IntLane(P, s) = 1 .. Len(e) - 1
    BY <1>1, <1>2, <1>6, <2>2 DEF IntLane
  <2>4. i # Len(e) /\ Len(e) \in Nat
    BY <1>1, <1>3, <2>1 DEF Lowerable
  <2> QED
    BY <1>1, <2>3, <2>4
<1> QED
  BY <1>1, <1>2, <1>4, <1>5, <1>6 DEF Eligible

LEMMA HoistsCounted ==
    ASSUME NEW P \in Chunks, Compiles(P), NEW s \in 1 .. Len(P.code)
    PROVE  Len(Hoists(P, s)) \in Nat
<1>1. CASE P.code[s].k = "until"
  BY <1>1 DEF Hoists
<1>2. CASE P.code[s].k # "until"
  <2>1. Source(P, s) \in 1 .. Len(P.code)
    BY StatementLowerable DEF Source
  <2>2. PICK e : e = P.code[Source(P, s)].e
    OBVIOUS
  <2>3. Len(e) \in Nat
    BY <2>1, <2>2, StatementLowerable DEF Lowerable
  <2>4. IsFiniteSet(1 .. Len(e)) /\ Callees(e) \subseteq 1 .. Len(e)
    BY <2>3, FS_Interval DEF Callees
  <2>5. Cardinality(Callees(e)) \in Nat
    BY <2>4, FS_Subset, FS_CardinalityType
  <2>6. DOMAIN Hoists(P, s) = 1 .. Cardinality(Callees(e))
    BY <1>2, <2>2 DEF Hoists
  <2>7. Hoists(P, s) = [n \in 1 .. Cardinality(Callees(e)) |-> Hoists(P, s)[n]]
    BY <1>2, <2>2, <2>6 DEF Hoists
  <2> QED
    BY <2>5, <2>7
<1> QED
  BY <1>1, <1>2

\* A chunk that compiles is lowered to one the machine can run.
LEMMA StatementsLowered ==
    ASSUME NEW P \in Chunks, Compiles(P), NEW s \in 1 .. Len(P.code)
    PROVE  SoundStatement(Lower(P), Lower(P).code[s])
<1>1. PICK u, st, e : u = Lower(P) /\ st = u.code[s] /\ e = st.e
  OBVIOUS
<1>2. /\ u.kind = P.kind /\ u.slots = Slots(P)
      /\ st = [k |-> P.code[s].k, x |-> P.code[s].x, e |-> P.code[s].e, to |-> P.code[s].to,
               kinds |-> Kinds(P, P.code[s].e), const |-> Constants(P, P.code[s].e),
               hoists |-> Hoists(P, s), ints |-> IntLane(P, s)]
  BY <1>1 DEF Lower
<1>3. /\ e = P.code[s].e /\ st.k = P.code[s].k /\ st.x = P.code[s].x
      /\ st.kinds = Kinds(P, e) /\ st.const = Constants(P, e)
      /\ st.hoists = Hoists(P, s) /\ st.ints = IntLane(P, s)
  BY <1>1, <1>2
<1>4. /\ Lowerable(P, e) /\ e \in Seq(Range(e))
      /\ \A i \in 1 .. Len(e) : Accepts(P, e, i) /\ ~Panics(e, i)
      /\ st.k = "assign" => st.x \in Var /\ e # <<>> /\ P.kind[st.x] = Kinds(P, e)[Len(e)]
  BY <1>3, StatementLowerable
<1>5. ASSUME NEW i \in 1 .. Len(e) PROVE SoundNode(u, st, i)
  <2>1. st.kinds[i] \in Kind /\ st.kinds[i] = KindOfNode(P, e, st.kinds, i) /\ Resolved(e[i])
    BY <1>3, <1>4, KindsSolved DEF Lowerable
  <2>2. i \in st.ints =>
          /\ st.kinds[i] = "Number" /\ (st.const[i] # None => Integral(st.const[i]))
          /\ \/ st.const[i] # None
             \/ e[i].op = "var" /\ e[i].x \in u.slots
             \/ e[i].op = "bin" /\ e[i].o \in IntOps /\ Left(e, i) \in st.ints /\ i - 1 \in st.ints
    BY <1>2, <1>3, LaneSound
  <2>3. st.const[i] # None => e[i].op \in {"int", "float", "lit", "bin"} /\ Yields(st, i, st.const[i])
    BY <1>1, <1>3, <1>4, <2>2, ConstantYields DEF Yields
  <2>4. Wanted(st, i) => st.kinds[i] \notin {"Bool", "Nil"}
    <3>1. ASSUME NEW k \in i + 1 .. Len(e), e[k].op \in {"bin", "un"}, i \in Operands(e, k), e[k].o \in Arith \cup Bitwise
          PROVE  st.kinds[i] \notin {"Bool", "Nil"}
      <4>1. k \in 1 .. Len(e)
        BY <1>4 DEF Lowerable
      <4> QED
        BY <1>3, <1>4, <3>1, <4>1, AcceptedOperand
    <3> QED
      BY <1>1, <3>1 DEF Wanted
  <2>5. e[i].op = "var" => e[i].x \in Var /\ st.kinds[i] = u.kind[e[i].x]
    BY <1>2, <2>1 DEF Resolved, KindOfNode
  <2>6. e[i].op = "var" /\ e[i].x \in u.slots => i \in st.ints \/ st.k = "print"
    BY <1>2, <1>3, SlotReads
  <2>7. /\ e[i].op = "call" => e[i].x \in Fun /\ st.kinds[i] = KindOfTag[Tag(Returns[e[i].x])]
        /\ e[i].op = "callee" => st.kinds[i] = "Number"
    BY <2>1 DEF Resolved, KindOfNode
  <2>8. SoundOperator(st.kinds[i], e[i], st.kinds[Left(e, i)], st.kinds[i - 1])
    BY <1>3, <1>4, AcceptedSound
  <2>9. i \in st.ints =>
          /\ st.kinds[i] = "Number"
          /\ \/ st.const[i] # None
             \/ e[i].op = "var" /\ e[i].x \in u.slots
             \/ e[i].op = "bin" /\ e[i].o \in IntOps /\ Left(e, i) \in st.ints /\ i - 1 \in st.ints
    BY <2>2
  <2> QED
    BY <1>1, <2>1, <2>3, <2>4, <2>5, <2>6, <2>7, <2>8, <2>9 DEF SoundNode
<1>6. ASSUME st.k = "assign"
      PROVE  /\ st.x \in Var /\ Len(e) > 0 /\ u.kind[st.x] = st.kinds[Len(e)]
             /\ st.x \in u.slots => Len(e) \in st.ints
  <2>1. Len(e) \in 1 .. Len(e) /\ Len(e) > 0
    BY <1>4, <1>6, WholeTree DEF Lowerable
  <2>2. st.x \in u.slots => st.ints = 1 .. Len(e)
    BY <1>2, <1>3, <1>6 DEF IntLane
  <2> QED
    BY <1>2, <1>3, <1>4, <1>6, <2>1, <2>2
<1>7. Postfix(e) /\ Len(st.hoists) \in Nat
  BY <1>3, <1>4, HoistsCounted DEF Lowerable
<1>8. SoundStatement(u, st)
  BY <1>1, <1>4, <1>5, <1>6, <1>7 DEF SoundStatement
<1> QED
  BY <1>1, <1>8

\* The passes of lowering establish what the code generator relies on: kinds,
\* constants and the i64 lane fit the values the nodes evaluate to, for every
\* chunk that compiles.
THEOREM LoweringIsSound ==
    \A P \in Chunks : Compiles(P) => Sound(Lower(P))
<1> SUFFICES ASSUME NEW P \in Chunks, Compiles(P) PROVE Sound(Lower(P))
  OBVIOUS
<1>1. Len(P.code) \in Nat
  BY ChunksAssumption DEF WellFormed
<1>2. Len(Lower(P).code) = Len(P.code)
  BY <1>1 DEF Lower
<1>3. Lower(P).slots \subseteq Var
  BY DEF Lower, Slots, IntegerLocals
<1> QED
  BY <1>2, <1>3, StatementsLowered DEF Sound

-----------------------------------------------------------------------------
(* The theorems.                                                           *)

LEMMA InitSound == Init => IInv
<1> SUFFICES ASSUME Init PROVE IInv
  OBVIOUS
<1>1. PICK P \in Chunks : Compiles(P) /\ unit = Lower(P) /\ store = P.store
  BY DEF Init
<1>2. pc = Entry(1) /\ stack = <<>> /\ trace = <<>>
  BY DEF Init
<1>3. Sound(unit)
  BY <1>1, LoweringIsSound
<1>4. Stored(unit, store)
  <2>1. unit.kind = P.kind /\ unit.slots \subseteq IntegerLocals(P)
    BY <1>1 DEF Lower, Slots
  <2>2. /\ DOMAIN P.store = Var
        /\ \A x \in Var : Fits(P.store[x], P.kind[x]) /\ (P.kind[x] = "Number" => Integral(P.store[x]))
    BY ChunksAssumption DEF WellFormed
  <2> QED
    BY <1>1, <2>1, <2>2 DEF Stored, IntegerLocals
<1>5. DOMAIN pc = {"at", "h", "n"} /\ pc.n = 1
  BY <1>2 DEF Entry
<1>6. Running => Evaluating(Here, pc.n, stack)
  BY <1>2, <1>3, <1>5, Fresh DEF Sound, Running, Here
<1>7. trace \in Seq(Range(trace))
  BY <1>2
<1> QED
  BY <1>2, <1>3, <1>4, <1>5, <1>6, <1>7 DEF IInv, Printing

\* At every moment the registers are the values of the trees that end in front
\* of the next node, and they and the slots are in line with what lowering
\* decided about the chunk (emit_expr, mark_integer_slot_eligible).
THEOREM Inductive == Spec => []IInv
BY InitSound, NextSound, PTL DEF Spec

\* The generated code never finds a value of another kind than the one that
\* lowering inferred, nor a double in an i64 slot, nor a slot read as a double.
THEOREM TypeCorrect == Spec => []TypeOK
BY Inductive, IInvTypeOK, PTL


\* print shows the value its operand has, if it shows a local of subtype
\* Integer that has a slot, or anything else.
LEMMA ShownIsTop ==
    IInv /\ unit.slots = unit.integers /\ PrintValue => Last(trace') = <<"print", Top>>
<1> SUFFICES ASSUME IInv, unit.slots = unit.integers, PrintValue PROVE Last(trace') = <<"print", Top>>
  OBVIOUS
<1>1. Ready /\ Running /\ pc.n > Size /\ Here.k = "print" /\ trace' = Append(trace, <<"print", Shown(Top)>>)
  BY DEF PrintValue, Done, Ready
<1>2. Shown(Top) = Top
  <2>1. SUFFICES ASSUME Size = 1, Here.e[1].op = "var", Here.e[1].x \in unit.slots PROVE Truncated(Top) = Top
    BY DEF Shown, IntegerLocal
  <2>2. pc.n = 2
    <3>1. pc.n \in 1 .. Size + 1
      BY <1>1 DEF IInv, Evaluating, Size
    <3> QED
      BY <1>1, <2>1, <3>1
  <2>3. Top = store[Here.e[1].x]
    BY <1>1, <2>1, <2>2 DEF IInv, Printing
  <2>4. Integral(Top)
    BY <2>1, <2>3 DEF IInv, Stored
  <2>5. PICK n \in Int : Top = <<"num", n, 1>>
    BY <2>4 DEF Integral, Num
  <2>6. InRange(n) /\ (InRange(Sign(n) * (Abs(n) \div 1)) => Truncated(Top) = Num(Sign(n) * (Abs(n) \div 1)))
    BY <2>4, <2>5 DEF Truncated, Integral
  <2>7. Sign(n) * (Abs(n) \div 1) = n
    <3>1. PICK c \in Nat : c = Abs(n)
      BY DEF Abs
    <3>2. c \div 1 = c
      OBVIOUS
    <3> QED
      BY <3>1, <3>2 DEF Sign, Abs
  <2> QED
    BY <2>5, <2>6, <2>7 DEF Num
<1>3. trace \in Seq(Range(trace))
  BY DEF IInv
<1> QED
  BY <1>1, <1>2, <1>3 DEF Last

\* The truncation of print (fptosi on a local of subtype Integer) loses nothing
\* in a chunk whose integers have slots: what number_print shows is confined to
\* the chunks mark_integer_slot_eligible gives up.
THEOREM SlotsPrintTheirValue ==
    Spec /\ [](unit.slots = unit.integers) => PrintsTheValue
<1>1. IInv /\ unit.slots = unit.integers /\ [Next]_vars => [PrintValue => Last(trace') = <<"print", Top>>]_vars
  BY ShownIsTop
<1> QED
  BY <1>1, Inductive, PTL DEF Spec, PrintsTheValue
=============================================================================
