------------------------ MODULE ProtectedCallProofs ------------------------
(***************************************************************************)
(* The bookkeeping of pcall is right for stacks of every depth: StackInv   *)
(* is an invariant, and with it ProtectedCall implements LuaProtectedCall. *)
(***************************************************************************)
EXTENDS ProtectedCall, NatLemmas, SequenceTheorems

-----------------------------------------------------------------------------
(* Prefixes of a stack.                                                    *)

\* What the definitions say about the first n positions depends on these
\* positions only.
LEMMA PrefixAgree ==
    ASSUME NEW s, NEW t, NEW n \in Nat, \A i \in 1 .. n : s[i] = t[i]
    PROVE  /\ Functions(s, n) = Functions(t, n)
           /\ RootFrames(s, n) = RootFrames(t, n)
           /\ \A p : PadBelow(s, n, p) = PadBelow(t, n, p)
           /\ \A p : NewestRoot(s, n, p) = NewestRoot(t, n, p)
<1>1. Functions(s, n) = Functions(t, n)
  BY DEF Functions
<1>2. RootFrames(s, n) = RootFrames(t, n)
  BY <1>1 DEF RootFrames, Functions
<1>3. ASSUME NEW p PROVE PadBelow(s, n, p) = PadBelow(t, n, p)
  <2>1. CASE p \in 1 .. n
    BY <2>1 DEF PadBelow
  <2>2. CASE p \notin 1 .. n
    BY <2>2 DEF PadBelow
  <2> QED
    BY <2>1, <2>2
<1>4. ASSUME NEW p PROVE NewestRoot(s, n, p) = NewestRoot(t, n, p)
  BY <1>2 DEF NewestRoot
<1> QED
  BY <1>1, <1>2, <1>3, <1>4

LEMMA SavedAgree ==
    ASSUME NEW s, NEW t, NEW n \in Nat, \A i \in 1 .. n : s[i] = t[i],
           NEW i \in 1 .. n
    PROVE  SavedIsTrueBelow(s, i) = SavedIsTrueBelow(t, i)
<1>1. i - 1 \in Nat /\ \A j \in 1 .. i - 1 : s[j] = t[j]
  OBVIOUS
<1>2. s[i] = t[i]
  OBVIOUS
<1>3. /\ Functions(s, i - 1) = Functions(t, i - 1)
      /\ \A p : PadBelow(s, i - 1, p) = PadBelow(t, i - 1, p)
      /\ \A p : NewestRoot(s, i - 1, p) = NewestRoot(t, i - 1, p)
  BY <1>1, PrefixAgree
<1> QED
  BY <1>2, <1>3 DEF SavedIsTrueBelow

\* One position more.
LEMMA FunctionsStep ==
    ASSUME NEW s, NEW n \in Nat
    PROVE  /\ s[n + 1].at = "fn" =>
                 /\ Functions(s, n + 1) = Functions(s, n) \cup {n + 1}
                 /\ Cardinality(Functions(s, n + 1)) = Cardinality(Functions(s, n)) + 1
           /\ s[n + 1].at # "fn" => Functions(s, n + 1) = Functions(s, n)
           /\ Cardinality(Functions(s, n)) \in Nat
<1>1. Functions(s, n) \in SUBSET (1 .. n)
  BY DEF Functions
<1>2. IsFiniteSet(Functions(s, n)) /\ Cardinality(Functions(s, n)) \in Nat
  BY <1>1, FiniteBelow
<1>3. ASSUME s[n + 1].at = "fn"
      PROVE  Functions(s, n + 1) = Functions(s, n) \cup {n + 1}
  BY <1>3 DEF Functions
<1>4. n + 1 \notin Functions(s, n)
  BY <1>1
<1>5. ASSUME s[n + 1].at # "fn" PROVE Functions(s, n + 1) = Functions(s, n)
  BY <1>5 DEF Functions
<1> QED
  BY <1>2, <1>3, <1>4, <1>5, FS_AddElement

LEMMA RootFramesStep ==
    ASSUME NEW s, NEW n \in Nat
    PROVE  /\ s[n + 1].at = "fn" /\ s[n + 1].root =>
                 RootFrames(s, n + 1) = RootFrames(s, n) \cup {n + 1}
           /\ ~(s[n + 1].at = "fn" /\ s[n + 1].root) =>
                 RootFrames(s, n + 1) = RootFrames(s, n)
           /\ RootFrames(s, n) \in SUBSET (1 .. n)
BY DEF RootFrames, Functions

\* The stack invariants of a stack from those of its longest proper prefix.
LEMMA PushNewest ==
    ASSUME NEW s, NEW n \in Nat, NEW head, NewestRoot(s, n, head)
    PROVE  /\ s[n + 1].at = "fn" /\ s[n + 1].root => NewestRoot(s, n + 1, n + 1)
           /\ ~(s[n + 1].at = "fn" /\ s[n + 1].root) => NewestRoot(s, n + 1, head)
<1>1. \A i \in RootFrames(s, n) : i \in 1 .. n
  BY RootFramesStep
<1>2. CASE s[n + 1].at = "fn" /\ s[n + 1].root
  <2>1. RootFrames(s, n + 1) = RootFrames(s, n) \cup {n + 1}
    BY <1>2, RootFramesStep
  <2> QED
    BY <1>1, <1>2, <2>1 DEF NewestRoot
<1>3. CASE ~(s[n + 1].at = "fn" /\ s[n + 1].root)
  <2>1. RootFrames(s, n + 1) = RootFrames(s, n)
    BY <1>3, RootFramesStep
  <2> QED
    BY <1>3, <2>1 DEF NewestRoot
<1> QED
  BY <1>2, <1>3

LEMMA PushPad ==
    ASSUME NEW s, NEW n \in Nat, NEW p
    PROVE  /\ s[n + 1].at # "fn" => PadBelow(s, n + 1, n + 1)
           /\ s[n + 1].at = "fn" => (PadBelow(s, n + 1, p) <=> PadBelow(s, n, p))
<1>1. ASSUME s[n + 1].at # "fn" PROVE PadBelow(s, n + 1, n + 1)
  BY <1>1 DEF PadBelow
<1>2. ASSUME s[n + 1].at = "fn" PROVE PadBelow(s, n + 1, p) <=> PadBelow(s, n, p)
  <2>1. CASE p \in 1 .. n
    BY <1>2, <2>1 DEF PadBelow
  <2>2. CASE p = n + 1
    BY <1>2, <2>2 DEF PadBelow
  <2>3. CASE p \notin 1 .. n + 1
    BY <1>2, <2>3 DEF PadBelow
  <2> QED
    BY <2>1, <2>2, <2>3
<1> QED
  BY <1>1, <1>2
-----------------------------------------------------------------------------
(* What the code does to a stack and to the globals.                       *)

\* The globals agree with the stack.
Sound(s, buf, depth, head) ==
    /\ s \in Seq(Activation) /\ s # <<>>
    /\ Nested(s)
    /\ PadBelow(s, Len(s), buf)
    /\ depth = Cardinality(Functions(s, Len(s)))
    /\ NewestRoot(s, Len(s), head)

\* A prefix of a nested stack is nested.
LEMMA NestedPrefix ==
    ASSUME NEW s \in Seq(Activation), Nested(s), NEW k \in 1 .. Len(s)
    PROVE  /\ SubSeq(s, 1, k) \in Seq(Activation)
           /\ Len(SubSeq(s, 1, k)) = k
           /\ \A i \in 1 .. k : SubSeq(s, 1, k)[i] = s[i]
           /\ Nested(SubSeq(s, 1, k))
<1> DEFINE t == SubSeq(s, 1, k)
<1>1. t \in Seq(Activation) /\ Len(t) = k /\ \A i \in 1 .. k : t[i] = s[i]
  BY SubSeqProperties
<1> HIDE DEF t
<1>2. ASSUME NEW i \in 1 .. k PROVE SavedIsTrueBelow(t, i) = SavedIsTrueBelow(s, i)
  <2>1. k \in Nat /\ \A j \in 1 .. k : t[j] = s[j]
    BY <1>1, LenProperties
  <2> QED
    BY <2>1, SavedAgree
<1>3. t[1] = Main
  BY <1>1 DEF Nested
<1>4. \A i \in 2 .. k : t[i].at # "main" /\ SavedIsTrueBelow(t, i)
  BY <1>1, <1>2 DEF Nested
<1>5. Nested(t)
  BY <1>1, <1>3, <1>4 DEF Nested
<1> QED
  BY <1>1, <1>5 DEF t

\* One more activation whose saved values are true.
LEMMA NestedAppend ==
    ASSUME NEW s \in Seq(Activation), s # <<>>, Nested(s), NEW a \in Activation,
           a.at # "main", SavedIsTrueBelow(Append(s, a), Len(s) + 1)
    PROVE  Nested(Append(s, a))
<1> DEFINE t == Append(s, a)
<1>1. Len(t) = Len(s) + 1 /\ t[Len(s) + 1] = a /\ \A i \in 1 .. Len(s) : t[i] = s[i]
  BY AppendProperties
<1>2. Len(s) \in Nat /\ Len(s) >= 1
  BY EmptySeq, LenProperties
<1>3. \A i \in 1 .. Len(s) : SavedIsTrueBelow(t, i) = SavedIsTrueBelow(s, i)
  BY <1>1, <1>2, SavedAgree
<1>4. ASSUME NEW i \in 2 .. Len(t) PROVE t[i].at # "main" /\ SavedIsTrueBelow(t, i)
  <2>1. CASE i = Len(s) + 1
    BY <1>1, <2>1
  <2>2. CASE i \in 2 .. Len(s)
    BY <1>1, <1>2, <1>3, <2>2 DEF Nested
  <2> QED
    BY <1>1, <1>2, <2>1, <2>2
<1>5. t[1] = Main
  BY <1>1, <1>2 DEF Nested
<1> QED
  BY <1>4, <1>5 DEF Nested

\* A function is entered.
LEMMA SoundEnter ==
    ASSUME NEW s, NEW buf, NEW depth, NEW head \in Nat, Sound(s, buf, depth, head),
           NEW root \in BOOLEAN
    PROVE  Sound(Append(s, Fn(root, head)), buf, depth + 1,
                 IF root THEN Len(s) + 1 ELSE head)
<1> DEFINE a == Fn(root, head)
           t == Append(s, a)
           n == Len(s)
<1>1. s \in Seq(Activation) /\ s # <<>> /\ n \in Nat
  BY DEF Sound
<1>2. a \in Activation /\ a.at = "fn" /\ a.root = root /\ (root => a.prev = head)
  BY DEF Fn, Activation
<1>3. t \in Seq(Activation) /\ t # <<>> /\ Len(t) = n + 1 /\ t[n + 1] = a
      /\ \A i \in 1 .. n : t[i] = s[i]
  BY <1>1, <1>2, AppendProperties
<1>4. /\ Functions(t, n) = Functions(s, n)
      /\ \A p : PadBelow(t, n, p) = PadBelow(s, n, p)
      /\ \A p : NewestRoot(t, n, p) = NewestRoot(s, n, p)
  <2>1. n \in Nat /\ \A i \in 1 .. n : t[i] = s[i]
    BY <1>1, <1>3
  <2> HIDE DEF n, t
  <2> QED
    BY <2>1, PrefixAgree
<1>5. NewestRoot(t, n, head)
  BY <1>4 DEF Sound
<1>6. SavedIsTrueBelow(t, n + 1)
  BY <1>1, <1>2, <1>3, <1>5 DEF SavedIsTrueBelow
<1>7. Nested(t)
  BY <1>1, <1>2, <1>6, NestedAppend DEF Sound
<1>8. PadBelow(t, n + 1, buf)
  BY <1>1, <1>2, <1>3, <1>4, PushPad DEF Sound
<1>9. depth + 1 = Cardinality(Functions(t, n + 1))
  <2>1. depth = Cardinality(Functions(t, n))
    BY <1>4 DEF Sound
  <2>2. n \in Nat /\ t[n + 1].at = "fn"
    BY <1>1, <1>2, <1>3
  <2> HIDE DEF n, t
  <2> QED
    BY <2>1, <2>2, FunctionsStep
<1>10. NewestRoot(t, n + 1, IF root THEN n + 1 ELSE head)
  BY <1>1, <1>2, <1>3, <1>5, PushNewest
<1> QED
  BY <1>3, <1>7, <1>8, <1>9, <1>10 DEF Sound

\* pcall saves the globals and calls _setjmp.
LEMMA SoundSetjmp ==
    ASSUME NEW s, NEW buf \in Nat, NEW depth \in Nat, NEW head \in Nat,
           Sound(s, buf, depth, head)
    PROVE  Sound(Append(s, Pad(buf, depth, head)), Len(s) + 1, depth, head)
<1> DEFINE a == Pad(buf, depth, head)
           t == Append(s, a)
           n == Len(s)
<1>1. s \in Seq(Activation) /\ s # <<>> /\ n \in Nat
  BY DEF Sound
<1>2. a \in Activation /\ a.at = "pcall" /\ a.buf = buf /\ a.depth = depth /\ a.head = head
  BY DEF Pad, Activation
<1>3. t \in Seq(Activation) /\ t # <<>> /\ Len(t) = n + 1 /\ t[n + 1] = a
      /\ \A i \in 1 .. n : t[i] = s[i]
  BY <1>1, <1>2, AppendProperties
<1>4. /\ Functions(t, n) = Functions(s, n)
      /\ \A p : PadBelow(t, n, p) = PadBelow(s, n, p)
      /\ \A p : NewestRoot(t, n, p) = NewestRoot(s, n, p)
  <2>1. n \in Nat /\ \A i \in 1 .. n : t[i] = s[i]
    BY <1>1, <1>3
  <2> HIDE DEF n, t
  <2> QED
    BY <2>1, PrefixAgree
<1>5. NewestRoot(t, n, head) /\ PadBelow(t, n, buf) /\ depth = Cardinality(Functions(t, n))
  BY <1>4 DEF Sound
<1>6. SavedIsTrueBelow(t, n + 1)
  BY <1>1, <1>2, <1>3, <1>5 DEF SavedIsTrueBelow
<1>7. Nested(t)
  BY <1>1, <1>2, <1>6, NestedAppend DEF Sound
<1>8. PadBelow(t, n + 1, n + 1)
  BY <1>1, <1>2, <1>3, PushPad
<1>9. Functions(t, n + 1) = Functions(t, n)
  BY <1>1, <1>2, <1>3, FunctionsStep
<1>10. NewestRoot(t, n + 1, head)
  BY <1>1, <1>2, <1>3, <1>5, PushNewest
<1> QED
  BY <1>3, <1>5, <1>7, <1>8, <1>9, <1>10 DEF Sound

\* A function returns.
LEMMA SoundLeave ==
    ASSUME NEW s, NEW buf, NEW depth, NEW head, Sound(s, buf, depth, head),
           s[Len(s)].at = "fn"
    PROVE  Sound(SubSeq(s, 1, Len(s) - 1), buf, depth - 1,
                 IF s[Len(s)].root THEN s[Len(s)].prev ELSE head)
<1> DEFINE n == Len(s) - 1
           t == SubSeq(s, 1, n)
<1>1. s \in Seq(Activation) /\ Nested(s) /\ Len(s) \in Nat /\ Len(s) = n + 1
  BY DEF Sound
<1>2. n \in 1 .. Len(s)
  <2>1. s[1].at = "main"
    BY <1>1 DEF Nested, Main
  <2>2. Len(s) # 1
    BY <2>1
  <2>3. Len(s) # 0
    BY EmptySeq DEF Sound
  <2> QED
    BY <1>1, <2>2, <2>3
<1>3. t \in Seq(Activation) /\ Len(t) = n /\ Nested(t) /\ n \in Nat
      /\ \A i \in 1 .. n : t[i] = s[i]
  BY <1>1, <1>2, NestedPrefix
<1>4. /\ Functions(t, n) = Functions(s, n)
      /\ \A p : PadBelow(t, n, p) = PadBelow(s, n, p)
      /\ \A p : NewestRoot(t, n, p) = NewestRoot(s, n, p)
  <2>1. n \in Nat /\ \A i \in 1 .. n : t[i] = s[i]
    BY <1>3
  <2> HIDE DEF n, t
  <2> QED
    BY <2>1, PrefixAgree
<1>5. s[n + 1].at = "fn" /\ SavedIsTrueBelow(s, n + 1)
  BY <1>1, <1>2 DEF Nested
<1>6. PadBelow(t, n, buf)
  BY <1>1, <1>3, <1>4, <1>5, PushPad DEF Sound
<1>7. depth - 1 = Cardinality(Functions(t, n))
  BY <1>1, <1>3, <1>4, <1>5, FunctionsStep DEF Sound
<1>8. NewestRoot(t, n, IF s[n + 1].root THEN s[n + 1].prev ELSE head)
  <2>1. CASE s[n + 1].root
    BY <1>1, <1>4, <1>5, <2>1 DEF SavedIsTrueBelow
  <2>2. CASE ~s[n + 1].root
    <3>1. RootFrames(s, n + 1) = RootFrames(s, n)
      BY <1>3, <2>2, RootFramesStep
    <3>2. NewestRoot(s, n, head)
      BY <1>1, <3>1 DEF Sound, NewestRoot
    <3> QED
      BY <1>4, <2>2, <3>2
  <2> QED
    BY <2>1, <2>2
<1>9. t # <<>>
  <2>1. Len(t) >= 1
    BY <1>2, <1>3
  <2> HIDE DEF n, t
  <2> QED
    BY <2>1
<1> QED
  BY <1>1, <1>3, <1>6, <1>7, <1>8, <1>9 DEF Sound

\* The code of a pcall restores what it saved: whatever the globals were.
LEMMA SoundRestore ==
    ASSUME NEW s \in Seq(Activation), s # <<>>, Nested(s), s[Len(s)].at = "pcall"
    PROVE  Sound(SubSeq(s, 1, Len(s) - 1), s[Len(s)].buf, s[Len(s)].depth, s[Len(s)].head)
<1> DEFINE n == Len(s) - 1
           t == SubSeq(s, 1, n)
<1>1. Len(s) \in Nat /\ Len(s) = n + 1
  OBVIOUS
<1>2. n \in 1 .. Len(s)
  <2>1. s[1].at = "main"
    BY DEF Nested, Main
  <2>2. Len(s) # 1
    BY <2>1
  <2>3. Len(s) # 0
    BY EmptySeq
  <2> QED
    BY <1>1, <2>2, <2>3
<1>3. t \in Seq(Activation) /\ Len(t) = n /\ Nested(t) /\ n \in Nat
      /\ \A i \in 1 .. n : t[i] = s[i]
  BY <1>1, <1>2, NestedPrefix
<1>4. /\ Functions(t, n) = Functions(s, n)
      /\ \A p : PadBelow(t, n, p) = PadBelow(s, n, p)
      /\ \A p : NewestRoot(t, n, p) = NewestRoot(s, n, p)
  <2>1. n \in Nat /\ \A i \in 1 .. n : t[i] = s[i]
    BY <1>3
  <2> HIDE DEF n, t
  <2> QED
    BY <2>1, PrefixAgree
<1>5. SavedIsTrueBelow(s, n + 1)
  BY <1>1, <1>2 DEF Nested
<1>6. /\ PadBelow(t, n, s[n + 1].buf)
      /\ s[n + 1].depth = Cardinality(Functions(t, n))
      /\ NewestRoot(t, n, s[n + 1].head)
  BY <1>1, <1>4, <1>5 DEF SavedIsTrueBelow
<1>7. t # <<>>
  <2>1. Len(t) >= 1
    BY <1>2, <1>3
  <2> HIDE DEF n, t
  <2> QED
    BY <2>1
<1> QED
  BY <1>1, <1>3, <1>6, <1>7 DEF Sound

-----------------------------------------------------------------------------
(* The inductive invariant.                                                *)

LEMMA SoundTypes ==
    ASSUME NEW s, NEW buf, NEW depth, NEW head, Sound(s, buf, depth, head)
    PROVE  buf \in Nat /\ depth \in Nat /\ head \in Nat
<1>1. Len(s) \in Nat
  BY DEF Sound
<1>2. RootFrames(s, Len(s)) \in SUBSET (1 .. Len(s))
  BY <1>1, RootFramesStep
<1>3. Cardinality(Functions(s, Len(s))) \in Nat
  BY <1>1, FunctionsStep
<1> QED
  BY <1>1, <1>2, <1>3 DEF Sound, PadBelow, NewestRoot

LEMMA InvSound ==
    ASSUME StackInv, InCode
    PROVE  Sound(stack, g_jmpbuf, g_gc_fn_depth, g_frame_root_head)
BY DEF StackInv, InCode, TypeOK, FramesInv, JmpbufIsInnermostPad, DepthCountsFrames,
       HeadIsNewestRoot, Sound

LEMMA SoundInv ==
    ASSUME Sound(stack', g_jmpbuf', g_gc_fn_depth', g_frame_root_head'), ~landing',
           Len(stack') <= MaxStack, landing' \in BOOLEAN, g_error_value' \in Value \cup {NoValue},
           result' \in [ok : BOOLEAN, err : Value \cup {NoValue}]
    PROVE  StackInv'
<1>1. g_jmpbuf' \in Nat /\ g_gc_fn_depth' \in Nat /\ g_frame_root_head' \in Nat
  BY SoundTypes
<1>2. TypeOK'
  BY <1>1 DEF TypeOK, Sound
<1> QED
  BY <1>2 DEF StackInv, FramesInv, LandingInv, JmpbufIsInnermostPad, DepthCountsFrames,
              HeadIsNewestRoot, Sound

\* The initial state.
THEOREM InitStackInv == Init => StackInv
<1> SUFFICES ASSUME Init PROVE StackInv
  OBVIOUS
<1>1. stack \in Seq(Activation) /\ Len(stack) = 1 /\ stack[1] = Main /\ stack # <<>>
  BY DEF Init, Activation
<1>2. Functions(stack, 1) = {} /\ RootFrames(stack, 1) = {}
  BY <1>1 DEF Functions, RootFrames, Main
<1>3. PadBelow(stack, 1, 1)
  BY <1>1 DEF PadBelow, Main
<1>4. Nested(stack)
  BY <1>1 DEF Nested
<1>5. Cardinality({}) = 0
  BY FS_EmptySet
<1>6. MaxStack >= 1
  BY ProtectedCallAssumption
<1>7. Len(stack) <= MaxStack
  BY <1>1, <1>6
<1>8. TypeOK
  BY <1>1, <1>7 DEF Init, TypeOK
<1> QED
  BY <1>1, <1>2, <1>3, <1>4, <1>5, <1>8
     DEF Init, StackInv, FramesInv, LandingInv, JmpbufIsInnermostPad, DepthCountsFrames,
         HeadIsNewestRoot, NewestRoot

LEMMA BelowLength ==
    ASSUME TypeOK, stack # <<>>
    PROVE  Len(Below) <= MaxStack
<1>1. Len(stack) \in Nat /\ Len(stack) >= 1
  BY EmptySeq, LenProperties DEF TypeOK
<1>2. Len(stack) - 1 \in 0 .. Len(stack)
  BY <1>1
<1>3. stack \in Seq(Activation)
  BY DEF TypeOK
<1>4. \A i \in 1 .. Len(stack) - 1 : stack[i] \in Activation
  BY <1>1, <1>3
<1>5. Len(Below) = Len(stack) - 1
  <2> DEFINE n == Len(stack) - 1
  <2>1. n \in Int /\ 1 \in Int /\ (1 <= n => n - 1 + 1 = n) /\ (~(1 <= n) => n = 0)
    BY <1>1
  <2>2. \A i \in 1 .. n : stack[i] \in Activation
    BY <1>4
  <2>3. Below = SubSeq(stack, 1, n)
    BY DEF Below
  <2> HIDE DEF n
  <2>4. Len(Below) = IF 1 <= n THEN n - 1 + 1 ELSE 0
    BY <2>1, <2>2, <2>3, SubSeqProperties
  <2>5. Len(Below) = n
    BY <2>1, <2>4
  <2> QED
    BY <2>5 DEF n
<1>6. Len(stack) <= MaxStack /\ MaxStack \in Nat
  BY ProtectedCallAssumption DEF TypeOK
<1> QED
  BY <1>1, <1>5, <1>6

\* Every step keeps the invariant.
LEMMA NextStackInv ==
    ASSUME StackInv, Next
    PROVE  StackInv'
<1> USE DEF globals
<1>1. TypeOK
  BY DEF StackInv
<1>0. ASSUME NEW s \in Seq(Activation), NEW root \in BOOLEAN, NEW depth, NEW head \in Nat,
             Enter(s, root, depth, head)
      PROVE  Len(stack') <= MaxStack
  <2>1. Fn(root, head) \in Activation
    BY DEF Fn, Activation
  <2> QED
    BY <1>0, <2>1, ProtectedCallAssumption, AppendProperties DEF Enter
<1>2. ASSUME NEW root \in BOOLEAN, Call(root) PROVE StackInv'
  <2>1. Sound(stack, g_jmpbuf, g_gc_fn_depth, g_frame_root_head)
    BY <1>2, InvSound DEF Call
  <2>2. Sound(stack', g_jmpbuf', g_gc_fn_depth', g_frame_root_head')
    BY <1>1, <1>2, <2>1, SoundEnter DEF Call, Enter, TypeOK
  <2> QED
    BY <1>1, <1>2, <2>2, <1>0, SoundInv DEF Call, Enter, InCode, TypeOK
<1>3. ASSUME NEW root \in BOOLEAN, Pcall(root) PROVE StackInv'
  <2> DEFINE s == Append(stack, Pad(g_jmpbuf, g_gc_fn_depth, g_frame_root_head))
  <2>1. Sound(stack, g_jmpbuf, g_gc_fn_depth, g_frame_root_head)
    BY <1>3, InvSound DEF Pcall
  <2>2. Sound(s, Len(stack) + 1, g_gc_fn_depth, g_frame_root_head)
    BY <1>1, <2>1, SoundSetjmp DEF TypeOK
  <2>3. /\ stack' = Append(s, Fn(root, g_frame_root_head))
        /\ g_jmpbuf' = Len(stack) + 1
        /\ g_gc_fn_depth' = g_gc_fn_depth + 1
        /\ g_frame_root_head' = IF root THEN Len(s) + 1 ELSE g_frame_root_head
    BY <1>3 DEF Pcall, Enter
  <2>4. g_frame_root_head \in Nat
    BY <1>1 DEF TypeOK
  <2>5. Sound(stack', g_jmpbuf', g_gc_fn_depth', g_frame_root_head')
    <3> HIDE DEF s
    <3> QED
      BY <2>2, <2>3, <2>4, SoundEnter
  <2> QED
    <3>1. Enter(s, root, g_gc_fn_depth, g_frame_root_head)
      BY <1>3 DEF Pcall
    <3>2. s \in Seq(Activation)
      BY <2>2 DEF Sound
    <3>3. Len(stack') <= MaxStack
      <4> HIDE DEF s
      <4> QED
        BY <1>0, <2>4, <3>1, <3>2
    <3> QED
      BY <1>1, <1>3, <2>5, <3>3, SoundInv DEF Pcall, InCode, TypeOK
<1>4. CASE Return
  <2>1. Sound(stack, g_jmpbuf, g_gc_fn_depth, g_frame_root_head)
    BY <1>4, InvSound DEF Return
  <2>2. Sound(stack', g_jmpbuf', g_gc_fn_depth', g_frame_root_head')
    BY <1>4, <2>1, SoundLeave DEF Return, Top, Below
  <2> QED
    BY <1>1, <1>4, <2>2, BelowLength, SoundInv DEF Return, InCode, TypeOK
<1>5. ASSUME stack # <<>>, Top.at = "pcall", Restore
      PROVE  Sound(stack', g_jmpbuf', g_gc_fn_depth', g_frame_root_head')
  BY <1>1, <1>5, SoundRestore DEF Restore, Top, Below, TypeOK, StackInv, FramesInv
<1>6. CASE PcallOk
  BY <1>1, <1>5, <1>6, BelowLength, SoundInv DEF PcallOk, Restore, TypeOK
<1>7. CASE PcallCaught
  BY <1>1, <1>5, <1>7, BelowLength, SoundInv DEF PcallCaught, Restore, TypeOK
<1>8. ASSUME NEW v \in Value, Raise(v) PROVE StackInv'
  <2>1. stack # <<>> /\ Nested(stack) /\ PadBelow(stack, Len(stack), g_jmpbuf)
    BY <1>8 DEF Raise, InCode, StackInv, FramesInv, JmpbufIsInnermostPad
  <2>2. g_jmpbuf \in 1 .. Len(stack) /\ stack[g_jmpbuf].at # "fn"
    BY <2>1 DEF PadBelow
  <2>3. /\ stack' \in Seq(Activation) /\ Len(stack') = g_jmpbuf
        /\ \A i \in 1 .. g_jmpbuf : stack'[i] = stack[i]
        /\ Nested(stack')
    BY <1>1, <1>8, <2>1, <2>2, NestedPrefix DEF Raise, TypeOK
  <2>4. stack' # <<>> /\ stack'[Len(stack')].at # "fn"
    BY <2>2, <2>3
  <2>5. TypeOK'
    BY <1>1, <1>8, <2>2, <2>3, ProtectedCallAssumption DEF Raise, TypeOK
  <2>6. PadBelow(stack', Len(stack'), g_jmpbuf')
    BY <1>8, <2>2, <2>3 DEF Raise, PadBelow
  <2> QED
    BY <1>8, <2>3, <2>4, <2>5, <2>6
       DEF Raise, StackInv, FramesInv, LandingInv, JmpbufIsInnermostPad, DepthCountsFrames,
           HeadIsNewestRoot, InCode, Top
<1>9. ASSUME Exit PROVE StackInv'
  <2>a. Len(<<>>) <= MaxStack
    BY EmptySeq, ProtectedCallAssumption
  <2>b. stack' \in Seq(Activation) /\ Len(stack') <= MaxStack
    BY <1>9, <2>a, EmptySeq DEF Exit
  <2>1. TypeOK'
    BY <1>1, <1>9, <2>b DEF Exit, TypeOK
  <2> QED
    BY <1>9, <2>1
       DEF Exit, StackInv, FramesInv, LandingInv, JmpbufIsInnermostPad, DepthCountsFrames,
           HeadIsNewestRoot, InCode
<1> QED
  BY <1>2, <1>3, <1>4, <1>6, <1>7, <1>8, <1>9 DEF Next, Uncaught, EndOfMain, Trap

\* The saved copies nest like the frames do, in every reachable state.
THEOREM StackInvariant == Spec => []StackInv
<1>1. StackInv /\ UNCHANGED vars => StackInv'
  BY DEF vars, globals, StackInv, TypeOK, FramesInv, LandingInv, JmpbufIsInnermostPad,
         DepthCountsFrames, HeadIsNewestRoot, InCode, Top
<1> QED
  BY <1>1, InitStackInv, NextStackInv, PTL DEF Spec

-----------------------------------------------------------------------------
(* What follows from it.                                                   *)

\* A longjmp always finds the innermost live landing pad.
THEOREM JmpbufTheorem == Spec => []JmpbufIsInnermostPad
BY StackInvariant, PTL DEF StackInv

\* The depth the collector tests is right after any nesting of caught errors.
THEOREM DepthTheorem == Spec => []DepthCountsFrames
BY StackInvariant, PTL DEF StackInv

\* The frame chain: the marker's walk visits the root frames on the stack,
\* all of them and nothing else, however deep the stack and whatever errors
\* were caught.
LEMMA ChainLemma ==
    ASSUME StackInv, InCode
    PROVE  Chain = RootFrames(stack, Len(stack))
<1> DEFINE n == Len(stack)
           R == RootFrames(stack, n)
<1>1. /\ stack \in Seq(Activation) /\ n \in Nat /\ n <= MaxStack /\ MaxStack \in Nat
      /\ DOMAIN stack = 1 .. n
      /\ NewestRoot(stack, n, g_frame_root_head)
      /\ Nested(stack)
  BY ProtectedCallAssumption DEF StackInv, TypeOK, HeadIsNewestRoot, FramesInv, InCode
<1>2. R \in SUBSET (1 .. n) /\ R \in SUBSET Position
  BY <1>1, RootFramesStep DEF Position
<1>3. ASSUME NEW p \in R
      PROVE  /\ p \in 1 .. n /\ stack[p].at = "fn" /\ stack[p].root
             /\ NewestRoot(stack, p - 1, stack[p].prev)
             /\ RootFrames(stack, p - 1) = {i \in R : i < p}
  <2>1. p \in 1 .. n /\ stack[p].at = "fn" /\ stack[p].root
    BY <1>1, <1>2 DEF RootFrames, Functions
  <2>2. p # 1
    BY <1>1, <2>1 DEF Nested, Main
  <2>3. SavedIsTrueBelow(stack, p)
    BY <1>1, <2>1, <2>2 DEF Nested
  <2>4. RootFrames(stack, p - 1) = {i \in R : i < p}
    BY <1>1, <2>1 DEF RootFrames, Functions
  <2> QED
    BY <2>1, <2>3, <2>4 DEF SavedIsTrueBelow
<1>4. Linked(R)
  <2>1. g_frame_root_head # 0 => g_frame_root_head \in R
    BY <1>1 DEF NewestRoot
  <2>2. ASSUME NEW p \in R, stack[p].prev # 0 PROVE stack[p].prev \in R
    BY <1>3, <2>2 DEF NewestRoot
  <2> QED
    BY <2>1, <2>2 DEF Linked
<1>5. Chain \subseteq R
  BY <1>2, <1>4 DEF Chain
<1>6. ASSUME NEW r \in R, NEW S \in SUBSET Position, Linked(S) PROVE r \in S
  <2> SUFFICES ASSUME r \notin S PROVE FALSE
    OBVIOUS
  <2> DEFINE T == {x \in S \cap R : x > r}
  <2>1. g_frame_root_head \in T
    BY <1>1, <1>2, <1>6 DEF NewestRoot, Linked
  <2>2. T \in SUBSET Nat /\ T # {}
    BY <1>1, <1>2, <2>1
  <2>3. PICK m \in T : \A x \in T : m <= x
    <3> HIDE DEF T
    <3> QED
      BY <2>2, LeastNat
  <2>4. r \in RootFrames(stack, m - 1)
    BY <1>3, <2>3
  <2>5. stack[m].prev \in RootFrames(stack, m - 1) /\ stack[m].prev >= r
        /\ stack[m].prev # 0
    BY <1>2, <1>3, <2>3, <2>4 DEF NewestRoot
  <2>6. stack[m].prev \in S /\ stack[m].prev \in R /\ stack[m].prev < m
    BY <1>1, <1>3, <1>6, <2>3, <2>5 DEF Linked
  <2> QED
    BY <1>2, <2>3, <2>5, <2>6
<1> QED
  BY <1>2, <1>5, <1>6 DEF Chain

\* The chain the marker walks holds the root frames on the stack and no others.
THEOREM ChainTheorem == Spec => []ChainIsRootFrames
<1>1. StackInv => ChainIsRootFrames
  BY ChainLemma DEF ChainIsRootFrames
<1> QED
  BY <1>1, StackInvariant, PTL

-----------------------------------------------------------------------------
(* Refinement.                                                             *)

LEMMA KindsType ==
    ASSUME NEW s \in Seq(Activation)
    PROVE  /\ Kinds(s) \in Seq({"main", "fn", "pcall"})
           /\ Len(Kinds(s)) = Len(s) /\ DOMAIN Kinds(s) = 1 .. Len(s)
           /\ \A i \in 1 .. Len(s) : Kinds(s)[i] = s[i].at
<1>1. DOMAIN s = 1 .. Len(s) /\ Len(s) \in Nat /\ \A i \in 1 .. Len(s) : s[i] \in Activation
  BY LenProperties, ElementOfSeq
<1>2. \A a \in Activation : a.at \in {"main", "fn", "pcall"}
  BY DEF Activation, Main
<1>3. Kinds(s) = [i \in 1 .. Len(s) |-> s[i].at]
  BY <1>1 DEF Kinds
<1>4. Kinds(s) \in Seq({"main", "fn", "pcall"})
  BY <1>1, <1>2, <1>3
<1> QED
  BY <1>1, <1>3, <1>4

LEMMA KindsAppend ==
    ASSUME NEW s \in Seq(Activation), NEW a \in Activation
    PROVE  Kinds(Append(s, a)) = Append(Kinds(s), a.at)
<1> DEFINE t == Append(s, a)
<1>1. t \in Seq(Activation) /\ Len(t) = Len(s) + 1 /\ t[Len(s) + 1] = a
      /\ \A i \in 1 .. Len(s) : t[i] = s[i]
  BY AppendProperties
<1>2. Len(s) \in Nat /\ a.at \in {"main", "fn", "pcall"}
  BY DEF Activation, Main
<1>3. /\ Kinds(t) \in Seq({"main", "fn", "pcall"}) /\ Len(Kinds(t)) = Len(t)
      /\ \A i \in 1 .. Len(t) : Kinds(t)[i] = t[i].at
  BY <1>1, KindsType
<1>4. /\ Kinds(s) \in Seq({"main", "fn", "pcall"}) /\ Len(Kinds(s)) = Len(s)
      /\ \A i \in 1 .. Len(s) : Kinds(s)[i] = s[i].at
  BY KindsType
<1>5. /\ Append(Kinds(s), a.at) \in Seq({"main", "fn", "pcall"})
      /\ Len(Append(Kinds(s), a.at)) = Len(s) + 1
      /\ Append(Kinds(s), a.at)[Len(s) + 1] = a.at
      /\ \A i \in 1 .. Len(s) : Append(Kinds(s), a.at)[i] = s[i].at
  BY <1>2, <1>4, AppendProperties
<1> HIDE DEF t
<1>6. \A i \in 1 .. Len(s) + 1 : Kinds(t)[i] = Append(Kinds(s), a.at)[i]
  BY <1>1, <1>2, <1>3, <1>5
<1>7. Kinds(t) = Append(Kinds(s), a.at)
  BY <1>1, <1>3, <1>5, <1>6, SeqEqual
<1> QED
  BY <1>7 DEF t

LEMMA KindsPrefix ==
    ASSUME NEW s \in Seq(Activation), NEW k \in 0 .. Len(s)
    PROVE  Kinds(SubSeq(s, 1, k)) = SubSeq(Kinds(s), 1, k)
<1> DEFINE t == SubSeq(s, 1, k)
           u == SubSeq(Kinds(s), 1, k)
<1>1. t \in Seq(Activation) /\ Len(t) = k /\ \A i \in 1 .. k : t[i] = s[i]
  BY SubSeqProperties
<1>2. /\ Kinds(s) \in Seq({"main", "fn", "pcall"}) /\ Len(Kinds(s)) = Len(s)
      /\ \A i \in 1 .. Len(s) : Kinds(s)[i] = s[i].at
  BY KindsType
<1>3. u \in Seq({"main", "fn", "pcall"}) /\ Len(u) = k /\ \A i \in 1 .. k : u[i] = Kinds(s)[i]
  BY <1>2, SubSeqProperties
<1>4. /\ Kinds(t) \in Seq({"main", "fn", "pcall"}) /\ Len(Kinds(t)) = k
      /\ \A i \in 1 .. k : Kinds(t)[i] = t[i].at
  BY <1>1, KindsType
<1> HIDE DEF t, u
<1>5. \A i \in 1 .. k : Kinds(t)[i] = u[i]
  BY <1>1, <1>2, <1>3, <1>4
<1>6. Kinds(t) = u
  BY <1>3, <1>4, <1>5, SeqEqual
<1> QED
  BY <1>6 DEF t, u

LEMMA InitImplements == Init => Lua!Init
<1> SUFFICES ASSUME Init PROVE Lua!Init
  OBVIOUS
<1>1. Kinds(stack) = <<"main">>
  BY DEF Init, Kinds, Main
<1> QED
  BY <1>1 DEF Init, Lua!Init

LEMMA NextImplements ==
    ASSUME StackInv, Next
    PROVE  Lua!Next
<1> DEFINE acts == Kinds(stack)
<1> USE DEF globals
<1>1. TypeOK /\ stack \in Seq(Activation)
  BY DEF StackInv, TypeOK
<1>2. /\ Len(acts) = Len(stack) /\ DOMAIN acts = 1 .. Len(stack) /\ Len(stack) \in Nat
      /\ \A i \in 1 .. Len(stack) : acts[i] = stack[i].at
      /\ acts \in Seq({"main", "fn", "pcall"})
  BY <1>1, KindsType
<1>3. ASSUME stack # <<>>
      PROVE  acts # <<>> /\ Lua!Top = Top.at /\ Len(stack) >= 1
             /\ Kinds(Below) = Lua!Pop(acts)
  <2>1. Len(stack) >= 1
    BY <1>1, <1>2, <1>3, EmptySeq
  <2>2. Len(stack) - 1 \in 0 .. Len(stack)
    BY <1>2, <2>1
  <2>3. Kinds(Below) = SubSeq(acts, 1, Len(stack) - 1)
    BY <1>1, <2>2, KindsPrefix DEF Below
  <2> QED
    BY <1>2, <2>1, <2>3 DEF Lua!Top, Top, Lua!Pop
<1>4. ASSUME InCode PROVE Lua!Running /\ Lua!Top = Top.at /\ Lua!Top # "pcall"
  BY <1>3, <1>4 DEF InCode, Lua!Running
<1>5. ASSUME NEW root \in BOOLEAN, NEW head \in Nat, NEW s \in Seq(Activation)
      PROVE  Kinds(Append(s, Fn(root, head))) = Append(Kinds(s), "fn")
  <2>1. Fn(root, head) \in Activation /\ Fn(root, head).at = "fn"
    BY DEF Fn, Activation
  <2> QED
    BY <2>1, KindsAppend
<1>6. ASSUME NEW root \in BOOLEAN, Call(root) PROVE Lua!Call
  <2>1. Kinds(stack') = Append(acts, "fn")
    BY <1>1, <1>5, <1>6 DEF Call, Enter, TypeOK
  <2> QED
    BY <1>4, <1>6, <2>1 DEF Call, InCode, Lua!Call
<1>7. ASSUME NEW root \in BOOLEAN, Pcall(root) PROVE Lua!Protect
  <2> DEFINE a == Pad(g_jmpbuf, g_gc_fn_depth, g_frame_root_head)
  <2>1. a \in Activation /\ a.at = "pcall"
    BY <1>1 DEF Pad, Activation, TypeOK
  <2>2. Append(stack, a) \in Seq(Activation) /\ Kinds(Append(stack, a)) = Append(acts, "pcall")
    BY <1>1, <2>1, KindsAppend, AppendProperties
  <2>3. stack' = Append(Append(stack, a), Fn(root, g_frame_root_head))
    BY <1>7 DEF Pcall, Enter
  <2>4. g_frame_root_head \in Nat
    BY <1>1 DEF TypeOK
  <2>5. Kinds(stack') = Append(Append(acts, "pcall"), "fn")
    <3> HIDE DEF a, acts
    <3> QED
      BY <1>5, <2>2, <2>3, <2>4
  <2>6. Append(Append(acts, "pcall"), "fn") = acts \o <<"pcall", "fn">>
    <3> HIDE DEF acts
    <3> QED
      BY <1>2
  <2> QED
    BY <1>4, <1>7, <2>5, <2>6 DEF Pcall, InCode, Lua!Protect
<1>8. CASE Return
  BY <1>3, <1>4, <1>8 DEF Return, InCode, Lua!Next, Lua!Return
<1>9. CASE PcallOk
  BY <1>3, <1>9 DEF PcallOk, Restore, Lua!Next, Lua!Complete
<1>10. CASE PcallCaught
  <2>1. g_error_value # NoValue
    BY <1>10, ProtectedCallAssumption DEF PcallCaught, StackInv, LandingInv
  <2> QED
    BY <1>3, <1>10, <2>1 DEF PcallCaught, Restore, Lua!Next, Lua!Complete
<1>11. ASSUME NEW v \in Value, Raise(v) PROVE Lua!Raise(v)
  <2>1. PadBelow(stack, Len(stack), g_jmpbuf)
    BY <1>11 DEF Raise, InCode, StackInv, JmpbufIsInnermostPad
  <2>2. g_jmpbuf \in 1 .. Len(stack)
    BY <2>1 DEF PadBelow
  <2>3. Lua!Innermost(acts, g_jmpbuf)
    BY <1>2, <2>1, <2>2 DEF PadBelow, Lua!Innermost
  <2>4. Kinds(stack') = SubSeq(acts, 1, g_jmpbuf)
    BY <1>1, <1>11, <2>2, KindsPrefix DEF Raise
  <2> QED
    BY <1>2, <1>4, <1>11, <2>2, <2>3, <2>4 DEF Raise, InCode, Lua!Raise
<1>12. ASSUME Exit, stack # <<>> PROVE Lua!Exit
  <2>1. Kinds(<<>>) = <<>>
    BY DEF Kinds
  <2> QED
    BY <1>3, <1>12, <2>1 DEF Exit, Lua!Exit
<1> QED
  BY <1>6, <1>7, <1>8, <1>9, <1>10, <1>11, <1>12
     DEF Next, Uncaught, EndOfMain, Trap, InCode, Lua!Next

\* The single jmp_buf, its copies in the frames and the restored globals
\* implement Lua's stack of protected calls.
THEOREM Implementation == Spec => ImplementsProtectedCall
<1>1. StackInv /\ [Next]_vars => [Lua!Next]_Lua!vars
  <2>1. UNCHANGED vars => UNCHANGED Lua!vars
    BY DEF vars, globals, Lua!vars, Kinds
  <2> QED
    BY <2>1, NextImplements
<1> QED
  BY <1>1, InitImplements, StackInvariant, PTL DEF Spec, ImplementsProtectedCall, Lua!Spec
=============================================================================
