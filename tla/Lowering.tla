------------------------------ MODULE Lowering ------------------------------
(***************************************************************************)
(* What lower_expr and the passes after it make of the statements of a     *)
(* chunk (hir/mod.rs): static kinds, folded constants, callees read ahead  *)
(* of their statement, number subtypes and i64 slots.                      *)
(*                                                                         *)
(* A chunk P is [kind |-> the static kind of each local, code |-> its      *)
(* statements].                                                            *)
(***************************************************************************)
EXTENDS Syntax

CONSTANTS
    Var,            \* the locals
    Fun,            \* the user functions
    Returns         \* Returns[f]: the value f returns

Kind == {"Number", "Bool", "String", "Nil", "Table", "Tagged"}
KindOfTag == [num |-> "Number", bool |-> "Bool", str |-> "String", nil |-> "Nil", table |-> "Table"]

----------------------------------------------------------------------------
(* Kinds and constants.                                                    *)

\* infer_kind: the static kind of node i, from the kinds of its operands.
KindOfNode(P, e, kind, i) ==
    CASE e[i].op \in {"int", "float"} -> "Number"
      [] e[i].op = "lit" -> KindOfTag[Tag(e[i].v)]
      [] e[i].op = "var" -> P.kind[e[i].x]
      [] e[i].op = "call" -> KindOfTag[Tag(Returns[e[i].x])]
      [] e[i].op = "callee" -> "Number"
      [] e[i].op = "un" -> IF e[i].o = "not" THEN "Bool" ELSE "Number"
      [] e[i].op = "logic" -> kind[Left(e, i)]
      [] e[i].op = "bin" -> IF e[i].o = ".." THEN "String"
                            ELSE IF e[i].o \in Ordering \cup Equality THEN "Bool" ELSE "Number"
      [] e[i].op = "test" -> "Nil"

Kinds(P, e) == LET kind[i \in 1 .. Len(e)] == KindOfNode(P, e, kind, i) IN kind

\* Integer literals, and operators on them that lower_expr folds.
IntOfNode(e, int, i) ==
    IF e[i].op = "int" THEN e[i].v
    ELSE IF e[i].op # "bin" \/ None \in {int[Left(e, i)], int[i - 1]} THEN None
    ELSE FoldInts(e[i].o, int[Left(e, i)][2], int[i - 1][2])

IntConst(e) == LET int[i \in 1 .. Len(e)] == IntOfNode(e, int, i) IN int

TaggedVar(P, e, i) == e[i].op = "var" /\ P.kind[e[i].x] = "Tagged"

\* x == nil with x a TaggedValue local: a test of its tag.
IsNilTest(P, e, i) ==
    /\ IsBin(e, i, Equality)
    /\ \/ TaggedVar(P, e, Left(e, i)) /\ e[i - 1].v = Nil
       \/ TaggedVar(P, e, i - 1) /\ e[Left(e, i)].v = Nil

\* An equality of operands whose static kinds differ, or of two nils, is folded.
EqConstant(P, e, i) ==
    LET l == Kinds(P, e)[Left(e, i)]
        r == Kinds(P, e)[i - 1]
    IN IF "Tagged" \in {l, r} \/ (l = r /\ l # "Nil") THEN None ELSE Bool((l = r) = (e[i].o = "=="))

\* The nodes that are constants of the compiled program.
Constants(P, e) ==
    [i \in 1 .. Len(e) |->
        IF e[i].op \in {"float", "lit"} THEN e[i].v
        ELSE IF IntConst(e)[i] # None THEN IntConst(e)[i]
        ELSE IF IsBin(e, i, Equality) THEN EqConstant(P, e, i) ELSE None]

\* The operands an operator accepts; another program is not compiled (cmpf on
\* two Bools, for one, does not pass the verifier of MLIR).
Accepts(P, e, i) ==
    LET kind == Kinds(P, e)
        r == kind[i - 1]
        l == kind[Left(e, i)]
        Numeric == {"Number", "Tagged"}
        Coerced == Numeric \cup {"String"}
    IN CASE e[i].op = "callee" -> P.kind[e[i].x] = "Table"
         [] e[i].op = "un" -> \/ e[i].o = "#" /\ r \in {"String", "Table"}
                              \/ e[i].o \in {"-", "~"} /\ r \in {"Number", "Table", "Tagged"}
                              \/ e[i].o = "not"
         [] IsBin(e, i, Arith \cup Bitwise) -> {l, r} = {"Table"} \/ {l, r} \subseteq Coerced
         [] IsBin(e, i, Ordering) -> {l, r} \subseteq Numeric \/ {l, r} \in {{"String"}, {"Table"}}
         [] IsBin(e, i, Equality) ->
              IF "Tagged" \in {l, r}
              THEN \/ IsNilTest(P, e, i) \/ {l, r} \subseteq Numeric
                   \/ /\ TaggedVar(P, e, Left(e, i)) \/ TaggedVar(P, e, i - 1)
                      /\ {l, r} \cap {"Bool", "String"} # {}
              ELSE {l, r} # {"Bool"}
         [] IsBin(e, i, {".."}) -> {l, r} = {"Table"} \/ "Table" \notin {l, r}
         [] e[i].op = "logic" -> l = r
         [] OTHER -> TRUE

\* lower_expr folds node i out of integers on which its operator panics.
Panics(e, i) ==
    /\ e[i].op = "bin"
    /\ None \notin {IntConst(e)[Left(e, i)], IntConst(e)[i - 1]}
    /\ FoldPanics(e[i].o, IntConst(e)[Left(e, i)][2], IntConst(e)[i - 1][2])

Compiles(P) ==
    \A s \in 1 .. Len(P.code) :
       LET e == P.code[s].e IN
         /\ \A i \in 1 .. Len(e) : Accepts(P, e, i) /\ ~Panics(e, i)
         /\ P.code[s].k = "assign" => P.kind[P.code[s].x] = Kinds(P, e)[Len(e)]

----------------------------------------------------------------------------
(* Hoisting: the callee x.k of a call x.k() is read by a statement that    *)
(* lower_stmt puts in front of the statement it is lowering; both go into  *)
(* a block.                                                                *)

Callees(e) == {i \in 1 .. Len(e) : e[i].op = "callee"}

\* A repeat statement owns what its until condition hoists.
Source(P, s) == IF P.code[s].k = "repeat" THEN P.code[s].to ELSE s

\* The callees read when statement s is entered, as <<statement, node>>.
Hoists(P, s) ==
    IF P.code[s].k = "until" THEN <<>>
    ELSE [n \in 1 .. Cardinality(Callees(P.code[Source(P, s)].e)) |->
            <<Source(P, s),
              CHOOSE i \in Callees(P.code[Source(P, s)].e) :
                 Cardinality({j \in Callees(P.code[Source(P, s)].e) : j <= i}) = n>>]

\* The statements inside a block: do ... end, or a statement with its hoists.
InBlock(P, s) ==
    \E b \in 1 .. s :
        /\ P.code[b].k = "do" \/ Hoists(P, b) # <<>>
        /\ b = s \/ (P.code[b].k \in {"do", "if", "while", "repeat"} /\ s <= P.code[b].to)

----------------------------------------------------------------------------
(* Number subtypes and i64 slots.                                          *)

\* classify_number_subtype of every node, from the subtypes of the locals.
ClassOfNode(e, sub, class, i) ==
    IF IntConst(e)[i] # None THEN "Integer"
    ELSE IF e[i].op = "float" THEN "Float"
    ELSE IF e[i].op = "var" THEN sub[e[i].x]
    ELSE IF ~IsBin(e, i, Arith \cup Bitwise) THEN "Unknown"
    ELSE LET operands == {class[Left(e, i)], class[i - 1]} IN
         IF e[i].o # "/" /\ operands = {"Integer"} THEN "Integer"
         ELSE IF e[i].o = "/" \/ "Float" \in operands THEN "Float" ELSE "Unknown"

Classify(e, sub) == LET class[i \in 1 .. Len(e)] == ClassOfNode(e, sub, class, i) IN class

Merge(current, new) ==
    IF current = "Unknown" THEN new ELSE IF current = new THEN current ELSE "Unknown"

\* propagate_number_subtype: one walk over the statements, which does not
\* enter blocks.
Propagate(P, s, sub) ==
    LET st == P.code[s] IN
    IF st.k # "assign" \/ InBlock(P, s) THEN sub
    ELSE IF P.kind[st.x] # "Number" THEN sub
    ELSE [sub EXCEPT ![st.x] = Merge(@, Classify(st.e, sub)[Len(st.e)])]

Subtypes(P) ==
    LET after[s \in 0 .. Len(P.code)] ==
          IF s = 0 THEN [x \in Var |-> "Unknown"] ELSE Propagate(P, s, after[s - 1])
    IN after[Len(P.code)]

\* Subtree i is made of integers, locals of Ints and operators on them
\* (is_gate_int_expr, int_tree_on_slots).
IntTree(e, i, Ints) ==
    \A j \in Under(e, i) :
        \/ IntConst(e)[j] # None
        \/ e[j].op = "var" /\ e[j].x \in Ints
        \/ IsBin(e, j, IntOps)

IntComparison(e, Ints) ==
    LET n == Len(e) IN
    IsBin(e, n, Ordering \cup Equality) /\ IntTree(e, Left(e, n), Ints) /\ IntTree(e, n - 1, Ints)

IntegerLocals(P) == {x \in Var : P.kind[x] = "Number" /\ Subtypes(P)[x] = "Integer"}

\* Faulty: a statement of another shape does not turn the slots off.
EligibleStores(P) ==
    \A s \in 1 .. Len(P.code) :
       P.code[s].k = "assign" =>
          \/ IntTree(P.code[s].e, Len(P.code[s].e), IntegerLocals(P))
          \/ IntComparison(P.code[s].e, IntegerLocals(P))

\* mark_integer_slot_eligible: all statements of the chunk, or no slot at all.
Eligible(P) ==
    \A s \in 1 .. Len(P.code) :
       LET e == P.code[s].e IN
         CASE P.code[s].k = "assign" -> IntTree(e, Len(e), IntegerLocals(P)) \/ IntComparison(e, IntegerLocals(P))
           [] P.code[s].k = "print" -> Len(e) = 1 /\ e[1].op \in {"var", "int", "float", "lit"}
           [] OTHER -> FALSE

Slots(P) == IF Eligible(P) THEN IntegerLocals(P) ELSE {}

\* The nodes that are compiled to i64 arithmetic.
IntLane(P, s) ==
    LET st == P.code[s] IN
    IF st.k # "assign" THEN {}
    ELSE IF st.x \in Slots(P) THEN 1 .. Len(st.e)
    ELSE IF P.kind[st.x] = "Bool" /\ IntComparison(st.e, Slots(P)) THEN 1 .. Len(st.e) - 1 ELSE {}

\* A chunk as the code generator gets it.
Lower(P) ==
    [kind |-> P.kind, slots |-> Slots(P),
     integers |-> IntegerLocals(P),
     code |-> [s \in 1 .. Len(P.code) |->
                 [k |-> P.code[s].k, x |-> P.code[s].x, e |-> P.code[s].e, to |-> P.code[s].to,
                  kinds |-> Kinds(P, P.code[s].e), const |-> Constants(P, P.code[s].e),
                  hoists |-> Hoists(P, s), ints |-> IntLane(P, s)]]]
=============================================================================
