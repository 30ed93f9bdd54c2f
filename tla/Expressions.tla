---------------------------- MODULE Expressions ----------------------------
(***************************************************************************)
(* The statements of a lowered chunk as the compiled program runs them:    *)
(* operand by operand, with the calls operands make, the operator each     *)
(* BinOp and UnaryOp is compiled to (emit_expr), metamethods, and the      *)
(* three ways a number is computed: folded, on i64 slots, on doubles.      *)
(*                                                                         *)
(* A user function is atomic: it leaves an event in the trace, may set a   *)
(* field or a metatable, and returns a value.  It does not assign the      *)
(* locals of the expression that calls it.                                 *)
(***************************************************************************)
EXTENDS Lowering, SequencesExt

CONSTANTS
    Chunks,         \* the programs; a chunk also names its initial state
    Table, Meta,    \* tables, and metatables
    Key,            \* fields that hold functions
    Null,           \* no function, no metatable
    Params,         \* Params[f]: how many tables the function f takes
    Effect,         \* Effect[f]: what a call of f changes
    Handlers,       \* Handlers[m][event]: the function field of a metatable
    RawLen          \* RawLen[t]: the length of the array part of t

Fits(v, kind) == Tag(v) \in DOMAIN KindOfTag /\ (kind = "Tagged" \/ KindOfTag[Tag(v)] = kind)

\* What the parser and the resolution of names leave to lower_expr.
Resolved(n) ==
    /\ n.op = "int" => Integral(n.v)
    /\ n.op = "float" => Tag(n.v) = "num"
    /\ n.op = "lit" => Fits(n.v, "Tagged")
    /\ n.op \in {"var", "callee"} => n.x \in Var
    /\ n.op = "call" => n.x \in Fun
    /\ n.op = "bin" => n.o \in Arith \cup Bitwise \cup Ordering \cup Equality \cup {".."}

\* A local is a number because its declaration, before its first use, gave it
\* one; until then its place holds an integer.
Declared(P, s, x) ==
    P.kind[x] = "Number" => \E r \in 1 .. s - 1 : P.code[r].k = "assign" /\ P.code[r].x = x

WellFormed(P) ==
    /\ P.kind \in [Var -> Kind] /\ DOMAIN P.store = Var
    /\ \A x \in Var : Fits(P.store[x], P.kind[x]) /\ (P.kind[x] = "Number" => Integral(P.store[x]))
    /\ P.code \in Seq(Range(P.code))
    /\ \A s \in 1 .. Len(P.code) :
          LET st == P.code[s] IN
          /\ st.e \in Seq(Range(st.e)) /\ Postfix(st.e)
          /\ st.k = "assign" => st.x \in Var /\ st.e # <<>>
          /\ st.k \in {"do", "if", "while", "repeat"} => st.to \in s + 1 .. Len(P.code)
          /\ \A i \in 1 .. Len(st.e) :
                Resolved(st.e[i]) /\ (st.e[i].op = "var" => Declared(P, s, st.e[i].x))

ASSUME ChunksAssumption ==
    /\ \A P \in Chunks : WellFormed(P)
    /\ \A f \in Fun : Fits(Returns[f], "Tagged")

VARIABLES
    unit,           \* the lowered chunk
    store,          \* the locals
    meta, field,    \* the metatable of each table; the functions in its fields
    pc,             \* the statement, the hoists read, the next node
    stack,          \* the operands evaluated so far
    ahead,          \* the callees read ahead: <<statement, node>> -> function
    trace,          \* calls, printed values, and the end of a program that stops
    begun           \* where the statement under way started (not in the code)

vars == <<unit, store, meta, field, pc, stack, ahead, trace, begun>>

Garbage == <<"garbage">>
Stopped == [at |-> 0, h |-> 0, n |-> 1]
Entry(s) == [at |-> s, h |-> 0, n |-> 1]
Top == stack[Len(stack)]

Running == pc.at \in 1 .. Len(unit.code)
Here == unit.code[pc.at]
Ready == Running /\ (pc.h = Len(Here.hoists))
Size == Len(Here.e)
AtNode(op) == Ready /\ pc.n <= Size /\ Here.e[pc.n].op = op

----------------------------------------------------------------------------
(* Operands.                                                               *)

TaggedLocal(i) == TaggedVar(unit, Here.e, i)

\* An equality on a tagged local compares tags, unless its other operand is a
\* tagged value that is not in a local: what and/or yields.
ByTag(i) == \A j \in Operands(Here.e, i) : Here.kinds[j] = "Tagged" => Here.e[j].op = "var"

\* What consumes the value of node i: an operator, or the statement.
Consumers(i) == {k \in i + 1 .. Size : Here.e[k].op \in {"bin", "un"} /\ i \in Operands(Here.e, k)}
TakenAsNumber(i) == \E k \in Consumers(i) : Here.e[k].o \in Arith \cup Bitwise
TakenAsIs(i) ==
    \/ \E k \in Consumers(i) : Here.e[k].o = ".." \/ (Here.e[k].o \in Equality /\ ByTag(k))
    \/ Size = 1 /\ Here.k \in {"assign", "print", "if"}

\* What the value v of node i becomes on its way to its consumer: a tagged or
\* string operand of an arithmetic operator is converted before the next
\* operand is evaluated; a tagged local read in any other place must hold a
\* number; an i64 slot is not a double.
Delivered(i, v) ==
    IF Here.e[i].op = "var" /\ Here.e[i].x \in unit.slots /\ i \notin Here.ints /\ Here.k # "print" THEN Garbage
    ELSE IF TakenAsNumber(i) /\ (TaggedLocal(i) \/ Here.kinds[i] = "String") THEN TaggedNumber(v)
    ELSE IF TaggedLocal(i) /\ ~TakenAsIs(i) /\ Tag(v) # "num" THEN Trap ELSE v

StopAfter(events) ==
    /\ pc' = Stopped /\ stack' = <<>> /\ trace' = trace \o events \o <<Trap>>
    /\ begun' = [begun EXCEPT !.at = 0, !.trace = trace']
    /\ UNCHANGED <<unit, store, meta, field, ahead>>
Stop == StopAfter(<<>>)

\* Node i gives v, without and with a call on the way.
Gives(i, below, v) ==
    IF v = Trap \/ Delivered(i, v) = Trap THEN Stop
    ELSE /\ pc' = [pc EXCEPT !.n = i + 1]
         /\ stack' = Append(below, Delivered(i, v))
         /\ UNCHANGED <<unit, store, meta, field, ahead, trace, begun>>

MetaAfter(f, m) == IF Effect[f].do = "meta" THEN [m EXCEPT ![Effect[f].t] = Effect[f].v] ELSE m
FieldAfter(f, d) == IF Effect[f].do = "field" THEN [d EXCEPT ![Effect[f].t][Effect[f].k] = Effect[f].v] ELSE d

Invoke(i, below, f, args, v) ==
    IF Delivered(i, v) = Trap THEN StopAfter(<<<<f, args>>>>)
    ELSE /\ pc' = [pc EXCEPT !.n = i + 1]
         /\ stack' = Append(below, Delivered(i, v))
         /\ trace' = Append(trace, <<f, args>>)
         /\ meta' = MetaAfter(f, meta) /\ field' = FieldAfter(f, field)
         /\ UNCHANGED <<unit, store, ahead, begun>>

\* A constant subtree is one constant; its operands are not evaluated.
Roots(n) == {i \in n .. Size : Here.const[i] # None /\ n \in Under(Here.e, i)}
Constant ==
    /\ Ready /\ pc.n <= Size
    /\ Roots(pc.n) # {}
    /\ Gives(Max(Roots(pc.n)), stack, Here.const[Max(Roots(pc.n))])

Load == AtNode("var") /\ Roots(pc.n) = {} /\ Gives(pc.n, stack, store[Here.e[pc.n].x])

CallUser == AtNode("call") /\ Roots(pc.n) = {} /\ Invoke(pc.n, stack, Here.e[pc.n].x, <<>>, Returns[Here.e[pc.n].x])

\* x.k(): the function read ahead, if it can be called without arguments for a
\* number; the program stops otherwise.
Candidates(n, kind) == {f \in Fun : Params[f] = n /\ KindOfTag[Tag(Returns[f])] = kind}
CallHoisted ==
    /\ AtNode("callee") /\ Roots(pc.n) = {}
    /\ LET f == ahead[<<pc.at, pc.n>>]
       IN IF f \in Candidates(0, "Number") THEN Invoke(pc.n, stack, f, <<>>, Returns[f]) ELSE Stop

----------------------------------------------------------------------------
(* Short circuits.                                                         *)

\* emit_truthiness: decided by the static kind.
Truthy(kind, v) == CASE kind = "Bool" -> v[2] [] kind = "Nil" -> FALSE [] OTHER -> TRUE

\* The and/or node whose left operand ends in front of the test node n.
LogicOf(n) == CHOOSE i \in n + 1 .. Size : Here.e[i].op = "logic" /\ Left(Here.e, i) = n - 1

Test ==
    /\ AtNode("test") /\ Roots(pc.n) = {}
    /\ LET decided == Truthy(Here.kinds[pc.n - 1], Top) = (Here.e[pc.n].o = "or")
       IN IF decided THEN Gives(LogicOf(pc.n), Front(stack), Top)
          ELSE /\ pc' = [pc EXCEPT !.n = @ + 1] /\ stack' = Front(stack)
               /\ UNCHANGED <<unit, store, meta, field, ahead, trace, begun>>

EndLogic == AtNode("logic") /\ Roots(pc.n) = {} /\ Gives(pc.n, Front(stack), Top)

----------------------------------------------------------------------------
(* Operators.                                                              *)

\* The handler of table t for an event: the metatable of that operand only.
Handler(t, event) == IF meta[t[2]] = Null THEN Null ELSE Handlers[meta[t[2]]][event]

\* emit_*_via_metamethod: the handler is called with args if it is one of the
\* candidates; miss is what happens without any, another function stops.
\* The result of __eq is inverted for "~=".
Metamethod(i, below, t, event, args, ret, miss) ==
    LET callable == Candidates(Len(args), ret)
        h == Handler(t, event)
        Result(v) == IF Here.e[i].o = "~=" THEN Bool(~v[2]) ELSE v
    IN IF callable = {} \/ h = Null THEN Gives(i, below, Result(miss))
       ELSE IF h \in callable THEN Invoke(i, below, h, args, Result(Returns[h])) ELSE Stop

\* Faulty: __lt and __le are asked with the operands in their own order.
TableCompareInOrder(i, below, op, a, b) ==
    IF op \in Equality
    THEN IF a = b THEN Gives(i, below, Bool(op = "=="))
         ELSE Metamethod(i, below, a, "==", <<a, b>>, "Bool", Bool(FALSE))
    ELSE Metamethod(i, below, a, IF op \in {"<", ">"} THEN "<" ELSE "<=", <<a, b>>, "Bool", Trap)

\* emit_table_cmp_via_metamethod: a > b is b < a.
TableCompare(i, below, op, a, b) ==
    CASE op \in Equality /\ a = b -> Gives(i, below, Bool(op = "=="))
      [] op \in Equality /\ a # b -> Metamethod(i, below, a, "==", <<a, b>>, "Bool", Bool(FALSE))
      [] op \in {"<", "<="} -> Metamethod(i, below, a, op, <<a, b>>, "Bool", Trap)
      [] op = ">" -> Metamethod(i, below, b, "<", <<b, a>>, "Bool", Trap)
      [] op = ">=" -> Metamethod(i, below, b, "<=", <<b, a>>, "Bool", Trap)

\* A local of subtype Integer is formatted through fptosi, which truncates, by
\* print and by the tostring that ".." applies to an operand that is a number.
IntegerLocal(i) == Here.e[i].op = "var" /\ Here.e[i].x \in unit.integers
Truncated(v) ==
    LET n == Sign(v[2]) * (Abs(v[2]) \div v[3])
    IN IF v[3] = 0 THEN Garbage ELSE IF InRange(n) THEN Num(n) ELSE Garbage
Text(i, v) == ToStr(IF IntegerLocal(i) THEN Truncated(v) ELSE v)

\* emit_expr, BinOp: the order of its dispatch.
BinResult(i, op, a, b) ==
    LET tagged == TaggedLocal(Left(Here.e, i)) \/ TaggedLocal(i - 1)
    IN IF i \in Here.ints THEN BinopI(op, a, b)
       ELSE IF op \in Equality /\ tagged /\ ByTag(i) THEN Bool(TaggedEq(a, b) = (op = "=="))
       ELSE IF op = ".." THEN Concat(Text(Left(Here.e, i), a), Text(i - 1, b))
       ELSE IF op \in Ordering \cup Equality /\ Here.kinds[Left(Here.e, i)] = "String" THEN Bool(CompareStr(op, a, b))
       ELSE BinopF(op, a, b)

Binary ==
    /\ AtNode("bin") /\ Roots(pc.n) = {}
    /\ LET op == Here.e[pc.n].o
           b == Top
           a == stack[Len(stack) - 1]
           below == SubSeq(stack, 1, Len(stack) - 2)
           tables == {Here.kinds[Left(Here.e, pc.n)], Here.kinds[pc.n - 1]} = {"Table"}
       IN IF Garbage \in {a, b} THEN Gives(pc.n, below, Garbage)
          ELSE IF ~tables THEN Gives(pc.n, below, BinResult(pc.n, op, a, b))
          ELSE IF op = ".." THEN Metamethod(pc.n, below, a, "..", <<a, b>>, "String", Trap)
          ELSE IF op \in Ordering \cup Equality THEN TableCompare(pc.n, below, op, a, b)
          ELSE Metamethod(pc.n, below, a, op, <<a, b>>, "Number", Trap)

Unary ==
    /\ AtNode("un") /\ Roots(pc.n) = {}
    /\ LET op == Here.e[pc.n].o
           v == IF op \in {"-", "~"} /\ TaggedLocal(pc.n - 1) THEN TaggedNumber(Top) ELSE Top
           kind == Here.kinds[pc.n - 1]
           below == Front(stack)
       IN CASE op = "not" -> Gives(pc.n, below, Bool(~Truthy(kind, v)))
            [] op = "#" /\ kind = "String" -> Gives(pc.n, below, Num(Len(v[2])))
            [] op = "#" /\ kind = "Table" -> Metamethod(pc.n, below, v, "#", <<v>>, "Number", Num(RawLen[v[2]]))
            [] op \in {"-", "~"} /\ kind = "Table" ->
                  Metamethod(pc.n, below, v, IF op = "-" THEN "neg" ELSE "bnot", <<v>>, "Number", Trap)
            [] op \in {"-", "~"} /\ kind # "Table" /\ v = Trap -> Stop
            [] op = "-" /\ kind # "Table" /\ v # Trap -> Gives(pc.n, below, NegF(v))
            [] op = "~" /\ kind # "Table" /\ v # Trap ->
                  Gives(pc.n, below, IF IsInteger(v) THEN Num(-v[2] - 1) ELSE Trap)

----------------------------------------------------------------------------
(* Statements.                                                             *)

\* The hoisted statements of the statement entered run first.
ReadAhead ==
    /\ Running /\ pc.h < Len(Here.hoists)
    /\ LET at == Here.hoists[pc.h + 1]
           callee == unit.code[at[1]].e[at[2]]
       IN ahead' = [p \in DOMAIN ahead \cup {at} |->
                      IF p = at THEN field[store[callee.x][2]][callee.k] ELSE ahead[p]]
    /\ pc' = [pc EXCEPT !.h = @ + 1]
    /\ UNCHANGED <<unit, store, meta, field, stack, trace, begun>>

\* A loop comes back behind the hoists of its condition.
Reenter(s) == [at |-> s, h |-> Len(unit.code[s].hoists), n |-> 1]

Done(k) == Ready /\ pc.n > Size /\ Here.k = k

Proceed(p) ==
    /\ pc' = p /\ stack' = <<>>
    /\ begun' = [at |-> p.at, store |-> store', meta |-> meta, field |-> field, trace |-> trace']
    /\ UNCHANGED <<unit, meta, field, ahead>>

AssignLocal == Done("assign") /\ store' = [store EXCEPT ![Here.x] = Top] /\ UNCHANGED trace /\ Proceed(Entry(pc.at + 1))

\* What print writes.
Shown(v) == IF Size = 1 /\ IntegerLocal(1) THEN Truncated(v) ELSE v

PrintValue == Done("print") /\ trace' = Append(trace, <<"print", Shown(Top)>>) /\ UNCHANGED store /\ Proceed(Entry(pc.at + 1))

\* A condition that is a tagged local is true when its tag is not nil.
Holds == IF Here.k = "if" /\ Size = 1 /\ TaggedLocal(1) THEN Top # Nil ELSE Truthy(Here.kinds[Size], Top)

Branch ==
    /\ Done("if") \/ Done("while")
    /\ UNCHANGED <<store, trace>>
    /\ Proceed(Entry(IF Holds THEN pc.at + 1 ELSE Here.to + 1))

LoopBack == Done("loop") /\ UNCHANGED <<store, trace>> /\ Proceed(Reenter(Here.to))

UntilDone ==
    /\ Done("until")
    /\ UNCHANGED <<store, trace>>
    /\ Proceed(Entry(IF Holds THEN pc.at + 1 ELSE Here.to + 1))

EnterBlock ==
    /\ Done("do") \/ Done("end") \/ Done("repeat")
    /\ UNCHANGED <<store, trace>>
    /\ Proceed(Entry(pc.at + 1))

Init ==
    /\ \E P \in {C \in Chunks : Compiles(C)} : unit = Lower(P) /\ store = P.store /\ meta = P.meta /\ field = P.field
    /\ pc = Entry(1) /\ stack = <<>> /\ ahead = [p \in {} |-> Null] /\ trace = <<>>
    /\ begun = [at |-> 1, store |-> store, meta |-> meta, field |-> field, trace |-> <<>>]

Next ==
    \/ ReadAhead \/ Constant \/ Load \/ CallUser \/ CallHoisted \/ Test \/ EndLogic \/ Binary \/ Unary
    \/ AssignLocal \/ PrintValue \/ Branch \/ LoopBack \/ UntilDone \/ EnterBlock

Spec == Init /\ [][Next]_vars

----------------------------------------------------------------------------
(* Properties.                                                             *)

\* The nodes whose values are on the stack.
Used(i) == \E j \in i + 1 .. pc.n - 1 : i \in Operands(Here.e, j)
Pending == {i \in 1 .. pc.n - 1 : Here.e[i].op # "test" /\ ~Used(i)}

\* What the generated code relies on without a check at run time: a register
\* and a slot hold values of the kind that lowering inferred for them, an
\* operator finds its own operands, and no i64 slot is read as a double or
\* holds a number that is not an integer of Width bits.
TypeOK ==
    /\ \A x \in Var : Fits(store[x], unit.kind[x])
    /\ \A x \in unit.slots : Integral(store[x])
    /\ Ready => /\ Len(stack) = Cardinality(Pending)
                /\ \A i \in Pending :
                      LET v == stack[Cardinality({j \in Pending : j <= i})]
                      IN Fits(v, IF TakenAsNumber(i) /\ Here.kinds[i] # "Table" THEN "Number" ELSE Here.kinds[i])
    /\ ~Ready => stack = <<>>

\* print(x) shows the value of x.
PrintsTheValue == [][PrintValue => Last(trace') = <<"print", Top>>]_vars
=============================================================================
