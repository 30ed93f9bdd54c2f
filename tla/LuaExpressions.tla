--------------------------- MODULE LuaExpressions ---------------------------
(***************************************************************************)
(* What a statement means in Lua, in one step: operands from left to       *)
(* right, each exactly once; "and" and "or" evaluate their right operand   *)
(* only when they need it; an operator on tables asks their metatables at  *)
(* the time it is applied; numbers are numbers, however they are stored.   *)
(*                                                                         *)
(* The compiled subset stops in places where Lua goes on: the traces after *)
(* which it may stop are the field stops of a result.  Where it is known   *)
(* to give another result than Lua (see the README) the field odd is TRUE  *)
(* and the statement may do anything.                                      *)
(***************************************************************************)
EXTENDS Syntax, SequencesExt

CONSTANTS Fun, Null, Params, Returns, Effect, Handlers, RawLen

VARIABLES
    code, kinds,        \* the statements, and the locals that are TaggedValues
    integers,           \* the locals whose text the compiled program truncates
    at, store, meta, field, trace

vars == <<code, kinds, integers, at, store, meta, field, trace>>

AsNumber(v) ==
    CASE Tag(v) = "num" -> v
      [] Tag(v) = "str" /\ Len(v[2]) = 1 /\ Tag(v[2][1]) = "num" -> v[2][1]
      [] OTHER -> Trap
True(v) == v \notin {Nil, Bool(FALSE)}

----------------------------------------------------------------------------
(* Operators on values that are not tables.                                *)

Modulo(a, b) == SubF(a, MulF(FloorF(DivF(a, b)), b))

Arithmetic(op, a, b) ==
    CASE Trap \in {a, b} -> Trap
      [] op = "+" -> AddF(a, b)
      [] op = "-" -> SubF(a, b)
      [] op = "*" -> MulF(a, b)
      [] op = "/" -> DivF(a, b)
      [] op = "//" -> FloorF(DivF(a, b))
      [] op = "%" -> Modulo(a, b)
      [] op \in Bitwise -> IF IsInteger(a) /\ IsInteger(b) THEN Num(BitwiseI(op, a[2], b[2])) ELSE Trap

Smaller(a, b) == IF Tag(a) = "num" THEN LessF(a, b) ELSE StrLess(a, b)
Ordered(op, a, b) ==
    IF Tag(a) # Tag(b) \/ Tag(a) \notin {"num", "str"} THEN Trap
    ELSE Bool(CASE op = "<" -> Smaller(a, b)
                [] op = ">" -> Smaller(b, a)
                [] op = "<=" -> Smaller(a, b) \/ TaggedEq(a, b)
                [] op = ">=" -> Smaller(b, a) \/ TaggedEq(a, b))

Joined(a, b) == IF {Tag(a), Tag(b)} \subseteq {"num", "str"} THEN Concat(ToStr(a), ToStr(b)) ELSE Trap

Plain(op, a, b) ==
    CASE op \in Equality -> Bool((TaggedEq(a, b)) = (op = "=="))
      [] op \in Ordering -> Ordered(op, a, b)
      [] op = ".." -> Joined(a, b)
      [] OTHER -> Arithmetic(op, AsNumber(a), AsNumber(b))

----------------------------------------------------------------------------
(* Evaluation: the state after an expression, with its value v.            *)

Traps(r) == [r EXCEPT !.v = Trap]
Called(r, f, args) ==
    [r EXCEPT !.v = Returns[f], !.trace = Append(@, <<f, args>>),
              !.meta = IF Effect[f].do = "meta" THEN [@ EXCEPT ![Effect[f].t] = Effect[f].v] ELSE @,
              !.field = IF Effect[f].do = "field" THEN [@ EXCEPT ![Effect[f].t][Effect[f].k] = Effect[f].v] ELSE @]

HandlerOf(r, v, event) == IF Tag(v) # "table" \/ r.meta[v[2]] = Null THEN Null ELSE Handlers[r.meta[v[2]]][event]

\* An operator asks its left operand first.  The compiled program asks no other,
\* and calls a handler only if some function of the program has its signature.
ByHandler(r, operands, event, args, ret, miss) ==
    LET left == HandlerOf(r, operands[1], event)
        h == IF left # Null THEN left ELSE HandlerOf(r, operands[Len(operands)], event)
        fits(f) == Params[f] = Len(args) /\ Tag(Returns[f]) = ret
        refused == h # Null /\ (left = Null \/ ~fits(h))
    IN IF h = Null THEN [r EXCEPT !.v = miss]
       ELSE [Called(r, h, args) EXCEPT
               !.stops = @ \cup (IF refused THEN {r.trace} ELSE {}),
               !.odd = @ \/ (refused /\ miss # Trap)]

OnTables(r, op, a, b) ==
    LET eq == IF a = b THEN [r EXCEPT !.v = Bool(TRUE)]
              ELSE ByHandler(r, <<a, b>>, "==", <<a, b>>, "bool", Bool(FALSE))
    IN CASE op = "==" -> eq
         [] op = "~=" -> [eq EXCEPT !.v = Bool(~True(eq.v))]
         [] op \in {"<", "<="} -> ByHandler(r, <<a, b>>, op, <<a, b>>, "bool", Trap)
         [] op = ">" -> ByHandler(r, <<b, a>>, "<", <<b, a>>, "bool", Trap)
         [] op = ">=" -> ByHandler(r, <<b, a>>, "<=", <<b, a>>, "bool", Trap)
         [] OTHER -> ByHandler(r, <<a, b>>, op, <<a, b>>, IF op = ".." THEN "str" ELSE "num", Trap)

TaggedHere(e, i) == e[i].op = "var" /\ kinds[e[i].x] = "Tagged"

\* Node i, a tagged local, is read where the compiled program wants a number.
ReadAsNumber(e, i, r) ==
    IF TaggedHere(e, i) /\ Tag(r.v) # "num" THEN [r EXCEPT !.stops = @ \cup {r.trace}] ELSE r

OnOne(e, i, r) ==
    LET o == e[i].o
        n == AsNumber(r.v)
    IN CASE o = "not" -> LET q == ReadAsNumber(e, i - 1, r) IN [q EXCEPT !.v = Bool(~True(r.v))]
         [] o = "#" /\ Tag(r.v) = "str" -> [r EXCEPT !.v = Num(Len(r.v[2]))]
         [] o = "#" /\ Tag(r.v) = "table" -> ByHandler(r, <<r.v>>, "#", <<r.v>>, "num", Num(RawLen[r.v[2]]))
         [] o \in {"-", "~"} /\ Tag(r.v) = "table" ->
              ByHandler(r, <<r.v>>, IF o = "-" THEN "neg" ELSE "bnot", <<r.v>>, "num", Trap)
         [] o = "-" /\ Tag(r.v) # "table" -> IF n = Trap THEN Traps(r) ELSE [r EXCEPT !.v = NegF(n)]
         [] o = "~" /\ Tag(r.v) # "table" ->
              IF n = Trap THEN Traps(r) ELSE IF ~IsInteger(n) THEN Traps(r) ELSE [r EXCEPT !.v = Num(-n[2] - 1)]

\* An equality with a tagged result of and/or compares numbers when compiled.
TaggedLogic(e, i) == e[i].op = "logic" /\ \A j \in Under(e, i) : e[j].op \in {"logic", "test"} \/ TaggedHere(e, j)
Numerically(e, i) == e[i].o \in Ordering \/ (e[i].o \in Equality /\ \E j \in Operands(e, i) : TaggedLogic(e, j))

\* The text of node i, a local with the value v, is that of another integer.
Truncates(e, i, v) == e[i].op = "var" /\ e[i].x \in integers /\ ~Integral(v)

\* Where the compiled program is known to differ on values that are not tables.
Differs(e, i, a, b) ==
    LET o == e[i].o IN
    \/ o = "~=" /\ NaN \in {a, b}
    \/ o = ">>" /\ Tag(a) = "num" /\ a[2] < 0
    \/ o = "%" /\ Tag(b) = "num" /\ b[3] = 0
    \/ o \in {"%", "//"} /\ Tag(b) = "num" /\ b[2] < 0 /\ \A j \in Under(e, i) : e[j].op \in {"int", "bin"}
    \/ o = ".." /\ ~({Tag(a), Tag(b)} \subseteq {"num", "str"})
    \/ o = ".." /\ (Truncates(e, Left(e, i), a) \/ Truncates(e, i - 1, b))
    \/ o \in Equality /\ (Tag(a) # Tag(b) \/ a = Nil) /\ \E j \in Under(e, i) : e[j].op \in {"call", "callee"}

RECURSIVE Eval(_, _, _)
Eval(e, i, r0) ==
    CASE e[i].op \in {"int", "float", "lit"} -> [r0 EXCEPT !.v = e[i].v]
      [] e[i].op = "var" -> [r0 EXCEPT !.v = store[e[i].x]]
      [] e[i].op = "call" -> Called(r0, e[i].x, <<>>)
      [] e[i].op = "callee" ->
            LET f == r0.field[store[e[i].x][2]][e[i].k]
                ahead == [r0 EXCEPT !.odd = @ \/ f # field[store[e[i].x][2]][e[i].k]]
            IN IF f = Null THEN Traps(ahead)
               ELSE [Called(ahead, f, <<>>) EXCEPT
                       !.stops = @ \cup (IF Params[f] = 0 /\ Tag(Returns[f]) = "num" THEN {} ELSE {r0.trace})]
      [] e[i].op = "un" ->
            LET r == Eval(e, i - 1, r0) IN IF r.v = Trap THEN r ELSE OnOne(e, i, r)
      [] e[i].op = "logic" ->
            LET l == Eval(e, Left(e, i), r0)
                r == ReadAsNumber(e, Left(e, i), l)
                after == Eval(e, i - 1, r)
            IN IF l.v = Trap \/ True(l.v) = (e[i].o = "or") THEN r ELSE ReadAsNumber(e, i - 1, after)
      [] e[i].op = "bin" ->
            LET o == e[i].o
                l == Eval(e, Left(e, i), r0)
                wants == o \in Arith \cup Bitwise /\ AsNumber(l.v) = Trap /\ Tag(l.v) # "table"
                r == Eval(e, i - 1, IF wants THEN [l EXCEPT !.stops = @ \cup {l.trace}]
                                    ELSE IF Numerically(e, i) THEN ReadAsNumber(e, Left(e, i), l) ELSE l)
                q == IF Numerically(e, i) THEN ReadAsNumber(e, i - 1, r) ELSE r
            IN IF l.v = Trap THEN l
               ELSE IF r.v = Trap THEN r
               ELSE IF "table" \in {Tag(l.v), Tag(r.v)} THEN OnTables(r, o, l.v, r.v)
               ELSE [q EXCEPT !.v = Plain(o, l.v, r.v), !.odd = @ \/ Differs(e, i, l.v, r.v),
                              !.stops = @ \cup (IF o \in {"//", "%"} /\ AsNumber(r.v) = Num(0) THEN {q.trace} ELSE {})]

----------------------------------------------------------------------------
(* Statements.                                                             *)

Begin == [v |-> Nil, meta |-> meta, field |-> field, trace |-> trace, stops |-> {}, odd |-> FALSE]

Result(st) ==
    IF st.e = <<>> THEN Begin
    ELSE LET r == Eval(st.e, Len(st.e), Begin)
             q == IF st.k \in {"while", "until"} THEN ReadAsNumber(st.e, Len(st.e), r) ELSE r
         IN [q EXCEPT !.odd = @ \/ (st.k = "print" /\ Truncates(st.e, Len(st.e), r.v))
                               \/ (st.k = "if" /\ r.v = Bool(FALSE) /\ TaggedHere(st.e, Len(st.e)))
                               \/ (st.k \in {"while", "until"} /\ \E j \in DOMAIN st.e : st.e[j].op = "callee")]

Following(st, v) ==
    CASE st.k \in {"if", "while"} -> IF True(v) THEN at + 1 ELSE st.to + 1
      [] st.k = "until" -> IF True(v) THEN at + 1 ELSE st.to + 1
      [] st.k = "loop" -> st.to
      [] OTHER -> at + 1

Ends(r) ==
    /\ at' = 0
    /\ \E t \in r.stops \cup (IF r.v = Trap THEN {r.trace} ELSE {}) : trace' = Append(t, Trap)
    /\ UNCHANGED <<store, meta, field>>

Completes(st, r) ==
    /\ r.v # Trap
    /\ at' = Following(st, r.v)
    /\ meta' = r.meta /\ field' = r.field
    /\ store' = IF st.k = "assign" THEN [store EXCEPT ![st.x] = r.v] ELSE store
    /\ trace' = IF st.k = "print" THEN Append(r.trace, <<"print", r.v>>) ELSE r.trace

Statement ==
    /\ at \in DOMAIN code
    /\ LET r == Result(code[at])
       IN r.odd \/ Ends(r) \/ Completes(code[at], r)
    /\ UNCHANGED <<code, kinds, integers>>

Init == at = 1 /\ trace = <<>>

Spec == Init /\ [][Statement]_vars
=============================================================================
