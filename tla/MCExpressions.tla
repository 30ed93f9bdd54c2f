--------------------------- MODULE MCExpressions ---------------------------
\* Families of chunks, and the statements of Lua the compiled ones implement.
EXTENDS Expressions

Locals == {"x", "y", "z"}
Tables == {"t", "u"}
Metas == {"m", "n"}
Fields == {"k"}
NullValue == "null"

Letter == <<"char", 97>>
\* name, parameters, value, effect
Fn(f, n, v) == [f |-> f, n |-> n, v |-> v, effect |-> [do |-> "none"]]
Functions == {
    Fn("one", 0, Num(1)), Fn("yes", 0, Bool(TRUE)), Fn("no", 0, Bool(FALSE)),
    Fn("three", 0, Str(<<Num(3)>>)), Fn("word", 0, Str(<<Letter>>)), Fn("nothing", 0, Nil),
    [Fn("two", 0, Num(2)) EXCEPT !.effect = [do |-> "field", t |-> "t", k |-> "k", v |-> "one"]],
    [Fn("other", 0, Tab("u")) EXCEPT !.effect = [do |-> "meta", t |-> "t", v |-> "m"]],
    [Fn("add", 2, Num(7)) EXCEPT !.effect = [do |-> "meta", t |-> "u", v |-> "n"]],
    Fn("less", 2, Bool(TRUE)), Fn("atmost", 2, Bool(FALSE)), Fn("equal", 2, Bool(TRUE)),
    Fn("join", 2, Str(<<Letter, Letter>>)), Fn("len", 1, Num(4)), Fn("neg", 1, Num(-4))}
TheFn(f) == CHOOSE r \in Functions : r.f = f
Funs == {r.f : r \in Functions}
ParamsOf == [f \in Funs |-> TheFn(f).n]
ReturnsOf == [f \in Funs |-> TheFn(f).v]
EffectOf == [f \in Funs |-> TheFn(f).effect]

Events == Arith \cup Bitwise \cup {"==", "<", "<=", "..", "#", "neg", "bnot"}
HandlersOf ==
    [m |-> [v \in Events |->
              CASE v = "<" -> "less" [] v = "<=" -> "atmost" [] v = "==" -> "equal" [] v = ".." -> "join"
                [] v = "#" -> "len" [] v \in {"neg", "bnot"} -> "neg" [] OTHER -> "add"],
     n |-> [v \in Events |-> CASE v = "+" -> "len" [] v = "<" -> "add" [] v = "#" -> "len" [] OTHER -> "null"]]
RawLenOf == [t |-> 3, u |-> 0]

Chunk(kx, ky, kz, code) ==
    LET first == [Number |-> Num(0), Bool |-> Bool(FALSE), String |-> Str(<<>>), Tagged |-> Nil, Table |-> Tab("t")]
    IN [kind |-> [x |-> kx, y |-> ky, z |-> kz], store |-> [x |-> first[kx], y |-> first[ky], z |-> first[kz]],
        meta |-> [t |-> "null", u |-> "null"], field |-> [t |-> [k |-> "two"], u |-> [k |-> "one"]], code |-> code]
With(P, x, y) == [P EXCEPT !.store = [@ EXCEPT !.x = x, !.y = y]]

X == Get("x")
Y == Get("y")
Z == Get("z")
Minus(n) == Bin("-", IntLit(0), IntLit(n))
Half == FloatLit(1, 2)
Over == Bin("/", IntLit(7), IntLit(2))
Infinite == Bin("/", IntLit(1), IntLit(0))
Undefined == Bin("/", IntLit(0), IntLit(0))
Numbers(code) == Chunk("Number", "Number", "Bool", code)

----------------------------------------------------------------------------
\* The same operator folded, on i64 slots and on doubles.
Computed ==
    {Numbers(<<Assign("x", a), Assign("y", Bin(o, X, b)), Echo(Y)>>) :
        a \in {IntLit(7), Minus(7), Half}, b \in {IntLit(0), IntLit(2), FloatLit(3, 2)}, o \in Arith \cup Bitwise}
    \cup {Numbers(<<Assign("x", a), Assign("y", Bin(o, X, Minus(2))), Echo(Y)>>) :
            a \in {IntLit(7), Minus(7), Half}, o \in Arith \cup {"&", "|", "~"}}
    \cup {Numbers(<<Assign("x", Bin(p, Bin(o, IntLit(7), b), IntLit(2))), Echo(X)>>) :
            b \in {IntLit(0), IntLit(3)}, o \in Arith \cup Bitwise, p \in Arith \cup Bitwise}
    \cup {Numbers(<<Assign("x", Bin(o, Bin("-", Minus(MaxInteger), b), Minus(1))), Echo(X)>>) :
            b \in {IntLit(0), IntLit(1)}, o \in {"//", "%"}}
    \cup {Numbers(<<Assign("x", a), Assign("y", Bin(p, Bin(o, X, IntLit(3)), X)), Echo(Y)>>) :
            a \in {IntLit(5), Minus(5)}, o \in IntOps, p \in IntOps}

Compared ==
    {Numbers(<<Assign("x", a), Assign("z", Bin(o, X, b)), Echo(Z)>>) :
        a \in {IntLit(1), Half, Infinite, Undefined}, b \in {IntLit(1), Minus(1), Half, Undefined},
        o \in Ordering \cup Equality}

\* Locals that are given an integer and a fraction, and blocks and loops.
Reassigned ==
    {Numbers(<<Assign("x", a), Echo(X), Assign("x", b), Echo(X)>>) :
        a \in {IntLit(1), Half, Over}, b \in {IntLit(1), Half, Over, Bin("+", X, IntLit(1)), Bin("/", X, IntLit(2))}}
    \cup {Numbers(<<Assign("x", a), Assign("y", b), While(Bin("<", X, IntLit(3)), 6), Assign("y", Bin("+", Y, c)),
                    Assign("x", Bin("+", X, IntLit(1))), Loop(3), Echo(Y)>>) :
            a \in {IntLit(1), Half}, b \in {IntLit(0), Half}, c \in {X, IntLit(2)}}
    \cup {Numbers(<<Assign("x", a), Do(4), Assign("x", Bin("*", X, IntLit(2))), End, Repeat(7),
                    Assign("x", Bin("+", X, Call("one"))), Until(Bin(">", X, Call("two")), 5), Echo(X)>>) :
            a \in {IntLit(1), Minus(1)}}

\* Locals whose text is asked for before, between and after assignments.
Renarrow == {Numbers(<<Assign("x", a), Assign("x", b), Echo(X), Assign("x", c), Echo(X)>>) :
               a \in {IntLit(1), Half}, b \in {IntLit(3), Over, Infinite}, c \in {IntLit(2), Half}}
Joins ==
    {Chunk("Number", "Number", "String", <<Assign("x", a), Assign("x", b), Assign("z", e), Echo(Z), Assign("x", c), Echo(X)>>) :
        a \in {IntLit(1), Half}, b \in {IntLit(3), Over, Infinite}, c \in {IntLit(2), Half},
        e \in {Bin("..", X, Lit(Str(<<Letter>>))), Bin("..", Call("word"), X), Bin("..", X, X),
               Bin("..", Bin("+", X, IntLit(1)), Half)}}

AndOr == {Logic("or", X, Y), Logic("and", X, Y)}
Scalars == {Nil, Num(1), Str(<<Num(3)>>), Str(<<Letter>>), Bool(FALSE), Bool(TRUE)}
TaggedExpr == [
    Number |-> {Bin(o, a, b) : o \in {"+", "%", "&"}, a \in {X, Call("two"), Call("three")}, b \in {Y, Call("word"), Call("one")}}
               \cup {Un("-", X), Un("~", X), Un("-", Logic("or", X, Y)), Un("-", Bin("*", X, Y)), Bin("-", X, Un("-", Y)), Bin("|", Call("two"), Un("~", X))},
    Bool |-> {Bin(o, X, b) : o \in Ordering, b \in {Y, Call("two")}} \cup {Bin("<", Call("two"), X)}
             \cup {Bin(o, X, b) : o \in Equality, b \in {Y, Lit(Nil), IntLit(1), Call("three"), Call("two")}}
             \cup {Bin(o, a, b) : o \in Equality, a \in AndOr, b \in {X, IntLit(1)} \cup AndOr}
             \cup {Bin("==", Lit(Nil), X), Bin("~=", X, Logic("or", Y, X)), Un("not", X), Un("not", Bin("==", X, Lit(Nil)))},
    String |-> {Bin("..", a, b) : a \in {X, Call("word"), Logic("or", X, Y)}, b \in {Y, Call("three"), Call("one")}},
    Tagged |-> {X} \cup AndOr]
OnTagged ==
    {With(Chunk("Tagged", "Tagged", kz, <<Assign("z", e), Echo(Z)>>), v, w) :
        kz \in {"Number"}, e \in TaggedExpr["Number"], v \in Scalars, w \in {Num(1), Str(<<Letter>>)}}
    \cup UNION {{With(Chunk("Tagged", "Tagged", kz, <<Assign("z", e), Echo(Z)>>), v, w) :
        e \in TaggedExpr[kz], v \in Scalars, w \in Scalars \ {Bool(TRUE)}} : kz \in {"Bool", "String", "Tagged"}}
    \cup {With(Chunk("Tagged", "Tagged", "Number", <<If(c, 3), Assign("z", Call("one")), End, Echo(X), Echo(Z)>>), v, w) :
            c \in {X, Bin("==", X, Lit(Nil)), Bin("~=", X, Y), Un("not", X)}, v \in Scalars, w \in {Nil, Num(1)}}
    \cup {With(Chunk("Tagged", "Tagged", "Number", <<While(c, 3), Assign("x", Y), Loop(1), Echo(X)>>), v, w) :
            c \in {X, Bin("~=", X, Lit(Nil)), Bin("~=", X, IntLit(1))}, v \in Scalars, w \in {Nil}}

Booleans == {Call("yes"), Call("no")}
ShortCircuit ==
    {Chunk("Number", "Number", "Bool", <<Assign("z", e), Echo(Z)>>) :
        e \in {Logic(p, Logic(o, a, b), c) : o, p \in {"and", "or"}, a, b, c \in Booleans}
              \cup {Logic(p, a, Logic(o, b, Bin("<", Call("two"), Call("one")))) : o, p \in {"and", "or"}, a, b \in Booleans}
              \cup {Un("not", e) : e \in {Call("nothing"), Call("one"), Logic("or", Call("nothing"), Call("nothing"))}}
              \cup {Un("not", Logic(o, a, Bin("==", Call("one"), Call("two")))) : o \in {"and", "or"}, a \in Booleans}}
    \cup {Chunk("Number", "Number", "Bool", <<Assign("x", Bin("+", Logic(o, Call("one"), Call("two")), IntLit(1))), Echo(X)>>) :
            o \in {"and", "or"}}
    \cup {Chunk("String", "String", "Bool", <<Assign("z", Bin(o, Call("word"), b)), If(Z, 4), Echo(Call("one")), End>>) :
            o \in Ordering \cup Equality, b \in {Call("word"), Call("three"), Call("nothing"), Call("one"), Lit(Str(<<Letter, Letter>>))}}
    \cup {Chunk("Number", "Number", "Bool", <<Assign("x", Bin(o, Call("three"), b)), Assign("y", Un("#", Call("word"))), Echo(X)>>) :
            o \in {"+", "*", "|"}, b \in {Call("three"), Call("word"), Call("two")}}

TableOp == [Number |-> {"+", "/", "<<"}, Bool |-> Ordering \cup Equality, String |-> {".."}]
TableUn == [Number |-> {Un("#", X), Un("-", X), Un("~", X), Un("#", Call("other"))}, Bool |-> {Un("not", X)}, String |-> {}]
Handled ==
    UNION {{[With(Chunk("Table", "Table", kz, <<Assign("z", e), Echo(Z)>>), Tab("t"), y) EXCEPT !.meta = [t |-> m, u |-> n]] :
              e \in {Bin(o, a, b) : o \in TableOp[kz], a \in {X, Call("other")}, b \in {Y, Call("other")}} \cup TableUn[kz],
              y \in {Tab("t"), Tab("u")}, m \in {"null", "m", "n"}, n \in {"null", "m"}} :
           kz \in {"Number", "Bool", "String"}}

\* x.k() next to calls that set x.k.
Methods ==
    {[With(Chunk("Table", "Number", "Number", <<Assign("z", e), Echo(Z)>>), Tab(t), Num(3)) EXCEPT !.field.t.k = f] :
        e \in {Bin("+", CallField("x", "k"), CallField("x", "k")), Bin("-", Call("two"), CallField("x", "k")),
               Bin("-", CallField("x", "k"), Bin("*", Call("two"), Call("one"))), CallField("x", "k"),
               Bin("+", Un("#", Call("other")), CallField("x", "k"))},
        t \in Tables, f \in {"one", "two", "len", "yes", "null"}}
    \cup {[With(Chunk("Table", "Number", "Number",
                <<Assign("y", IntLit(3)), While(Bin("<", CallField("x", "k"), Y), 4), Assign("y", IntLit(0)), Loop(2),
                  Repeat(7), Assign("z", CallField("x", "k")), Until(Bin("<", CallField("x", "k"), IntLit(3)), 5),
                  If(Bin("<", CallField("x", "k"), IntLit(9)), 9), End, Echo(Z)>>), Tab("t"), Num(0))
            EXCEPT !.field.t.k = f] : f \in {"one", "two"}}

AllChunks == Computed \cup Compared \cup Reassigned \cup Renarrow \cup Joins \cup OnTagged \cup ShortCircuit \cup Handled \cup Methods

\* local a = 1; a = 1/2; print(a); a = 2
Renarrowed == {Numbers(<<Assign("x", IntLit(1)), Assign("x", Over), Echo(X), Assign("x", IntLit(2)), Echo(X)>>)}
              \cup Computed

----------------------------------------------------------------------------
Lua == INSTANCE LuaExpressions WITH
    code <- unit.code, kinds <- unit.kind, integers <- unit.integers,
    at <- begun.at, store <- begun.store, meta <- begun.meta, field <- begun.field, trace <- begun.trace

\* A compiled chunk evaluates the operands of every statement as Lua does, each
\* once and from left to right, gives it Lua's value whichever way the number
\* was computed, asks the metatables Lua would ask, and leaves a statement
\* where Lua does; it stops only where Lua stops or the subset is known to end.
ImplementsLua == Lua!Spec
=============================================================================
