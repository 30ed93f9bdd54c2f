----------------------------- MODULE Operators -----------------------------
(***************************************************************************)
(* What the operators of Lua do in a compiled program, each as the code    *)
(* emitted for it (emit_binop, emit_int_expr, emit_unary and the helpers   *)
(* they call) or as lower_expr folds it at compile time.                   *)
(*                                                                         *)
(* A number is a fraction <<"num", p, q>> in lowest terms; q = 0 stands    *)
(* for the infinities (p = 1, p = -1) and for NaN (p = 0).  Doubles are    *)
(* exact here: the values of the model are far below 2^53, and a zero has  *)
(* no sign.  Integers of the i64 lane have Width bits.  A string is the    *)
(* sequence of the pieces it was put together from: characters, and the    *)
(* printed forms of numbers and other values.                              *)
(***************************************************************************)
EXTENDS Integers, Sequences, FiniteSetsExt

CONSTANT Width      \* the bits of an integer: 64 in the code

ASSUME WidthAssumption == Width \in Nat \ {0, 1}

Abs(n) == IF n < 0 THEN -n ELSE n
Sign(n) == IF n < 0 THEN -1 ELSE IF n = 0 THEN 0 ELSE 1

Gcd(a, b) == CHOOSE d \in 1 .. b : a % d = 0 /\ b % d = 0 /\ \A c \in d + 1 .. b : ~(a % c = 0 /\ b % c = 0)

Frac(p, q) == IF q = 0 THEN <<"num", Sign(p), 0>> ELSE <<"num", p \div Gcd(Abs(p), q), q \div Gcd(Abs(p), q)>>
Num(n) == <<"num", n, 1>>
Inf == <<"num", 1, 0>>
NaN == <<"num", 0, 0>>
Str(s) == <<"str", s>>
Bool(b) == <<"bool", b>>
Nil == <<"nil">>
Tab(t) == <<"table", t>>
Trap == <<"trap">>
None == <<"none">>

Tag(v) == v[1]
IsInteger(n) == n[3] = 1

Pow2[i \in 0 .. Width] == IF i = 0 THEN 1 ELSE 2 * Pow2[i - 1]
MaxInteger == Pow2[Width - 1] - 1
InRange(n) == -MaxInteger - 1 <= n /\ n <= MaxInteger
Integral(v) == Tag(v) = "num" /\ v = Num(v[2]) /\ v[2] \in Int /\ InRange(v[2])
Wrap(n) == ((n + MaxInteger + 1) % Pow2[Width]) - MaxInteger - 1

----------------------------------------------------------------------------
(* Arithmetic on doubles.                                                  *)

AddF(a, b) == IF a = b /\ a[3] = 0 THEN a ELSE Frac(a[2] * b[3] + b[2] * a[3], a[3] * b[3])
NegF(a) == <<"num", -a[2], a[3]>>
SubF(a, b) == AddF(a, NegF(b))
MulF(a, b) == Frac(a[2] * b[2], a[3] * b[3])
DivF(a, b) ==
    IF b[2] = 0 THEN Frac(a[2] * b[3], 0) ELSE Frac(a[2] * b[3] * Sign(b[2]), a[3] * Abs(b[2]))
FloorF(a) == IF a[3] = 0 THEN a ELSE Num(a[2] \div a[3])

\* emit_lua_mod: a - floor(a / b) * b.
ModF(a, b) == SubF(a, MulF(FloorF(DivF(a, b)), b))

LessF(a, b) ==
    NaN \notin {a, b} /\ IF a[3] = 0 /\ b[3] = 0 THEN a[2] < b[2] ELSE a[2] * b[3] < b[2] * a[3]

\* cmpf_predicate: every comparison is an ordered one, "~=" included.
CompareF(op, a, b) ==
    CASE op = "<"  -> LessF(a, b)
      [] op = "<=" -> LessF(a, b) \/ (a = b /\ a # NaN)
      [] op = ">"  -> LessF(b, a)
      [] op = ">=" -> LessF(b, a) \/ (a = b /\ a # NaN)
      [] op = "==" -> a = b /\ a # NaN
      [] op = "~=" -> a # b /\ NaN \notin {a, b}

----------------------------------------------------------------------------
(* Integers.                                                               *)

BitOf(n, i) == (n \div Pow2[i]) % 2
Bits(n) == {i \in 0 .. Width - 1 : BitOf(n, i) = 1}
OfBits(s) == Wrap(SumFunctionOnSet(Pow2, s))

BitwiseI(op, a, b) ==
    CASE op = "&" -> OfBits(Bits(a) \cap Bits(b))
      [] op = "|" -> OfBits(Bits(a) \cup Bits(b))
      [] op = "~" -> OfBits((Bits(a) \cup Bits(b)) \ (Bits(a) \cap Bits(b)))
      [] op = "<<" -> Wrap(a * Pow2[b])
      [] op = ">>" -> a \div Pow2[b]

\* remsi and divsi truncate; emit_int_expr corrects the result when the
\* remainder is not zero and its sign differs from the divisor's.
RemI(a, b) == Sign(a) * (Abs(a) % Abs(b))
QuotI(a, b) == Sign(a) * Sign(b) * (Abs(a) \div Abs(b))
NeedsFix(a, b) == RemI(a, b) # 0 /\ Sign(RemI(a, b)) # Sign(b)
ModI(a, b) == RemI(a, b) + (IF NeedsFix(a, b) THEN b ELSE 0)
FloorDivI(a, b) == Wrap(QuotI(a, b) - (IF NeedsFix(a, b) THEN 1 ELSE 0))

IntOps == {"+", "-", "*", "//", "%", "&", "|", "~"}

\* emit_int_expr on two numbers of i64 slots.
BinopI(op, a, b) ==
    CASE op = "+" -> Num(Wrap(a[2] + b[2]))
      [] op = "-" -> Num(Wrap(a[2] - b[2]))
      [] op = "*" -> Num(Wrap(a[2] * b[2]))
      [] op \in {"//", "%"} /\ b[2] = 0 -> Trap
      [] op = "//" /\ b[2] # 0 -> Num(FloorDivI(a[2], b[2]))
      [] op = "%" /\ b[2] # 0 -> Num(ModI(a[2], b[2]))
      [] op \in {"&", "|", "~"} -> Num(BitwiseI(op, a[2], b[2]))

\* The operands of a bitwise operator must be integers (emit_check_integer_arg);
\* fptosi, and a shift by less than 0 or by Width or more, are not defined
\* beyond what is named here, and the programs of the model stay inside it.
BitwiseF(op, a, b) ==
    IF IsInteger(a) /\ IsInteger(b) THEN Num(BitwiseI(op, a[2], b[2])) ELSE Trap

Arith == {"+", "-", "*", "/", "%", "//"}
Bitwise == {"&", "|", "~", "<<", ">>"}
Ordering == {"<", "<=", ">", ">="}
Equality == {"==", "~="}

\* emit_binop on two doubles.
BinopF(op, a, b) ==
    CASE op = "+" -> AddF(a, b)
      [] op = "-" -> SubF(a, b)
      [] op = "*" -> MulF(a, b)
      [] op = "/" -> DivF(a, b)
      [] op = "%" -> ModF(a, b)
      [] op = "//" -> FloorF(DivF(a, b))
      [] op \in Bitwise -> BitwiseF(op, a, b)
      [] op \in Ordering \cup Equality -> Bool(CompareF(op, a, b))

\* lower_expr on two integer constants: the folded constant, or None.
\* div_euclid and rem_euclid leave a remainder that is never negative.
EuclidRem(a, b) == a % Abs(b)
Checked(n) == IF InRange(n) THEN Num(n) ELSE None
FoldInts(op, a, b) ==
    CASE op = "+" -> Checked(a + b)
      [] op = "-" -> Checked(a - b)
      [] op = "*" -> Checked(a * b)
      [] op = "//" /\ b # 0 -> Num(Sign(b) * (a \div Abs(b)))
      [] op = "%" /\ b # 0 -> Num(EuclidRem(a, b))
      [] op \in {"&", "|", "~"} -> Num(BitwiseI(op, a, b))
      [] op = "<<" /\ b \in 0 .. Width - 1 -> Num(BitwiseI(op, a, b))
      [] op = ">>" /\ b \in 0 .. Width - 1 -> Num(Wrap((a % Pow2[Width]) \div Pow2[b]))
      [] OTHER -> None

\* div_euclid and rem_euclid of the least integer and -1 panic: the compiler
\* does not get through the program.
FoldPanics(op, a, b) == op \in {"//", "%"} /\ a = -MaxInteger - 1 /\ b = -1

----------------------------------------------------------------------------
(* Strings and values of any kind.                                         *)

\* tonumber as the arithmetic operators apply it to a string: the whole of it
\* is the form of a number, or the program stops.
ToNumber(s) == IF Len(s[2]) = 1 /\ Tag(s[2][1]) = "num" THEN s[2][1] ELSE Trap

\* emit_tostring and emit_concat; how Expressions gets the text of an operand
\* of ".." is its operator Text.
ToStr(v) == IF Tag(v) = "str" THEN v ELSE Str(<<v>>)
Concat(a, b) == Str(a[2] \o b[2])

\* emit_string_cmp: bytes first, then lengths.
StrLess(a, b) ==
    \E n \in 0 .. Len(a[2]) :
        /\ n < Len(b[2])
        /\ \A i \in 1 .. n : a[2][i] = b[2][i]
        /\ n = Len(a[2]) \/ a[2][n + 1][2] < b[2][n + 1][2]

CompareStr(op, a, b) ==
    CASE op = "<"  -> StrLess(a, b)
      [] op = "<=" -> ~StrLess(b, a)
      [] op = ">"  -> StrLess(b, a)
      [] op = ">=" -> ~StrLess(a, b)
      [] op = "==" -> a = b
      [] op = "~=" -> a # b

\* emit_tagged_eq_local_local: the tags agree and the payloads agree.
TaggedEq(a, b) == Tag(a) = Tag(b) /\ a = b /\ a # NaN

\* emit_load_tagged_operand_as_number: a number, a string that is one, or stop.
TaggedNumber(v) == CASE Tag(v) = "num" -> v [] Tag(v) = "str" -> ToNumber(v) [] OTHER -> Trap
=============================================================================
