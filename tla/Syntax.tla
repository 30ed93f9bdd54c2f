------------------------------- MODULE Syntax -------------------------------
(***************************************************************************)
(* The programs of the models of expressions: the BinOp, UnaryOp, Call and *)
(* statement nodes of hir/ir.rs.  An expression is the sequence of its     *)
(* nodes in the order they are evaluated: operands before their operator,  *)
(* which is the last node.  The left operand of "and" and "or" is followed *)
(* by a "test" node.  A block is a statement with the index of the         *)
(* statement that ends it.                                                 *)
(***************************************************************************)
EXTENDS Operators

Node(op, o, v, x, k, size) == [op |-> op, o |-> o, v |-> v, x |-> x, k |-> k, size |-> size]

IntLit(n) == <<Node("int", "", Num(n), "", "", 1)>>
FloatLit(p, q) == <<Node("float", "", Frac(p, q), "", "", 1)>>
Lit(v) == <<Node("lit", "", v, "", "", 1)>>
Get(x) == <<Node("var", "", None, x, "", 1)>>
Call(f) == <<Node("call", "", None, f, "", 1)>>
CallField(x, k) == <<Node("callee", "", None, x, k, 1)>>
Un(o, a) == Append(a, Node("un", o, None, "", "", Len(a) + 1))
Bin(o, a, b) == Append(a \o b, Node("bin", o, None, "", "", Len(a) + Len(b) + 1))
Logic(o, a, b) ==
    a \o <<Node("test", o, None, "", "", 0)>> \o b \o <<Node("logic", o, None, "", "", Len(a) + Len(b) + 2)>>

Stmt(k, x, e, to) == [k |-> k, x |-> x, e |-> e, to |-> to]
Assign(x, e) == Stmt("assign", x, e, 0)
Echo(e) == Stmt("print", "", e, 0)
If(e, to) == Stmt("if", "", e, to)
While(e, to) == Stmt("while", "", e, to)
Loop(to) == Stmt("loop", "", <<>>, to)
Repeat(to) == Stmt("repeat", "", <<>>, to)
Until(e, to) == Stmt("until", "", e, to)
Do(to) == Stmt("do", "", <<>>, to)
End == Stmt("end", "", <<>>, 0)

Left(e, i) == i - 1 - e[i - 1].size - (IF e[i].op = "logic" THEN 1 ELSE 0)
Under(e, i) == i - e[i].size + 1 .. i
IsBin(e, i, ops) == e[i].op = "bin" /\ e[i].o \in ops

\* The nodes whose values node i takes.
Operands(e, i) ==
    CASE e[i].op \in {"bin", "logic"} -> {Left(e, i), i - 1}
      [] e[i].op \in {"un", "test"} -> {i - 1}
      [] OTHER -> {}

\* Every operator stands right behind its operands, a test behind the left
\* operand of the and or or it belongs to, and the last node is the root.
Leaf == {"int", "float", "lit", "var", "call", "callee"}
Postfix(e) ==
    /\ \A i \in 1 .. Len(e) :
          /\ e[i].op \in Leaf \cup {"un", "test", "bin", "logic"}
          /\ e[i].size \in Nat /\ (e[i].op # "test" => e[i].size > 0)
          /\ e[i].op \in Leaf => e[i].size = 1
          /\ e[i].op \notin Leaf => i > 1 /\ e[i - 1].op # "test"
          /\ e[i].op = "un" => e[i].size = e[i - 1].size + 1
          /\ e[i].op \in {"bin", "logic"} =>
                /\ Left(e, i) > 0 /\ e[Left(e, i)].op # "test"
                /\ e[i].size = i - Left(e, i) + e[Left(e, i)].size
          /\ e[i].op = "logic" => e[Left(e, i) + 1].op = "test" /\ e[Left(e, i) + 1].o = e[i].o
          /\ e[i].op = "test" => \E j \in i + 1 .. Len(e) : e[j].op = "logic" /\ Left(e, j) = i - 1
    /\ e # <<>> => e[Len(e)].op # "test" /\ e[Len(e)].size = Len(e)
=============================================================================
