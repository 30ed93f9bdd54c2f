---------------------------- MODULE LuaStrings -----------------------------
(* What the string functions promise: one step asks, one step answers.     *)
(*                                                                         *)
(* A pattern is [anchored, items].  An item is [k |-> kind, set |-> bytes] *)
(* with kind "one", "star", "plus", "opt" or "front", or [k |-> "bal", x,  *)
(* y], or "open", "close", "end" alone.  Lua's rule, without a word on     *)
(* how: the leftmost start, and from there the match whose items, from the *)
(* left, each take the most they can.  An anchored pattern matches at the  *)
(* start of the string only (docs/design/0286), and the empty match at the *)
(* end of a match that is not empty is not dropped.                        *)
(***************************************************************************)
EXTENDS Integers, Sequences, FiniteSetsExt, SequencesExt

CONSTANTS ScratchSize

VARIABLES asked, answer     \* the call under way and what it has answered

NoCall == [op |-> "none"]
Nothing == [k |-> "nil", v |-> <<>>]
Trap == [k |-> "trap", v |-> <<>>]
Str(s) == [k |-> "str", v |-> s]
Nums(s) == [k |-> "num", v |-> s]

----------------------------------------------------------------------------
(* Patterns.                                                               *)

All(s, i, e, B) == \A k \in i .. e - 1 : s[k] \in B
Count(s, i, e, b) == Cardinality({k \in i .. e - 1 : s[k] = b})
Ring(s, k) == IF k \in DOMAIN s THEN s[k] ELSE 0

\* Where an item that starts at i may end.
Ends(it, s, i) ==
    LET after == i .. Len(s) + 1
    IN CASE it.k = "one" -> {e \in after : e = i + 1 /\ All(s, i, e, it.set)}
         [] it.k = "opt" -> {e \in after : e <= i + 1 /\ All(s, i, e, it.set)}
         [] it.k = "star" -> {e \in after : All(s, i, e, it.set)}
         [] it.k = "plus" -> {e \in after : e > i /\ All(s, i, e, it.set)}
         [] it.k \in {"open", "close"} -> {i}
         [] it.k = "end" -> {i} \cap {Len(s) + 1}
         [] it.k = "front" -> {e \in {i} : Ring(s, e) \in it.set /\ Ring(s, e - 1) \notin it.set}
         [] it.k = "bal" ->
                {e \in after : /\ e > i /\ s[i] = it.x
                               /\ Count(s, i, e, it.x) = Count(s, i, e, it.y)
                               /\ \A d \in i + 1 .. e - 1 :
                                     Count(s, i, d, it.x) > Count(s, i, d, it.y)}

\* The ways to match from i: the end of each item.
Ways(items, s, i) ==
    FoldLeft(LAMBDA W, it : UNION {{Append(w, e) : e \in Ends(it, s, Last(w))} : w \in W},
             {<<i>>}, items)

Greedier(v, w) ==
    v = w \/ \E k \in DOMAIN v : v[k] > w[k] /\ \A j \in 1 .. k - 1 : v[j] = w[j]

Best(W) == CHOOSE v \in W : \A w \in W : Greedier(v, w)

\* A match from i: its end and what string.match gives for it, or {}.
MatchesAt(pat, s, i) ==
    LET W == Ways(pat.items, s, i)
        open == SelectInSeq(pat.items, LAMBDA it : it.k = "open")
        close == SelectInSeq(pat.items, LAMBDA it : it.k = "close")
        give(v) == IF close = 0 THEN SubSeq(s, i, Last(v) - 1) ELSE SubSeq(s, v[open], v[close] - 1)
    IN IF W = {} \/ (pat.anchored /\ i # 1) THEN {}
       ELSE {[from |-> i, end |-> Last(v), gives |-> give(v)] : v \in {Best(W)}}

Leftmost(pat, s, from) ==
    LET M == UNION {MatchesAt(pat, s, i) : i \in from .. Len(s) + 1}
    IN {m \in M : \A n \in M : m.from <= n.from}

\* The string from i on cut into matches and the bytes between them, as
\* gsub and gmatch see it: the replaced text and the list of matches.
Cut(pat, s, repl) ==
    LET cut[i \in 1 .. Len(s) + 2] ==
            LET byte == IF i <= Len(s) THEN <<s[i]>> ELSE <<>>
                then(head, list, j) == [text |-> head \o cut[j].text, list |-> list \o cut[j].list]
                here == MatchesAt(pat, s, i)
                m == CHOOSE m \in here : TRUE
            IN IF i > Len(s) + 1 THEN [text |-> <<>>, list |-> <<>>]
               ELSE IF here = {} THEN then(byte, <<>>, i + 1)
               ELSE IF m.end = i THEN then(repl \o byte, <<<<>>>>, i + 1)
               ELSE then(repl, <<SubSeq(s, i, m.end - 1)>>, m.end)
    IN cut[1]

----------------------------------------------------------------------------
(* The other functions.                                                    *)

\* The bytes from i to j, where -1 is the last byte.
Within(len, i, j) ==
    LET at(n) == IF n < 0 THEN len + 1 + n ELSE n
    IN {p \in 1 .. len : at(i) <= p /\ p <= at(j)}

Sub(s, i, j) == LET P == Within(Len(s), i, j) IN IF P = {} THEN <<>> ELSE SubSeq(s, Min(P), Max(P))

IntOnly(args, ans) == IF \A k \in DOMAIN args : args[k].int THEN ans ELSE Trap

Join(texts, sep) ==
    FlattenSeq([k \in DOMAIN texts |-> IF k = 1 THEN texts[k] ELSE sep \o texts[k]])

\* The elements list[i] .. list[j], or Trap when one is neither text nor number.
Concat(list, sep, i, j) ==
    LET P == Within(Len(list), i, j)
        texts == [k \in 1 .. Cardinality(P) |-> list[Min(P) + k - 1].text]
    IN IF \E p \in P : ~list[p].joins THEN Trap ELSE Str(Join(texts, sep))

\* What an argument that is a call does to the list before it answers.
After(list, effect) ==
    CASE effect = "none" -> list
      [] effect = "erase" -> [list EXCEPT ![Len(list)] = [joins |-> FALSE, text |-> <<>>]]
      [] effect = "append" -> Append(list, [joins |-> TRUE, text |-> <<65>>])
      [] effect = "remove" -> Front(list)

\* What a piece of a format stands for.
Text(piece) ==
    CASE piece.k \in {"lit", "s"} -> piece.arg
      [] piece.k = "c" -> <<piece.arg.n>>
      [] piece.k = "d" ->
            IF piece.arg.n < 0 THEN <<45, 48 - piece.arg.n>> ELSE <<48 + piece.arg.n>>

\* What the compiler does not claim: table.concat of a list whose length an
\* argument of the call changes; a format whose result does not fit, or that
\* contains the byte 0, or %d and %c of a number that is no integer.
Supported(c) ==
    /\ c.op = "concat" => {c.fi, c.fj} \cap {"append", "remove"} = {}
    /\ c.op = "format" =>
          LET text == FlattenSeq([k \in DOMAIN c.fmt |-> Text(c.fmt[k])])
          IN /\ \A k \in DOMAIN c.fmt : c.fmt[k].k \in {"c", "d"} => c.fmt[k].arg.int
             /\ Len(text) < ScratchSize
             /\ \A k \in DOMAIN text : text[k] # 0

\* What the call c may answer.
Answers(c) ==
    CASE c.op = "find" ->
            LET M == Leftmost(c.pat, c.s, IF c.init < 1 THEN 1 ELSE c.init)
            IN IF M = {} THEN {Nothing} ELSE {Nums(<<m.from, m.end - 1>>) : m \in M}
      [] c.op = "match" ->
            LET M == Leftmost(c.pat, c.s, 1)
            IN IF M = {} THEN {Nothing} ELSE {Str(m.gives) : m \in M}
      [] c.op = "gsub" -> {Str(Cut(c.pat, c.s, c.repl).text)}
      [] c.op = "sub" -> {IntOnly(<<c.i, c.j>>, Str(Sub(c.s, c.i.n, c.j.n)))}
      [] c.op = "byte" ->      \* traps where Lua gives nil (docs/design/0109)
            LET b == Sub(c.s, c.i.n, c.i.n)
            IN {IntOnly(<<c.i>>, IF b = <<>> THEN Trap ELSE Nums(b))}
      [] c.op = "char" ->
            {IntOnly(c.args, IF \A k \in DOMAIN c.args : c.args[k].n \in 0 .. 255
                             THEN Str([k \in DOMAIN c.args |-> c.args[k].n]) ELSE Trap)}
      [] c.op = "rep" ->
            {IntOnly(<<c.i>>, Str(FlattenSeq([k \in 1 .. c.i.n |-> c.s])))}
      [] c.op = "reverse" -> {Str(Reverse(c.s))}
      [] c.op = "upper" ->
            {Str([k \in DOMAIN c.s |-> IF c.s[k] \in 97 .. 122 THEN c.s[k] - 32 ELSE c.s[k]])}
      [] c.op = "concat" ->
            {IntOnly(<<c.i, c.j>>, Concat(After(After(c.list, c.fi), c.fj), c.sep, c.i.n, c.j.n))}
      [] c.op = "format" -> {Str(FlattenSeq([k \in DOMAIN c.fmt |-> Text(c.fmt[k])]))}

----------------------------------------------------------------------------
\* What a loop over gmatch, or over the code points of a string, is to see.
Script(c) ==
    CASE c.op = "gmatch" ->
            LET list == Cut(c.pat, c.s, <<>>).list IN [n \in DOMAIN list |-> Str(list[n])]
      [] c.op = "utf8" ->
            LET scalars == SelectSeq(c.points, LAMBDA n : n \in 0 .. 55295 \/ n \in 57344 .. 1114111)
            IN [n \in DOMAIN scalars |-> Nums(<<scalars[n]>>)]

Looping(c) == c.op \in {"gmatch", "utf8"}

Ask == asked = NoCall /\ asked' # NoCall /\ answer = <<>> /\ UNCHANGED answer

Reply ==
    /\ asked # NoCall /\ ~Looping(asked)
    /\ asked' = NoCall
    /\ Len(answer') = 1
    /\ Supported(asked) => answer'[1] \in Answers(asked)

\* One iteration of the loop, which collects what it sees.
Iterate ==
    /\ asked # NoCall /\ Looping(asked) /\ UNCHANGED asked
    /\ Len(answer') = Len(answer) + 1
    /\ answer' = SubSeq(Script(asked), 1, Len(answer'))

EndLoop ==
    /\ asked # NoCall /\ Looping(asked)
    /\ asked' = NoCall
    /\ UNCHANGED answer
    /\ answer = Script(asked)

Use == asked = NoCall /\ answer # <<>> /\ answer' = <<>> /\ UNCHANGED asked

Init == asked = NoCall /\ answer = <<>>

Next == Ask \/ Reply \/ Iterate \/ EndLoop \/ Use

Spec == Init /\ [][Next]_<<asked, answer>>
=============================================================================
