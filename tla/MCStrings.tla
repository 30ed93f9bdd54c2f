----------------------------- MODULE MCStrings ------------------------------
(* Instances of Strings.  Subjects are short strings over a, b, 1 and      *)
(* brackets; each pattern is given twice, as text and as what it means.    *)
EXTENDS Strings

Over(S, n) == UNION {[1 .. m -> S] : m \in 0 .. n}
Short == Over({97, 49}, 3)
Long == {<<97, 97, 98, 49>>, <<98, 49, 49, 97, 98>>, <<97, 40, 98, 40, 49, 41, 41>>,
         <<97, 97, 97, 98, 97>>, <<40, 41, 98, 98>>, <<49, 97, 32, 98, 66>>}

\* The bytes that stand in a subject, and 0, which stands around it.
Alphabet == {0, 32, 40, 41, 49, 66, 97, 98}

\* The atoms: their text and the bytes of the alphabet they accept.
Atom == {<< <<97>>, {97} >>, << <<46>>, Alphabet >>,
         << <<37, 100>>, {49} >>, << <<37, 65>>, Alphabet \ {66, 97, 98} >>,
         << <<91, 94, 97, 93>>, Alphabet \ {97} >>,              \* [^a]
         << <<91, 32, 45, 41, 37, 117, 93>>, {32, 40, 41, 66} >>}    \* [ -)%u]

Quantifier == [one |-> <<>>, star |-> <<42>>, plus |-> <<43>>, opt |-> <<63>>]

Quantified == {[k |-> q, set |-> a[2], text |-> a[1] \o Quantifier[q]] :
                  a \in Atom, q \in DOMAIN Quantifier}
Some == {i \in Quantified : i.set \in {{97}, {49}, Alphabet \ {97}}}

Open == [k |-> "open", text |-> <<40>>]
Close == [k |-> "close", text |-> <<41>>]
End == [k |-> "end", text |-> <<36>>]
Brackets == [k |-> "bal", x |-> 40, y |-> 41, text |-> <<37, 98, 40, 41>>]
BalanceAB == [k |-> "bal", x |-> 97, y |-> 98, text |-> <<37, 98, 97, 98>>]
NotA == [k |-> "front", set |-> Alphabet \ {97}, text |-> <<37, 102, 91, 94, 97, 93>>]
Word == [k |-> "front", set |-> {97, 98}, text |-> <<37, 102, 91, 97, 98, 93>>]

Pattern(anchored, items) == [anchored |-> anchored, items |-> items]
TextOf(p) == (IF p.anchored THEN <<94>> ELSE <<>>) \o FlattenSeq([n \in DOMAIN p.items |-> p.items[n].text])

One == {<<i>> : i \in Quantified}
Two == {<<i, j>> : i \in Some, j \in Some}
Mixed == {<<i, End>> : i \in Some} \cup {<<Brackets>>, <<BalanceAB>>, <<NotA>>, <<Word>>}
           \cup {<<Word, i>> : i \in Some} \cup {<<BalanceAB, i>> : i \in Some}
Captures == {<<Open, i, Close, j>> : i \in Some, j \in Some} \cup {<<i, Open, j, Close>> : i \in Some, j \in Some}

Plain(items) == {Pattern(FALSE, i) : i \in items}
Anchored(items) == {Pattern(TRUE, i) : i \in items}

Asks(op, subjects, patterns, more) ==
    {[op |-> op, s |-> s, pat |-> p, text |-> TextOf(p)] @@ more : s \in subjects, p \in patterns}

Int_(n) == [int |-> TRUE, n |-> n]
NotInt == [int |-> FALSE, n |-> 0]
Numbers == {Int_(n) : n \in -4 .. 4} \cup {NotInt}
AB1 == <<97, 98, 49>>

PatternCalls ==
    UNION {Asks("find", Short \cup Long, Plain(One \cup Two), [init |-> 1]),
           Asks("find", Long, Plain(One \cup Mixed) \cup Anchored(One), [init |-> 1]),
           UNION {Asks("find", Long, Plain(One), [init |-> n]) : n \in {-1, 2, 6, 9}},
           Asks("match", Short \cup Long, Plain(Captures), << >>),
           Asks("match", Long, Anchored(Captures) \cup Plain(Mixed), << >>),
           Asks("gsub", Short \cup Long, Plain(One \cup Mixed) \cup Anchored(One), [repl |-> <<88, 89>>]),
           Asks("gsub", Long, Plain(Two), [repl |-> <<>>]),
           Asks("gmatch", Short \cup Long, Plain(One \cup Mixed), << >>)}

OtherCalls ==
    UNION {[op : {"sub"}, s : {AB1, <<>>}, i : Numbers, j : Numbers],
           [op : {"byte"}, s : {AB1, <<200>>, <<>>}, i : Numbers],
           [op : {"rep"}, s : {AB1, <<>>}, i : Numbers],
           [op : {"reverse", "upper"}, s : Long \cup {<<228, 97, 90>>}],
           [op : {"char"}, args : Over({Int_(n) : n \in {-1, 0, 255, 256}} \cup {NotInt}, 2)]}

\* One code point on each side of every limit of the encoding.
Points == {-1, 0, 127, 128, 2047, 2048, 55295, 55296, 57343, 57344, 65535, 65536, 1114111, 1114112}
Utf8Calls == [op : {"utf8"}, points : Over(Points, 2)]

Piece == {[k |-> "lit", arg |-> <<58>>], [k |-> "s", arg |-> <<>>], [k |-> "s", arg |-> AB1],
          [k |-> "s", arg |-> <<97, 0, 98>>]}
           \cup {[k |-> k, arg |-> a] : k \in {"d", "c"}, a \in {Int_(7), Int_(-2), Int_(0)} }
FormatCalls == [op : {"format"}, fmt : {f \in Over(Piece, 3) : \A n \in DOMAIN f : f[n].k = "c" => f[n].arg.n >= 0}]

Twelve == [joins |-> TRUE, text |-> <<49, 50>>]
Lists == Over({Bad, Letter, Twelve}, 2) \cup {<<Letter, Twelve, Letter>>}
ConcatCalls ==
    {c \in [op : {"concat"}, list : Lists, sep : {<<>>, <<44, 32>>},
            i : {Int_(1), Int_(2), Int_(-2), NotInt}, j : {Int_(-1), Int_(2), Int_(0), Int_(9), NotInt},
            fi : {"none", "erase", "append", "remove"}, fj : {"none", "append", "remove"}] :
        c.list = <<>> => {c.fi, c.fj} \subseteq {"none"}}

MCCalls == PatternCalls \cup OtherCalls \cup Utf8Calls \cup FormatCalls \cup ConcatCalls
=============================================================================
