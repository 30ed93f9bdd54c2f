------------------------------ MODULE Strings ------------------------------
(***************************************************************************)
(* Calls of the string library as the compiled program runs them: the      *)
(* codegen of each builtin (emit.rs), the runtime function it calls        *)
(* (StringLib) and the loops that users of them are compiled to.           *)
(*                                                                         *)
(* The program makes one call after the other.  gsub goes through its      *)
(* subject match by match; a gmatch loop alternates between the iterator   *)
(* that lower_gmatch_iterator synthesizes and the body of the loop, which  *)
(* collects what it is given; "utf8" is a program that encodes code points *)
(* one by one and reads them back; the arguments of table.concat are       *)
(* evaluated one after the other and may change the list meanwhile.        *)
(***************************************************************************)
EXTENDS StringLib

CONSTANTS
    Calls,          \* the calls the program makes
    ScratchSize,    \* the buffer of string.format: 256 bytes in the code
    MaxSeen         \* a loop body collects at most this many matches

\* The kinds of the operands, which the compiler checks (BuiltinArgKindMismatch).
IntArg == [int : BOOLEAN, n : Int]
Slot == [joins : BOOLEAN, text : Seq(Byte)]

ASSUME CallsAssumption ==
    \A c \in Calls :
       /\ c.op # "none"
       /\ c.op \in {"gsub", "gmatch"} => c.s \in Seq(Byte) /\ c.text \in Seq(Byte)
       /\ c.op = "gsub" => c.repl \in Seq(Byte)
       /\ c.op = "utf8" => c.points \in Seq(Int)
       /\ c.op = "concat" => /\ c.list \in Seq(Slot) /\ c.sep \in Seq(Byte)
                             /\ c.i \in IntArg /\ c.j \in IntArg
                             /\ {c.fi, c.fj} \subseteq {"none", "erase", "append", "remove"}

VARIABLES
    asked,          \* the call under way, or NoCall
    answer,         \* its results so far
    work,           \* what it keeps in registers, locals and upvalues
    tab             \* the array part of the list: its length and its slots

vars == <<asked, answer, work, tab>>

NoCall == [op |-> "none"]
Idle == [at |-> "idle"]
NoList == [len |-> 0, slots |-> <<>>]

Nothing == [k |-> "nil", v |-> <<>>]
Trap == [k |-> "trap", v |-> <<>>]
Str(s) == [k |-> "str", v |-> s]
Nums(s) == [k |-> "num", v |-> s]

Finish(a) == asked' = NoCall /\ answer' = <<a>> /\ work' = Idle /\ tab' = NoList

\* A builtin whose operands are evaluated and that answers at once.
Builtin(op) == asked.op = op

\* emit_check_integer_arg: finite and equal to its floor.
Integer(arg) == arg.int

----------------------------------------------------------------------------
Registers(c) ==
    CASE c.op = "gsub" -> [at |-> "loop", cursor |-> 1, out |-> <<>>]
      [] c.op = "gmatch" -> [at |-> "call", pos |-> 1]
      [] c.op = "utf8" -> [at |-> "encode", s |-> <<>>, n |-> 0]
      [] c.op = "concat" -> [at |-> "i", n |-> Len(c.list)]
      [] OTHER -> Idle

\* The operands are evaluated; table.concat reads the length of its list here,
\* before the bounds i and j.
Begin ==
    /\ asked = NoCall /\ answer = <<>>
    /\ \E c \in Calls :
          /\ asked' = c
          /\ work' = Registers(c)
          /\ tab' = IF c.op = "concat" THEN [len |-> Len(c.list), slots |-> c.list] ELSE NoList
    /\ UNCHANGED answer

Use == asked = NoCall /\ answer # <<>> /\ answer' = <<>> /\ UNCHANGED <<asked, work, tab>>

----------------------------------------------------------------------------
(* One-step builtins.                                                      *)

\* local s, e = string.find(s, pat [, init])
Find ==
    /\ Builtin("find")
    /\ \E m \in {FindInit(asked.s, asked.text, asked.init)} :
          Finish(IF m.pos = 0 THEN Nothing ELSE Nums(<<m.pos, m.pos + (m.len - 1)>>))

Match ==
    /\ Builtin("match")
    /\ \E m \in {MatchCapture1(asked.s, asked.text)} :
          Finish(IF m.pos = 0 THEN Nothing ELSE Str(SubSeq(asked.s, m.pos, m.pos + m.len - 1)))

StringSub ==
    /\ Builtin("sub")
    /\ Finish(IF Integer(asked.i) /\ Integer(asked.j)
              THEN Str(Slice(asked.s, NormalizeSubBounds(Len(asked.s), asked.i.n, asked.j.n)))
              ELSE Trap)

\* The bounds of one byte: out of range shows as i > j.
StringByte ==
    /\ Builtin("byte")
    /\ LET b == NormalizeSubBounds(Len(asked.s), asked.i.n, asked.i.n)
       IN Finish(IF Integer(asked.i) /\ b.j >= b.i THEN Nums(<<asked.s[b.i]>>) ELSE Trap)

\* emit_check_byte_arg: the range, then the integer.
StringChar ==
    /\ Builtin("char")
    /\ LET a == asked.args
       IN Finish(IF \A k \in DOMAIN a : a[k].n \in Byte /\ Integer(a[k])
                 THEN Str([k \in DOMAIN a |-> a[k].n]) ELSE Trap)

StringRep ==
    /\ Builtin("rep")
    /\ LET n == asked.i.n
           len == Len(asked.s)
       IN Finish(IF ~Integer(asked.i) THEN Trap
                 ELSE IF n <= 0 THEN Str(<<>>)
                 ELSE Str([b \in 1 .. n * len |-> asked.s[((b - 1) % len) + 1]]))

StringReverse ==
    /\ Builtin("reverse")
    /\ LET len == Len(asked.s) IN Finish(Str([i \in 1 .. len |-> asked.s[len - (i - 1)]]))

\* toupper of the byte, sign-extended: only the ASCII letters change.
StringUpper ==
    /\ Builtin("upper")
    /\ LET signed(b) == IF b > 127 THEN b - 256 ELSE b
           toupper(c) == IF c \in Lower THEN c - 32 ELSE c
       IN Finish(Str([i \in DOMAIN asked.s |-> toupper(signed(asked.s[i])) % 256]))

UpToNul(s) == LET Z == {k \in DOMAIN s : s[k] = 0} IN IF Z = {} THEN s ELSE SubSeq(s, 1, Min(Z) - 1)

\* What snprintf writes for a piece of the format; %s takes a C string.
Printed(piece) ==
    CASE piece.k = "lit" -> piece.arg
      [] piece.k = "s" -> UpToNul(piece.arg)
      [] piece.k = "c" -> <<piece.arg.n>>
      [] piece.k = "d" -> IF piece.arg.n < 0 THEN <<Minus, 48 - piece.arg.n>> ELSE <<48 + piece.arg.n>>

\* snprintf into the scratch buffer, then strlen of it.
StringFormat ==
    /\ Builtin("format")
    /\ LET text == FlattenSeq([k \in DOMAIN asked.fmt |-> Printed(asked.fmt[k])])
       IN Finish(Str(UpToNul(SubSeq(text, 1, Min({Len(text), ScratchSize - 1})))))

----------------------------------------------------------------------------
(* string.gsub(s, pat, repl): lumelir_string_gsub_string_repl.             *)

\* Faulty: no room for the bytes behind an empty match.
OutMaxTight(c) == Len(c.s) * (Len(c.repl) + 1)

\* The size of the output buffer.
OutMax(c) == (Len(c.s) + 1) * (Len(c.repl) + 1) + Len(c.repl) + 8

\* write_byte and write_slice drop what does not fit.
Write(out, bytes) == SubSeq(out \o bytes, 1, Min({Len(out \o bytes), OutMax(asked)}))

GsubRest == SubSeq(asked.s, work.cursor, Len(asked.s))

\* Copies up to the match, the replacement, and behind an empty match one byte.
GsubReplace ==
    /\ Builtin("gsub") /\ asked.text # <<>> /\ work.cursor <= Len(asked.s) + 1
    /\ \E m \in {RunPatternFrom(asked.s, asked.text, work.cursor)} :
          LET skipped == IF m.len = 0 /\ m.pos <= Len(asked.s) THEN <<asked.s[m.pos]>> ELSE <<>>
              next == IF m.len = 0 THEN m.pos + 1 ELSE m.pos + m.len
          IN /\ m.pos # 0
             /\ work' = [work EXCEPT
                   !.out = Write(@, SubSeq(asked.s, work.cursor, m.pos - 1) \o asked.repl \o skipped),
                   !.cursor = IF next <= @ THEN @ + 1 ELSE next]
    /\ UNCHANGED <<asked, answer, tab>>

\* No match is left, or the pattern is empty: the rest is copied.
GsubEnd ==
    /\ Builtin("gsub")
    /\ \/ asked.text = <<>>
       \/ work.cursor > Len(asked.s) + 1
       \/ RunPatternFrom(asked.s, asked.text, work.cursor).pos = 0
    /\ Finish(Str(Write(work.out, GsubRest)))

----------------------------------------------------------------------------
(* for m in string.gmatch(s, pat) do seen[#seen + 1] = m end.  The upvalue *)
(* pos of the iterator is where it searches next.                          *)

\* Faulty: an empty match does not move the search.
AdvanceStuck(s0, e0) == e0 + 1

\* Faulty: an empty match moves it by two.
AdvanceSkips(s0, e0) == IF e0 < s0 THEN s0 + 2 ELSE e0 + 1

Advance(s0, e0) == IF e0 < s0 THEN s0 + 1 ELSE e0 + 1

GmatchFind == FindInit(asked.s, asked.text, work.pos)

GmatchCall ==
    /\ Builtin("gmatch") /\ work.at = "call"
    /\ \E m \in {GmatchFind} :
          LET e0 == m.pos + (m.len - 1)
          IN /\ m.pos # 0
             /\ work' = [at |-> "body", pos |-> Advance(m.pos, e0),
                         m |-> Slice(asked.s, NormalizeSubBounds(Len(asked.s), m.pos, e0))]
    /\ UNCHANGED <<asked, answer, tab>>

GmatchBody ==
    /\ Builtin("gmatch") /\ work.at = "body"
    /\ work' = [at |-> "call", pos |-> work.pos]
    /\ answer' = IF Len(answer) < MaxSeen THEN Append(answer, Str(work.m)) ELSE answer
    /\ UNCHANGED <<asked, tab>>

\* The iterator returns nil and the generic for ends.
GmatchEnd ==
    /\ Builtin("gmatch") /\ work.at = "call" /\ GmatchFind.pos = 0
    /\ asked' = NoCall /\ work' = Idle /\ UNCHANGED <<answer, tab>>

----------------------------------------------------------------------------
(* s = s .. utf8.char(p) for each point p, then                            *)
(* for n = 1, utf8.len(s) do utf8.codepoint(s, utf8.offset(s, n)) end.     *)

Encode ==
    /\ Builtin("utf8") /\ work.at = "encode" /\ work.n < Len(asked.points)
    /\ work' = [work EXCEPT !.n = @ + 1, !.s = @ \o Utf8Char(asked.points[work.n + 1])]
    /\ UNCHANGED <<asked, answer, tab>>

Encoded ==
    /\ Builtin("utf8") /\ work.at = "encode" /\ work.n = Len(asked.points)
    /\ work' = [work EXCEPT !.at = "decode", !.n = 0]
    /\ UNCHANGED <<asked, answer, tab>>

Decode ==
    /\ Builtin("utf8") /\ work.at = "decode" /\ work.n < Utf8Len(work.s)
    /\ work' = [work EXCEPT !.n = @ + 1]
    /\ answer' = Append(answer, Nums(<<Codepoint(work.s, Utf8Offset(work.s, work.n + 1))>>))
    /\ UNCHANGED <<asked, tab>>

DecodeEnd ==
    /\ Builtin("utf8") /\ work.at = "decode" /\ work.n = Utf8Len(work.s)
    /\ asked' = NoCall /\ work' = Idle /\ UNCHANGED <<answer, tab>>

----------------------------------------------------------------------------
(* table.concat(list, sep, i, j).                                          *)

Bad == [joins |-> FALSE, text |-> <<>>]
Letter == [joins |-> TRUE, text |-> <<65>>]

\* What an argument that is a call does to the list: list[#list] = nil,
\* list[#list + 1] = "A", table.remove(list), which leaves the slot as it was.
Effect(effect) ==
    CASE effect = "none" -> tab
      [] effect = "erase" -> [tab EXCEPT !.slots[tab.len] = Bad]
      [] effect = "append" ->
            [len |-> tab.len + 1,
             slots |-> [k \in DOMAIN tab.slots \cup {tab.len + 1} |->
                           IF k = tab.len + 1 THEN Letter ELSE tab.slots[k]]]
      [] effect = "remove" -> [tab EXCEPT !.len = @ - 1]

ConcatI ==
    /\ Builtin("concat") /\ work.at = "i"
    /\ IF Integer(asked.i)
       THEN /\ work' = [at |-> "j", n |-> work.n] /\ tab' = Effect(asked.fi)
            /\ UNCHANGED <<asked, answer>>
       ELSE Finish(Trap)

ConcatJ ==
    /\ Builtin("concat") /\ work.at = "j"
    /\ IF Integer(asked.j)
       THEN /\ work' = [at |-> "lengths",
                        b |-> NormalizeSubBounds(work.n, asked.i.n, asked.j.n)]
            /\ tab' = Effect(asked.fj)
            /\ UNCHANGED <<asked, answer>>
       ELSE Finish(Trap)

\* The slots the loops of the two passes read.
Reads == work.b.i .. work.b.j

\* The first pass adds up the lengths, or stops at an element it cannot join.
ConcatLengths ==
    /\ Builtin("concat") /\ work.at = "lengths"
    /\ IF Reads = {} THEN Finish(Str(<<>>))
       ELSE IF \E k \in Reads : ~tab.slots[k].joins THEN Finish(Trap)
       ELSE /\ work' = [at |-> "copy", b |-> work.b,
                        total |-> SumFunctionOnSet([k \in Reads |-> Len(tab.slots[k].text)], Reads)
                                     + Len(asked.sep) * (work.b.j - work.b.i)]
            /\ UNCHANGED <<asked, answer, tab>>

\* Faulty: the separator goes behind every element.
SepBehind(k) == asked.sep

\* Before every element but the first of the range.
Sep(k) == IF k > work.b.i THEN asked.sep ELSE <<>>

ConcatBytes ==
    FlattenSeq([n \in 1 .. Cardinality(Reads) |->
                   LET k == work.b.i + n - 1 IN Sep(k) \o tab.slots[k].text])

\* The second pass copies into a buffer of the length the first one found.
ConcatCopy ==
    /\ Builtin("concat") /\ work.at = "copy"
    /\ Finish(Str(ConcatBytes))

----------------------------------------------------------------------------
Init == asked = NoCall /\ answer = <<>> /\ work = Idle /\ tab = NoList

\* What the program does without being asked for more.
Work ==
    \/ Find \/ Match \/ StringSub \/ StringByte \/ StringChar \/ StringRep
    \/ StringReverse \/ StringUpper \/ StringFormat
    \/ GsubReplace \/ GsubEnd
    \/ GmatchCall \/ GmatchBody \/ GmatchEnd
    \/ Encode \/ Encoded \/ Decode \/ DecodeEnd
    \/ ConcatI \/ ConcatJ \/ ConcatLengths \/ ConcatCopy

Next == Begin \/ Use \/ Work

Spec == Init /\ [][Next]_vars

----------------------------------------------------------------------------
\* Answers and the work under way are of the call that is under way.
TypeOK ==
    /\ asked \in Calls \cup {NoCall}
    /\ asked = NoCall => work = Idle /\ tab = NoList
    /\ \A n \in DOMAIN answer : answer[n].k \in {"nil", "trap", "str", "num"}
    /\ Builtin("gsub") => work.cursor \in 1 .. Len(asked.s) + 2
    /\ Builtin("gmatch") => work.pos \in 1 .. Len(asked.s) + 2

\* The buffer that the caller sizes before the search is never full: no byte of
\* the result of gsub is dropped (emit.rs computes the size, the runtime drops).
GsubFits == Builtin("gsub") => Len(work.out) < OutMax(asked)

\* Whatever the arguments of table.concat did to the list after its length was
\* read, the two passes read written slots of its array part only, and the second
\* pass writes exactly the bytes the first pass counted.
ConcatInBounds ==
    /\ Builtin("concat") /\ work.at \in {"lengths", "copy"} => Reads \subseteq DOMAIN tab.slots
    /\ Builtin("concat") /\ work.at = "copy" => Len(ConcatBytes) = work.total

\* How much of a call is left at most: searches start further right each time.
Left ==
    CASE Builtin("gsub") -> Len(asked.s) + 3 - work.cursor
      [] Builtin("gmatch") -> 2 * (Len(asked.s) + 3 - work.pos) + (IF work.at = "body" THEN 1 ELSE 0)
      [] Builtin("utf8") -> IF work.at = "encode" THEN 2 * Len(asked.points) + 1 - work.n
                            ELSE Utf8Len(work.s) - work.n
      [] Builtin("concat") -> CASE work.at = "i" -> 4 [] work.at = "j" -> 3
                                [] work.at = "lengths" -> 2 [] work.at = "copy" -> 1
      [] OTHER -> 1

\* Every step of a call brings it nearer to its end: gsub and gmatch search on
\* behind the previous match, also behind an empty one, and each code point is
\* read once.  The pattern of a gmatch must not be empty for it.
GetsNearer == [][asked # NoCall /\ asked' # NoCall => Left' < Left /\ Left' >= 0]_vars

Lua == INSTANCE LuaStrings

\* Every answer is the one Lua's rules give: the backtracking matcher finds the
\* leftmost greediest match and its capture, gsub and gmatch cut the subject at
\* the same matches, and code points survive encoding and decoding.
ImplementsLuaStrings == Lua!Spec
=============================================================================
