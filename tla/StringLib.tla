----------------------------- MODULE StringLib -----------------------------
(***************************************************************************)
(* The functions of bridge_runtime.rs and the string code of emit.rs that  *)
(* have no state: pattern matching by backtracking, UTF-8, sub bounds.     *)
(*                                                                         *)
(* A string is a sequence of bytes.  Positions count from 1 here and from  *)
(* 0 in the Rust functions; Len(s) + 1 is the position behind the last     *)
(* byte.                                                                   *)
(***************************************************************************)
EXTENDS Integers, Sequences, FiniteSetsExt, SequencesExt

Byte == 0 .. 255

Percent == 37  OpenParen == 40  CloseParen == 41  Star == 42  Plus == 43
Minus == 45    Dot == 46        Question == 63    OpenSet == 91
CloseSet == 93 Caret == 94      Dollar == 36      Letter_b == 98  Letter_f == 102

----------------------------------------------------------------------------
(* Single bytes.                                                           *)

Digit == 48 .. 57
Lower == 97 .. 122
Upper == 65 .. 90

\* The classes by their lower-case letter: a d s w p l u x c.
Class == [c \in {97, 100, 115, 119, 112, 108, 117, 120, 99} |->
            CASE c = 97 -> Lower \cup Upper
              [] c = 100 -> Digit
              [] c = 115 -> 9 .. 13 \cup {32}
              [] c = 119 -> Lower \cup Upper \cup Digit
              [] c = 112 -> (33 .. 126) \ (Lower \cup Upper \cup Digit)
              [] c = 108 -> Lower
              [] c = 117 -> Upper
              [] c = 120 -> Digit \cup 97 .. 102 \cup 65 .. 70
              [] c = 99 -> 0 .. 31 \cup {127}]

\* matches_class, as the set of bytes it accepts: an upper-case letter is the
\* complement, anything else stands for itself.
ClassBytes(c) ==
    IF c \in DOMAIN Class THEN Class[c]
    ELSE IF c + 32 \in DOMAIN Class THEN Byte \ Class[c + 32] ELSE {c}

IsAt(pat, p, b) == p <= Len(pat) /\ pat[p] = b

\* The bytes that the elements of a set accept, from p to the closing bracket.
SetBody(pat, p) ==
    LET body[k \in Nat] ==
            IF k > Len(pat) \/ IsAt(pat, k, CloseSet) THEN {}
            ELSE IF pat[k] = Percent /\ k < Len(pat)
            THEN ClassBytes(pat[k + 1]) \cup body[k + 2]
            ELSE IF IsAt(pat, k + 1, Minus) /\ k + 2 <= Len(pat) /\ ~IsAt(pat, k + 2, CloseSet)
            THEN (pat[k] .. pat[k + 2]) \cup body[k + 3]
            ELSE {pat[k]} \cup body[k + 1]
    IN body[p]

\* matches_set
SetBytes(pat, p) ==
    IF IsAt(pat, p + 1, Caret) THEN Byte \ SetBody(pat, p + 2) ELSE SetBody(pat, p + 1)

\* matches_atom
AtomBytes(pat, p) ==
    CASE pat[p] = Percent -> ClassBytes(pat[p + 1])
      [] pat[p] = Dot -> Byte
      [] pat[p] = OpenSet -> SetBytes(pat, p)
      [] OTHER -> {pat[p]}

\* The position of the bracket that closes a set, or of the end of the pattern.
SetEnd(pat, p) ==
    LET end[k \in Nat] ==
            IF k > Len(pat) THEN Len(pat)
            ELSE IF pat[k] = Percent /\ k < Len(pat) THEN end[k + 2]
            ELSE IF pat[k] = CloseSet THEN k ELSE end[k + 1]
    IN end[p]

\* atom_len
AtomLen(pat, p) ==
    IF pat[p] = Percent THEN 2
    ELSE IF pat[p] # OpenSet THEN 1
    ELSE SetEnd(pat, IF IsAt(pat, p + 1, Caret) THEN p + 2 ELSE p + 1) - p + 1

----------------------------------------------------------------------------
(* Matching.  A capture is open from cap.pending on (0: none is) and the   *)
(* last one closed is cap.from .. cap.to - 1 (from 0: none was).  An       *)
(* attempt that fails leaves the captures as they were: the snapshots the  *)
(* code restores are the value cap that the next attempt starts from.      *)

NoCapture == [pending |-> 0, from |-> 0, to |-> 0]
Capture == [pending : Nat, from : Nat, to : Nat]

\* A result is the end of the match and its capture; end is 0 on failure.
Fail == [end |-> 0, cap |-> NoCapture]
Found(i, cap) == [end |-> i, cap |-> cap]

\* is_frontier
IsFrontier(s, i, pat, p) ==
    LET byteAt(k) == IF k \in DOMAIN s THEN s[k] ELSE 0
    IN byteAt(i - 1) \notin SetBytes(pat, p) /\ byteAt(i) \in SetBytes(pat, p)

\* The scan of match_balanced: the first place where the depth is back at 0, the
\* y that closes the x at i; 0 when there is none.
Balanced(s, i, x, y) ==
    LET depth[j \in i .. Len(s)] ==
            IF j = i THEN 1
            ELSE depth[j - 1] + (IF s[j] = x THEN 1 ELSE IF s[j] = y THEN -1 ELSE 0)
        closing == {j \in i + 1 .. Len(s) : depth[j] = 0}
    IN IF IsAt(s, i, x) /\ closing # {} THEN Min(closing) ELSE 0

\* The length of the run of bytes of the set B at i.
Run(s, i, B) == Max({n \in 0 .. Len(s) + 1 - i : \A k \in i .. i + n - 1 : s[k] \in B})

\* Faulty: the longest run or nothing.
LongestOnly(counts, run) == counts \cap {run}

\* The loop of match_max starts with the longest run and takes one byte less
\* after each failure; counts are those the rest of the pattern matches after.
Longest(counts, run) == IF counts = {} THEN {} ELSE {Max(counts)}

\* match_max: after[n] is what the rest of the pattern answers behind n bytes.
MatchMax(least, run, after) ==
    LET counts == {n \in least .. run : after[n].end # 0}
    IN IF Longest(counts, run) = {} THEN Fail ELSE after[Max(Longest(counts, run))]

\* Where an attempt stands: before position i of s and p of pat.
Place(i, p, cap) == [i |-> i, p |-> p, cap |-> cap]
Places(s) == [i : 1 .. Len(s) + 1, p : Nat \ {0}, cap : Capture]

\* match_pattern at a place; match stands for the calls it makes of itself.
MatchFrom(s, pat, match, at) ==
    LET i == at.i
        p == at.p
        cap == at.cap
        next == p + AtomLen(pat, p)
        run == Run(s, i, AtomBytes(pat, p))
        then(j, q) == match[Place(j, q, cap)]
        repeat(least) == MatchMax(least, run, [n \in 0 .. run |-> then(i + n, next + 1)])
        close == Balanced(s, i, pat[p + 2], pat[p + 3])
    IN IF p > Len(pat) THEN Found(i, cap)
       ELSE IF p = Len(pat) /\ pat[p] = Dollar
       THEN IF i = Len(s) + 1 THEN Found(i, cap) ELSE Fail
       ELSE IF pat[p] = Percent /\ IsAt(pat, p + 1, Letter_b) /\ p + 3 <= Len(pat)
       THEN IF close = 0 THEN Fail ELSE then(close + 1, p + 4)
       ELSE IF pat[p] = Percent /\ IsAt(pat, p + 1, Letter_f) /\ IsAt(pat, p + 2, OpenSet)
       THEN IF IsFrontier(s, i, pat, p + 2) THEN then(i, p + 2 + AtomLen(pat, p + 2)) ELSE Fail
       ELSE IF pat[p] = OpenParen
       THEN IF cap.pending # 0 THEN Fail ELSE match[Place(i, p + 1, [cap EXCEPT !.pending = i])]
       ELSE IF pat[p] = CloseParen
       THEN IF cap.pending = 0 THEN Fail
            ELSE match[Place(i, p + 1, [pending |-> 0, from |-> cap.pending, to |-> i])]
       ELSE IF next > Len(pat) + 1 THEN Fail     \* a truncated escape
       ELSE IF IsAt(pat, next, Star) THEN repeat(0)
       ELSE IF IsAt(pat, next, Plus) THEN repeat(1)
       ELSE IF IsAt(pat, next, Question)         \* match_opt
       THEN IF run > 0 /\ then(i + 1, next + 1).end # 0
            THEN then(i + 1, next + 1) ELSE then(i, next + 1)
       ELSE IF run > 0 THEN then(i + 1, next) ELSE Fail

\* From position start of s and the first of pat.
MatchPattern(s, pat, start) ==
    LET match[at \in Places(s)] == MatchFrom(s, pat, match, at)
    IN match[Place(start, 1, NoCapture)]

----------------------------------------------------------------------------
(* Searching.  A match is [pos, len, cap]; pos is 0 when there is none.    *)

NoMatch == [pos |-> 0, len |-> 0, cap |-> NoCapture]

\* try_match_at
TryMatchAt(s, start, pat) ==
    LET r == MatchPattern(s, pat, start)
    IN IF r.end = 0 THEN NoMatch ELSE [pos |-> start, len |-> r.end - start, cap |-> r.cap]

\* The match that starts first.
Leftmost(matches) ==
    IF matches = {} THEN NoMatch ELSE CHOOSE m \in matches : \A n \in matches : m.pos <= n.pos

\* run_pattern_from: the first start that matches, or init alone if anchored.
RunPatternFrom(s, pat, init) ==
    LET anchored == IsAt(pat, 1, Caret)
        body == IF anchored THEN Tail(pat) ELSE pat
        starts == init .. IF anchored THEN init ELSE Len(s) + 1
    IN IF pat = <<>> THEN [NoMatch EXCEPT !.pos = Min({init, Len(s) + 1})]
       ELSE IF init > Len(s) + 1 \/ (anchored /\ init # 1) THEN NoMatch
       ELSE Leftmost({TryMatchAt(s, i, body) : i \in starts} \ {NoMatch})

\* lumelir_string_find_init; lumelir_string_match_extents is init = 1.
FindInit(s, pat, init) == RunPatternFrom(s, pat, IF init <= 1 THEN 1 ELSE init)

\* The capture closed last, or all of the match.
Capture1(m) ==
    IF m.cap.from = 0 THEN m ELSE [m EXCEPT !.pos = m.cap.from, !.len = m.cap.to - m.cap.from]

\* lumelir_string_match_capture1
MatchCapture1(s, pat) == Capture1(RunPatternFrom(s, pat, 1))

----------------------------------------------------------------------------
(* UTF-8.                                                                  *)

IsCont(b) == b \in 128 .. 191

\* The bytes of the sequence that b starts, 0 when no sequence starts with b.
Width(b) ==
    CASE b < 128 -> 1 [] b \in 192 .. 223 -> 2 [] b \in 224 .. 239 -> 3
      [] b \in 240 .. 247 -> 4 [] OTHER -> 0

\* lumelir_utf8_codepoint_one
Codepoint(s, i) ==
    LET w == Width(s[i])
        lead == s[i] % (CASE w = 1 -> 128 [] w = 2 -> 32 [] w = 3 -> 16 [] w = 4 -> 8)
        conts == SubSeq(s, i + 1, i + w - 1)
    IN IF i \notin DOMAIN s THEN -1
       ELSE IF w = 0 \/ i + w - 1 > Len(s) \/ \E k \in DOMAIN conts : ~IsCont(conts[k]) THEN -1
       ELSE FoldLeft(LAMBDA c, b : c * 64 + (b % 64), lead, conts)

\* lumelir_utf8_char_one: no byte for a surrogate or a number out of range.
Utf8Char(n) ==
    IF n < 0 \/ n > 1114111 \/ n \in 55296 .. 57343 THEN <<>>
    ELSE IF n < 128 THEN <<n>>
    ELSE IF n < 2048 THEN <<192 + n \div 64, 128 + (n % 64)>>
    ELSE IF n < 65536
    THEN <<224 + n \div 4096, 128 + ((n \div 64) % 64), 128 + (n % 64)>>
    ELSE <<240 + n \div 262144, 128 + ((n \div 4096) % 64), 128 + ((n \div 64) % 64), 128 + (n % 64)>>

\* The scan of utf8.len and of utf8.offset: the positions where no
\* continuation byte stands.
Boundaries(s) == {p \in DOMAIN s : ~IsCont(s[p])}

Utf8Len(s) == Cardinality(Boundaries(s))

\* lumelir_utf8_offset_from_start: the position behind s is a boundary too.
Utf8Offset(s, n) ==
    LET at == {p \in Boundaries(s) \cup {Len(s) + 1} :
                  Cardinality({q \in Boundaries(s) : q < p}) = n - 1}
    IN IF n < 0 THEN -1 ELSE IF n = 0 THEN 1 ELSE IF at = {} THEN -1 ELSE Min(at)

----------------------------------------------------------------------------
(* Bounds.                                                                 *)

\* emit_normalize_sub_bounds: a negative index counts from the end.
NormalizeSubBounds(len, i, j) ==
    [i |-> Max({1, IF i < 0 THEN len + i + 1 ELSE i}),
     j |-> Min({len, IF j < 0 THEN len + j + 1 ELSE j})]

\* emit_string_slice, or emit_empty_string when no byte is left.
Slice(s, b) == IF b.j - b.i + 1 > 0 THEN SubSeq(s, b.i, b.j) ELSE <<>>

=============================================================================
