---------------------------- MODULE LuaControl ----------------------------
(* What the control structures of Lua mean: scopes are entered and left,   *)
(* break and return leave several at once, and every scope that is left    *)
(* closes its to-be-closed variables, the newest first.                    *)
(*                                                                         *)
(* A statement is a record whose k tells its kind:                         *)
(*   act e, open x (local x <close>), break, return v, block body,         *)
(*   if c then/else, while c body, repeat body c, for i stop step body,    *)
(*   in body (a for over an iterator).                                     *)
(* The observable events of a run are acts, openings and closings, the     *)
(* outcomes of tests, the iterations of loops, and the end.                *)
EXTENDS Integers, Sequences, FiniteSetsExt, SequencesExt

CONSTANT Program        \* records [fn: BOOLEAN, body: Seq(statement)]

VARIABLES prog, lua, event   \* the program, where it is, what happened last

Scope(body, again) == [rest |-> body, open |-> <<>>, again |-> again]

\* A loop goes on in this direction.
InRange(s) == IF s.step > 0 THEN s.i <= s.stop ELSE s.i >= s.stop

Drop(ss) == [ss EXCEPT ![Len(ss)].rest = Tail(@)]
Enter(ss, body, again) == Append(Drop(ss), Scope(body, again))

\* What is left of a scope that is left early: its closings.
Leave(scope) == [scope EXCEPT !.rest = <<>>, !.again = <<>>]

\* The scopes from the innermost loop body inwards.
Inside(ss) ==
    Max({n \in DOMAIN ss : ss[n].again # <<>>}) .. Len(ss)

Break(ss) == [n \in DOMAIN ss |-> IF n \in Inside(ss) THEN Leave(ss[n]) ELSE ss[n]]

\* A scope ends; a loop body hands over to the next test of its loop.
Resume(ss) ==
    LET below == Front(ss)
    IN IF below = <<>> THEN <<>>
       ELSE [below EXCEPT ![Len(below)].rest = Last(ss).again \o @]

\* The next move is one that nobody observes.
Quiet(cfg) ==
    LET top == Last(cfg.scopes)
        s == Head(top.rest)
    IN /\ cfg.scopes # <<>>
       /\ IF top.rest = <<>> THEN top.open = <<>>
          ELSE s.k \in {"block", "repeat", "break", "return"} \/ (s.k = "for" /\ ~InRange(s))

Move(cfg) ==
    LET ss == cfg.scopes
        s == Head(Last(ss).rest)
        to(scopes) == [cfg EXCEPT !.scopes = scopes]
    IN IF Last(ss).rest = <<>> THEN to(Resume(ss))
       ELSE CASE s.k = "block" -> to(Enter(ss, s.body, <<>>))
              [] s.k = "for" -> to(Drop(ss))
              [] s.k = "repeat" ->
                    to(Enter(ss, Append(s.body, [s EXCEPT !.k = "until"]), <<s>>))
              [] s.k = "break" -> to(Break(ss))
              [] s.k = "return" ->
                    [to([n \in DOMAIN ss |-> Leave(ss[n])]) EXCEPT !.ret = s.v]

RECURSIVE Settle(_)
\* All the unobserved moves.  (Binding c makes TLC evaluate the argument once.)
Settle(cfg) ==
    CHOOSE r \in {IF Quiet(c) THEN Settle(Move(c)) ELSE c : c \in {cfg}} : TRUE

Start(p) == Settle([scopes |-> <<Scope(p.body, <<>>)>>, ret |-> "nil", over |-> FALSE])

\* The events that may come next.
Due(cfg) ==
    LET top == Last(cfg.scopes)
        s == Head(top.rest)
    IN IF cfg.over THEN {}
       ELSE IF cfg.scopes = <<>> THEN {<<"end", cfg.ret>>}
       ELSE IF top.rest = <<>> THEN {<<"close", Last(top.open)>>}
       ELSE CASE s.k = "act" -> {<<"act", s.e>>}
              [] s.k = "open" -> {<<"open", s.x>>}
              [] s.k = "for" -> {<<"iteration", s.i>>}
              [] s.k = "in" -> {<<"next", b>> : b \in BOOLEAN}
              [] OTHER -> {<<"test", b>> : b \in BOOLEAN}

\* What an event leads to.
After(cfg, e) ==
    LET ss == cfg.scopes
        top == Last(ss)
        s == Head(top.rest)
        to(scopes) == Settle([cfg EXCEPT !.scopes = scopes])
    IN IF ss = <<>> THEN [cfg EXCEPT !.over = TRUE]
       ELSE IF top.rest = <<>> THEN to([ss EXCEPT ![Len(ss)].open = Front(@)])
       ELSE CASE s.k = "act" -> to(Drop(ss))
              [] s.k = "open" -> to([Drop(ss) EXCEPT ![Len(ss)].open = Append(@, s.x)])
              [] s.k = "for" -> to(Enter(ss, s.body, <<[s EXCEPT !.i = @ + s.step]>>))
              [] s.k = "if" -> to(Enter(ss, IF e[2] THEN s.then ELSE s.else, <<>>))
              [] s.k = "until" ->
                    to([Drop(ss) EXCEPT ![Len(ss)].again = IF e[2] THEN <<>> ELSE @])
              [] OTHER -> to(IF e[2] THEN Enter(ss, s.body, <<s>>) ELSE Drop(ss))

Init == prog \in Program /\ lua = Start(prog) /\ event = <<"start">>

Next == \E e \in Due(lua) : event' = e /\ lua' = After(lua, e) /\ UNCHANGED prog

Spec == Init /\ [][Next]_<<prog, lua, event>>
=============================================================================
