---------------------------- MODULE ControlFlow ----------------------------
(* How LuMeLIR runs the control structures of Lua on structured regions    *)
(* that cannot be left early: the lowering of src/hir/mod.rs turns break   *)
(* and return into flags, wraps statements into tests of those flags and   *)
(* appends CloseLocals to scopes; src/codegen/emit.rs turns the result     *)
(* into nested scf.while and scf.if.  A machine runs the lowered program   *)
(* statement by statement.  Statements are those of LuaControl; the        *)
(* condition c of a loop is "pure" or a "call", whose evaluation can be    *)
(* seen.                                                                   *)
EXTENDS Integers, Sequences, FiniteSetsExt, SequencesExt

CONSTANT Program

VARIABLES
    prog,      \* the program compiled
    todo,      \* the lowered statements still to run
    up,        \* the flags (_broken_n, _returned) that hold true
    live,      \* the <close> locals whose slot has been stored to
    ret,       \* _ret_value_0
    event,     \* what the last step did that can be seen
    lua        \* history: where Lua is after the same events

vars == <<prog, todo, up, live, ret, event, lua>>

Lua == INSTANCE LuaControl

NoFlag == <<0>>

-----------------------------------------------------------------------------
(* Lowering.  A flag is named by the path of its loop in the program.      *)

RECURSIVE stmt_contains_break(_)
\* body_contains_break and stmt_contains_break: nested loops keep theirs.
stmt_contains_break(s) ==
    LET within(body) == \E i \in DOMAIN body : stmt_contains_break(body[i])
    IN CASE s.k = "break" -> TRUE
         [] s.k = "if" -> within(s.then) \/ within(s.else)
         [] s.k = "block" -> within(s.body)
         [] OTHER -> FALSE

body_contains_break(body) == \E i \in DOMAIN body : stmt_contains_break(body[i])

RECURSIVE Declared(_)
\* The <close> locals declared in a body and in the bodies inside it: the
\* range of LowerCtx::locals that its lowering appended to.
Declared(body) ==
    LET of(s) == CASE s.k = "open" -> <<s.x>>
                   [] s.k = "if" -> Declared(s.then) \o Declared(s.else)
                   [] s.k \in {"act", "break", "return"} -> <<>>
                   [] OTHER -> Declared(s.body)
    IN FoldLeft(LAMBDA ids, s : ids \o of(s), <<>>, body)

\* Faulty: at the start of the scope.
prepend_close_locals_if_any(code, body) ==
    IF Declared(body) = <<>> THEN code
    ELSE <<[k |-> "close", ids |-> Declared(body)]>> \o code

append_close_locals_if_any(code, body) ==
    IF Declared(body) = <<>> THEN code
    ELSE Append(code, [k |-> "close", ids |-> Declared(body)])

SetFlag(f, b) == [k |-> "flag", f |-> f, b |-> b]

wrap_with_broken_guard(code, f) ==
    IF f = NoFlag THEN code
    ELSE [i \in DOMAIN code |-> [k |-> "guard", f |-> f, body |-> <<code[i]>>]]

wrap_with_break_init(loop, f) ==
    IF f = NoFlag THEN loop
    ELSE [k |-> "block", body |-> <<SetFlag(f, FALSE), loop>>]

\* arity is the number of slots for results; a value without one is dropped.
lower_return_with_values(v, arity) ==
    [k |-> "block", body |-> (IF arity = 0 THEN <<>> ELSE <<[k |-> "store", v |-> v]>>)
                             \o <<SetFlag(<<>>, TRUE)>>]

RECURSIVE lower_stmts(_, _, _, _)
\* lower_stmts and lower_stmt_match_arms; target is the top of
\* loop_break_targets.
lower_stmts(body, path, target, arity) ==
    LET loop_flag(s, here) == IF body_contains_break(s.body) THEN here ELSE NoFlag
        maybe_guarded(b, here, f) == wrap_with_broken_guard(lower_stmts(b, here, f, arity), f)
        scoped(b, here, f) == append_close_locals_if_any(maybe_guarded(b, here, f), b)
        lower(s, here) ==
            CASE s.k = "block" ->
                    [s EXCEPT !.body =
                        append_close_locals_if_any(lower_stmts(@, here, target, arity), @)]
              [] s.k = "if" ->
                    [s EXCEPT !.then = scoped(@, here, target),
                              !.else = scoped(@, Append(here, 0), target)]
              [] s.k = "while" ->
                    LET f == loop_flag(s, here)
                    IN wrap_with_break_init(
                         [k |-> "while", c |-> s.c, f |-> f,
                          body |-> scoped(s.body, here, f)], f)
              [] s.k = "repeat" ->
                    LET f == loop_flag(s, here)
                    IN wrap_with_break_init(
                         [k |-> "repeat", c |-> s.c, f |-> f,
                          body |-> maybe_guarded(s.body, here, f)], f)
              [] s.k = "for" ->
                    LET f == loop_flag(s, here)
                    IN wrap_with_break_init(
                         [k |-> "for", i |-> s.i, stop |-> s.stop, step |-> s.step,
                          f |-> f, body |-> maybe_guarded(s.body, here, f)], f)
              [] s.k = "in" ->
                    wrap_with_break_init(
                        [k |-> "while", c |-> "true", f |-> here,
                         body |-> <<[k |-> "advance", f |-> here,
                                     body |-> maybe_guarded(s.body, here, here)]>>],
                        here)
              [] s.k = "break" -> SetFlag(target, TRUE)
              [] s.k = "return" -> lower_return_with_values(s.v, arity)
              [] OTHER -> s
    IN [i \in DOMAIN body |-> lower(body[i], Append(path, i))]

RECURSIVE ast_max_return_arity(_)
\* It does not look into repeat.
ast_max_return_arity(body) ==
    LET of(s) == CASE s.k = "return" -> 1
                   [] s.k = "if" -> Max({ast_max_return_arity(s.then),
                                         ast_max_return_arity(s.else)})
                   [] s.k \in {"block", "while", "for", "in"} -> ast_max_return_arity(s.body)
                   [] OTHER -> 0
    IN Max({0} \cup {of(body[i]) : i \in DOMAIN body})

RECURSIVE Returns(_)
\* The body holds a return statement: the function has a result.
Returns(body) ==
    \E i \in DOMAIN body :
        CASE body[i].k = "return" -> TRUE
          [] body[i].k = "if" -> Returns(body[i].then) \/ Returns(body[i].else)
          [] body[i].k \in {"act", "open", "break"} -> FALSE
          [] OTHER -> Returns(body[i].body)

\* The flag and the default result, then every statement, CloseLocals
\* included, under the guard of the flag.
lower_function_body(body) ==
    LET returned_id == <<>>
        arity == ast_max_return_arity(body)
        lowered == append_close_locals_if_any(lower_stmts(body, <<>>, returned_id, arity), body)
        defaults == IF arity = 0 THEN <<>> ELSE <<[k |-> "store", v |-> "zero"]>>
    IN <<SetFlag(returned_id, FALSE)>> \o defaults
        \o wrap_with_broken_guard(lowered, returned_id)

Lowered(p) ==
    IF p.fn THEN lower_function_body(p.body) ELSE lower_stmts(p.body, <<>>, NoFlag, 0)

RECURSIVE FlagsOf(_)
\* The slots of the flags that the lowered code uses.
FlagsOf(code) ==
    UNION {LET s == code[i]
           IN CASE s.k = "flag" -> {s.f}
                [] s.k = "if" -> FlagsOf(s.then) \cup FlagsOf(s.else)
                [] s.k \in {"act", "open", "store", "close"} -> {}
                [] OTHER -> FlagsOf(s.body) : i \in DOMAIN code}

-----------------------------------------------------------------------------
(* The run.                                                                *)

Diverged == [scopes |-> <<>>, ret |-> "diverged", over |-> TRUE]

Emit(e) ==
    /\ event' = e
    /\ lua' = IF e \in Lua!Due(lua) THEN Lua!After(lua, e) ELSE Diverged

Silent == UNCHANGED <<event, lua>>

At(k) == todo # <<>> /\ Head(todo).k = k
Do(code) == todo' = code \o Tail(todo)
It == Head(todo)

\* An expression statement.
Act ==
    /\ At("act") /\ Do(<<>>) /\ Emit(<<"act", It.e>>)
    /\ UNCHANGED <<prog, up, live, ret>>

\* LocalInit of a <close> local.
Open ==
    /\ At("open") /\ Do(<<>>) /\ Emit(<<"open", It.x>>)
    /\ live' = live \cup {It.x}
    /\ UNCHANGED <<prog, up, ret>>

\* LocalInit of and Assign to a flag.
StoreFlag ==
    /\ At("flag") /\ Do(<<>>) /\ Silent
    /\ up' = IF It.b THEN up \cup {It.f} ELSE up \ {It.f}
    /\ UNCHANGED <<prog, live, ret>>

\* LocalInit of and Assign to _ret_value_0.
StoreResult ==
    /\ At("store") /\ Do(<<>>) /\ Silent
    /\ ret' = It.v
    /\ UNCHANGED <<prog, up, live>>

Block ==
    /\ At("block") /\ Do(It.body) /\ Silent
    /\ UNCHANGED <<prog, up, live, ret>>

\* if not _broken then STMT end.
Guard ==
    /\ At("guard") /\ Do(IF It.f \in up THEN <<>> ELSE It.body) /\ Silent
    /\ UNCHANGED <<prog, up, live, ret>>

\* An if of the program.
If ==
    /\ At("if")
    /\ \E b \in BOOLEAN :
        /\ Do(IF b THEN It.then ELSE It.else)
        /\ Emit(<<"test", b>>)
    /\ UNCHANGED <<prog, up, live, ret>>

\* The condition of a loop: evaluated first, then ANDed with the flag.  What
\* a pure condition is once the flag is up cannot be seen.
Condition(b) ==
    IF It.c = "true" \/ (It.c = "pure" /\ It.f \in up) THEN Silent ELSE Emit(<<"test", b>>)

\* Faulty: the condition alone decides.
WhileUnflagged ==
    /\ At("while")
    /\ \E b \in IF It.c = "true" THEN {TRUE} ELSE BOOLEAN :
        /\ Condition(b)
        /\ IF b THEN Do(It.body \o <<It>>) ELSE Do(<<>>)
    /\ UNCHANGED <<prog, up, live, ret>>

\* The before region of a while.
While ==
    /\ At("while")
    /\ \E b \in IF It.c = "true" THEN {TRUE} ELSE BOOLEAN :
        /\ Condition(b)
        /\ IF b /\ It.f \notin up THEN Do(It.body \o <<It>>) ELSE Do(<<>>)
    /\ UNCHANGED <<prog, up, live, ret>>

\* The before region of a repeat runs the body...
Repeat ==
    /\ At("repeat") /\ Do(Append(It.body, [It EXCEPT !.k = "until"])) /\ Silent
    /\ UNCHANGED <<prog, up, live, ret>>

\* ... and then the condition, inverted.
Until ==
    /\ At("until")
    /\ \E b \in BOOLEAN :
        /\ Condition(b)
        /\ IF ~b /\ It.f \notin up THEN Do(<<[It EXCEPT !.k = "repeat"]>>) ELSE Do(<<>>)
    /\ UNCHANGED <<prog, up, live, ret>>

\* The before region of a numeric for, which compares in the direction of
\* the step; the variable is advanced after the body.
ForNumeric ==
    /\ At("for")
    /\ IF (IF It.step > 0 THEN It.i <= It.stop ELSE It.i >= It.stop) /\ It.f \notin up
       THEN /\ Do(It.body \o <<[It EXCEPT !.i = @ + It.step]>>)
            /\ Emit(<<"iteration", It.i>>)
       ELSE Do(<<>>) /\ Silent
    /\ UNCHANGED <<prog, up, live, ret>>

\* The iterator is called; nil raises the flag, else the body runs.
Advance ==
    /\ At("advance")
    /\ \E b \in BOOLEAN :
        /\ Emit(<<"next", b>>)
        /\ Do(IF b THEN It.body ELSE <<SetFlag(It.f, TRUE)>>)
    /\ UNCHANGED <<prog, up, live, ret>>

\* The __close of one local; a slot that was never stored to holds anything.
Close(x) == Emit(<<IF x \in live THEN "close" ELSE "undefined", x>>)

\* Faulty: in the order of declaration.
CloseLocalsForward ==
    /\ At("close") /\ Close(Head(It.ids))
    /\ Do(IF Len(It.ids) = 1 THEN <<>> ELSE <<[It EXCEPT !.ids = Tail(@)]>>)
    /\ UNCHANGED <<prog, up, live, ret>>

\* CloseLocals, the last declared first.
CloseLocals ==
    /\ At("close") /\ Close(Last(It.ids))
    /\ Do(IF Len(It.ids) = 1 THEN <<>> ELSE <<[It EXCEPT !.ids = Front(@)]>>)
    /\ UNCHANGED <<prog, up, live, ret>>

\* What the trailing return loads when nothing has been stored: no result, or
\* whatever local is where the slot for the result would have been.
NoResult(p) == IF p.fn /\ Returns(p.body) THEN "undefined" ELSE "nil"

\* The trailing return of the function, the end of the chunk.
End ==
    /\ todo = <<>> /\ event[1] # "end"
    /\ Emit(<<"end", ret>>)
    /\ UNCHANGED <<prog, todo, up, live, ret>>

Init ==
    /\ prog \in Program
    /\ todo = Lowered(prog)
    /\ up \in {{}, FlagsOf(todo)}      \* allocas hold anything
    /\ live = {}
    /\ ret = NoResult(prog)
    /\ event = <<"start">>
    /\ lua = Lua!Start(prog)

Step ==
    \/ Act \/ Open \/ StoreFlag \/ StoreResult \/ Block \/ Guard \/ If
    \/ While \/ Repeat \/ Until \/ ForNumeric \/ Advance \/ CloseLocals \/ End

Next == lua # Diverged /\ Step

\* The compiled code is sequential: it takes its steps.
FairSpec == Init /\ [][Next]_vars /\ WF_vars(Next)

-----------------------------------------------------------------------------
(* Which programs the lowering is right for.                               *)

\* The body may break out of a loop around it, or return.
Jumps(body) == body_contains_break(body) \/ Returns(body)

RECURSIVE Fits(_, _, _, _)
\* in_loop: in the body of a loop; closes: this body is followed by
\* CloseLocals; outer: so is a body around it, which would close again.
Fits(body, in_loop, closes, outer) ==
    LET inner(b, loop, appends) == Fits(b, loop, appends, outer \/ closes)
        fits(i) ==
            LET s == body[i]
            IN CASE s.k = "open" -> closes /\ ~outer /\ ~Jumps(SubSeq(body, 1, i - 1))
                 [] s.k = "return" -> ~in_loop
                 [] s.k = "if" -> inner(s.then, in_loop, TRUE) /\ inner(s.else, in_loop, TRUE)
                 [] s.k = "block" -> ~Jumps(Front(s.body)) /\ inner(s.body, in_loop, TRUE)
                 [] s.k = "while" ->
                        /\ s.c = "pure" \/ ~body_contains_break(s.body)
                        /\ inner(s.body, TRUE, TRUE)
                 [] s.k = "repeat" ->
                        /\ s.c = "pure" \/ ~body_contains_break(s.body)
                        /\ inner(s.body, TRUE, FALSE)
                 [] s.k \in {"for", "in"} -> inner(s.body, TRUE, FALSE)
                 [] OTHER -> TRUE
    IN \A i \in DOMAIN body : fits(i)

\* No jump is followed by statements of the same do-block; no return is in a
\* loop; conditions of loops with a break have no effects; a <close> local is
\* in the only scope around it that closes, nothing before it in that scope
\* jumps, and a function that closes does not return early; a function that
\* returns a value always does.
Translatable(p) ==
    /\ Fits(p.body, FALSE, p.fn, FALSE)
    /\ p.fn /\ Returns(p.body) =>
        Last(p.body).k = "return" /\ Declared(p.body) = <<>>

-----------------------------------------------------------------------------
(* Properties.                                                             *)

Event == {"start", "act", "open", "close", "test", "iteration", "next", "end"}

\* Types of the variables; in particular no step closes a slot that was
\* never stored to.
TypeOK ==
    /\ live \subseteq ToSet(Declared(prog.body))
    /\ {s.k : s \in ToSet(todo)} \subseteq
        {"act", "open", "close", "block", "if", "guard", "while", "repeat", "until",
         "for", "advance", "flag", "store"}
    /\ event[1] \in Event

\* Whatever jumps, loops and closings a program combines, the lowered code
\* shows the events Lua shows, in its order: nothing runs between a jump and
\* its target, every scope closes what it opened, loops test as they should.
ImplementsLua == Lua!Spec

\* Once Lua has left the program, the lowered code reaches its end too: no
\* loop goes round without the flag that stops it.
EndsWithLua == (lua.scopes = <<>>) ~> (event[1] = "end")

\* src/hir/mod.rs:2815: statements after a return are skipped.
NothingAfterReturn ==
    [][event' # event /\ <<>> \in up => event'[1] \in {"close", "end"}]_vars
=============================================================================
