--------------------------- MODULE MCControlFlow ---------------------------
(* Small programs for ControlFlow: every way to put simple statements into *)
(* a construct, and that construct into another, with something after.     *)
EXTENDS ControlFlow

Action(e) == [k |-> "act", e |-> e]
Return == [k |-> "return", v |-> "one"]

\* The simple statements, told apart by where they stand.
Simple(at) == {Action(at), [k |-> "open", x |-> at], [k |-> "break"], Return}

\* The constructs around a body.
Around(b) ==
    {[k |-> "block", body |-> b], [k |-> "in", body |-> b],
     [k |-> "if", then |-> b, else |-> <<Action("else")>>],
     [k |-> "for", i |-> 1, stop |-> 2, step |-> 1, body |-> b],
     [k |-> "for", i |-> 2, stop |-> 1, step |-> -1, body |-> b]}
    \cup [k : {"while", "repeat"}, c : {"pure", "call"}, body : {b}]

Bodies == {<<s>> : s \in Simple("first")}
          \cup {<<s, t>> : s \in Simple("first"), t \in Simple("second")}
Once == UNION {Around(b) : b \in Bodies}
Twice == UNION {UNION {Around(<<s>>), Around(<<s, Action("after")>>),
                       Around(<<Action("before"), s>>)} : s \in Once}

RECURSIVE Grammatical(_, _, _)
\* break is in a loop, return ends a block of a function.
Grammatical(body, fn, in_loop) ==
    \A i \in DOMAIN body :
        LET s == body[i]
        IN CASE s.k = "break" -> in_loop
             [] s.k = "return" -> fn /\ i = Len(body)
             [] s.k = "if" -> Grammatical(s.then, fn, in_loop) /\ Grammatical(s.else, fn, in_loop)
             [] s.k = "block" -> Grammatical(s.body, fn, in_loop)
             [] s.k \in {"act", "open"} -> TRUE
             [] OTHER -> Grammatical(s.body, fn, TRUE)

All == {p \in [fn : BOOLEAN, body : {<<s, t>> : s \in Once \cup Twice, t \in {Action("last"), Return}}
                                     \cup Bodies] :
            Grammatical(p.body, p.fn, FALSE)}

Sound == {p \in All : Translatable(p)}
=============================================================================
