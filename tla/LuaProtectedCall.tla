------------------------- MODULE LuaProtectedCall -------------------------
(***************************************************************************)
(* What `pcall` and `error` promise a Lua program, without saying how: the *)
(* activations form a stack, a protected call is a mark on it, and an      *)
(* error cuts the stack back to the innermost mark, which receives the     *)
(* value of that very error.  ProtectedCall implements this with one       *)
(* global jmp_buf.                                                         *)
(***************************************************************************)
EXTENDS Naturals, Sequences

CONSTANTS Value, NoValue

VARIABLES
    acts,     \* activations, oldest first: "main", "fn" or "pcall"
    raised,   \* the error value being delivered, or NoValue
    result    \* what the last completed protected call returned

vars == <<acts, raised, result>>

\* The mark an error raised on top of s is delivered to.
Innermost(s, p) ==
    /\ p \in DOMAIN s
    /\ s[p] # "fn"
    /\ \A i \in DOMAIN s : i > p => s[i] = "fn"

Top == acts[Len(acts)]
Pop(s) == SubSeq(s, 1, Len(s) - 1)
Running == acts # <<>> /\ raised = NoValue

Call == Running /\ Top # "pcall" /\ acts' = Append(acts, "fn") /\ UNCHANGED <<raised, result>>

Return == Running /\ Top = "fn" /\ acts' = Pop(acts) /\ UNCHANGED <<raised, result>>

Protect ==
    /\ Running /\ Top # "pcall"
    /\ acts' = acts \o <<"pcall", "fn">>
    /\ UNCHANGED <<raised, result>>

Raise(v) ==
    /\ Running /\ Top # "pcall"
    /\ raised' = v
    /\ \E p \in DOMAIN acts : Innermost(acts, p) /\ acts' = SubSeq(acts, 1, p)
    /\ UNCHANGED result

\* The protected function returned, or an error arrived.
Complete ==
    /\ acts # <<>> /\ Top = "pcall"
    /\ acts' = Pop(acts)
    /\ result' = [ok |-> raised = NoValue, err |-> raised]
    /\ raised' = NoValue

\* The program ends: at the end of main, by an uncaught error, by a trap.
Exit == acts # <<>> /\ acts' = <<>> /\ raised' = NoValue /\ UNCHANGED result

Init == acts = <<"main">> /\ raised = NoValue /\ result = [ok |-> TRUE, err |-> NoValue]

Next == Call \/ Return \/ Protect \/ (\E v \in Value : Raise(v)) \/ Complete \/ Exit

Spec == Init /\ [][Next]_vars
=============================================================================
