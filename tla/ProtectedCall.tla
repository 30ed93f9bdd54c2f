--------------------------- MODULE ProtectedCall ---------------------------
(***************************************************************************)
(* Error handling of a compiled program (src/codegen/emit.rs): one global  *)
(* jmp_buf, one global error slot, the user function depth and the chain   *)
(* of frame-root nodes.                                                    *)
(*                                                                         *)
(* The machine stack holds the activation of @main, of user functions, and *)
(* of the code a `pcall` expands to while its callee runs.  A jmp_buf is   *)
(* the stack position of the activation that called _setjmp; a frame-root  *)
(* node is the stack position of its function.  Both positions are memory  *)
(* that a longjmp abandons: nothing in the globals says so.                *)
(***************************************************************************)
EXTENDS Naturals, Sequences, FiniteSets

CONSTANTS
    Value,      \* error values
    NoValue,    \* the initial content of g_error_value
    MaxStack    \* bound: activations on the stack

ASSUME ProtectedCallAssumption == NoValue \notin Value /\ MaxStack \in Nat \ {0}

VARIABLES
    stack,               \* activations, oldest first
    g_jmpbuf,            \* position of the activation longjmp returns to
    g_gc_fn_depth,
    g_frame_root_head,   \* position of the newest frame-root node, or 0
    g_error_value,
    landing,             \* _setjmp has just returned nonzero in the top activation
    result               \* what the last completed pcall stored in (ok, err)

globals == <<g_jmpbuf, g_gc_fn_depth, g_frame_root_head>>
vars == <<stack, globals, g_error_value, landing, result>>

Main == [at |-> "main"]

\* root: the function has slots to root; prev: word 0 of its node, if any.
Fn(root, prev) == [at |-> "fn", root |-> root, prev |-> IF root THEN prev ELSE 0]

\* save_buf, saved_depth, saved_frame_head.
Pad(buf, depth, head) == [at |-> "pcall", buf |-> buf, depth |-> depth, head |-> head]

Top == stack[Len(stack)]
Below == SubSeq(stack, 1, Len(stack) - 1)
InCode == stack # <<>> /\ Top.at # "pcall" /\ ~landing

\* emit_function, entry: depth + 1, and a node linked in front of the chain
\* when there are slots to root.
Enter(s, root, depth, head) ==
    /\ Len(s) < MaxStack
    /\ stack' = Append(s, Fn(root, head))
    /\ g_gc_fn_depth' = depth + 1
    /\ g_frame_root_head' = IF root THEN Len(s) + 1 ELSE head

Call(root) ==
    /\ InCode
    /\ Enter(stack, root, g_gc_fn_depth, g_frame_root_head)
    /\ UNCHANGED <<g_jmpbuf, g_error_value, landing, result>>

\* Faulty: the node of a returning function stays linked.
ReturnUnlinkless ==
    /\ InCode /\ Top.at = "fn"
    /\ stack' = Below
    /\ g_gc_fn_depth' = g_gc_fn_depth - 1
    /\ UNCHANGED <<g_jmpbuf, g_frame_root_head, g_error_value, landing, result>>

\* emit_function, exit: depth - 1, and the node popped.
Return ==
    /\ InCode /\ Top.at = "fn"
    /\ stack' = Below
    /\ g_gc_fn_depth' = g_gc_fn_depth - 1
    /\ g_frame_root_head' = IF Top.root THEN Top.prev ELSE g_frame_root_head
    /\ UNCHANGED <<g_jmpbuf, g_error_value, landing, result>>

\* Faulty: g_jmpbuf is copied after _setjmp has overwritten it.
PcallSavesLate(root) ==
    /\ InCode
    /\ Enter(Append(stack, Pad(Len(stack) + 1, g_gc_fn_depth, g_frame_root_head)),
             root, g_gc_fn_depth, g_frame_root_head)
    /\ g_jmpbuf' = Len(stack) + 1
    /\ UNCHANGED <<g_error_value, landing, result>>

\* pcall(f): g_jmpbuf, the depth and the chain head are saved, _setjmp
\* overwrites g_jmpbuf and f is entered.
Pcall(root) ==
    /\ InCode
    /\ Enter(Append(stack, Pad(g_jmpbuf, g_gc_fn_depth, g_frame_root_head)),
             root, g_gc_fn_depth, g_frame_root_head)
    /\ g_jmpbuf' = Len(stack) + 1
    /\ UNCHANGED <<g_error_value, landing, result>>

\* Faulty: the depth of the abandoned frames is left as it is.
RestoreButDepth ==
    /\ stack' = Below
    /\ g_jmpbuf' = Top.buf
    /\ g_frame_root_head' = Top.head
    /\ UNCHANGED g_gc_fn_depth

\* Faulty: the stack is left, the landing pad stays.
RestoreButJmpbuf ==
    /\ stack' = Below
    /\ g_gc_fn_depth' = Top.depth
    /\ g_frame_root_head' = Top.head
    /\ UNCHANGED g_jmpbuf

Restore ==
    /\ stack' = Below
    /\ g_jmpbuf' = Top.buf
    /\ g_gc_fn_depth' = Top.depth
    /\ g_frame_root_head' = Top.head

\* The callee returned: (true, nil).
PcallOk ==
    /\ stack # <<>> /\ Top.at = "pcall" /\ ~landing
    /\ Restore
    /\ result' = [ok |-> TRUE, err |-> NoValue]
    /\ UNCHANGED <<g_error_value, landing>>

\* Faulty: the error slot keeps what the last pcall left in it.
PcallCaughtStale ==
    /\ stack # <<>> /\ Top.at = "pcall" /\ landing
    /\ Restore
    /\ result' = [result EXCEPT !.ok = FALSE]
    /\ landing' = FALSE
    /\ UNCHANGED g_error_value

\* _setjmp returned nonzero: (false, g_error_value).
PcallCaught ==
    /\ stack # <<>> /\ Top.at = "pcall" /\ landing
    /\ Restore
    /\ result' = [ok |-> FALSE, err |-> g_error_value]
    /\ landing' = FALSE
    /\ UNCHANGED g_error_value

\* error(v), or lumelir_raise_error in the bridge.
Raise(v) ==
    /\ InCode
    /\ g_error_value' = v
    /\ stack' = SubSeq(stack, 1, g_jmpbuf)
    /\ landing' = TRUE
    /\ UNCHANGED <<globals, result>>

Exit == stack' = <<>> /\ landing' = FALSE /\ UNCHANGED <<globals, g_error_value, result>>

\* The landing pad of @main prints g_error_value and exits.
Uncaught == landing /\ stack # <<>> /\ Top.at = "main" /\ Exit

\* @main returns, or a run-time trap (emit_exit_with_message) exits from
\* wherever it is: pcall does not see it.
EndOfMain == InCode /\ Top.at = "main" /\ Exit
Trap == InCode /\ Exit

\* @main calls _setjmp before the first statement of the chunk.
Init ==
    /\ stack = <<Main>>
    /\ g_jmpbuf = 1
    /\ g_gc_fn_depth = 0
    /\ g_frame_root_head = 0
    /\ g_error_value = NoValue
    /\ landing = FALSE
    /\ result = [ok |-> TRUE, err |-> NoValue]

Next ==
    \/ \E root \in BOOLEAN : Call(root) \/ Pcall(root)
    \/ Return \/ PcallOk \/ PcallCaught
    \/ \E v \in Value : Raise(v)
    \/ Uncaught \/ EndOfMain \/ Trap

Spec == Init /\ [][Next]_vars

-----------------------------------------------------------------------------
(* Properties.                                                             *)

Position == 1 .. MaxStack

Activation ==
    {Main} \cup [at : {"fn"}, root : BOOLEAN, prev : Nat]
           \cup [at : {"pcall"}, buf : Nat, depth : Nat, head : Nat]

\* Types of the variables.
TypeOK ==
    /\ stack \in Seq(Activation) /\ Len(stack) <= MaxStack
    /\ g_jmpbuf \in Nat
    /\ g_gc_fn_depth \in Nat
    /\ g_frame_root_head \in Nat
    /\ g_error_value \in Value \cup {NoValue}
    /\ landing \in BOOLEAN
    /\ result \in [ok : BOOLEAN, err : Value \cup {NoValue}]

\* Position p of stack s holds the innermost landing pad below position n.
PadBelow(s, n, p) ==
    /\ p \in 1 .. n
    /\ s[p].at # "fn"
    /\ \A i \in p + 1 .. n : s[i].at = "fn"

\* A longjmp returns to the innermost activation that called _setjmp and is
\* still on the stack: the copies of g_jmpbuf kept in the frames nest like
\* the frames do.
JmpbufIsInnermostPad == stack # <<>> => PadBelow(stack, Len(stack), g_jmpbuf)

Functions(s, n) == {i \in 1 .. n : s[i].at = "fn"}
RootFrames(s, n) == {i \in Functions(s, n) : s[i].root}

\* The frame depth the depth guard tests is the number of user functions on
\* the stack whenever code can allocate, after a caught error too.
DepthCountsFrames == InCode => g_gc_fn_depth = Cardinality(Functions(stack, Len(stack)))

\* The nodes a walk from g_frame_root_head meets.
Linked(S) ==
    /\ g_frame_root_head # 0 => g_frame_root_head \in S
    /\ \A p \in S : p \in DOMAIN stack /\ stack[p].at = "fn" /\ stack[p].prev # 0
                      => stack[p].prev \in S
Chain == {p \in Position : \A S \in SUBSET Position : Linked(S) => p \in S}

\* Whenever code can allocate, the marker's walk of the frame chain visits
\* the root frames on the stack: all of them, and no abandoned memory.
ChainIsRootFrames == InCode => Chain = RootFrames(stack, Len(stack))

-----------------------------------------------------------------------------
(* The inductive invariant: what every frame saved is what was true of the *)
(* stack below it.                                                         *)

NewestRoot(s, n, p) ==
    /\ p = 0 \/ p \in RootFrames(s, n)
    /\ \A i \in RootFrames(s, n) : i <= p

SavedIsTrueBelow(s, i) ==
    /\ s[i].at = "pcall" =>
          /\ PadBelow(s, i - 1, s[i].buf)
          /\ s[i].depth = Cardinality(Functions(s, i - 1))
          /\ NewestRoot(s, i - 1, s[i].head)
    /\ s[i].at = "fn" /\ s[i].root => NewestRoot(s, i - 1, s[i].prev)

Nested(s) ==
    /\ s[1] = Main
    /\ \A i \in 2 .. Len(s) : s[i].at # "main" /\ SavedIsTrueBelow(s, i)

FramesInv == stack # <<>> => Nested(stack)

LandingInv == landing => stack # <<>> /\ Top.at # "fn" /\ g_error_value \in Value

HeadIsNewestRoot == InCode => NewestRoot(stack, Len(stack), g_frame_root_head)

\* Each conjunct is kept with the help of the others.
StackInv ==
    /\ TypeOK
    /\ FramesInv
    /\ LandingInv
    /\ JmpbufIsInnermostPad
    /\ DepthCountsFrames
    /\ HeadIsNewestRoot

-----------------------------------------------------------------------------
(* Refinement.                                                             *)

Kinds(s) == [i \in DOMAIN s |-> s[i].at]

\* The code implements the protected calls of Lua.
Lua == INSTANCE LuaProtectedCall WITH
           acts <- Kinds(stack),
           raised <- IF landing THEN g_error_value ELSE NoValue
ImplementsProtectedCall == Lua!Spec
=============================================================================
