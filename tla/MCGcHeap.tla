------------------------------ MODULE MCGcHeap ------------------------------
(* Small instances of GcHeap for TLC: the programs the runs consider.      *)
EXTENDS GcHeap, TLC

CONSTANT c1     \* the chunk slot a program may pin

\* Addresses are interchangeable.
AddressSymmetry == Permutations(Obj)

Prog(uses, depth) ==
    [uses |-> uses, chunk_safe |-> TRUE, frame_safe |-> TRUE, pinned |-> Null, depth |-> depth]

\* Tables and their elements, with one user function frame.
Tables == Prog({"array", "operand"}, 1)

\* Strings as operands, and in TaggedValue locals, with one frame.
Texts == Prog({"string", "tagged", "operand"}, 1)

\* Hash parts with string keys.
Hashes == Prog({"string", "hash_value", "hash_key"}, 0)

\* Weak tables under one metatable that stays in a local.
Weak == [Prog({"hash_value", "metatable", "weak"}, 0) EXCEPT !.pinned = c1]

\* Closures over numbers, also as arguments.
Closures == Prog({"closure", "operand"}, 1)

\* A user function with a TaggedValue local: no frame chain, and the caller
\* of a function has operands and closures in registers.
Unframed ==
    [Prog({"closure", "operand", "call_operand", "closure_argument", "capturing_body"}, 1)
        EXCEPT !.frame_safe = FALSE]

\* A chunk the root tables cannot describe: nothing is ever freed.
Unrooted ==
    [Prog({"closure", "upvalue", "operand", "collect_operand", "capturing_body"}, 1)
        EXCEPT !.chunk_safe = FALSE, !.frame_safe = FALSE]

SoundPrograms == {Tables, Texts, Hashes, Weak, Closures, Unframed, Unrooted}

\* What the collector does is right whether or not the program is one it is
\* sound for.
Tagged == Prog({"string", "tagged", "tvtable", "array", "auto"}, 1)
Captures ==
    Prog({"string", "array", "metatable", "anonymous_metatable", "closure", "upvalue", "auto"}, 1)
AnyPrograms == {Tagged, Captures, [Tagged EXCEPT !.frame_safe = FALSE]}

\* The smallest program that meets what the documents overlook.
UpvalueProgram == {Prog({"string", "closure", "upvalue"}, 1)}
=============================================================================
