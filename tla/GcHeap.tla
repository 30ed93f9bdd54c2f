------------------------------- MODULE GcHeap -------------------------------
(***************************************************************************)
(* The object graph of a compiled Lua program and the stop-the-world       *)
(* collector that `collectgarbage()` and the allocator run over it         *)
(* (src/codegen/emit.rs, @gc_mark and the weak-clear and free walks of     *)
(* @gc_sweep).                                                             *)
(*                                                                         *)
(* An object is an address; malloc may hand a freed address out again.     *)
(* An object's outgoing pointers are a set of edges <<field, object>>.     *)
(* The program is a machine with the slots the compiler gives it: chunk    *)
(* locals (String/Table/Function kind, and TaggedValue kind), one frame of *)
(* locals per active user function, and registers: the value of the        *)
(* expression under evaluation, and in every activation an operand that    *)
(* waits for the next one, a parameter of Function kind and the upvalue    *)
(* box of a captured parameter.  No table of roots names a register.       *)
(*                                                                         *)
(* prog is the compiled program: the language features it uses, which      *)
(* restrict what it does and never the collector, and the two answers of   *)
(* the compiler's analysis that select the marker.                         *)
(***************************************************************************)
EXTENDS Naturals, Sequences, FiniteSets

CONSTANTS
    Obj,          \* addresses malloc can return
    Null,         \* the null pointer
    ChunkSlot,    \* chunk locals registered in g_chunk_root_table
    TvSlot,       \* chunk locals registered in g_chunk_tv_table
    FrameSlot,    \* root slots of each user function frame
    Passes,       \* propagation passes: 8 in the code
    Program       \* the programs under consideration

Feature == {"string", "tagged", "tvtable", "array", "hash_value", "hash_key",
            "metatable", "anonymous_metatable", "weak", "closure", "upvalue", "auto",
            "operand", "call_operand", "collect_operand", "closure_argument", "capturing_body"}

\* operand: an expression has a string, table or closure evaluated when it
\* evaluates its next operand or argument, which may call a user function
\* (call_operand) or collectgarbage (collect_operand).
\* closure_argument: a closure that no variable of the caller holds is an
\* argument.
\* capturing_body: a function with a captured parameter does more than create
\* its closures: it calls a function, or collects.  Captured locals that are
\* no parameters have a box as well, and are left out.
\* chunk_safe: every chunk local is of a kind the root tables cover.
\* frame_safe: and no user function has a TaggedValue local.
\* pinned: a chunk local the program assigns once, or Null.
\* depth: how deep user functions call each other (a bound).
ASSUME GcHeapAssumption ==
    /\ Null \notin Obj
    /\ Passes \in Nat
    /\ Program \subseteq [uses : SUBSET Feature, chunk_safe : BOOLEAN, frame_safe : BOOLEAN,
                          pinned : ChunkSlot \cup {Null}, depth : Nat]
    /\ \A p \in Program : p.frame_safe => p.chunk_safe

Kind == {"string", "table", "buf", "cell", "box"}
Field == {"array_buf", "hash_buf", "array", "hash_key", "hash_value",
          "metatable", "upvalue_box", "upvalue"}
Ptr == Obj \cup {Null}

VARIABLES
    prog,         \* the compiled program
    g_gc_head,    \* the allocation list, newest first
    kind,         \* type tag of each object; "free" when not allocated
    ref,          \* outgoing edges of each object
    mode,         \* tables that have a non-nil "__mode" entry
    chunk,        \* contents of the ChunkSlots
    chunkTv,      \* payloads of the TvSlots (tag = kind of the payload)
    frames,       \* frame-root chain, newest frame first
    reg,          \* value of the expression under evaluation
    operands,     \* operand waiting in each activation, the current one first
    fn_params,    \* Function-kind parameter of each frame, newest first
    boxes,        \* upvalue box of the captured parameter of each frame
    pend,         \* operation whose gc_alloc triggered the collection
    black,        \* objects whose mark byte is GC_MARK_BLACK
    pc,           \* what the machine is doing
    pass,         \* completed propagation passes
    at,           \* position of the walk in g_gc_head
    kept          \* history: what the collection under way must not free

unrooted == <<operands, fn_params, boxes>>
program == <<chunk, chunkTv, frames, reg, unrooted, pend>>
heap == <<g_gc_head, kind, ref, mode>>
vars == <<prog, heap, program, black, pc, pass, at, kept>>

Alloc == {o \in Obj : kind[o] # "free"}
Tracked == {g_gc_head[i] : i \in DOMAIN g_gc_head}
Edges(o, F) == {e[2] : e \in {x \in ref[o] : x[1] \in F}}
NoFrame == [s \in FrameSlot |-> Null]
NoOp == [op |-> "none"]

\* not_weak of the propagation pass, negated: mt["__mode"] is non-nil.
IsWeak(o) == \E m \in Edges(o, {"metatable"}) : m \in mode

-----------------------------------------------------------------------------
(* What marking one BLACK object reaches.                                  *)

\* The element walk: array elements that are strings or tables, unless the
\* table is weak.
ArrayKids(o) ==
    {p \in Edges(o, {"array"}) : ~IsWeak(o) /\ kind[p] \in {"string", "table"}}

\* The bucket walk: the keys and the values, in the same way.
HashKids(o) ==
    {p \in Edges(o, {"hash_key", "hash_value"}) : ~IsWeak(o) /\ kind[p] \in {"string", "table"}}

\* The table pass: both buffers, then the elements and the buckets.
TableKids(o) ==
    IF kind[o] = "table"
    THEN Edges(o, {"array_buf", "hash_buf"}) \cup ArrayKids(o) \cup HashKids(o)
    ELSE {}

\* The closure pass: the upvalue boxes, not their contents.
CellKids(o) == IF kind[o] = "cell" THEN Edges(o, {"upvalue_box"}) ELSE {}

Kids(o) == (TableKids(o) \cup CellKids(o)) \cap Tracked

\* Objects the two chunk root tables name.
ChunkRoots ==
    {o \in Tracked : \/ \E s \in ChunkSlot : chunk[s] = o
                     \/ \E s \in TvSlot : chunkTv[s] = o /\ kind[o] = "string"}

\* Objects the frame-root chain names.
FrameRoots ==
    {o \in Tracked : \E i \in DOMAIN frames : \E s \in FrameSlot : frames[i][s] = o}

\* Without root tables, and inside a user function without frame chains, a
\* collection keeps everything.
DepthGuard == ~prog.chunk_safe \/ (~prog.frame_safe /\ frames # <<>>)

Roots == ChunkRoots \cup (IF prog.frame_safe THEN FrameRoots ELSE {})

\* The objects at most n followed edges away from a root.
Within(n) ==
    {o \in Tracked :
       \E k \in 0 .. n : \E p \in [0 .. k -> Obj] :
          /\ p[0] \in Roots
          /\ p[k] = o
          /\ \A i \in 1 .. k : p[i] \in Kids(p[i - 1])}

-----------------------------------------------------------------------------
(* Allocation and the collector.                                           *)

\* Faulty: the successor of the unlinked object is dropped with it.
UnlinkTwo(s, i) == [j \in 1 .. Len(s) - 1 |-> IF j < i THEN s[j] ELSE s[1]]

\* prev.next := next, or the head := next when there is no prev.
Unlink(s, i) == [j \in 1 .. Len(s) - 1 |-> IF j < i THEN s[j] ELSE s[j + 1]]

\* gc_alloc: a fresh WHITE object at the head of the list.
Fresh(o, k, edges) ==
    /\ kind[o] = "free"
    /\ g_gc_head' = <<o>> \o g_gc_head
    /\ kind' = [kind EXCEPT ![o] = k]
    /\ ref' = [ref EXCEPT ![o] = edges]
    /\ mode' = mode \ {o}

StartMark(op) ==
    /\ pc' = "roots"
    /\ pend' = op
    /\ kept' = IF DepthGuard THEN Tracked ELSE Within(Passes)
    /\ UNCHANGED <<heap, chunk, chunkTv, frames, reg, unrooted, black, pass, at>>

\* The operand of the current activation that waits for the next one, and the
\* box of its captured parameter, if it has one.
Waiting == operands[1]
Captured == {boxes[i] : i \in DOMAIN boxes \cap {1}} \ {Null}

\* collectgarbage(), a statement or an operand beside the one that waits.
Collect ==
    /\ pc = "run" /\ pend = NoOp /\ reg = Null
    /\ Waiting # Null => "collect_operand" \in prog.uses
    /\ Captured # {} => "capturing_body" \in prog.uses
    /\ StartMark(NoOp)

\* An allocation inside op finds the threshold crossed (emit_gc_alloc): the
\* collection runs first, with the operands of op in registers.
AutoTrigger(op) == "auto" \in prog.uses /\ StartMark(op)

\* Faulty: a local that is assigned once is taken for a constant.
ScanReassigned ==
    /\ pc = "roots"
    /\ IF DepthGuard
       THEN black' = Tracked /\ pc' = "weak"
       ELSE /\ black' = {o \in ChunkRoots : prog.pinned = Null \/ chunk[prog.pinned] # o}
            /\ pc' = "frames"
    /\ UNCHANGED <<heap, program, pass, at, kept>>

ScanChunkRoots ==
    /\ pc = "roots"
    /\ IF DepthGuard
       THEN black' = Tracked /\ pc' = "weak"
       ELSE black' = ChunkRoots /\ pc' = "frames"
    /\ UNCHANGED <<heap, program, pass, at, kept>>

\* Faulty: the frame chain is not walked.
WalkFrameChainNot ==
    /\ pc = "frames"
    /\ pass' = 0
    /\ at' = 1
    /\ pc' = IF Passes = 0 THEN "weak" ELSE "tables"
    /\ UNCHANGED <<heap, program, black, kept>>

WalkFrameChain ==
    /\ pc = "frames"
    /\ black' = IF prog.frame_safe THEN black \cup FrameRoots ELSE black
    /\ pass' = 0
    /\ at' = 1
    /\ pc' = IF Passes = 0 THEN "weak" ELSE "tables"
    /\ UNCHANGED <<heap, program, kept>>

\* Faulty: a WHITE table is propagated as well.
VisitTableUnconditionally ==
    /\ pc = "tables" /\ at <= Len(g_gc_head)
    /\ black' = black \cup (TableKids(g_gc_head[at]) \cap Tracked)
    /\ at' = at + 1
    /\ UNCHANGED <<heap, program, pc, pass, kept>>

\* One step of the table walk or of the closure walk of a pass.
VisitTable ==
    /\ pc = "tables" /\ at <= Len(g_gc_head)
    /\ LET o == g_gc_head[at] IN
       black' = IF o \in black THEN black \cup (TableKids(o) \cap Tracked) ELSE black
    /\ at' = at + 1
    /\ UNCHANGED <<heap, program, pc, pass, kept>>

EndTableWalk ==
    /\ pc = "tables" /\ at > Len(g_gc_head)
    /\ pc' = "cells"
    /\ at' = 1
    /\ UNCHANGED <<heap, program, black, pass, kept>>

VisitCell ==
    /\ pc = "cells" /\ at <= Len(g_gc_head)
    /\ LET o == g_gc_head[at] IN
       black' = IF o \in black THEN black \cup (CellKids(o) \cap Tracked) ELSE black
    /\ at' = at + 1
    /\ UNCHANGED <<heap, program, pc, pass, kept>>

EndPass ==
    /\ pc = "cells" /\ at > Len(g_gc_head)
    /\ pass' = pass + 1
    /\ at' = 1
    /\ pc' = IF pass + 1 = Passes THEN "weak" ELSE "tables"
    /\ UNCHANGED <<heap, program, black, kept>>

\* Faulty: the mark byte of the value is not tested.
WeakClearAll ==
    /\ pc = "weak"
    /\ ref' = [o \in Obj |->
                 IF kind[o] = "table" /\ IsWeak(o)
                 THEN {e \in ref[o] : ~(e[1] = "hash_value" /\ kind[e[2]] = "table")}
                 ELSE ref[o]]
    /\ pc' = "sweep"
    /\ at' = 1
    /\ UNCHANGED <<g_gc_head, kind, mode, program, black, pass, kept>>

\* Every weak table loses the hash values that are WHITE tables.
WeakClear ==
    /\ pc = "weak"
    /\ ref' = [o \in Obj |->
                 IF kind[o] = "table" /\ IsWeak(o)
                 THEN {e \in ref[o] : ~( /\ e[1] = "hash_value"
                                         /\ kind[e[2]] = "table"
                                         /\ e[2] \notin black)}
                 ELSE ref[o]]
    /\ pc' = "sweep"
    /\ at' = 1
    /\ UNCHANGED <<g_gc_head, kind, mode, program, black, pass, kept>>

\* Faulty: the walk whitens a survivor and meets it again.
SweepKeepStays ==
    /\ pc = "sweep" /\ at <= Len(g_gc_head)
    /\ g_gc_head[at] \in black
    /\ black' = black \ {g_gc_head[at]}
    /\ UNCHANGED <<heap, program, pc, pass, at, kept>>

\* The free walk of @gc_sweep.  A BLACK object is whitened and kept.
SweepKeep ==
    /\ pc = "sweep" /\ at <= Len(g_gc_head)
    /\ g_gc_head[at] \in black
    /\ black' = black \ {g_gc_head[at]}
    /\ at' = at + 1
    /\ UNCHANGED <<heap, program, pc, pass, kept>>

\* A WHITE object is unlinked and freed.
SweepFree ==
    /\ pc = "sweep" /\ at <= Len(g_gc_head)
    /\ g_gc_head[at] \notin black
    /\ LET o == g_gc_head[at] IN
       /\ g_gc_head' = Unlink(g_gc_head, at)
       /\ kind' = [kind EXCEPT ![o] = "free"]
       /\ ref' = [ref EXCEPT ![o] = {}]
       /\ mode' = mode \ {o}
    /\ UNCHANGED <<program, black, pc, pass, at, kept>>

\* The walk is over; a pending operation resumes.
EndSweep ==
    /\ pc = "sweep" /\ at > Len(g_gc_head)
    /\ pc' = "run"
    /\ at' = 1
    /\ pass' = 0
    /\ kept' = {}
    /\ UNCHANGED <<heap, program, black>>

-----------------------------------------------------------------------------
(* The compiled program.  op is an operation; one that needs memory runs a *)
(* collection first when the allocation crosses the threshold.             *)

Idle == pc = "run" /\ pend = NoOp
Proceed(op) == pc = "run" /\ (pend = NoOp \/ pend = op)

\* Between two statements nothing waits.
Statement == Idle /\ Waiting = Null

Quiet == UNCHANGED <<black, pc, pass, at, kept>>

\* tostring(n), a .. b: a new string in the register.
EvalString(o) ==
    /\ "string" \in prog.uses
    /\ Idle /\ reg = Null
    /\ Fresh(o, "string", {})
    /\ reg' = o
    /\ UNCHANGED <<chunk, chunkTv, frames, unrooted, pend>> /\ Quiet

\* {}: a new table header in the register; the buffers come on first store.
EvalTable(o) ==
    /\ Idle /\ reg = Null
    /\ Fresh(o, "table", {})
    /\ reg' = o
    /\ UNCHANGED <<chunk, chunkTv, frames, unrooted, pend>> /\ Quiet

Locals == IF frames = <<>> THEN chunk ELSE frames[1]
LocalSlot == IF frames = <<>> THEN ChunkSlot ELSE FrameSlot

\* What the variables of the current activation hold: its locals and its
\* parameters.
Named == {Locals[s] : s \in LocalSlot} \cup {fn_params[i] : i \in DOMAIN fn_params \cap {1}}

\* A local read as an expression.
EvalLocal ==
    /\ Idle /\ reg = Null
    /\ reg' \in Named
                  \cup (UNION {Edges(b, {"upvalue"}) : b \in Captured})
                  \cup {chunkTv[s] : s \in IF frames = <<>> THEN TvSlot ELSE {}}
    /\ UNCHANGED <<heap, chunk, chunkTv, frames, unrooted, pend>> /\ Quiet

\* t[i], t.k: an element of a local table as an expression.
EvalElem ==
    /\ Idle /\ reg = Null
    /\ \E s \in LocalSlot :
         /\ Locals[s] \in Alloc
         /\ kind[Locals[s]] = "table"
         /\ reg' \in Edges(Locals[s], {"array", "hash_value"})
    /\ UNCHANGED <<heap, chunk, chunkTv, frames, unrooted, pend>> /\ Quiet

\* local = <register>; a nil register clears the local.
AssignLocal ==
    /\ Statement
    /\ \E s \in LocalSlot :
         /\ ~(s = prog.pinned /\ chunk[s] # Null)
         /\ IF frames = <<>>
            THEN chunk' = [chunk EXCEPT ![s] = reg] /\ UNCHANGED frames
            ELSE frames' = [frames EXCEPT ![1][s] = reg] /\ UNCHANGED chunk
    /\ reg' = Null
    /\ UNCHANGED <<heap, chunkTv, unrooted, pend>> /\ Quiet

\* A TaggedValue chunk local: holds whatever the expression yields.
AssignTv ==
    /\ "tagged" \in prog.uses
    /\ Statement /\ frames = <<>>
    /\ reg # Null => \/ kind[reg] = "string"
                     \/ "tvtable" \in prog.uses /\ kind[reg] = "table"
    /\ \E s \in TvSlot : chunkTv' = [chunkTv EXCEPT ![s] = reg]
    /\ reg' = Null
    /\ UNCHANGED <<heap, chunk, frames, unrooted, pend>> /\ Quiet

Storable(v) == kind[v] \in {"string", "table"}
BufOf(f) == IF f = "array" THEN "array_buf" ELSE "hash_buf"
StoreOp(t, f) == [op |-> "store", t |-> t, f |-> f]

\* The key of a hash store: a literal (not tracked) or a string in a local.
Keys(f) == {Null} \cup
    (IF f = "hash_value" /\ "hash_key" \in prog.uses
     THEN {o \in Alloc : kind[o] = "string" /\ \E s \in LocalSlot : Locals[s] = o}
     ELSE {})

\* t[i] = v, t.k = v.  The buffer is allocated or grown first (the old one
\* is left to the collector), then the element is written, over an old one
\* or beside it.
StoreElem(t, f) ==
    /\ f \in prog.uses
    /\ Proceed(StoreOp(t, f))
    /\ t \in Alloc /\ kind[t] = "table"
    /\ reg \in Obj
    /\ pend = NoOp => Storable(reg)
    /\ pend' = NoOp
    /\ \E old \in {{}} \cup {{e} : e \in {x \in ref[t] : x[1] = f}}, k \in Keys(f) :
         LET edges == (ref[t] \ old) \cup {<<f, reg>>}
                       \cup (IF k = Null THEN {} ELSE {<<"hash_key", k>>})
         IN
         \/ /\ pend = NoOp /\ Edges(t, {BufOf(f)}) # {}
            /\ ref' = [ref EXCEPT ![t] = edges]
            /\ UNCHANGED <<g_gc_head, kind, mode>>
         \/ \E b \in Obj :
              /\ kind[b] = "free"
              /\ g_gc_head' = <<b>> \o g_gc_head
              /\ kind' = [kind EXCEPT ![b] = "buf"]
              /\ ref' = [ref EXCEPT
                           ![t] = {e \in edges : e[1] # BufOf(f)} \cup {<<BufOf(f), b>>},
                           ![b] = {}]
              /\ mode' = mode \ {b}
    /\ reg' = Null
    /\ UNCHANGED <<chunk, chunkTv, frames, unrooted>> /\ Quiet

\* The allocation of a store triggers a collection: the value being stored
\* is in a register, the table in a local or an operand.
StoreTriggers(t, f) ==
    /\ f \in prog.uses
    /\ Idle
    /\ t \in Alloc /\ kind[t] = "table"
    /\ reg \in Alloc /\ Storable(reg)
    /\ AutoTrigger(StoreOp(t, f))

\* t[i] = nil, or the tombstone of t.k = nil, which drops the key as well.
\* Which key goes with which value is not recorded.
EraseElem(t) ==
    /\ Statement /\ reg = Null
    /\ \E e \in ref[t], K \in SUBSET Edges(t, {"hash_key"}) :
         /\ e[1] \in {"array", "hash_value"}
         /\ e[1] = "array" => K = {}
         /\ ref' = [ref EXCEPT ![t] = @ \ ({e} \cup ({"hash_key"} \X K))]
    /\ UNCHANGED <<g_gc_head, kind, mode, program>> /\ Quiet

\* setmetatable(t, m): any earlier metatable is replaced.  m.__mode = "v" is
\* the assignment SetMode.
SetMetatable(t) ==
    /\ "metatable" \in prog.uses
    /\ Idle
    /\ reg \in Alloc /\ kind[reg] = "table"
    /\ "anonymous_metatable" \in prog.uses \/ (prog.pinned # Null /\ chunk[prog.pinned] = reg)
    /\ ref' = [ref EXCEPT ![t] = {e \in @ : e[1] # "metatable"} \cup {<<"metatable", reg>>}]
    /\ reg' = Null
    /\ UNCHANGED <<g_gc_head, kind, mode, chunk, chunkTv, frames, unrooted, pend>> /\ Quiet

SetMode(t) ==
    /\ "weak" \in prog.uses
    /\ Statement
    /\ mode' = mode \cup {t}
    /\ UNCHANGED <<g_gc_head, kind, ref, program>> /\ Quiet

\* A FunctionRef over the captured parameter: a cell that points at its box.
EvalClosure(c) ==
    /\ Idle /\ reg = Null
    /\ \E b \in Captured : Fresh(c, "cell", {<<"upvalue_box", b>>})
    /\ reg' = c
    /\ UNCHANGED <<chunk, chunkTv, frames, unrooted, pend>> /\ Quiet

\* An operand is evaluated and waits for the next one: for the argument
\* beside it, the right side of `..`, the element of a constructor.
Hold ==
    /\ "operand" \in prog.uses
    /\ Idle /\ reg # Null /\ Waiting = Null
    /\ operands' = [operands EXCEPT ![1] = reg]
    /\ reg' = Null
    /\ UNCHANGED <<heap, chunk, chunkTv, frames, fn_params, boxes, pend>> /\ Quiet

\* Both operands are there: the operation yields one of them, or neither.
Combine ==
    /\ Idle /\ Waiting # Null
    /\ operands' = [operands EXCEPT ![1] = Null]
    /\ reg' \in {Null, reg, Waiting}
    /\ UNCHANGED <<heap, chunk, chunkTv, frames, fn_params, boxes, pend>> /\ Quiet

\* What a call finds evaluated, closures (of Function kind) or not.
Arguments(closure) == {v \in {reg, Waiting} \ {Null} : (kind[v] = "cell") = closure}

\* The entry of a user function: depth + 1 and, when frame safe, a frame node
\* whose slots are null; strings and tables are then stored in parameter
\* slots.  A closure stays the block argument it came as, a captured
\* parameter is a box b, and no frame node has either.  An operand that is
\* no argument waits in the caller.
Enter(b) ==
    /\ Idle /\ Len(frames) < prog.depth
    /\ Captured # {} => "capturing_body" \in prog.uses
    /\ \E slots \in [FrameSlot -> {Null} \cup Arguments(FALSE)],
         p \in {Null} \cup Arguments(TRUE), w \in {Null, Waiting} :
         /\ p \notin Named \cup {Null} => "closure_argument" \in prog.uses
         /\ w # Null => "call_operand" \in prog.uses
         /\ frames' = <<slots>> \o frames
         /\ fn_params' = <<p>> \o fn_params
         /\ operands' = <<Null>> \o [operands EXCEPT ![1] = w]
    /\ boxes' = <<b>> \o boxes
    /\ reg' = Null
    /\ UNCHANGED <<chunk, chunkTv, pend>> /\ Quiet

Call == Enter(Null) /\ UNCHANGED heap

\* A call of a function that captures a parameter: the entry allocates its
\* box.  A reference is only captured when the program captures strings or
\* tables.
CallCapturing(b) ==
    /\ "closure" \in prog.uses
    /\ \E v \in {Null} \cup Arguments(FALSE) :
         /\ v # Null => "upvalue" \in prog.uses /\ Storable(v)
         /\ Fresh(b, "box", IF v = Null THEN {} ELSE {<<"upvalue", v>>})
    /\ Enter(b)

\* Its return: the frame is popped, the result is in the register.
Return ==
    /\ Statement /\ frames # <<>>
    /\ frames' = Tail(frames)
    /\ fn_params' = Tail(fn_params)
    /\ operands' = Tail(operands)
    /\ boxes' = Tail(boxes)
    /\ UNCHANGED <<heap, chunk, chunkTv, reg, pend>> /\ Quiet

\* malloc returns null: s_gc_oom is printed and the program exits.
OutOfMemory ==
    /\ pc = "run" /\ pend # NoOp /\ Alloc = Obj
    /\ pc' = "exit"
    /\ UNCHANGED <<heap, program, black, pass, at, kept>>

LocalTable == {Locals[s] : s \in LocalSlot} \cap {o \in Alloc : kind[o] = "table"}

\* The table of an element a constructor stores, the one setmetatable({}, m)
\* is about: an operand.
OperandTable == {Waiting} \cap {o \in Alloc : kind[o] = "table"}

Mutate ==
    \/ \E o \in Obj : EvalString(o) \/ EvalTable(o) \/ EvalClosure(o) \/ CallCapturing(o)
    \/ EvalLocal \/ EvalElem \/ AssignLocal \/ AssignTv
    \/ \E t \in LocalTable \cup OperandTable :
         \/ \E f \in {"array", "hash_value"} : StoreElem(t, f) \/ StoreTriggers(t, f)
         \/ SetMetatable(t)
    \/ \E t \in LocalTable : EraseElem(t) \/ SetMode(t)
    \/ Hold \/ Combine \/ Call \/ Return \/ OutOfMemory

CollectorStep ==
    \/ ScanChunkRoots \/ WalkFrameChain
    \/ VisitTable \/ EndTableWalk \/ VisitCell \/ EndPass
    \/ WeakClear \/ SweepKeep \/ SweepFree \/ EndSweep

Init ==
    /\ prog \in Program
    /\ g_gc_head = <<>>
    /\ kind = [o \in Obj |-> "free"]
    /\ ref = [o \in Obj |-> {}]
    /\ mode = {}
    /\ chunk = [s \in ChunkSlot |-> Null]
    /\ chunkTv = [s \in TvSlot |-> Null]
    /\ frames = <<>>
    /\ reg = Null
    /\ operands = <<Null>>
    /\ fn_params = <<>>
    /\ boxes = <<>>
    /\ pend = NoOp
    /\ black = {}
    /\ pc = "run"
    /\ pass = 0
    /\ at = 1
    /\ kept = {}

Next == (Mutate \/ Collect \/ CollectorStep) /\ UNCHANGED prog

Spec == Init /\ [][Next]_vars

-----------------------------------------------------------------------------
(* Properties.                                                             *)

Edge == Field \X Obj

\* Types of the variables; a tracked object is allocated.
TypeOK ==
    /\ prog \in Program
    /\ g_gc_head \in Seq(Obj)
    /\ kind \in [Obj -> Kind \cup {"free"}]
    /\ ref \in [Obj -> SUBSET Edge]
    /\ mode \subseteq Obj
    /\ chunk \in [ChunkSlot -> Ptr]
    /\ chunkTv \in [TvSlot -> Ptr]
    /\ frames \in Seq([FrameSlot -> Ptr])
    /\ reg \in Ptr
    /\ operands \in Seq(Ptr) /\ Len(operands) = Len(frames) + 1
    /\ fn_params \in Seq(Ptr) /\ Len(fn_params) = Len(frames)
    /\ boxes \in Seq(Ptr) /\ Len(boxes) = Len(frames)
    /\ black \subseteq Obj
    /\ pc \in {"run", "roots", "frames", "tables", "cells", "weak", "sweep", "exit"}
    /\ pass \in Nat /\ pass <= Passes
    /\ at \in Nat \ {0}
    /\ kept \subseteq Obj

\* No object that the marker can reach from a registered root in at most
\* Passes edges is freed (emit_gc_mark_table_array_propagation: the fixed
\* number of passes is a ceiling on depth, whatever the list order).
MarkCovers == kept \subseteq Alloc

\* What the roots reach: the objects in every set closed under Kids that
\* holds the roots.
Closed(S) == Roots \subseteq S /\ \A o \in S : Kids(o) \subseteq S
Reachable == {o \in Tracked : \A S \in SUBSET Tracked : Closed(S) => o \in S}

\* Outside the depth guard the marker blackens nothing the roots do not
\* reach: what a collection keeps is not floating garbage.
MarkPrecise == pc = "weak" /\ ~DepthGuard => black \subseteq Reachable

\* The programs the collector is sound for.  The others use a construct the
\* marker does not follow; the last section has a property for one of them.
\* A weak table's entries are not marked, and only its hash values that are
\* tables are cleared: its strings and its array elements are left behind.
\* What only a register holds must not be needed after a collection: neither
\* one that is the next operand nor, where no depth guard is, one in a callee.
Supported ==
    \/ ~prog.chunk_safe
    \/ /\ prog.uses \cap {"anonymous_metatable", "upvalue", "tvtable", "auto",
                         "collect_operand"} = {}
       /\ prog.frame_safe =>
             prog.uses \cap {"call_operand", "closure_argument", "capturing_body"} = {}
       /\ ~("weak" \in prog.uses /\ {"string", "array"} \cap prog.uses # {})

\* Whatever a running program can load is allocated: no local, register of an
\* activation or object field points at memory the sweep freed.
NoDangling ==
    pc = "run" /\ Supported =>
      /\ \A s \in ChunkSlot : chunk[s] \in Alloc \cup {Null}
      /\ \A s \in TvSlot : chunkTv[s] \in Alloc \cup {Null}
      /\ \A i \in DOMAIN frames : \A s \in FrameSlot : frames[i][s] \in Alloc \cup {Null}
      /\ reg \in Alloc \cup {Null}
      /\ \A i \in DOMAIN operands : operands[i] \in Alloc \cup {Null}
      /\ \A i \in DOMAIN fn_params : fn_params[i] \in Alloc \cup {Null}
      /\ \A i \in DOMAIN boxes : boxes[i] \in Alloc \cup {Null}
      /\ \A o \in Alloc : Edges(o, Field) \subseteq Alloc

\* The finalizer dispatch of the free walk loads mt["__gc"] of every WHITE
\* table it is about to free: that metatable has not been freed before it.
FinalizerProbesLive ==
    pc = "sweep" /\ at <= Len(g_gc_head) /\ g_gc_head[at] \notin black =>
        Edges(g_gc_head[at], {"metatable"}) \subseteq Alloc

\* A weak table gives up an entry only when nothing else holds the value.
WeakKeepsHeld ==
    [][pc = "weak" => \A o \in black : \A e \in ref[o] \ ref'[o] :
          /\ e[1] = "hash_value" /\ IsWeak(o)
          /\ e[2] \notin Reachable]_vars

-----------------------------------------------------------------------------
(* The inductive invariant behind MarkCovers: after n passes everything    *)
(* within n edges of a root is BLACK, and within a pass every table (then  *)
(* closure) the walk is past has had its children marked.                  *)

KeepSet == IF DepthGuard THEN Tracked ELSE Within(Passes)

\* The list holds every allocated object, once.
ListInv ==
    /\ Tracked = Alloc
    /\ \A i, j \in DOMAIN g_gc_head : g_gc_head[i] = g_gc_head[j] => i = j

\* Tables (closures) of the list before position n have marked children.
TablesDone(n) ==
    \A i \in DOMAIN g_gc_head :
        i < n /\ g_gc_head[i] \in Within(pass)
            => TableKids(g_gc_head[i]) \cap Tracked \subseteq black
CellsDone(n) ==
    \A i \in DOMAIN g_gc_head :
        i < n /\ g_gc_head[i] \in Within(pass)
            => CellKids(g_gc_head[i]) \cap Tracked \subseteq black

MarkInv ==
    /\ pc \in {"run", "exit"} => kept = {}
    /\ pc \in {"roots", "frames", "tables", "cells"} => kept = KeepSet
    /\ pc \in {"frames", "tables", "cells"} => ~DepthGuard
    /\ pc = "frames" => ChunkRoots \subseteq black
    /\ pc \in {"tables", "cells"} => pass < Passes /\ Within(pass) \subseteq black
    /\ pc = "tables" => TablesDone(at)
    /\ pc = "cells" => TablesDone(Len(g_gc_head) + 1) /\ CellsDone(at)
    /\ pc = "weak" => kept \subseteq black
    /\ pc = "sweep" =>
          \A o \in kept : o \in black \/ \E i \in DOMAIN g_gc_head : i < at /\ g_gc_head[i] = o

GcInv == TypeOK /\ ListInv /\ MarkInv /\ MarkCovers

-----------------------------------------------------------------------------
(* What the documents of the repository say of every program, checked on   *)
(* the smallest fragment where it bites.                                   *)

\* ADR 0256: a string or table held only as a closure upvalue stays alive.
UpvaluesStayAlive ==
    pc = "run" => \A o \in Alloc : kind[o] = "box" => Edges(o, {"upvalue"}) \subseteq Alloc
=============================================================================
