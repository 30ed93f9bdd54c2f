------------------------------ MODULE GcSweep ------------------------------
(***************************************************************************)
(* The allocation list of a compiled Lua program, pointer by pointer:      *)
(* gc_alloc pushes on it, the free walk of @gc_sweep unlinks from it while *)
(* the finalizers (__gc) of the objects it frees run as user code          *)
(* (src/codegen/primitive.rs, src/codegen/emit.rs).                        *)
(*                                                                         *)
(* The object graph is the business of GcHeap: here the program holds a    *)
(* set of objects and the marker blackens the ones it finds on the list.   *)
(* What finalizers do is fixed for a program: "alloc", they allocate,      *)
(* without reaching the threshold unless "collect"; "collect", they call   *)
(* collectgarbage(); "raise", they fail.                                   *)
(***************************************************************************)
EXTENDS Integers, Sequences, FiniteSets, FiniteSetsExt, Functions

CONSTANTS
    Obj,             \* addresses malloc can return
    Null,            \* the null pointer
    Size,            \* sizes of allocations, GC header included
    ThresholdInit,   \* GC_THRESHOLD_INIT
    ThresholdCap,    \* GC_THRESHOLD_CAP
    Pauses,          \* percentages given to collectgarbage("setpause", n)
    PauseInit,       \* GC_PAUSE_INIT
    Finalizer,       \* what finalizers do, for each program considered
    MaxDepth         \* bound: collections inside collections

ASSUME GcSweepAssumption ==
    /\ Null \notin Obj /\ IsFiniteSet(Obj)
    /\ Size \subseteq Nat \ {0}
    /\ ThresholdInit \in Nat /\ ThresholdCap \in Nat /\ ThresholdInit <= ThresholdCap
    /\ Pauses \subseteq Nat /\ PauseInit \in Nat
    /\ Finalizer \subseteq SUBSET {"alloc", "collect", "raise"}
    /\ MaxDepth \in Nat \ {0}

Ptr == Obj \cup {Null}

VARIABLES
    finalizer,          \* what the finalizers of this program do
    g_gc_head,
    next,               \* word 1 of the header; Null when not allocated
    black,              \* objects whose mark byte is GC_MARK_BLACK
    size,               \* header and payload; 0 when not allocated
    gc_field,           \* tables whose metatable has a function __gc
    g_gc_total_bytes,
    g_gc_threshold,
    g_gc_pause,
    held,               \* objects the program can reach
    sweeps,             \* activations of @gc_sweep, oldest first
    pc,                 \* "run", "exit", or "undefined" after a use of freed memory
    doomed,             \* history: WHITE when a collection began, not freed yet
    ran,                \* history: allocated objects whose finalizer was called
    abandoned           \* history: an error left the last collection

list == <<g_gc_head, next, black, size, gc_field>>
tuning == <<g_gc_total_bytes, g_gc_threshold, g_gc_pause>>
history == <<doomed, ran, abandoned>>
vars == <<finalizer, list, tuning, held, sweeps, pc, history>>

Mem == {o \in Obj : size[o] # 0}

\* The n-th pointer of the list, and the objects a walk from the head meets.
Nth[n \in 0 .. Cardinality(Obj)] ==
    IF n = 0 THEN g_gc_head ELSE IF Nth[n - 1] = Null THEN Null ELSE next[Nth[n - 1]]
Tracked == {Nth[n] : n \in 0 .. Cardinality(Obj)} \ {Null}

\* An activation of @gc_sweep.  nxt is loaded before the finalizer runs.
\* pending: the allocation that triggered the collection, 0 for a call of
\* collectgarbage().
Sweep(pending) ==
    [at |-> "walk", prev |-> Null, cur |-> g_gc_head, nxt |-> Null, pending |-> pending]

Activation ==
    [at : {"walk", "finalizer"}, prev : Ptr, cur : Ptr, nxt : Ptr, pending : Size \cup {0}]

Top == sweeps[Len(sweeps)]
Pop == SubSeq(sweeps, 1, Len(sweeps) - 1)
Walking == pc = "run" /\ sweeps # <<>> /\ Top.at = "walk"
InFinalizer == pc = "run" /\ sweeps # <<>> /\ Top.at = "finalizer"
InCode(what) ==
    \/ pc = "run" /\ sweeps = <<>>
    \/ InFinalizer /\ what \in finalizer

-----------------------------------------------------------------------------
(* Allocation and the start of a collection.                               *)

\* Faulty: the size of the payload alone is accounted.
PushPayload(o, n) ==
    /\ g_gc_head' = o
    /\ next' = [next EXCEPT ![o] = g_gc_head]
    /\ black' = black \ {o}
    /\ size' = [size EXCEPT ![o] = n]
    /\ g_gc_total_bytes' = g_gc_total_bytes + (n - 1)
    /\ held' = held \cup {o}
    /\ gc_field' \in {gc_field \ {o}, gc_field \cup {o}}

\* A fresh WHITE header in front of the list.  Whether the object becomes a
\* table with a finalizer is settled here.
Push(o, n) ==
    /\ g_gc_head' = o
    /\ next' = [next EXCEPT ![o] = g_gc_head]
    /\ black' = black \ {o}
    /\ size' = [size EXCEPT ![o] = n]
    /\ g_gc_total_bytes' = g_gc_total_bytes + n
    /\ held' = held \cup {o}
    /\ gc_field' \in {gc_field \ {o}, gc_field \cup {o}}

Crosses(n) == g_gc_total_bytes + n >= g_gc_threshold

\* gc_alloc below the threshold.
Allocate(o, n) ==
    /\ InCode("alloc") /\ ~Crosses(n)
    /\ o \notin Mem
    /\ Push(o, n)
    /\ UNCHANGED <<finalizer, g_gc_threshold, g_gc_pause, sweeps, pc, history>>

\* Faulty: @gc_mark is not called.
BeginUnmarked(pending) ==
    /\ Len(sweeps) < MaxDepth
    /\ sweeps' = Append(sweeps, Sweep(pending))
    /\ doomed' = IF sweeps = <<>> THEN Tracked \ black ELSE {}
    /\ abandoned' = FALSE
    /\ UNCHANGED <<finalizer, list, tuning, held, pc, ran>>

\* @gc_mark; then @gc_sweep starts at the head.
Begin(pending) ==
    /\ Len(sweeps) < MaxDepth
    /\ black' = black \cup (held \cap Tracked)
    /\ sweeps' = Append(sweeps, Sweep(pending))
    /\ doomed' = IF sweeps = <<>> THEN Tracked \ black' ELSE {}
    /\ abandoned' = FALSE
    /\ UNCHANGED <<finalizer, g_gc_head, next, size, gc_field, tuning, held, pc, ran>>

\* collectgarbage().
Collect == InCode("collect") /\ Begin(0)

\* An allocation that would reach the threshold collects first.
Trigger(n) == InCode("alloc") /\ InCode("collect") /\ Crosses(n) /\ Begin(n)

\* collectgarbage("setpause", p).
SetPause(p) ==
    /\ pc = "run" /\ sweeps = <<>>
    /\ g_gc_pause' = p
    /\ UNCHANGED <<finalizer, list, g_gc_total_bytes, g_gc_threshold, held, sweeps, pc, history>>

\* The program lets go of an object.
Drop(o) ==
    /\ pc = "run" /\ (sweeps = <<>> \/ InFinalizer)
    /\ o \in held
    /\ held' = held \ {o}
    /\ UNCHANGED <<finalizer, list, tuning, sweeps, pc, history>>

-----------------------------------------------------------------------------
(* The free walk.                                                          *)

\* Faulty: the mark is left for the next collection.
KeepMarked ==
    /\ Walking /\ Top.cur \in Mem \cap black
    /\ sweeps' = Append(Pop, [Top EXCEPT !.prev = Top.cur, !.cur = next[Top.cur]])
    /\ UNCHANGED <<finalizer, list, tuning, held, pc, history>>

\* A BLACK object is whitened and becomes prev.
Keep ==
    /\ Walking /\ Top.cur \in Mem \cap black
    /\ black' = black \ {Top.cur}
    /\ sweeps' = Append(Pop, [Top EXCEPT !.prev = Top.cur, !.cur = next[Top.cur]])
    /\ UNCHANGED <<finalizer, g_gc_head, next, size, gc_field, tuning, held, pc, history>>

\* next is loaded, and the finalizer of a WHITE table is called.
Finalize ==
    /\ Walking /\ Top.cur \in (Mem \cap gc_field) \ black
    /\ sweeps' = Append(Pop, [Top EXCEPT !.at = "finalizer", !.nxt = next[Top.cur]])
    /\ ran' = ran \cup {Top.cur}
    /\ UNCHANGED <<finalizer, list, tuning, held, pc, doomed, abandoned>>

\* Faulty: the head is taken for the predecessor.
ReleaseAtHead(nxt) ==
    LET o == Top.cur
    IN  /\ g_gc_total_bytes' = g_gc_total_bytes - size[o]
        /\ g_gc_head' = nxt
        /\ next' = [next EXCEPT ![o] = Null]
        /\ size' = [size EXCEPT ![o] = 0]
        /\ gc_field' = gc_field \ {o}
        /\ sweeps' = Append(Pop, [Top EXCEPT !.at = "walk", !.cur = nxt])
        /\ doomed' = doomed \ {o} /\ ran' = ran \ {o}

\* Faulty: the total is not decremented.
ReleaseUncounted(nxt) ==
    LET o == Top.cur
    IN  /\ UNCHANGED g_gc_total_bytes
        /\ IF Top.prev = Null
           THEN g_gc_head' = nxt /\ next' = [next EXCEPT ![o] = Null]
           ELSE next' = [next EXCEPT ![Top.prev] = nxt, ![o] = Null] /\ UNCHANGED g_gc_head
        /\ size' = [size EXCEPT ![o] = 0]
        /\ gc_field' = gc_field \ {o}
        /\ sweeps' = Append(Pop, [Top EXCEPT !.at = "walk", !.cur = nxt])
        /\ doomed' = doomed \ {o} /\ ran' = ran \ {o}

\* The total is decremented, the object unlinked and freed.
Release(nxt) ==
    LET o == Top.cur
    IN  /\ g_gc_total_bytes' = g_gc_total_bytes - size[o]
        /\ IF Top.prev = Null
           THEN g_gc_head' = nxt /\ next' = [next EXCEPT ![o] = Null]
           ELSE next' = [next EXCEPT ![Top.prev] = nxt, ![o] = Null] /\ UNCHANGED g_gc_head
        /\ size' = [size EXCEPT ![o] = 0]
        /\ gc_field' = gc_field \ {o}
        /\ sweeps' = Append(Pop, [Top EXCEPT !.at = "walk", !.cur = nxt])
        /\ doomed' = doomed \ {o} /\ ran' = ran \ {o}

Sound(p) == p \in Mem \cup {Null}

\* A WHITE object without a finalizer.
Free ==
    /\ Walking /\ Top.cur \in Mem \ (black \cup gc_field) /\ Sound(Top.prev)
    /\ Release(next[Top.cur])
    /\ UNCHANGED <<finalizer, black, g_gc_threshold, g_gc_pause, held, pc, abandoned>>

\* Faulty: the object waits for the next collection.
FinalizerReturnsKeeping ==
    /\ InFinalizer /\ Top.cur \in Mem /\ Sound(Top.prev)
    /\ sweeps' = Append(Pop, [Top EXCEPT !.at = "walk", !.prev = Top.cur, !.cur = Top.nxt])
    /\ UNCHANGED <<finalizer, list, tuning, held, pc, history>>

\* The finalizer returned: its object is freed, whatever the finalizer did.
FinalizerReturns ==
    /\ InFinalizer /\ Top.cur \in Mem /\ Sound(Top.prev)
    /\ Release(Top.nxt)
    /\ UNCHANGED <<finalizer, black, g_gc_threshold, g_gc_pause, held, pc, abandoned>>

\* An error leaves the finalizer and @gc_sweep by longjmp, back to a pcall
\* of the program (k = 0) or of the finalizer of an outer collection.
Raise(k) ==
    /\ InFinalizer /\ "raise" \in finalizer
    /\ sweeps' = SubSeq(sweeps, 1, k)
    /\ abandoned' = TRUE
    /\ doomed' = {} /\ ran' = {}
    /\ UNCHANGED <<finalizer, list, tuning, held, pc>>

\* The walk goes through memory that a nested collection freed.
UseAfterFree ==
    /\ pc = "run" /\ sweeps # <<>>
    /\ \/ Top.cur \in Obj \ Mem
       \/ Top.cur \in Obj \ black /\ ~Sound(Top.prev)
    /\ Walking \/ InFinalizer
    /\ pc' = "undefined"
    /\ UNCHANGED <<finalizer, list, tuning, held, sweeps, history>>

EndCollect ==
    /\ Walking /\ Top.cur = Null /\ Top.pending = 0
    /\ sweeps' = Pop
    /\ UNCHANGED <<finalizer, list, tuning, held, pc, history>>

\* What the pause makes of the surviving bytes.
Scaled == (g_gc_total_bytes * g_gc_pause) \div 100

\* Faulty: an allocation that still crosses the threshold collects again.
EndTriggerRetries(o) ==
    /\ Walking /\ Top.cur = Null /\ Top.pending # 0
    /\ o \notin Mem
    /\ IF Crosses(Top.pending)
       THEN /\ black' = black \cup (held \cap Tracked)
            /\ sweeps' = Append(Pop, Sweep(Top.pending))
            /\ doomed' = Tracked \ black'
            /\ UNCHANGED <<g_gc_head, next, size, gc_field, g_gc_total_bytes, held>>
       ELSE /\ Push(o, Top.pending)
            /\ sweeps' = Pop
            /\ UNCHANGED doomed
    /\ UNCHANGED <<finalizer, g_gc_threshold, g_gc_pause, pc, ran, abandoned>>

\* The threshold follows the surviving bytes, up or not at all, and the
\* allocation that waited takes place.
EndTrigger(o) ==
    /\ Walking /\ Top.cur = Null /\ Top.pending # 0
    /\ g_gc_threshold' = IF Scaled > g_gc_threshold THEN Min({Scaled, ThresholdCap})
                                                    ELSE g_gc_threshold
    /\ o \notin Mem
    /\ Push(o, Top.pending)
    /\ sweeps' = Pop
    /\ UNCHANGED <<finalizer, g_gc_pause, pc, history>>

\* malloc returns null: the program prints s_gc_oom and exits.
OutOfMemory ==
    /\ Mem = Obj
    /\ \/ InCode("alloc") /\ \E n \in Size : ~Crosses(n)
       \/ Walking /\ Top.cur = Null /\ Top.pending # 0
    /\ pc' = "exit"
    /\ UNCHANGED <<finalizer, list, tuning, held, sweeps, history>>

Init ==
    /\ finalizer \in Finalizer
    /\ g_gc_head = Null
    /\ next = [o \in Obj |-> Null]
    /\ black = {} /\ gc_field = {}
    /\ size = [o \in Obj |-> 0]
    /\ g_gc_total_bytes = 0
    /\ g_gc_threshold = ThresholdInit
    /\ g_gc_pause = PauseInit
    /\ held = {}
    /\ sweeps = <<>>
    /\ pc = "run"
    /\ doomed = {} /\ ran = {} /\ abandoned = FALSE

SweepStep ==
    \/ Keep \/ Finalize \/ Free \/ FinalizerReturns \/ UseAfterFree
    \/ EndCollect \/ (\E o \in Obj : EndTrigger(o)) \/ OutOfMemory

Next ==
    \/ \E o \in Obj, n \in Size : Allocate(o, n)
    \/ Collect \/ (\E n \in Size : Trigger(n))
    \/ \E p \in Pauses : SetPause(p)
    \/ \E o \in Obj : Drop(o)
    \/ \E k \in 0 .. Len(sweeps) - 1 : Raise(k)
    \/ SweepStep

\* The walk is straight-line code and a finalizer returns if it does not
\* raise: a collection under way takes its steps.
FairSpec == Init /\ [][Next]_vars /\ WF_vars(SweepStep)

-----------------------------------------------------------------------------
(* Properties.  A collection inside a finalizer is the foot-gun ADR 0259   *)
(* names; the other programs are orderly.                                  *)

Orderly == "collect" \notin finalizer

\* Types of the variables.
TypeOK ==
    /\ finalizer \in Finalizer
    /\ g_gc_head \in Ptr /\ next \in [Obj -> Ptr]
    /\ black \subseteq Obj /\ gc_field \subseteq Obj /\ held \subseteq Obj
    /\ size \in [Obj -> Size \cup {0}]
    /\ g_gc_total_bytes \in Nat /\ g_gc_threshold \in Nat /\ g_gc_pause \in Nat
    /\ sweeps \in Seq(Activation)
    /\ pc \in {"run", "exit", "undefined"}

\* The list ends, never leads into freed memory and holds every allocated
\* object; finalizers that allocate are the exception: what one pushes while
\* prev is null is cut off with the object it was called for.
ListIsHeap ==
    Orderly =>
        /\ Nth[Cardinality(Obj)] = Null
        /\ Tracked \subseteq Mem
        /\ "alloc" \notin finalizer => Mem \subseteq Tracked

\* The sizes of the objects of S together.
Bytes(sizes, S) == SumFunctionOnSet(sizes, S)

\* g_gc_total_bytes, which collectgarbage("count") reports and the trigger
\* compares, is what malloc has handed out and free has not taken back, up to
\* the first use of freed memory if finalizers collect.
BytesAreAccounted == g_gc_total_bytes = Bytes(size, Mem)

\* No collection frees what the program holds, after errors that abandoned
\* an earlier one half-way too.
HeldIsAllocated == Orderly => held \subseteq Mem

\* A collection that was not abandoned leaves no mark
\* behind and has freed everything that was WHITE when it began.
SweepIsComplete == Orderly /\ sweeps = <<>> /\ ~abandoned => black = {} /\ doomed = {}

\* A finalizer is not called again for an object it has been called for,
\* unless it raised an error.
FinalizedOnce ==
    [][Orderly /\ InFinalizer' /\ ~InFinalizer => sweeps'[Len(sweeps')].cur \notin ran]_vars

\* A collection ends, with finalizers that allocate too: the walk does not
\* follow the part of the list they extend.
CollectionsEnd == (sweeps # <<>> /\ Orderly) ~> (sweeps = <<>> \/ pc # "run")
=============================================================================
