# LuMeLIR: a TLA+ model of the compiled program's runtime

LuMeLIR compiles Lua to native code through MLIR. The compiler is a sequential
batch program; what is hard to get right, and hard to test, is the code it
*emits*: a garbage collector with precise roots, protected calls over
`setjmp`/`longjmp`, tables with open addressing, callbacks from the middle
of all three, jumps out of structured regions that cannot be left early, and
expressions whose operands call functions, some of them read ahead of the rest.
These modules model that emitted code, from the functions of `src/codegen/` and
`src/hir/` that generate it, and the runtime of `bridge_runtime.rs` it links.
Paths below are relative to the repository.

## Inventory

| Component | Source | State | Operations | Interacts with |
|---|---|---|---|---|
| GC marking | `codegen/emit.rs` 24762–26916, 3203–3411, 2858–2984 | object graph, chunk root tables, frame-root chain, mark bytes | root scan, frame walk, 8 propagation passes, weak clearing, depth guard | every operation that stores a pointer; allocation starts it |
| GC list and sweep | `codegen/primitive.rs` 367–720, `emit.rs` 26919–27186, 19877–20061 | `g_gc_head` list, byte total, threshold, pause | `gc_alloc`, trigger, free walk, finalizers, `collectgarbage` | finalizers are user code that allocates, fails, collects |
| Errors | `emit.rs` 1663–1785, 6633–6821, 11669–11919, 3413–3503 | `g_jmpbuf`, `g_error_value`, `g_gc_fn_depth`, `g_frame_root_head` | `error`, `pcall`, uncaught errors, traps | calls and returns keep the depth and the chain the collector reads |
| Table storage | `emit.rs` 8219–10407, 17541–18063, 18757–19350, 5322–5480 | length, array buffer, hash buffer with tombstones | get, set, erase, grow, rehash, insert, remove | `__newindex` functions, value expressions, loops in progress |
| Traversal | `emit.rs` 3529–4391, `hir/mod.rs` 3574–3733 | the control variable of the loop | `next`, `pairs` | the table may change under it |
| Metamethods | `emit.rs` 7509–8055, 8390–8780, 18326–19350, 20279–22500 | the metatable of each table | `__index`/`__newindex` chains with a hop limit, arithmetic, comparison, `__call` | calls |
| Control flow, scope exit | `hir/mod.rs` 435–521, 2812–3020, 3140–4058, 4524–4612; `emit.rs` 20077–20278, 24176–24760 | break and return flags, result slots, loop variables, `<close>` locals | lowering to guards and flags; while, repeat, for, if, `CloseLocals` | errors skip it; calls read the result slots |
| Closures, calls | `codegen/closure.rs`, `callabi.rs`, `emit.rs` 2430–2857, 5934–6312 | cells, upvalue boxes, packed results | create, call, dispatch on candidates | GC |
| Tagged values | `codegen/tagged.rs` | 16-byte slots | load, store, compare | all |
| Expressions | `emit.rs` 4406–4692, 10482–11360, 15993–16178; `hir/mod.rs` 2170–2390, 3059–3082, 4796–5040, 6833–6916 | number subtypes, i64 slots, callees read ahead, operands in registers | folding, hoisting, the three arithmetics, short circuits | calls; metamethods |
| Strings, numbers | `emit.rs` 13511–14640, 16228–17481, 20752–22938 | none | the string library, concat, tostring, tonumber, compare | GC |
| Bridge runtime | `bridge_runtime.rs` | none | Lua patterns by backtracking, gsub, utf8 | called by the string library, which sizes its buffers |
| Coroutines | `runtime/coroutine.c` | a record per coroutine | create, status only | – |
| HIR lowering | `hir/mod.rs` | scopes, locals, kinds | name resolution, capture analysis, kind inference, desugaring | decides which marker and which slots the program gets |
| Parser, lexer | `parser/`, `lexer/` | position | pure functions | – |
| Driver | `cli/`, `pipeline.rs`, `codegen/lower.rs`, `link.rs` | files, subprocesses | compile, run, emit | two invocations share a file system |

What is hard in each of them is listed line by line under `hazards` in
`PROJECT.json`. The kinds that dominate: **user code that runs in the middle of a
runtime operation** (finalizers in the free walk, `__newindex` between probe and
commit, the value of `table.insert` between shift and store, any allocation
between two steps of an expression), **non-local exit** (an error abandons frames
that would have restored a global), and **long histories** (insert, erase, rehash,
iterate).
Behind them come **values read early and used late**: the length of a list, a callee,
a static kind or subtype.

What makes each component correct: the collector frees nothing the program can
still load, and keeps nothing it cannot, outside the depth guard; the allocation list is the heap and the byte total is its size;
an error reaches the innermost landing pad with its own value, and the globals
the collector reads are true of the stack afterwards; a table is a map and a
list, probes end, and a loop that leaves the buckets alone sees each entry once;
a lowered program does what the Lua program does, in its order, and ends when it does;
an access through metatables is answered where the chain of handlers leads, and
ends; a search in a string finds the leftmost, greediest match and goes on behind it;
an expression evaluates its operands once, from left to right, and what it computes
does not depend on how its numbers are stored.

## Modules

| Module | What it is |
|---|---|
| `GcHeap` | the object graph, the roots, the marker and the sweep; the program as a machine over its slots |
| `GcSweep` | the allocation list pointer by pointer, `gc_alloc`, thresholds, finalizers |
| `LuaProtectedCall` | abstract: activations, marks, an error cuts back to the innermost mark |
| `ProtectedCall` | one global `jmp_buf` with copies in frames; refines `LuaProtectedCall` |
| `LuaTable` | abstract: a map from keys to values and a list |
| `TableStore` | array part, hash part, callbacks, `pairs`; refines `LuaTable` |
| `LuaControl` | abstract: scopes entered and left, `break` and `return` leave several, a scope that is left closes what it opened |
| `ControlFlow` | the lowering to flags and guards, and a machine that runs its result; refines `LuaControl` |
| `LuaIndex` | abstract: an access is decided at the one table the handlers lead to |
| `MetaIndex` | the four unrolled walks over metatables; refines `LuaIndex` |
| `LuaStrings` | abstract: what each string function answers, patterns by the set of their matches |
| `StringLib`, `Strings` | the backtracking matcher and UTF-8 as operators; the builtins, `gsub`, `gmatch` and `table.concat` as steps; refines `LuaStrings` |
| `Syntax`, `Operators`, `Lowering` | expressions in postfix form; operators on doubles and on i64; what `lower_expr` and the passes behind it decide |
| `LuaExpressions` | abstract: a statement in one step |
| `Expressions` | the statements of a lowered chunk, operand by operand; refines `LuaExpressions` |
| `ProtectedCallProofs`, `GcHeapProofs`, `GcSweepProofs`, `TableStoreProofs`, `MetaIndexProofs`, `StringsProofs`, `ExpressionsProofs` | the theorems about each module, and their proofs |
| `NatLemmas` | facts about naturals, finite sets, sums and recursive functions that they share |
| `MC*` | instances for TLC |

### GcHeap

`ref` is the graph: a set of `<<field, object>>` edges for each object, where the
fields are the words the runtime stores pointers in. `chunk`, `chunkTv` and
`frames` are the slots the compiler gives the program (chunk locals by kind, one
node per active function). No table of roots names a register: `reg` is the value under
evaluation, and every activation has in `operands` the operand or argument that is
evaluated and waits for the next one, in `fn_params` a parameter of Function kind, which
stays the block argument it came as, and in `boxes` the upvalue box of a captured
parameter. A call leaves an operand waiting in the caller, and `collectgarbage()` may be
the next operand. `prog` is the compiled program: which features it uses, and the two
answers of the compile-time analysis (`chunk_safe_for_real_gc`,
`frame_safe_for_real_gc`) that select the marker.

The collector is a sequence of steps: root scan, frame walk, then for each pass
one step per object for the tables and one per object for the closures, the weak
clearing, and the free walk. It is stop-the-world: no program action is enabled
during one. `Passes` stands for the 8 of the code. `kept` is a history variable:
what the marker ought to keep, computed when the collection starts.

`Supported` names the programs the collector is sound for. It is not a wish: the
`heap_upvalue` run shows what happens outside of it for references captured by
closures. Also outside are metatables no local holds (`metatable_ptr` is not
followed, `emit.rs:26131`, although ADR 0159 lists it), strings in weak tables and
anything in their array part (neither marked nor cleared: `emit.rs:26539` does not mark
the elements of a weak table, `emit.rs:19605` clears only table values of hash buckets,
so ADR 0260's "all weak slots referencing WHITE objects are already cleared" does not
hold for them; it defers the array part), collections that an allocation starts inside an operation
whose operands are in registers (ADR 0160 reckons with `collectgarbage()` only),
and tables in TaggedValue locals. What only a register holds is outside where a
collection can meet it, and the model frees it there:

- `collectgarbage()` as an operand, with another one evaluated (`collect_operand`);
- in a frame-safe program, where no depth guard keeps everything inside a function: a
  string, table or closure that waits while a user function runs (`call_operand`:
  `tostring(1) .. f()`, `g(tostring(1), f())`), a closure as an argument that no variable
  of the caller holds (`closure_argument`: `g(make(1))`), and calls or collections in a
  function with a captured parameter (`capturing_body`: the box is in no root until a
  closure over it is).

All of these are inside where the guard is on, which the programs `Unframed` and `Unrooted`
of `heap_sound` exercise; operands beside which nothing runs are, everywhere (`operand`).

Left out: captured locals other than parameters (declared in a body or in the chunk; their
boxes are allocated at the entry and are in no root either until a closure is), function
values as elements, error values. A table constructor is an operand whose elements are
stored one by one. Which key goes with which value is not recorded: an
erased entry may drop any of the table's keys.

### GcSweep

The same free walk, seen from the list. `sweeps` is the stack of activations of
`@gc_sweep` with the registers it keeps across a finalizer (`prev`, `cur`,
`nxt`). The graph is abstracted to `held`, the set of objects the program can
reach, which the marker blackens. What finalizers do is a constant of the
program. `Orderly` programs do not collect inside a finalizer; ADR 0259 names
that a foot-gun, and the model has the use of freed memory it leads to as the
action `UseAfterFree`, after which nothing is promised. An error may leave a
sweep at any finalizer (`Raise`).

Finalizers that allocate are allowed and are the reason `ListIsHeap` has an
exception: with `prev` null the unlink stores `next` into the head, over the
object the finalizer has just pushed. That object is never freed. The list stays
sound, which is what the property says.

### ProtectedCall

`stack` is the machine stack, an activation per user function and per `pcall` in
progress. `g_jmpbuf` is the position of the activation that called `_setjmp`;
`pcall` copies it into its own activation, as the code copies the buffer into an
`alloca`, and copies it back on both paths. `landing` is the instant after
`_setjmp` returned nonzero. `Trap` is `emit_exit_with_message`, which no `pcall`
sees. The frame-root nodes are positions of the same stack: an abandoned node is a
position that is no longer there.

### TableStore

The array part is the slots `1 .. capacity` with `len`; a slot of a fresh buffer
is `Junk` until written. The hash part is a record of bucket arrays with `cap` and
`count`; `Probe` is the linear probe and is undefined (an endless loop in the
code) when no bucket stops it. An assignment does what the code does in that
order: ensure a buffer, grow it, probe, call `__newindex` if the key is new and
there is one, commit. `pending` holds the callbacks in progress with what the
code keeps in registers across them; the callback's own assignments are the same
actions, so they nest.

`trav` follows one `pairs` loop with its history: what it has yielded and what
it still owes. A loop is *followed* as long as its body has done nothing the
language leaves undefined and nothing that moves buckets. Rewriting an existing entry
of a full buffer does move them: the growth test of an assignment comes before the
probe (`emit.rs:18787`), so such a loop misses entries, against the comment of
`tests/phase2_8e_pairs.rs:287`. `Runs` says that the value expression of a
`table.insert` leaves the table alone; one that appends to it loses the element
(the length was read before, `emit.rs:17754`).

Left out: traps (they are guards here), the mirror of number keys held in a
TaggedValue (ADR 0084) and `table.sort`. `MetaIndex` has the chains of metatables and
`table.concat` is in `Strings`.

### ControlFlow

MLIR's `scf.while` and `scf.if` have no early exit, so the compiler turns `break`
and `return` into stores to flags (`_broken_n`, `_returned`), wraps the statements
that follow into `if not flag`, and ANDs the conditions of loops with their flag.
`Lowered` is that translation, one operator per function of `hir/mod.rs`; a flag
is named by the path of its loop in the program. The machine then runs the lowered
statements: `todo` is what is left to run, with the loops in progress in it; `up`
the flags that hold true; `live` the `<close>` slots stored to; `ret` the result
slot. Expressions are data: a test may come out either way, a `"call"` condition is
one whose evaluation can be seen and a `"pure"` one is not once the loop is left.
Flags start as anything, as their allocas do.

`event` is what can be seen of a step. `lua` is a history variable: where
`LuaControl` is after the same events, `Diverged` if it allows none such. So
`ImplementsLua` is a plain refinement with `lua` for itself, and `EndsWithLua` is
what a refinement of safety alone leaves out.

`Translatable` is the fragment the lowering is right for. Each conjunct is a
place where the code departs from Lua: statements after a jump in the same
do-block; `return` in a loop; conditions with effects in loops with a `break`
(evaluated before the flag is tested); a `<close>` local under two scopes that
close (closed by both), in a loop body that never closes (repeat, for), after a
jump (its stale slot is closed), or in a function that returns early (skipped); a
function with a result that may fall off its end (the default of the slot, zero).

### MetaIndex

`hash`, `array` and `meta` are the tables, the first two as maps: buckets and probes are
`TableStore`'s. `walk` is an access under way: the table it has come to and the levels
that are left, for the code of a level contains the code of the next,
`METATABLE_INDEX_MAX_HOPS` = 8 times (`Hops`). There are four such walks, written
separately, for reads and writes of fields and of elements. They agree in where they
look and differ in the end: out of levels, a field traps, an element reads as nil or is
written where the walk stands; a handler that is neither a table nor a function of the
right signature traps for a field and is passed over for an element. `out` is the last
answer and the table it was found at. A function handler is called at once and not
followed inside.

`LuaIndex` has no walk. It takes the runs of tables of which each lacks the key and
names the next, and the answer is that of the last of them; writing elsewhere, asking
the metatable of the first table at every level, or a walk that ends too early or too
late, are not among its steps.

### Strings

`Calls` are the calls the program makes: each pattern is given as text, which only
`StringLib` reads, and as items (sets of bytes with a repetition), which only
`LuaStrings` reads. The matcher of the runtime recurses over the pattern with a
capture slot that is passed by value, which is the recursive function `MatchPattern` on
the places of an attempt (`Place`: position in the subject, in the pattern, capture);
the abstract one has the set of all ways to match and takes the greediest.
`gsub` and `gmatch` take one step per match. `gmatch` is the iterator that
`lower_gmatch_iterator` synthesizes, whose upvalue is `pos`. In `table.concat` the
arguments `i` and `j` are steps of their own after the length has been read, each of
which may erase, append to or remove from the list; the two passes that follow add up
lengths and copy.

`Supported` (in `LuaStrings`) leaves out what the compiler does not claim: a list whose
length changes during the call, a format that overflows the 256 bytes of scratch or
contains a NUL, `%d` of a fraction. `ConcatInBounds` and `GsubFits` do not have that
exception.

### Expressions

An expression is a sequence of nodes in postfix order; `Left` finds the left operand
of a node, so lowering is functions on positions and needs no recursive operator.
`WellFormed` says what the parser and name resolution hand over: nodes in that order
(`Postfix`), names that are declared, and a local of kind Number used only behind the
declaration that made it one. TLC checks it of every program.
`Lower` is what the compiler decides: the kind of each node, its constant value if
it is folded, the callees read ahead of the statement (`x.k()` becomes a local set
before it), the subtype of each number local and whether the chunk has i64 slots.
`Compiles` are the chunks it gets through: the kinds of operands are accepted, and no
fold panics (`FoldPanics`: the least integer `//` or `%` by -1, `hir/mod.rs:4812`).
The machine then evaluates node by node with `stack` for registers, `ahead` for the
hoisted callees, and converts an operand when the code does (`Delivered`). Calls
leave an event and may change a field or a metatable, which is what makes the order
matter. `begun` is a history variable: the state at which the statement under way
started, so that a statement is one step of `LuaExpressions`.

Numbers are fractions, with NaN and two infinities: doubles are exact here and have no
negative zero. Integers of the i64 lane have `Width` = 8 bits for 64. The programs stay
inside both, so neither rounding nor wraparound is among the things checked. Where
they agree all the same is a theorem, for every width (`ThreeWaysAgree`).

`LuaExpressions` evaluates a statement at once by structural recursion. Two fields of
its result name where compiled programs depart: `stops` are the traces at which a
program may stop that Lua would continue; `odd` is set where the result is known to be
another, and then the statement may do anything. The list of `odd`, from the code:
`~=` with NaN; `>>` of a negative number; `%` by an infinity; `//` and `%` folded with
a negative divisor; `..` of a nil or boolean; the text (`print`, `..`) of a local
of subtype Integer that holds no integer; `==` of different static kinds, which drops
operands that call; a callee that changes between its early read and the call, and
any in the condition of a loop; `if x` with `x` a TaggedValue that is false; a handler
only the right operand has, or of a signature no function has, where Lua would not
fail.

### How the parts fit

The components meet where the code shares state, and each keeps of its neighbour
what it reads: `GcHeap` has the calls and frames whose chain and depth
`ProtectedCall` proves right after every error (`DepthTheorem`, `ChainTheorem` are
what the depth guard and the frame walk of `GcHeap` rest on); `GcSweep` is the free
walk of `GcHeap` without the graph; `TableStore` has the buffers that are objects
of `GcHeap`, and implements the maps and lists of `MetaIndex`; the handlers that
`Expressions` calls are found as `MetaIndex` finds them, without a chain.

## Runs

| Run | Shows | Bounds |
|---|---|---|
| `heap_sound` | `NoDangling`, `MarkCovers`, `MarkPrecise`, `FinalizerProbesLive`, `WeakKeepsHeld` for seven supported programs: tables and their elements, strings in TaggedValue locals, hashes, weak tables, closures, with operands and arguments in registers; unframed or unrooted, also operands, closures and boxes in registers across calls and collections | 4 addresses, 2 passes, 2+1 chunk slots, one frame with one slot, a waiting operand for each activation |
| `heap_any` | the inductive invariant `GcInv`, `MarkPrecise`, for programs outside the fragment too | 3 addresses, 1 pass |
| `gc_sweep` | list, byte total, completeness, finalizers, termination | 3 addresses, sizes 1–2, threshold 3–4, two nested sweeps |
| `protected_call` | the invariant, the landing pad, depth, chain, refinement | stack of 7, two error values |
| `tables` | probes, findability, initialised slots, traversal, refinement | 2 keys that collide and wrap, 4 counted entries, 2 elements, one callback |
| `control` | types and initialised slots, refinement of Lua's control structures, termination | every simple statement or pair in every construct, alone, before or after an act in every other, then an act or a return: two levels, 0–2 iterations of numeric loops; about 3,500 programs |
| `meta_index` | types and levels, refinement, every walk ends | 2 tables, 1 field and 3 metafields, element 0 and 1, 4 signatures, 2 levels, 4 things set at once |
| `strings` | buffers, refinement, progress of every search | subjects to 7 bytes, patterns to 4 items, all of the limits of UTF-8, lists to 3 |
| `expressions` | slots and registers hold what lowering inferred, refinement | 3,350 programs: operators on all pairs of interesting numbers in the three arithmetics; tagged operands and `and`/`or` results; the text of reassigned locals; hoisted callees; handlers; loops and blocks |
| `heap_upvalue` | violation: see Findings | 3–4 addresses |
| `return_in_loop` | violation: see Findings | the programs of `control`, before `Translatable` |
| `number_print` | violation: see Findings | three assignments to one local |

Why the bounds suffice. In `heap_sound`, four addresses are a table, its buffer,
an element and one object more whose address is recycled; two passes are the
least for which order on the list matters and depth does not. In `gc_sweep`, three
objects put a freed object at the head, in the middle and at the end, with a
survivor before it. A stack of 7 holds a `pcall` inside a `pcall` with functions
around both. In `tables`, the initial capacity is 4 and not 8 so that a growth, a
rehash with tombstones and a full probe chain all happen within 4 counted
entries; no other code depends on the value, and `ProbesEnd` needs at least 4.
Keys hash to the last bucket or to one they share, so probes collide and wrap.
`MaxCount`, `MaxLen`, `MaxDepth`, `MaxStack` and a program's `depth` are bounds of the model,
each in the guards of the actions that would pass it. Symmetry is taken over
addresses and over keys, which nothing orders and which carry no temporal
property with liveness.

In `meta_index`, two tables make every chain and cycle of length one and two, with
the metatable and the handler the same table or not; two levels are the least at
which the walk goes on once and runs out once. The four signatures are one for each
walk, so that a wrong function is there to be named. `MaxSet` bounds the explored
tables, not the walk.

In `strings`, three bytes are enough for each repetition to take none, one and two
bytes with something behind it; two quantified items in a row is where backtracking
happens, with a capture around either. `ScratchSize` is 5 for 256 so that formats
overflow. In `expressions` the programs are families by construct (`Computed`,
`Compared`, `Reassigned`, `OnTagged`, ...): one or two operators, since each looks at
no more than its operands' kinds.

In `control`, two levels are a jump, the construct it is in and the
one it leaves or does not; the lowering looks at nothing but the innermost target
and the statements around.

Deadlock is not checked where the program really ends (`exit`, an out-of-memory
stop, the end of `@main` or of a chunk); `TableStore`, `MetaIndex` and `Strings` have
no end and are checked for it.

Fairness: `ControlFlow` assumes weak fairness of `Next`: compiled code is
sequential and takes its steps. Which way tests come out is not assumed, so a
loop whose condition stays true may run for ever, in Lua and in the code.
`MetaIndex` assumes weak fairness of `Hop`, the walk being straight-line code between
two actions of the program; `WalksEnd` is then the fact that the levels run out.
`Strings` needs no fairness: `GetsNearer` is a measure that every step lowers, if no
`gmatch` has an empty pattern.
`GcSweep` assumes weak fairness of `SweepStep`. The free walk is
straight-line code on the only thread, and a finalizer returns if it does not
fail, so a collection under way keeps taking steps. Nothing is assumed of what
the program does. `CollectionsEnd` is then the fact that a walk cannot chase what
its finalizers allocate, and that an allocation collects once and not until it
fits.

Every property of a passing run is broken by at least one small mutant of the
code's definitions (the operators marked *Faulty*), so none holds by shape.

## Findings

1. **`heap_upvalue`**: a string or table held only by a closure is freed. ADR 0256
   expects the opposite ("stays alive (won't crash)"); the closure pass marks boxes
   and not their contents.
2. **`return_in_loop`**: a `return` in a loop does not leave the loop;
   `hir/mod.rs:2815` says statements after a return are skipped.
3. **`number_print`**: `merge` narrows a local whose subtype has become `Unknown`
   (`hir/mod.rs:2352`), although its comment and ADR 0232 say it does not, and `print`
   truncates what the local held before: `x = 1; x = 7/2; print(x); x = 2` shows 3. So
   does `..`, whose operand is a `tostring` (`hir/mod.rs:527`, `emit.rs:11502`):
   `z = x .. "a"` for the print makes `z` "3a".
   `SlotsPrintTheirValue` proves that it takes a chunk that `mark_integer_slot_eligible`
   has given up: where every integer local has its i64 slot, a print shows the value.

Differences of the same weight that a fragment's definition names instead of a run,
each found while modelling the line:

- GC: `metatable_ptr` is not followed (`emit.rs:26131`, ADR 0159). An operand or argument
  that waits while a function of a frame-safe program collects is freed and then used, as
  is one beside a `collectgarbage()`. ADR 0257:22 says that parameters of Function kind
  "remain rooted via the caller's chunk slot or caller's frame": a temporary argument,
  `g(make(1))`, is in neither (`emit.rs:2865`), nor is the box of a captured parameter.
- Tables: rewriting entries of a full table under `pairs` (`emit.rs:18787`);
  `table.insert` whose value appends (`emit.rs:17754`); `table.remove` leaves the value
  in the popped slot (ADR 0108).
- Control: statements after a `break` in the same do-block run (`hir/mod.rs:3143`,
  ADR 0015).
- Metatables: ADR 0134:132 says "Depth 2000 cap", the code has 8 (`emit.rs:105`); a hole
  inside the array part does not ask `__index` (`emit.rs:7604`); `t[i] == nil` and the
  read of `t[i]` look in different places; a field set to a nil held in a TaggedValue
  keeps its key (ADR 0135:24 against :99).
- Strings: `table.concat` reads the length before `i` and `j` are evaluated; a byte
  out of range traps; `^` behind an `init` above 1 never matches (ADR 0286);
  a negative `init` counts as 1; an empty match behind a non-empty one is not dropped;
  `gmatch` with an empty pattern never ends: it is found at `min(init, s_len)` for every
  `init`, behind the subject too (`bridge_runtime.rs:439`), so the iterator searches on at
  the same place, although ADR 0314:39 calls its branch "the Lua-spec empty-match advance";
  `utf8.codepoint` accepts overlong forms and surrogates.
- Expressions: the list of `odd` above, and `not`, `and`, `or`, `while` on a TaggedValue
  that holds no number trap; an operand that cannot be converted traps before the next
  one is evaluated; `==` of two booleans does not compile; `==` with an `and`/`or` of
  TaggedValues on one side compares numbers and traps on anything else.

Noticed on the way, no run of its own: the hash count is copied to the new buffer
although tombstones are dropped (`emit.rs:10009`), so it never decreases, whereas
ADR 0062 bounds wasted capacity by one rehash interval. It costs memory and never
correctness: `ProbesEnd` holds with it. And `div_euclid` and `rem_euclid` in the folds of
`//` and `%` (`hir/mod.rs:4812`) panic for the least integer and -1, where the folds of
`+`, `-` and `*` beside them are checked: the compiler stops at such a program.

## Proofs

A run checks one instance; the theorems are about all of them. Each follows the same
argument: a state predicate stronger than the property, a lemma for the initial state,
one for every action, and a last step in temporal logic. TLC confirmed each predicate on
the instances of the runs; what it says, and why the property alone is not inductive, is below.
Assumptions are the named ASSUMEs of the modules and nothing else; TLC evaluates them.

**`ProtectedCallProofs`** (any set of error values, any stack bound).

- `StackInvariant`: `Spec => []StackInv`. The interesting property,
  `JmpbufIsInnermostPad`, is not inductive: after a `pcall` returns, the landing pad
  is whatever was copied into the frame. `StackInv` therefore says of *every* frame
  on the stack that what it saved is what was true of the stack below it
  (`SavedIsTrueBelow`: the pad, the depth, the newest root frame). A call extends
  the stack and leaves the frames below alone; `Restore` reads one saved triple, and
  the invariant says it is the right one; an error cuts the stack at the pad, and
  the frames that remain are a prefix, of which everything still holds.
- `JmpbufTheorem`, `DepthTheorem`, `ChainTheorem`: the three properties the other
  components rely on. The chain is the least set closed under `prev`; the theorem
  goes by the newest root frame missing from it.
- `Implementation`: `Spec => Lua!Spec`; every step is a step of `LuaProtectedCall`
  or a stutter.

**`GcHeapProofs`** (any finite set of addresses, any slots, any number of passes, any
program).

- `HeapTypes`, then `GcInvAlways`: `Spec => []GcInv`. The marker is a loop over passes
  and, in each, over the list; `Within(n)` is the set at most `n` edges from a root.
  `Marking` says where the loop stands: before object `at` of pass `p`, everything in
  `Within(p)` is black, and so is what the tables (then the cells) before `at` point
  to. `MarkedAreKept` is the case of the end of the last pass.
- `NothingFloats`: `Precise` says that black objects are reachable or pinned, at every
  step of the marker.
- `NothingDangles`, `ProbesAreLive`: supported programs. `GraphInv` is about the graph:
  slots and the objects of the list that the walk under way will not free point only at
  such objects (`Sound`), and everything is of a kind the marker looks at where it is:
  elements, keys, TaggedValue locals (`Followed`). In registers: when a marking starts, the
  running activation has nothing in one; of its callers, either the depth guard keeps what
  they hold in registers, or no operand waits there and a closure that was passed is still
  held by the variable of the caller it was read from (`RegistersRooted`).
  `Sound` alone is not inductive, since the marker would miss what it does not look at.
  The shapes of objects (`Shapes`: which fields a kind has, what they point at) are what
  makes the passes over tables and over cells together follow every edge.
- Both have the hypothesis `[]Shallow`: at the end of a marking all that is reachable is
  within `Passes` edges, or the depth guard keeps everything. This is a fact about the
  program and not about the collector: the number of passes is fixed in the code, and an
  object deeper than that is freed although it is held. `heap_sound` has lists for which
  it holds. `SmallHeapsAreSound` derives it where it always holds: with at most
  `Passes + 1` objects, no shortest path is longer than the passes.
- `HeldStays`: under the same hypothesis, for every program, the weak clear drops no
  entry whose value is still held.

**`GcSweepProofs`** (any finite set of addresses, sizes, thresholds, finalizers).

- `SafeAlways` is what holds whatever finalizers do, an inner collection that frees the
  object the outer walk stands on included: types, and that the byte total is the sum of
  the sizes of the allocated addresses (`TotalIsAccounted`). `Bytes` is a fold over a set,
  a recursive function; the lemmas on it show that it exists and what adding and removing
  an element does.
- `OrderlyAlways`: `OrderlyInv`, for programs whose finalizers do not collect, has the list
  as `p[m], ..., p[1]`, and where the registers of the walk stand in it: `cur` is `p[k]`,
  `prev` is `p[k + 1]` or null, what is before `cur` has been passed and is WHITE, and what a
  finalizer pushes gets the next number and disturbs nothing. Three of the properties follow from it in one step (`ListAlwaysHeap`,
  `HeldAlwaysAllocated`, `SweepAlwaysComplete`), and so does `NoUseAfterFree`.
- `FinalizerCalledOnce`: an action property, from the same invariant.

**`TableStoreProofs`** (any keys, hash function, load factor and growth).

- `StoreAlways`: `StoreInv`. A probe ends because a bucket is empty, which no single
  bucket shows: the buckets that are not empty are at most `count`, and `count` stays
  below `cap`, also across a callback that inserts into the same table between the
  growth test and the commit. A live entry is findable because no bucket between its home
  and itself is empty; deletion leaves a tombstone for that reason, and a rehash builds
  the new buffer entry by entry with the same invariant. The probe is a recursive function
  on the ring of buckets; what it returns is characterised as the first bucket, from the
  home on, that stops it.
- `TableTypes`, `ProbesAlwaysEnd`, `AlwaysFindable`, `NeverJunk` follow.
- `StoreIsTable`: `Spec => ImplementsLuaTable`, a step for each action: the map of
  `LuaTable` is what a lookup returns for each key, so the lemmas say what an insertion, an
  overwrite, a deletion and a rehash do to every lookup.
- `LoopIsExact`: `TraversalExact`. What a followed loop has yielded is what is before its
  bucket, what it owes is behind it.

**`MetaIndexProofs`** (any tables and number of levels).

- `WalksFollowChains`: the levels already taken are a chain of `LuaIndex` from the table of
  the access to the one the walk is at, with one of the `Hops` used for each, and a read
  has found the key missing in every one of them. Nothing changes the tables while a walk
  is under way, so the chain remains one.
- `IndexTypes`, and `WalksAreLua`: `Spec => ImplementsLuaIndex`. When a walk ends, the
  chain is the witness for the table the abstract access is decided at; when it runs out,
  the chain has `Hops + 1` tables, which is the abstract error case. `TagAssumption` (the
  kinds of values are disjoint) is what keeps a function from being taken for a table.

**`StringsProofs`** (any calls with operands of the right shape, `CallsAssumption`: the
compiler checks the kinds of the operands; subjects, patterns and lists of any length).

- `MatchRange`: a match starts where the search does or further right, and ends within the
  subject. It rests on `MatchFromStep`, one lemma for the body of the backtracking
  matcher: its answer lies in range if those of its calls do, and it calls itself further
  right in the pattern only, because an element of a pattern takes at least one byte
  (`AtomLenPositive`), so that the matcher exists for every pattern.
- `StringsInvariant`: `StringsInv`. What `gsub` has written is at most a replacement and
  a byte for each position it has left behind, which is what `GsubFits` needs and does not say;
  the arguments of `table.concat` may shrink the list but take no slot of its array part
  away, and the bounds are within the length that was read first.
- `StringTypes`, `GsubNeverFull`, `GsubRestFits` (also the copy of what is left at the end
  fits), `ConcatAlwaysInBounds` (the bytes joined are as many as were counted: a
  telescoping of two running sums, `FlattenLength`).
- `CallsGetNearer`: `GetsNearer` for programs in which no `gmatch` has an empty pattern.
  Without this hypothesis it is false: the search behind the subject finds the same
  empty match again (see Findings).

**`ExpressionsProofs`** (any chunks of the shape `WellFormed`, any locals, functions,
tables and effects of functions, any `Width`).

- `LoweringIsSound`: what the passes decide about a chunk that compiles is what the code
  generator may rely on (`Sound`). Kinds, constants and subtypes are functions that
  recurse to the operands of a node; a constant is of the kind of its node, and a node
  in the i64 lane is an integer constant, a local with a slot, or an operator on two such,
  with its operands in the lane too. That a local in a slot is only ever assigned
  integers is said by none of the passes: it follows from the gate of
  `mark_integer_slot_eligible`, which looks at every statement of the chunk, the types of the
  locals involved and the fact that a comparison is never assigned to a number.
- `Inductive`: `Spec => []IInv`. `TypeOK` says of the stack that it has a register for
  each value not used yet, of the right kind. It does not say enough for the next node:
  that its operands are the trees adjoining in front of it, so that they are the registers on
  top (`Nested`, from `Postfix`); that a register of the i64 lane holds an integer, and a
  TaggedValue that was not a bare local a number (`Suits`); that a folded subtree is
  entered at its first node only, so that no register is left of a part of it
  (`AtFirst`). `Stored` is the same for locals, and `Printing` relates the register of a
  print under way to the local it was loaded from.
- `TypeCorrect`: `TypeOK`. The proof found the model wrong once: with a unary operator
  behind it, the left operand of a binary one was taken for that operator's operand, and
  the conversion of `a` in `a - (-b)` was left out (`Operands` is what came of it).
- `ThreeWaysAgree`: lower_expr, `emit_int_expr` and `emit_binop` compute the same integer. For the
  lane this is the correction of a truncated quotient (`NeedsFix`) being a floor; for
  doubles, a floor of a fraction in lowest terms; for the fold, that `div_euclid` is a floor when
  the divisor is positive. The hypotheses are where they really part: results out of
  range wrap in the lane, and negative divisors are folded with another rounding.
- `SlotsPrintTheirValue`: `PrintsTheValue` in programs with
  `unit.slots = unit.integers`. Without that hypothesis it is false: `number_print`.

`NatLemmas`: a nonempty bounded set of naturals has a least and a greatest element,
cardinalities of initial segments, remainders on a ring, sums over finite sets; and the
two facts about recursive functions below.

Recursive functions. The provers take no induction principle, which has an operator as a
parameter; the least element of a set of naturals serves instead. That a recursive function
exists is shown with its approximations on initial segments (the least `n` without one
leads to a contradiction), and what it computes by its least counterexample.
`RecursionSolved` and `RecursionBound` are these two arguments, once for every function
whose recursion goes down in a rank.

Only model-checked, and why. Liveness, which needs fairness: `CollectionsEnd`, `EndsWithLua`,
`WalksEnd`. `ControlFlow`, its `TypeOK` included: the lowering is a recursion over
programs by RECURSIVE operators, which the prover does not accept, and what it does to a
program is an induction over the program. That `Expressions` refines `LuaExpressions`, whose
`Eval` is such an operator. That `Strings` refines `LuaStrings`: the matches of a pattern are a
recursion over its items there.

## Plan

Modelled: `GcHeap`, `ProtectedCall`, `GcSweep`, `TableStore`, `ControlFlow`, `MetaIndex`,
`Strings`, `Expressions`. Proved: the safety properties and refinements of the first four of
these, and of `MetaIndex`; the safety and progress of `Strings`; the types of `Expressions` and
the agreement of its arithmetics. Open, models that compose: captured locals other than
parameters in `GcHeap`; error values as roots (`GcHeap` with `ProtectedCall`); errors that leave a
`table.insert` half done (`TableStore` with `ProtectedCall`).

Of the modules to prove about, none has a RECURSIVE operator.

## Not modelled, and why

Standard I/O and libc calls: single calls whose result is passed on. The math library:
the same. Tagged values: their loads and stores are straight-line code, used as values
here; their tags and conversions are in `Operators`. Coroutines: only
`create` and `status` exist, nothing runs. Lexer and parser: functions of their input
without interesting state, whose output is `Syntax`. Name resolution, capture analysis and
the inference of parameter and result kinds: they decide which programs compile, and
the models start from programs that do. `__call`, `__tostring`, `__pairs`, `table.sort`,
`unpack` and varargs. The digits of doubles, and 64 bits in full: widths are reduced.
The driver: subprocesses one after the other. Diagnostics and `--emit` rendering: text.
