----------------------------- MODULE MetaIndex -----------------------------
(***************************************************************************)
(* Table accesses through metatables, as emit.rs compiles them: the direct *)
(* lookup, then a walk along "__index" or "__newindex" that the compiler   *)
(* unrolls Hops times.  Each unrolled level is one step here.              *)
(*                                                                         *)
(* The four walks are separate code: string reads                          *)
(* (emit_check_metatable_index_with_depth), string writes                  *)
(* (emit_hash_indexassign_with_newindex), number reads                     *)
(* (emit_number_key_metatable_index_fallback) and number writes            *)
(* (emit_number_key_indexassign_routed).  The hash part is a map here: its *)
(* buckets and probing are modelled by TableStore.  rawget and rawset of a *)
(* number key act on the array part as in TableStore and are left out.     *)
(***************************************************************************)
EXTENDS Naturals, Sequences, FiniteSets

CONSTANTS
    Table, Null,
    Field,          \* string keys other than the metafields
    Payload,        \* values that are numbers
    Signature,      \* the signatures of the functions of the program; a
                    \* function value is named by its signature
    Nil, Absent,
    MaxIndex,       \* number keys are 0 .. MaxIndex
    Hops,           \* METATABLE_INDEX_MAX_HOPS
    MaxSet          \* at most this many keys and metatables are set at once

VARIABLES
    hash,           \* hash[t][k]: a value, or Absent when no bucket has key k
    array,          \* array[t]: the slots 1 .. length
    meta,           \* meta[t]: metatable_ptr
    walk,           \* the access under way, or NoAccess
    out             \* the last access and how it ended

vars == <<hash, array, meta, walk, out>>

ASSUME HopsAssumption == Hops \in Nat \ {0} /\ MaxIndex \in Nat

Metafield == {"__index", "__newindex", "__metatable"}
StrKey == Field \cup Metafield
NumKey == 0 .. MaxIndex
Value == Table \cup Payload \cup Signature \cup {Nil}

\* The signatures the four walks look for.
Handlers == {"TS-N", "TN-N", "TSN-", "TNN-"}

\* The tag of a value tells a table, a number, a function and nil apart.
ASSUME TagAssumption ==
    /\ Table \cap (Payload \cup Signature \cup {Nil}) = {}
    /\ Handlers \cap (Table \cup Payload \cup {Nil}) = {}
    /\ Nil \notin Signature
    /\ Field \cap Metafield = {}

NoAccess == [op |-> "none"]
Answer(kind, t, v) == [kind |-> kind, at |-> t, val |-> v]
Trap == [kind |-> "trap"]

\* The number of keys and metatables set: a bound on the tables explored.
Size ==
    Cardinality({tk \in Table \X StrKey : hash[tk[1]][tk[2]] # Absent})
      + Cardinality({t \in Table : array[t] # <<>>}) + Cardinality({t \in Table : meta[t] # Null})

----------------------------------------------------------------------------
\* emit_hash_lookup_into_tagged_slot with NilOnMissing
Raw(t, k) == IF hash[t][k] = Absent THEN Nil ELSE hash[t][k]

\* The metafield of the metatable of t, Nil without a metatable.
Metavalue(t, f) == IF meta[t] = Null THEN Nil ELSE Raw(meta[t], f)

InArray(t, i) == 1 <= i /\ i <= Len(array[t])

\* emit_array_index_assign_at: a gap is filled with nil.
ArrayAssign(t, i, v) ==
    [array EXCEPT ![t] = [j \in 1 .. IF i > Len(@) THEN i ELSE Len(@) |->
                             IF j = i THEN v ELSE IF j <= Len(@) THEN @[j] ELSE Nil]]

Finish(a, ans) ==
    /\ walk' = NoAccess
    /\ out' = [op |-> a.op, obj |-> a.obj, key |-> a.key, ans |-> ans]

\* No access is under way and the answer of the last one has been used.
Idle == walk = NoAccess /\ out = NoAccess
Use == walk = NoAccess /\ out # NoAccess /\ out' = NoAccess /\ UNCHANGED <<hash, array, meta, walk>>

\* Faulty: the unrolling never runs out.
GoOnUnbounded(t) == walk' = [walk EXCEPT !.at = t] /\ UNCHANGED out

\* The access goes on at t, one unrolled level further in.
GoOn(t) == walk' = [walk EXCEPT !.at = t, !.hops = @ - 1] /\ UNCHANGED out

\* A call through the chain of candidates of signature sig: the function runs,
\* or its pointer is none of theirs.
Dispatch(f, sig, v) == IF f = sig THEN Answer("call", walk.at, v) ELSE Trap

----------------------------------------------------------------------------
(* Reads.                                                                  *)

Level(op) == walk.op = op /\ walk.hops > 0 /\ UNCHANGED meta
NoWrite == UNCHANGED <<hash, array>>

\* emit_check_metatable_index_with_depth: no level is left.
IndexTooDeep ==
    /\ walk.op = "get" /\ walk.hops = 0 /\ UNCHANGED meta /\ NoWrite
    /\ Finish(walk, Trap)

\* Faulty: each level asks the metatable of the first table again.
IndexTableOfFirst ==
    LET f == Metavalue(walk.obj, "__index") IN
    /\ Level("get") /\ NoWrite
    /\ f \in Table
    /\ IF Raw(f, walk.key) # Nil THEN Finish(walk, Answer("value", f, Raw(f, walk.key))) ELSE GoOn(f)

\* "__index" is a table: k is looked up there, and from there on when missing.
IndexTable ==
    LET f == Metavalue(walk.at, "__index") IN
    /\ Level("get") /\ NoWrite
    /\ f \in Table
    /\ IF Raw(f, walk.key) # Nil THEN Finish(walk, Answer("value", f, Raw(f, walk.key))) ELSE GoOn(f)

\* No "__index": nil.  Not a table: a function of the program, called with the
\* table of this level, or a trap.
IndexOther ==
    LET f == Metavalue(walk.at, "__index") IN
    /\ Level("get") /\ NoWrite
    /\ f \notin Table
    /\ Finish(walk, IF f = Nil THEN Answer("value", walk.at, Nil) ELSE Dispatch(f, "TS-N", Nil))

\* emit_number_key_metatable_index_fallback: no level is left, the result is nil.
IndexNumTooDeep ==
    /\ walk.op = "getnum" /\ walk.hops = 0 /\ UNCHANGED meta /\ NoWrite
    /\ Finish(walk, Answer("value", walk.obj, Nil))

IndexNumTable ==
    LET f == Metavalue(walk.at, "__index") IN
    /\ Level("getnum") /\ NoWrite
    /\ f \in Table
    /\ IF InArray(f, walk.key) THEN Finish(walk, Answer("value", f, array[f][walk.key])) ELSE GoOn(f)

\* Candidate functions exist and "__index" is a function; otherwise nil.
IndexNumOther ==
    LET f == Metavalue(walk.at, "__index") IN
    /\ Level("getnum") /\ NoWrite
    /\ f \notin Table
    /\ Finish(walk, IF f \in Signature /\ "TN-N" \in Signature THEN Dispatch(f, "TN-N", Nil)
                    ELSE Answer("value", walk.obj, Nil))

Access(op, t, k, v, numeric) ==
    [op |-> op, obj |-> t, key |-> k, val |-> v, numeric |-> numeric, at |-> t, hops |-> Hops]

Begin(a) == walk' = a /\ UNCHANGED out

\* t[k]: the direct lookup, and the walk when it finds nil.
Index(t, k) ==
    LET a == Access("get", t, k, Nil, FALSE) IN
    /\ Idle
    /\ IF Raw(t, k) # Nil THEN Finish(a, Answer("value", t, Raw(t, k))) ELSE Begin(a)
    /\ UNCHANGED <<hash, array, meta>>

\* t[i]: a slot of the array part is copied, a hole as nil.
IndexNum(t, i) ==
    LET a == Access("getnum", t, i, Nil, FALSE) IN
    /\ Idle
    /\ IF InArray(t, i) THEN Finish(a, Answer("value", t, array[t][i])) ELSE Begin(a)
    /\ UNCHANGED <<hash, array, meta>>

\* getmetatable(t)
GetMetatable(t) ==
    /\ Idle
    /\ out' = [op |-> "getmetatable", obj |-> t,
               ans |-> IF Metavalue(t, "__metatable") # Nil THEN Metavalue(t, "__metatable")
                       ELSE IF meta[t] = Null THEN Nil ELSE meta[t]]
    /\ UNCHANGED <<hash, array, meta, walk>>

\* t[k] == nil is lowered to a probe of the table itself (emit_isnil_index).
IsNilIndex(t, k) ==
    /\ Idle
    /\ out' = [op |-> "isnil", obj |-> t, key |-> k, ans |-> Raw(t, k) = Nil]
    /\ UNCHANGED <<hash, array, meta, walk>>

IsNilIndexNum(t, i) ==
    /\ Idle
    /\ out' = [op |-> "isnilnum", obj |-> t, key |-> i, ans |-> InArray(t, i) => array[t][i] = Nil]
    /\ UNCHANGED <<hash, array, meta, walk>>

----------------------------------------------------------------------------
(* Writes.                                                                 *)

\* emit_hash_indexassign_with_newindex: no level is left.
NewindexTooDeep ==
    /\ walk.op = "set" /\ walk.hops = 0 /\ UNCHANGED meta /\ NoWrite
    /\ Finish(walk, Trap)

\* A key that has a bucket is overwritten whatever its value; a new one is added
\* when there is no "__newindex".
NewindexWrites ==
    LET t == walk.at IN
    /\ Level("set") /\ UNCHANGED array
    /\ hash[t][walk.key] = Absent => Metavalue(t, "__newindex") = Nil
    /\ hash' = [hash EXCEPT ![t][walk.key] = walk.val]
    /\ Finish(walk, Answer("value", t, walk.val))

\* A new key: "__newindex" is a table that takes the write, or a function for
\* numbers, or a trap.
NewindexAsks ==
    LET f == Metavalue(walk.at, "__newindex") IN
    /\ Level("set") /\ NoWrite
    /\ hash[walk.at][walk.key] = Absent /\ f # Nil
    /\ IF f \in Table THEN GoOn(f)
       ELSE Finish(walk, IF walk.numeric THEN Dispatch(f, "TSN-", walk.val) ELSE Trap)

\* emit_number_key_indexassign_routed asks past the end and at a hole, and not
\* when no level is left.
Asks(t, i) == walk.hops > 0 /\ (InArray(t, i) => array[t][i] = Nil)

\* Faulty: the last level routes the write once more.
RouteNumOneMore ==
    LET f == Metavalue(walk.at, "__newindex") IN
    /\ walk.op = "setnum" /\ UNCHANGED meta /\ NoWrite
    /\ f \in Table
    /\ GoOn(f)

RouteNum ==
    LET f == Metavalue(walk.at, "__newindex") IN
    /\ Level("setnum") /\ NoWrite
    /\ Asks(walk.at, walk.key) /\ f \in Table
    /\ GoOn(f)

\* Numbers only: "__newindex" is a function and the program has candidates.
Dispatches == Metavalue(walk.at, "__newindex") \in Signature /\ walk.numeric /\ "TNN-" \in Signature

CallNum ==
    LET f == Metavalue(walk.at, "__newindex") IN
    /\ Level("setnum") /\ NoWrite
    /\ Asks(walk.at, walk.key) /\ Dispatches
    /\ Finish(walk, Dispatch(f, "TNN-", walk.val))

\* Any other handler is passed over.
WriteNum ==
    LET t == walk.at
        i == walk.key
    IN
    /\ walk.op = "setnum" /\ UNCHANGED <<hash, meta>>
    /\ Asks(t, i) => ~Dispatches /\ Metavalue(t, "__newindex") \notin Table
    /\ array' = ArrayAssign(t, i, walk.val)
    /\ Finish(walk, Answer("value", t, walk.val))

\* t[k] = v; numeric: v is a number at compile time.
IndexAssign(t, k, v, numeric) ==
    /\ Idle /\ Size < MaxSet
    /\ Begin(Access("set", t, k, v, numeric))
    /\ UNCHANGED <<hash, array, meta>>

\* t[i] = v: a number below 1 is out of bounds.
IndexAssignNum(t, i, v) ==
    LET a == Access("setnum", t, i, v, v \in Payload) IN
    /\ Idle /\ Size < MaxSet
    /\ IF i < 1 THEN Finish(a, Trap) ELSE Begin(a)
    /\ UNCHANGED <<hash, array, meta>>

\* rawset(t, k, v): skip_metatable.
RawSet(t, k, v) ==
    /\ Idle /\ Size < MaxSet
    /\ hash' = [hash EXCEPT ![t][k] = v]
    /\ UNCHANGED <<array, meta, walk, out>>

\* t[k] = nil, nil at compile time: the bucket is deleted, no metafield is asked.
Erase(t, k) ==
    /\ Idle
    /\ hash' = [hash EXCEPT ![t][k] = Absent]
    /\ UNCHANGED <<array, meta, walk, out>>

\* setmetatable(t, m), m Null for nil: refused (a trap) while the current
\* metatable has a "__metatable" field.
SetMetatable(t, m) ==
    /\ Idle /\ Size < MaxSet
    /\ Metavalue(t, "__metatable") = Nil
    /\ meta' = [meta EXCEPT ![t] = m]
    /\ UNCHANGED <<hash, array, walk, out>>

----------------------------------------------------------------------------
Init ==
    /\ hash = [t \in Table |-> [k \in StrKey |-> Absent]]
    /\ array = [t \in Table |-> <<>>]
    /\ meta = [t \in Table |-> Null]
    /\ walk = NoAccess
    /\ out = NoAccess

Hop ==
    \/ IndexTooDeep \/ IndexTable \/ IndexOther
    \/ IndexNumTooDeep \/ IndexNumTable \/ IndexNumOther
    \/ NewindexTooDeep \/ NewindexWrites \/ NewindexAsks
    \/ RouteNum \/ CallNum \/ WriteNum

\* The values stored in this model: handlers in the metafields, numbers and nil
\* elsewhere.
ValuesFor(k) ==
    CASE k \in Field -> Payload \cup {Nil}
      [] k = "__index" -> Table \cup (Signature \cap {"TS-N", "TN-N"}) \cup Payload
      [] k = "__newindex" -> Table \cup (Signature \cap {"TSN-", "TNN-"}) \cup Payload
      [] k = "__metatable" -> Payload

Next ==
    \/ Hop \/ Use
    \/ \E t \in Table :
         \/ \E k \in Field : Index(t, k) \/ IsNilIndex(t, k)
         \/ \E i \in NumKey : IndexNum(t, i) \/ IsNilIndexNum(t, i)
         \/ GetMetatable(t)
         \/ \E k \in Field : \E v \in ValuesFor(k) :
               IndexAssign(t, k, v, v \in Payload) \/ IndexAssign(t, k, v, FALSE)
         \/ \E i \in NumKey, v \in Payload \cup {Nil} : IndexAssignNum(t, i, v)
         \/ \E k \in StrKey : Erase(t, k) \/ \E v \in ValuesFor(k) : RawSet(t, k, v)
         \/ \E m \in Table \cup {Null} : SetMetatable(t, m)

\* The program runs on: an access that has begun is carried through.
Spec == Init /\ [][Next]_vars /\ WF_vars(Hop)

----------------------------------------------------------------------------
TypeOK ==
    /\ hash \in [Table -> [StrKey -> Value \cup {Absent}]]
    /\ array \in [Table -> Seq(Value)]
    /\ meta \in [Table -> Table \cup {Null}]
    /\ walk # NoAccess =>
         /\ walk.op \in {"get", "getnum", "set", "setnum"}
         /\ {walk.obj, walk.at} \subseteq Table
         /\ walk.hops \in 0 .. Hops

\* Every access ends, whatever cycles the metatables form.
WalksEnd == (walk # NoAccess) ~> (walk = NoAccess)

Lua == INSTANCE LuaIndex

\* Each access is decided at the one table the chain of handlers leads to, with
\* the answer the design documents give, and writes nothing elsewhere.
ImplementsLuaIndex == Lua!Spec
=============================================================================
