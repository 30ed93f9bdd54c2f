------------------------------ MODULE LuaIndex ------------------------------
(***************************************************************************)
(* What t[k] and t[k] = v promise once metatables are in play.  A table    *)
(* that lacks k hands the access on to the table its metatable names under *)
(* "__index" (reads) or "__newindex" (writes).  The access is decided, in  *)
(* one step, at the last table of that chain: it finds the key there, runs *)
(* the function handler of that table, or finds nothing more.              *)
(*                                                                         *)
(* docs/design/0134, 0135, 0150, 0151 and 0165 to 0171 state the rules for *)
(* string keys and for number keys.  They differ: a handler that is        *)
(* neither a table nor callable, and a chain of more than Hops tables, are *)
(* errors for string keys and silently end the access for number keys.     *)
(***************************************************************************)
EXTENDS Naturals, Sequences, FiniteSets

CONSTANTS
    Table,          \* the tables
    Null,           \* no metatable
    Field,          \* string keys other than the metafields
    Payload,        \* values that are numbers
    Signature,      \* the signatures of the functions of the program; a value
                    \* that is a function is named by its signature
    Nil, Absent,    \* the value nil; a string key the hash part does not hold
    MaxIndex,       \* number keys are 0 .. MaxIndex
    Hops            \* METATABLE_INDEX_MAX_HOPS

VARIABLES
    hash,           \* hash[t][k]: the value of a string key, or Absent
    array,          \* array[t]: the array part, holes are Nil
    meta,           \* meta[t]: the metatable of t, or Null
    out             \* the last access and how it ended

vars == <<hash, array, meta, out>>

Metafield == {"__index", "__newindex", "__metatable"}
StrKey == Field \cup Metafield
NumKey == 0 .. MaxIndex
Value == Table \cup Payload \cup Signature \cup {Nil}

NoAccess == [op |-> "none"]

----------------------------------------------------------------------------
Raw(t, k) == IF hash[t][k] = Absent THEN Nil ELSE hash[t][k]

\* A read looks for a value, a write for a key (docs/design/0135:99).
Has(op, t, k) ==
    CASE op = "get"    -> Raw(t, k) # Nil
      [] op = "set"    -> hash[t][k] # Absent
      [] op = "getnum" -> k \in 1 .. Len(array[t])
      [] op = "setnum" -> k \in 1 .. Len(array[t]) /\ array[t][k] # Nil

Handler(op, t) ==
    IF meta[t] = Null THEN Nil
    ELSE Raw(meta[t], IF op \in {"get", "getnum"} THEN "__index" ELSE "__newindex")

\* The functions a handler of each kind may be (value kinds of the parameters).
HandlerSignature(op) ==
    CASE op = "get" -> "TS-N" [] op = "getnum" -> "TN-N" [] op = "set" -> "TSN-" [] op = "setnum" -> "TNN-"

\* p is a run of tables along which the access to k is handed on.
IsChain(p, op, k) ==
    \A i \in 1 .. Len(p) - 1 : ~Has(op, p[i], k) /\ Handler(op, p[i]) = p[i + 1]

Chains(op, t, k) ==
    {p \in UNION {[1 .. n -> Table] : n \in 1 .. Hops + 1} : p[1] = t /\ IsChain(p, op, k)}

\* The tables at which the access to k is decided: at most one.
Ends(op, t, k) ==
    {u \in Table : (Has(op, u, k) \/ Handler(op, u) \notin Table)
                     /\ \E p \in Chains(op, t, k) : p[Len(p)] = u}

----------------------------------------------------------------------------
Answer(kind, t, v) == [kind |-> kind, at |-> t, val |-> v]
Trap == [kind |-> "trap"]

\* The handler of u is a function that can be called for this access.
Callable(op, u) == Handler(op, u) = HandlerSignature(op)
\* The program has functions for such an access, but the handler is another.
Mismatch(op, u) == Handler(op, u) \in Signature \ {HandlerSignature(op)} /\ HandlerSignature(op) \in Signature

\* t[k] with k a string.
GetAnswers(t, k) ==
    {Trap : p \in {q \in Chains("get", t, k) : Len(q) = Hops + 1}} \cup
    {IF Has("get", u, k) \/ Handler("get", u) = Nil THEN Answer("value", u, Raw(u, k))
     ELSE IF Callable("get", u) THEN Answer("call", u, Nil) ELSE Trap : u \in Ends("get", t, k)}

\* t[i] with i a number: a slot of the array part is final, holes included.
GetNumAnswers(t, i) ==
    {Answer("value", t, Nil) : p \in {q \in Chains("getnum", t, i) : Len(q) = Hops + 1}} \cup
    {IF Has("getnum", u, i) THEN Answer("value", u, array[u][i])
     ELSE IF Callable("getnum", u) THEN Answer("call", u, Nil)
     ELSE IF Mismatch("getnum", u) THEN Trap ELSE Answer("value", t, Nil) : u \in Ends("getnum", t, i)}

\* t[k] = v with k a string; numeric: v is a number at compile time.
SetAnswers(t, k, v, numeric) ==
    {Trap : p \in {q \in Chains("set", t, k) : Len(q) = Hops + 1}} \cup
    {IF Has("set", u, k) \/ Handler("set", u) = Nil THEN Answer("value", u, v)
     ELSE IF Callable("set", u) /\ numeric THEN Answer("call", u, v) ELSE Trap : u \in Ends("set", t, k)}

\* t[i] = v with i a number: a handler that does not apply is passed over.
SetNumAnswers(t, i, v) ==
    IF i = 0 THEN {Trap}
    ELSE {Answer("value", p[Hops + 1], v) : p \in {q \in Chains("setnum", t, i) : Len(q) = Hops + 1}} \cup
         {IF Has("setnum", u, i) \/ v \notin Payload THEN Answer("value", u, v)
          ELSE IF Callable("setnum", u) THEN Answer("call", u, v)
          ELSE IF Mismatch("setnum", u) THEN Trap ELSE Answer("value", u, v) : u \in Ends("setnum", t, i)}

\* a[i] = v: a gap is filled with nil.
Assigned(a, i, v) ==
    [j \in 1 .. IF i > Len(a) THEN i ELSE Len(a) |->
        IF j = i THEN v ELSE IF j <= Len(a) THEN a[j] ELSE Nil]

----------------------------------------------------------------------------
Init ==
    /\ hash = [t \in Table |-> [k \in StrKey |-> Absent]]
    /\ array = [t \in Table |-> <<>>]
    /\ meta = [t \in Table |-> Null]
    /\ out = NoAccess

\* The access op of t at k was answered.
Answered(op, t, k) == out'.op = op /\ out'.obj = t /\ out'.key = k

Reads ==
    /\ UNCHANGED <<hash, array, meta>>
    /\ \E t \in Table :
         \/ \E k \in Field : Answered("get", t, k) /\ out'.ans \in GetAnswers(t, k)
         \/ \E i \in NumKey : Answered("getnum", t, i) /\ out'.ans \in GetNumAnswers(t, i)

\* getmetatable: the "__metatable" field hides the metatable.
GetMetatable ==
    /\ UNCHANGED <<hash, array, meta>>
    /\ \E t \in Table :
         out' = [op |-> "getmetatable", obj |-> t,
                 ans |-> IF meta[t] = Null THEN Nil
                         ELSE IF Raw(meta[t], "__metatable") # Nil THEN Raw(meta[t], "__metatable") ELSE meta[t]]

\* t[k] == nil looks at the table itself: no handler is asked.
NilTest ==
    /\ UNCHANGED <<hash, array, meta>>
    /\ \E t \in Table :
         \/ \E k \in Field : Answered("isnil", t, k) /\ out'.ans = (Raw(t, k) = Nil)
         \/ \E i \in NumKey :
               Answered("isnilnum", t, i) /\ out'.ans = (i \notin {j \in 1 .. Len(array[t]) : array[t][j] # Nil})

Writes ==
    /\ UNCHANGED meta
    /\ \E t \in Table :
         \/ \E k \in StrKey :
               /\ Answered("set", t, k)
               /\ \E v \in Value, numeric \in BOOLEAN :
                     /\ numeric => v \in Payload
                     /\ out'.ans \in SetAnswers(t, k, v, numeric)
                     /\ hash' = IF out'.ans.kind = "value" THEN [hash EXCEPT ![out'.ans.at][k] = v] ELSE hash
               /\ UNCHANGED array
         \/ \E i \in NumKey :
               /\ Answered("setnum", t, i)
               /\ \E v \in Value :
                     /\ out'.ans \in SetNumAnswers(t, i, v)
                     /\ array' = IF out'.ans.kind = "value" THEN [array EXCEPT ![out'.ans.at] = Assigned(@, i, v)]
                                 ELSE array
               /\ UNCHANGED hash

\* rawset, t[k] = nil, setmetatable: no chain is followed, and a metatable with
\* a "__metatable" field cannot be replaced (docs/design/0140).
RawWrites ==
    /\ UNCHANGED array /\ out' = NoAccess
    /\ \E t \in Table :
         \/ \E k \in StrKey, v \in Value \cup {Absent} :
               hash' = [hash EXCEPT ![t][k] = v] /\ UNCHANGED meta
         \/ \E m \in Table \cup {Null} :
               /\ meta[t] # Null => Raw(meta[t], "__metatable") = Nil
               /\ meta' = [meta EXCEPT ![t] = m]
               /\ UNCHANGED hash

\* The program goes on: the answer of the last access is forgotten.
Forget == out' = NoAccess /\ UNCHANGED <<hash, array, meta>>

Next == Forget \/ Reads \/ NilTest \/ GetMetatable \/ Writes \/ RawWrites

Spec == Init /\ [][Next]_vars
=============================================================================
