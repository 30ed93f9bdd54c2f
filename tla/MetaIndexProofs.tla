-------------------------- MODULE MetaIndexProofs --------------------------
(***************************************************************************)
(* MetaIndex implements LuaIndex, for every program and every set of       *)
(* tables.  The invariant is about the walk: the levels already taken are  *)
(* a chain of LuaIndex from the table of the access to the table the walk  *)
(* is at, and each of them used one of the Hops.                           *)
(***************************************************************************)
EXTENDS MetaIndex, SequenceTheorems, TLAPS

Op == {"get", "getnum", "set", "setnum"}

\* A walk: its key suits its operation, and only numbers are written as such.
WalkOK ==
    /\ DOMAIN walk = {"op", "obj", "key", "val", "numeric", "at", "hops"}
    /\ walk.op \in Op /\ walk.obj \in Table /\ walk.at \in Table
    /\ walk.op \in {"get", "set"} => walk.key \in Field
    /\ walk.op = "getnum" => walk.key \in NumKey
    /\ walk.op = "setnum" => walk.key \in NumKey \ {0}
    /\ walk.val \in Payload \cup {Nil}
    /\ walk.numeric \in BOOLEAN
    /\ walk.numeric => walk.val \in Payload
    /\ walk.op = "setnum" => (walk.numeric <=> walk.val \in Payload)
    /\ walk.hops \in 0 .. Hops

\* The n tables asked so far lead from the table of the access to u.
Led(n, u) ==
    \E p \in Lua!Chains(walk.op, walk.obj, walk.key) : Len(p) = n /\ p[n] = u

\* The levels left and the chain add up; a read has tested the table it is at.
WalkInv ==
    walk # NoAccess =>
      /\ out = NoAccess
      /\ Led(Hops + 1 - walk.hops, walk.at)
      /\ walk.op \in {"get", "getnum"} => ~Lua!Has(walk.op, walk.at, walk.key)

IndexInv == TypeOK /\ (walk # NoAccess => WalkOK) /\ WalkInv


----------------------------------------------------------------------------
(* Chains of tables.                                                       *)

\* The bounds are numbers.
LEMMA HopsType == Hops \in Nat /\ Hops >= 1 /\ MaxIndex \in Nat
BY HopsAssumption

\* A chain is a sequence of at most Hops + 1 tables.
LEMMA ChainIsSeq ==
    ASSUME NEW op, NEW t, NEW k, NEW p \in Lua!Chains(op, t, k)
    PROVE  /\ p \in Seq(Table) /\ Len(p) \in 1 .. Hops + 1
           /\ p[1] = t /\ Lua!IsChain(p, op, k)
<1>1. PICK n \in 1 .. Hops + 1 : p \in [1 .. n -> Table]
  BY DEF Lua!Chains
<1>2. n \in Nat /\ n >= 1
  BY <1>1, HopsType
<1>3. p \in Seq(Table)
  BY <1>1, <1>2, SeqDef
<1>4. Len(p) = n
  BY <1>1, <1>2, <1>3, LenProperties
<1> QED
  BY <1>1, <1>3, <1>4 DEF Lua!Chains

LEMMA SeqIsChain ==
    ASSUME NEW op, NEW t, NEW k, NEW p \in Seq(Table),
           Len(p) \in 1 .. Hops + 1, p[1] = t, Lua!IsChain(p, op, k)
    PROVE  p \in Lua!Chains(op, t, k)
<1>1. p \in [1 .. Len(p) -> Table]
  BY LenProperties
<1> QED
  BY <1>1 DEF Lua!Chains

\* An access starts with the chain of its own table.
LEMMA ChainOfOne ==
    ASSUME NEW op, NEW t \in Table, NEW k
    PROVE  \E p \in Lua!Chains(op, t, k) : Len(p) = 1 /\ p[1] = t
<1>1. <<t>> \in Seq(Table) /\ Len(<<t>>) = 1 /\ <<t>>[1] = t
  OBVIOUS
<1>2. Lua!IsChain(<<t>>, op, k)
  BY <1>1 DEF Lua!IsChain
<1>3. Len(<<t>>) \in 1 .. Hops + 1
  BY <1>1, HopsType
<1>4. <<t>> \in Lua!Chains(op, t, k)
  BY <1>1, <1>2, <1>3, SeqIsChain
<1> QED
  BY <1>1, <1>4

\* A table that lacks the key and has a handler that is a table adds it.
LEMMA ChainGrows ==
    ASSUME NEW op, NEW t, NEW k, NEW n \in 1 .. Hops, NEW u, NEW f \in Table,
           \E p \in Lua!Chains(op, t, k) : Len(p) = n /\ p[n] = u,
           ~Lua!Has(op, u, k), Lua!Handler(op, u) = f
    PROVE  \E p \in Lua!Chains(op, t, k) : Len(p) = n + 1 /\ p[n + 1] = f
<1>1. PICK p \in Lua!Chains(op, t, k) : Len(p) = n /\ p[n] = u
  OBVIOUS
<1>2. p \in Seq(Table) /\ p[1] = t /\ Lua!IsChain(p, op, k)
  BY <1>1, ChainIsSeq
<1>3. n \in Nat /\ n >= 1 /\ n + 1 \in 1 .. Hops + 1
  BY HopsType
<1>4. PICK q : q = Append(p, f)
  OBVIOUS
<1>5. /\ q \in Seq(Table) /\ Len(q) = n + 1 /\ q[n + 1] = f
      /\ \A i \in 1 .. n : q[i] = p[i]
  BY <1>1, <1>2, <1>4, AppendProperties
<1>6. ASSUME NEW i \in 1 .. Len(q) - 1
      PROVE  ~Lua!Has(op, q[i], k) /\ Lua!Handler(op, q[i]) = q[i + 1]
  <2>1. i \in 1 .. n /\ i \in Nat
    BY <1>5, <1>3
  <2>2. CASE i = n
    BY <2>2, <1>1, <1>3, <1>5
  <2>3. CASE i # n
    <3>1. i \in 1 .. Len(p) - 1 /\ i + 1 \in 1 .. n
      BY <2>1, <2>3, <1>1, <1>3
    <3>2. q[i] = p[i] /\ q[i + 1] = p[i + 1]
      BY <2>1, <3>1, <1>5
    <3>3. ~Lua!Has(op, p[i], k) /\ Lua!Handler(op, p[i]) = p[i + 1]
      BY <3>1, <1>2 DEF Lua!IsChain
    <3> QED
      BY <3>2, <3>3
  <2> QED
    BY <2>2, <2>3
<1>7. Lua!IsChain(q, op, k)
  BY <1>6 DEF Lua!IsChain
<1>8. q[1] = t
  BY <1>2, <1>3, <1>5
<1>9. q \in Lua!Chains(op, t, k)
  BY <1>3, <1>5, <1>7, <1>8, SeqIsChain
<1> QED
  BY <1>5, <1>9

\* The chain an access has followed is one as long as no table changes.
LEMMA ChainStays ==
    ASSUME UNCHANGED <<hash, array, meta>>, NEW op, NEW t, NEW k
    PROVE  /\ Lua!Chains(op, t, k)' = Lua!Chains(op, t, k)
           /\ \A u : Lua!Has(op, u, k)' = Lua!Has(op, u, k)
BY DEF Lua!Chains, Lua!IsChain, Lua!Has, Lua!Handler, Lua!Raw

----------------------------------------------------------------------------
(* The invariant.                                                          *)

TablesOK ==
    /\ hash \in [Table -> [StrKey -> Value \cup {Absent}]]
    /\ array \in [Table -> Seq(Value)]
    /\ meta \in [Table -> Table \cup {Null}]

\* Between two accesses only the types of the tables say anything.
LEMMA NoWalk ==
    ASSUME TablesOK', walk' = NoAccess
    PROVE  IndexInv'
BY DEF TablesOK, IndexInv, TypeOK, WalkInv

\* A walk that is well formed has the types that TypeOK asks for.
LEMMA Walking ==
    ASSUME TablesOK', WalkOK', WalkInv'
    PROVE  IndexInv'
<1>1. TypeOK'
  BY DEF TablesOK, WalkOK, TypeOK, Op
<1> QED
  BY <1>1 DEF IndexInv

\* The direct lookup found nothing: the walk starts with a chain of one table.
LEMMA Begun ==
    ASSUME IndexInv, UNCHANGED <<hash, array, meta>>, out = NoAccess,
           NEW op \in Op, NEW t \in Table, NEW k, NEW v, NEW numeric \in BOOLEAN,
           Begin(Access(op, t, k, v, numeric)),
           op \in {"get", "set"} => k \in Field,
           op = "getnum" => k \in NumKey,
           op = "setnum" => k \in NumKey \ {0},
           v \in Payload \cup {Nil}, numeric => v \in Payload,
           op = "setnum" => (numeric <=> v \in Payload),
           op \in {"get", "getnum"} => ~Lua!Has(op, t, k)
    PROVE  IndexInv'
<1>1. /\ DOMAIN walk' = {"op", "obj", "key", "val", "numeric", "at", "hops"}
      /\ walk'.op = op /\ walk'.obj = t /\ walk'.key = k /\ walk'.val = v
      /\ walk'.numeric = numeric /\ walk'.at = t /\ walk'.hops = Hops
  BY DEF Begin, Access
<1>2. out' = NoAccess
  BY DEF Begin
<1>3. TablesOK'
  BY DEF IndexInv, TypeOK, TablesOK
<1>4. WalkOK'
  BY <1>1, HopsType DEF WalkOK
<1>5. PICK p \in Lua!Chains(op, t, k) : Len(p) = 1 /\ p[1] = t
  BY ChainOfOne
<1>6. Lua!Chains(op, t, k)' = Lua!Chains(op, t, k) /\ \A u : Lua!Has(op, u, k)' = Lua!Has(op, u, k)
  BY ChainStays
<1>7. Hops + 1 - walk'.hops = 1
  BY <1>1, HopsType
<1>8. Led(Hops + 1 - walk.hops, walk.at)'
  BY <1>1, <1>5, <1>6, <1>7 DEF Led
<1>9. op \in {"get", "getnum"} => ~Lua!Has(op, t, k)'
  BY <1>6
<1>10. WalkInv'
  BY <1>1, <1>2, <1>8, <1>9 DEF WalkInv
<1> QED
  BY <1>3, <1>4, <1>10, Walking

\* One more level: the table of this level lacks the key, and the next one is
\* its handler.
LEMMA GoneOn ==
    ASSUME IndexInv, walk # NoAccess, walk.hops > 0, UNCHANGED <<hash, array, meta>>,
           NEW f \in Table, GoOn(f),
           ~Lua!Has(walk.op, walk.at, walk.key), Lua!Handler(walk.op, walk.at) = f,
           walk.op \in {"get", "getnum"} => ~Lua!Has(walk.op, f, walk.key)
    PROVE  IndexInv'
<1>1. WalkOK /\ WalkInv /\ TablesOK'
  BY DEF IndexInv, TypeOK, TablesOK
<1>2. PICK op, t, k, u, h : op = walk.op /\ t = walk.obj /\ k = walk.key /\ u = walk.at /\ h = walk.hops
  OBVIOUS
<1>3. h \in 0 .. Hops /\ h > 0 /\ h \in Nat /\ Hops \in Nat
  BY <1>1, <1>2, HopsType DEF WalkOK
<1>4. /\ DOMAIN walk' = {"op", "obj", "key", "val", "numeric", "at", "hops"}
      /\ walk'.op = op /\ walk'.obj = t /\ walk'.key = k /\ walk'.val = walk.val
      /\ walk'.numeric = walk.numeric /\ walk'.at = f /\ walk'.hops = h - 1
  BY <1>1, <1>2 DEF WalkOK, GoOn
<1>5. h - 1 \in 0 .. Hops /\ Hops + 1 - h \in 1 .. Hops /\ Hops + 1 - (h - 1) = (Hops + 1 - h) + 1
  BY <1>3
<1>6. WalkOK'
  BY <1>1, <1>2, <1>4, <1>5 DEF WalkOK
<1>7. \E p \in Lua!Chains(op, t, k) : Len(p) = Hops + 1 - h /\ p[Hops + 1 - h] = u
  BY <1>1, <1>2 DEF WalkInv, Led
<1>8. ~Lua!Has(op, u, k) /\ Lua!Handler(op, u) = f /\ (op \in {"get", "getnum"} => ~Lua!Has(op, f, k))
  BY <1>2
<1>9. \E p \in Lua!Chains(op, t, k) : Len(p) = (Hops + 1 - h) + 1 /\ p[(Hops + 1 - h) + 1] = f
  BY <1>5, <1>7, <1>8, ChainGrows
<1>10. Lua!Chains(op, t, k)' = Lua!Chains(op, t, k) /\ \A x : Lua!Has(op, x, k)' = Lua!Has(op, x, k)
  BY ChainStays
<1>11. Led(Hops + 1 - walk.hops, walk.at)'
  BY <1>4, <1>5, <1>9, <1>10 DEF Led
<1>12. op \in {"get", "getnum"} => ~Lua!Has(op, f, k)'
  BY <1>8, <1>10
<1>13. out' = NoAccess
  BY <1>1 DEF WalkInv, GoOn
<1>14. WalkInv'
  BY <1>4, <1>11, <1>12, <1>13 DEF WalkInv
<1> QED
  BY <1>1, <1>6, <1>14, Walking

----------------------------------------------------------------------------
(* The model's lookups are those of LuaIndex.                              *)

\* The metafields asked for.
LEMMA MetafieldIsHandler ==
    /\ \A t, op : op \in {"get", "getnum"} => Metavalue(t, "__index") = Lua!Handler(op, t)
    /\ \A t, op : op \in {"set", "setnum"} => Metavalue(t, "__newindex") = Lua!Handler(op, t)
BY DEF Metavalue, Raw, Lua!Handler, Lua!Raw

\* When a table holds a string key.
LEMMA HasMeans ==
    /\ \A t, k : Lua!Has("get", t, k) <=> Raw(t, k) # Nil
    /\ \A t, k : Lua!Has("set", t, k) <=> hash[t][k] # Absent
BY DEF Lua!Has, Lua!Raw, Raw

\* When it holds a number key.
LEMMA HasNumMeans ==
    ASSUME TablesOK, NEW t \in Table, NEW i \in NumKey
    PROVE  /\ Lua!Has("getnum", t, i) <=> InArray(t, i)
           /\ Lua!Has("setnum", t, i) <=> (InArray(t, i) /\ array[t][i] # Nil)
<1>1. i \in Int /\ Len(array[t]) \in Nat
  BY HopsType DEF TablesOK, NumKey
<1>2. InArray(t, i) <=> i \in 1 .. Len(array[t])
  BY <1>1 DEF InArray
<1> QED
  BY <1>2 DEF Lua!Has

\* Only handlers, numbers and nil are ever stored.
LEMMA StoredAreValues ==
    /\ \A k \in StrKey : ValuesFor(k) \subseteq Value
    /\ \A k \in Field : ValuesFor(k) = Payload \cup {Nil} /\ k \in StrKey
<1>1. \A k \in Field : ValuesFor(k) = Payload \cup {Nil} /\ k \in StrKey
  BY TagAssumption DEF ValuesFor, StrKey, Metafield
<1>2. ASSUME NEW k \in Metafield
      PROVE  ValuesFor(k) \subseteq Value
  BY <1>2, TagAssumption DEF ValuesFor, Metafield, Value
<1> QED
  BY <1>1, <1>2 DEF StrKey, Value

\* A write beyond the end of the array part fills the gap with nil.
LEMMA AssignTypes ==
    ASSUME TablesOK, NEW t \in Table, NEW i \in NumKey \ {0}, NEW v \in Value
    PROVE  ArrayAssign(t, i, v) \in [Table -> Seq(Value)]
<1> DEFINE n == IF i > Len(array[t]) THEN i ELSE Len(array[t])
           new == [j \in 1 .. n |-> IF j = i THEN v ELSE IF j <= Len(array[t]) THEN array[t][j] ELSE Nil]
<1>1. array[t] \in Seq(Value) /\ Len(array[t]) \in Nat /\ i \in Nat
  BY HopsType DEF TablesOK, NumKey
<1>2. n \in Nat
  BY <1>1
<1>3. \A j \in 1 .. n : j <= Len(array[t]) => array[t][j] \in Value
  BY <1>1, <1>2
<1>4. new \in [1 .. n -> Value]
  BY <1>3 DEF Value
<1>5. new \in Seq(Value)
  BY <1>2, <1>4, SeqDef
<1>6. ArrayAssign(t, i, v) = [array EXCEPT ![t] = new]
  BY DEF ArrayAssign, TablesOK
<1> HIDE DEF new
<1> QED
  BY <1>5, <1>6 DEF TablesOK

----------------------------------------------------------------------------
(* Every step preserves the invariant.                                     *)

\* A level of a walk.
LEMMA HopInv ==
    ASSUME IndexInv, Hop
    PROVE  IndexInv'
<1> USE DEF Level, NoWrite, Finish
<1>1. walk # NoAccess
  BY DEF Hop, IndexTooDeep, IndexTable, IndexOther, IndexNumTooDeep, IndexNumTable, IndexNumOther,
         NewindexTooDeep, NewindexWrites, NewindexAsks, RouteNum, CallNum, WriteNum, NoAccess
<1>2. TablesOK /\ WalkOK /\ WalkInv
  BY <1>1 DEF IndexInv, TypeOK, TablesOK
<1>3. ASSUME walk' = NoAccess, UNCHANGED <<hash, array, meta>>
      PROVE  IndexInv'
  BY <1>2, <1>3, NoWalk DEF TablesOK
<1>4. CASE IndexTooDeep \/ IndexOther \/ IndexNumTooDeep \/ IndexNumOther \/ NewindexTooDeep \/ CallNum
  BY <1>3, <1>4 DEF IndexTooDeep, IndexOther, IndexNumTooDeep, IndexNumOther, NewindexTooDeep, CallNum
<1>5. CASE IndexTable
  <2>1. PICK f \in Table : f = Metavalue(walk.at, "__index")
    BY <1>5 DEF IndexTable
  <2>2. walk.op = "get" /\ walk.hops > 0 /\ UNCHANGED <<hash, array, meta>>
    BY <1>5 DEF IndexTable
  <2>3. CASE Raw(f, walk.key) # Nil
    BY <1>3, <1>5, <2>1, <2>2, <2>3 DEF IndexTable
  <2>4. CASE Raw(f, walk.key) = Nil
    <3>1. GoOn(f)
      BY <1>5, <2>1, <2>4 DEF IndexTable
    <3>2. ~Lua!Has(walk.op, f, walk.key)
      BY <2>2, <2>4, HasMeans
    <3>3. ~Lua!Has(walk.op, walk.at, walk.key) /\ Lua!Handler(walk.op, walk.at) = f
      BY <1>1, <1>2, <2>1, <2>2, MetafieldIsHandler DEF WalkInv
    <3> QED
      BY <1>1, <2>2, <3>1, <3>2, <3>3, GoneOn
  <2> QED
    BY <2>3, <2>4
<1>6. CASE IndexNumTable
  <2>1. PICK f \in Table : f = Metavalue(walk.at, "__index")
    BY <1>6 DEF IndexNumTable
  <2>2. walk.op = "getnum" /\ walk.hops > 0 /\ UNCHANGED <<hash, array, meta>>
    BY <1>6 DEF IndexNumTable
  <2>3. CASE InArray(f, walk.key)
    BY <1>3, <1>6, <2>1, <2>2, <2>3 DEF IndexNumTable
  <2>4. CASE ~InArray(f, walk.key)
    <3>1. GoOn(f)
      BY <1>6, <2>1, <2>4 DEF IndexNumTable
    <3>2. ~Lua!Has(walk.op, f, walk.key)
      BY <1>2, <2>2, <2>4, HasNumMeans DEF WalkOK
    <3>3. ~Lua!Has(walk.op, walk.at, walk.key) /\ Lua!Handler(walk.op, walk.at) = f
      BY <1>1, <1>2, <2>1, <2>2, MetafieldIsHandler DEF WalkInv
    <3> QED
      BY <1>1, <2>2, <3>1, <3>2, <3>3, GoneOn
  <2> QED
    BY <2>3, <2>4
<1>7. CASE NewindexWrites
  <2>1. walk' = NoAccess /\ UNCHANGED <<array, meta>> /\ hash' = [hash EXCEPT ![walk.at][walk.key] = walk.val]
    BY <1>7 DEF NewindexWrites
  <2>2. walk.at \in Table /\ walk.key \in StrKey /\ walk.val \in Value
    BY <1>2, <1>7 DEF NewindexWrites, WalkOK, StrKey, Value
  <2>3. TablesOK'
    BY <1>2, <2>1, <2>2 DEF TablesOK
  <2> QED
    BY <2>1, <2>3, NoWalk
<1>8. CASE NewindexAsks
  <2>1. walk.op = "set" /\ walk.hops > 0 /\ UNCHANGED <<hash, array, meta>> /\ hash[walk.at][walk.key] = Absent
    BY <1>8 DEF NewindexAsks
  <2>2. CASE Metavalue(walk.at, "__newindex") \in Table
    <3>1. PICK f \in Table : f = Metavalue(walk.at, "__newindex")
      BY <2>2
    <3>2. GoOn(f)
      BY <1>8, <3>1 DEF NewindexAsks
    <3>3. ~Lua!Has(walk.op, walk.at, walk.key) /\ Lua!Handler(walk.op, walk.at) = f
      BY <2>1, <3>1, MetafieldIsHandler, HasMeans
    <3> QED
      BY <1>1, <2>1, <3>2, <3>3, GoneOn
  <2>3. CASE Metavalue(walk.at, "__newindex") \notin Table
    BY <1>3, <1>8, <2>1, <2>3 DEF NewindexAsks
  <2> QED
    BY <2>2, <2>3
<1>9. CASE RouteNum
  <2>1. walk.op = "setnum" /\ walk.hops > 0 /\ UNCHANGED <<hash, array, meta>>
    BY <1>9 DEF RouteNum
  <2>2. PICK f \in Table : f = Metavalue(walk.at, "__newindex") /\ GoOn(f)
    BY <1>9 DEF RouteNum
  <2>3. walk.key \in NumKey /\ walk.at \in Table
    BY <1>2, <2>1 DEF WalkOK
  <2>4. ~Lua!Has(walk.op, walk.at, walk.key)
    BY <1>2, <1>9, <2>1, <2>3, HasNumMeans DEF RouteNum, Asks
  <2>5. Lua!Handler(walk.op, walk.at) = f
    BY <2>1, <2>2, MetafieldIsHandler
  <2> QED
    BY <1>1, <2>1, <2>2, <2>4, <2>5, GoneOn
<1>10. CASE WriteNum
  <2>1. walk' = NoAccess /\ UNCHANGED <<hash, meta>> /\ array' = ArrayAssign(walk.at, walk.key, walk.val)
    BY <1>10 DEF WriteNum
  <2>2. walk.at \in Table /\ walk.key \in NumKey \ {0} /\ walk.val \in Value
    BY <1>2, <1>10 DEF WriteNum, WalkOK, Value
  <2>3. TablesOK'
    BY <1>2, <2>1, <2>2, AssignTypes DEF TablesOK
  <2> QED
    BY <2>1, <2>3, NoWalk
<1> QED
  BY <1>4, <1>5, <1>6, <1>7, <1>8, <1>9, <1>10 DEF Hop

\* An operation that begins an access or answers it at once.
LEMMA AccessInv ==
    ASSUME IndexInv, NEW t \in Table,
           \/ \E k \in Field : Index(t, k)
           \/ \E i \in NumKey : IndexNum(t, i)
           \/ \E k \in Field : \E v \in ValuesFor(k) :
                 IndexAssign(t, k, v, v \in Payload) \/ IndexAssign(t, k, v, FALSE)
           \/ \E i \in NumKey, v \in Payload \cup {Nil} : IndexAssignNum(t, i, v)
    PROVE  IndexInv'
<1>1. TablesOK
  BY DEF IndexInv, TypeOK, TablesOK
<1>2. out = NoAccess /\ UNCHANGED <<hash, array, meta>>
  BY DEF Index, IndexNum, IndexAssign, IndexAssignNum, Idle
<1>3. ASSUME walk' = NoAccess
      PROVE  IndexInv'
  BY <1>1, <1>2, <1>3, NoWalk DEF TablesOK
<1>4. ASSUME NEW k \in Field, Index(t, k)
      PROVE  IndexInv'
  <2>1. CASE Raw(t, k) # Nil
    BY <1>3, <1>4, <2>1 DEF Index, Finish
  <2>2. CASE Raw(t, k) = Nil
    <3>1. Begin(Access("get", t, k, Nil, FALSE))
      BY <1>4, <2>2 DEF Index
    <3>2. ~Lua!Has("get", t, k)
      BY <2>2, HasMeans
    <3> QED
      BY <1>2, <3>1, <3>2, Begun DEF Op
  <2> QED
    BY <2>1, <2>2
<1>5. ASSUME NEW i \in NumKey, IndexNum(t, i)
      PROVE  IndexInv'
  <2>1. CASE InArray(t, i)
    BY <1>3, <1>5, <2>1 DEF IndexNum, Finish
  <2>2. CASE ~InArray(t, i)
    <3>1. Begin(Access("getnum", t, i, Nil, FALSE))
      BY <1>5, <2>2 DEF IndexNum
    <3>2. ~Lua!Has("getnum", t, i)
      BY <1>1, <2>2, HasNumMeans
    <3> QED
      BY <1>2, <3>1, <3>2, Begun DEF Op
  <2> QED
    BY <2>1, <2>2
<1>6. ASSUME NEW k \in Field, NEW v \in ValuesFor(k), NEW numeric \in BOOLEAN,
             numeric => v \in Payload, IndexAssign(t, k, v, numeric)
      PROVE  IndexInv'
  <2>1. Begin(Access("set", t, k, v, numeric))
    BY <1>6 DEF IndexAssign
  <2>2. v \in Payload \cup {Nil}
    BY <1>6, StoredAreValues
  <2> QED
    BY <1>2, <1>6, <2>1, <2>2, Begun DEF Op
<1>7. ASSUME NEW i \in NumKey, NEW v \in Payload \cup {Nil}, IndexAssignNum(t, i, v)
      PROVE  IndexInv'
  <2>1. i \in Nat
    BY HopsType DEF NumKey
  <2>2. CASE i < 1
    BY <1>3, <1>7, <2>2 DEF IndexAssignNum, Finish
  <2>3. CASE ~(i < 1)
    <3>1. PICK numeric \in BOOLEAN : numeric <=> v \in Payload
      OBVIOUS
    <3>1a. numeric = (v \in Payload)
      BY <3>1
    <3>1b. Begin(Access("setnum", t, i, v, numeric))
      BY <1>7, <2>3, <3>1a DEF IndexAssignNum
    <3>2. i \in NumKey \ {0}
      BY <2>1, <2>3
    <3> QED
      BY <1>2, <3>1, <3>1b, <3>2, Begun DEF Op
  <2> QED
    BY <2>2, <2>3
<1>8. ASSUME NEW k \in Field, NEW v \in ValuesFor(k), IndexAssign(t, k, v, v \in Payload)
      PROVE  IndexInv'
  <2>1. PICK numeric \in BOOLEAN : numeric <=> v \in Payload
    OBVIOUS
  <2>2. numeric = (v \in Payload)
    BY <2>1
  <2>3. IndexAssign(t, k, v, numeric)
    BY <1>8, <2>2
  <2> QED
    BY <1>6, <2>1, <2>3
<1>9. ASSUME NEW k \in Field, NEW v \in ValuesFor(k), IndexAssign(t, k, v, FALSE)
      PROVE  IndexInv'
  BY <1>6, <1>9
<1> QED
  BY <1>4, <1>5, <1>7, <1>8, <1>9

\* Every step of the program or of a walk.
LEMMA StepInv ==
    ASSUME IndexInv, [Next]_vars
    PROVE  IndexInv'
<1>1. TablesOK
  BY DEF IndexInv, TypeOK, TablesOK
<1>2. ASSUME walk' = NoAccess, UNCHANGED <<hash, array, meta>>
      PROVE  IndexInv'
  BY <1>1, <1>2, NoWalk DEF TablesOK
<1>3. CASE Hop
  BY <1>3, HopInv
<1>4. CASE Use
  BY <1>2, <1>4 DEF Use
<1>5. ASSUME NEW t \in Table, NEW k \in Field, IsNilIndex(t, k)
      PROVE  IndexInv'
  BY <1>2, <1>5 DEF IsNilIndex, Idle
<1>6. ASSUME NEW t \in Table, NEW i \in NumKey, IsNilIndexNum(t, i)
      PROVE  IndexInv'
  BY <1>2, <1>6 DEF IsNilIndexNum, Idle
<1>7. ASSUME NEW t \in Table, GetMetatable(t)
      PROVE  IndexInv'
  BY <1>2, <1>7 DEF GetMetatable, Idle
<1>8. ASSUME NEW t \in Table, NEW k \in StrKey, Erase(t, k)
      PROVE  IndexInv'
  <2>1. walk' = NoAccess
    BY <1>8 DEF Erase, Idle
  <2>2. TablesOK'
    BY <1>1, <1>8 DEF Erase, TablesOK
  <2> QED
    BY <2>1, <2>2, NoWalk
<1>9. ASSUME NEW t \in Table, NEW k \in StrKey, NEW v \in ValuesFor(k), RawSet(t, k, v)
      PROVE  IndexInv'
  <2>1. walk' = NoAccess /\ v \in Value
    BY <1>9, StoredAreValues DEF RawSet, Idle
  <2>2. TablesOK'
    BY <1>1, <1>9, <2>1 DEF RawSet, TablesOK
  <2> QED
    BY <2>1, <2>2, NoWalk
<1>10. ASSUME NEW t \in Table, NEW m \in Table \cup {Null}, SetMetatable(t, m)
       PROVE  IndexInv'
  <2>1. walk' = NoAccess
    BY <1>10 DEF SetMetatable, Idle
  <2>2. TablesOK'
    BY <1>1, <1>10 DEF SetMetatable, TablesOK
  <2> QED
    BY <2>1, <2>2, NoWalk
<1>11. CASE UNCHANGED vars
  <2>1. TablesOK'
    BY <1>1, <1>11 DEF vars, TablesOK
  <2>2. walk # NoAccess => WalkOK' /\ WalkInv'
    <3>1. SUFFICES ASSUME walk # NoAccess
                   PROVE  WalkOK' /\ WalkInv'
      OBVIOUS
    <3>2. UNCHANGED <<hash, array, meta, walk, out>>
      BY <1>11 DEF vars
    <3>3. WalkOK'
      BY <3>1, <3>2 DEF IndexInv, WalkOK
    <3>4. WalkInv'
      <4>1. PICK op, t, k, h : op = walk.op /\ t = walk.obj /\ k = walk.key /\ h = walk.hops
        OBVIOUS
      <4>2. Lua!Chains(op, t, k)' = Lua!Chains(op, t, k) /\ \A u : Lua!Has(op, u, k)' = Lua!Has(op, u, k)
        BY <3>2, ChainStays
      <4> QED
        BY <3>1, <3>2, <4>1, <4>2 DEF IndexInv, WalkInv, Led
    <3> QED
      BY <3>3, <3>4
  <2>3. walk' = walk
    BY <1>11 DEF vars
  <2>4. CASE walk = NoAccess
    BY <2>1, <2>3, <2>4, NoWalk
  <2> QED
    BY <2>1, <2>2, <2>4, Walking
<1> QED
  BY <1>3, <1>4, <1>5, <1>6, <1>7, <1>8, <1>9, <1>10, <1>11, AccessInv DEF Next

\* The initial state.
LEMMA InitInv == Init => IndexInv
<1> SUFFICES ASSUME Init
             PROVE  IndexInv
  OBVIOUS
<1>1. << >> \in Seq(Value)
  OBVIOUS
<1> QED
  BY <1>1 DEF Init, IndexInv, TypeOK, WalkInv

\* Every access under way is well formed and has followed a chain of handlers
\* of exactly the length that its unrolled levels used up.
THEOREM WalksFollowChains == Spec => []IndexInv
<1>1. IndexInv /\ [Next]_vars => IndexInv'
  BY StepInv
<1> QED
  BY InitInv, <1>1, PTL DEF Spec

\* The tables, their metatables and the access under way keep their types.
THEOREM IndexTypes == Spec => []TypeOK
<1>1. IndexInv => TypeOK
  BY DEF IndexInv
<1> QED
  BY WalksFollowChains, <1>1, PTL

----------------------------------------------------------------------------
(* Each access is answered as LuaIndex answers it.                         *)

\* The chain leads to a table that holds the key or names no further table.
LEMMA Decided ==
    ASSUME NEW op, NEW t, NEW k, NEW n, NEW u \in Table,
           \E p \in Lua!Chains(op, t, k) : Len(p) = n /\ p[n] = u,
           Lua!Has(op, u, k) \/ Lua!Handler(op, u) \notin Table
    PROVE  u \in Lua!Ends(op, t, k)
BY DEF Lua!Ends

\* The last unrolled level is at the end of a chain of Hops + 1 tables.
LEMMA Exhausted ==
    ASSUME IndexInv, walk # NoAccess, walk.hops = 0
    PROVE  \E p \in Lua!Chains(walk.op, walk.obj, walk.key) : Len(p) = Hops + 1 /\ p[Hops + 1] = walk.at
<1>1. Hops + 1 - walk.hops = Hops + 1
  BY HopsType
<1> QED
  BY <1>1 DEF IndexInv, WalkInv, Led

\* What can be read at the end of the chain.
LEMMA GetAnswered ==
    ASSUME NEW t, NEW k
    PROVE  /\ \A p \in Lua!Chains("get", t, k) : Len(p) = Hops + 1 => Trap \in Lua!GetAnswers(t, k)
           /\ \A u \in Lua!Ends("get", t, k) :
                (IF Lua!Has("get", u, k) \/ Lua!Handler("get", u) = Nil THEN Answer("value", u, Raw(u, k))
                 ELSE IF Lua!Callable("get", u) THEN Answer("call", u, Nil) ELSE Trap) \in Lua!GetAnswers(t, k)
BY DEF Lua!GetAnswers, Lua!Answer, Lua!Trap, Answer, Trap, Lua!Raw, Raw

\* The same of a number key.
LEMMA GetNumAnswered ==
    ASSUME NEW t, NEW i
    PROVE  /\ \A p \in Lua!Chains("getnum", t, i) :
                Len(p) = Hops + 1 => Answer("value", t, Nil) \in Lua!GetNumAnswers(t, i)
           /\ \A u \in Lua!Ends("getnum", t, i) :
                (IF Lua!Has("getnum", u, i) THEN Answer("value", u, array[u][i])
                 ELSE IF Lua!Callable("getnum", u) THEN Answer("call", u, Nil)
                 ELSE IF Lua!Mismatch("getnum", u) THEN Trap ELSE Answer("value", t, Nil)) \in Lua!GetNumAnswers(t, i)
BY DEF Lua!GetNumAnswers, Lua!Answer, Lua!Trap, Answer, Trap

\* What can be written there.
LEMMA SetAnswered ==
    ASSUME NEW t, NEW k, NEW v, NEW numeric
    PROVE  /\ \A p \in Lua!Chains("set", t, k) : Len(p) = Hops + 1 => Trap \in Lua!SetAnswers(t, k, v, numeric)
           /\ \A u \in Lua!Ends("set", t, k) :
                (IF Lua!Has("set", u, k) \/ Lua!Handler("set", u) = Nil THEN Answer("value", u, v)
                 ELSE IF Lua!Callable("set", u) /\ numeric THEN Answer("call", u, v) ELSE Trap)
                    \in Lua!SetAnswers(t, k, v, numeric)
BY DEF Lua!SetAnswers, Lua!Answer, Lua!Trap, Answer, Trap

\* The same of a number key.
LEMMA SetNumAnswered ==
    ASSUME NEW t, NEW i, i # 0, NEW v
    PROVE  /\ \A p \in Lua!Chains("setnum", t, i) :
                Len(p) = Hops + 1 => Answer("value", p[Hops + 1], v) \in Lua!SetNumAnswers(t, i, v)
           /\ \A u \in Lua!Ends("setnum", t, i) :
                (IF Lua!Has("setnum", u, i) \/ v \notin Payload THEN Answer("value", u, v)
                 ELSE IF Lua!Callable("setnum", u) THEN Answer("call", u, v)
                 ELSE IF Lua!Mismatch("setnum", u) THEN Trap ELSE Answer("value", u, v))
                    \in Lua!SetNumAnswers(t, i, v)
BY DEF Lua!SetNumAnswers, Lua!Answer, Lua!Trap, Answer, Trap

\* A handler is a value: one of the functions of the program if it is a function.
LEMMA HandlerIsValue ==
    ASSUME TablesOK, NEW op, NEW t \in Table
    PROVE  /\ Lua!Handler(op, t) \in Value
           /\ Lua!Handler(op, t) \in Handlers => Lua!Handler(op, t) \in Signature
           /\ Lua!Handler(op, t) \in Signature => Lua!Handler(op, t) \notin Table
<1> DEFINE f == IF op \in {"get", "getnum"} THEN "__index" ELSE "__newindex"
<1>1. f \in StrKey
  BY DEF StrKey, Metafield
<1>2. Lua!Handler(op, t) = IF meta[t] = Null THEN Nil ELSE Lua!Raw(meta[t], f)
  BY DEF Lua!Handler
<1>3. \A m \in Table : Lua!Raw(m, f) \in Value
  BY <1>1 DEF Lua!Raw, TablesOK, Value
<1>4. Lua!Handler(op, t) \in Value
  BY <1>2, <1>3 DEF TablesOK, Value
<1> QED
  BY <1>4, TagAssumption DEF Value

\* A level of a walk answers the access or leaves LuaIndex where it is.
LEMMA HopRefines ==
    ASSUME IndexInv, Hop
    PROVE  Lua!Next \/ UNCHANGED Lua!vars
<1> USE DEF Level, NoWrite
<1>1. walk # NoAccess
  BY DEF Hop, IndexTooDeep, IndexTable, IndexOther, IndexNumTooDeep, IndexNumTable, IndexNumOther,
         NewindexTooDeep, NewindexWrites, NewindexAsks, RouteNum, CallNum, WriteNum, NoAccess
<1>2. TablesOK /\ WalkOK /\ WalkInv
  BY <1>1 DEF IndexInv, TypeOK, TablesOK
<1>3. PICK op, t, k, v, u, h, num :
         /\ op = walk.op /\ t = walk.obj /\ k = walk.key /\ v = walk.val
         /\ u = walk.at /\ h = walk.hops /\ num = walk.numeric
  OBVIOUS
<1>4. /\ op \in Op /\ t \in Table /\ u \in Table /\ h \in 0 .. Hops /\ v \in Payload \cup {Nil} /\ v \in Value
      /\ op \in {"get", "set"} => k \in Field
      /\ op = "getnum" => k \in NumKey
      /\ op = "setnum" => k \in NumKey \ {0}
      /\ num \in BOOLEAN /\ (num => v \in Payload)
      /\ op = "setnum" => (num <=> v \in Payload)
  BY <1>2, <1>3 DEF WalkOK, Value
<1>5. /\ \E p \in Lua!Chains(op, t, k) : Len(p) = Hops + 1 - h /\ p[Hops + 1 - h] = u
      /\ op \in {"get", "getnum"} => ~Lua!Has(op, u, k)
  BY <1>1, <1>2, <1>3 DEF WalkInv, Led
<1>6. h = 0 => \E p \in Lua!Chains(op, t, k) : Len(p) = Hops + 1 /\ p[Hops + 1] = u
  BY <1>1, <1>3, Exhausted
<1>7. h > 0 => Hops + 1 - h \in 1 .. Hops
  BY <1>4, HopsType
<1>8. Lua!Has(op, u, k) \/ Lua!Handler(op, u) \notin Table => u \in Lua!Ends(op, t, k)
  BY <1>4, <1>5, Decided
<1>9. ASSUME NEW f \in Table, h > 0, ~Lua!Has(op, u, k), Lua!Handler(op, u) = f, Lua!Has(op, f, k)
      PROVE  f \in Lua!Ends(op, t, k)
  <2>1. \E p \in Lua!Chains(op, t, k) : Len(p) = (Hops + 1 - h) + 1 /\ p[(Hops + 1 - h) + 1] = f
    BY <1>5, <1>7, <1>9, ChainGrows
  <2> QED
    BY <1>9, <2>1, Decided
<1>10. ASSUME NEW f, GoOn(f), UNCHANGED <<hash, array, meta>>
       PROVE  UNCHANGED Lua!vars
  BY <1>10 DEF GoOn, Lua!vars
<1>11. ASSUME NEW ans, Finish(walk, ans)
       PROVE  Lua!Answered(op, t, k) /\ out'.ans = ans
  BY <1>3, <1>11 DEF Finish, Lua!Answered
<1>12. ASSUME op = "get", UNCHANGED <<hash, array, meta>>, NEW ans \in Lua!GetAnswers(t, k), Finish(walk, ans)
       PROVE  Lua!Next
  BY <1>4, <1>11, <1>12 DEF Lua!Next, Lua!Reads
<1>13. ASSUME op = "getnum", UNCHANGED <<hash, array, meta>>, NEW ans \in Lua!GetNumAnswers(t, k), Finish(walk, ans)
       PROVE  Lua!Next
  BY <1>4, <1>11, <1>13 DEF Lua!Next, Lua!Reads, NumKey, Lua!NumKey
<1>14. ASSUME op = "set", UNCHANGED <<array, meta>>, NEW ans \in Lua!SetAnswers(t, k, v, num), Finish(walk, ans),
              hash' = IF ans.kind = "value" THEN [hash EXCEPT ![ans.at][k] = v] ELSE hash
       PROVE  Lua!Next
  <2>1. k \in Lua!StrKey /\ v \in Lua!Value
    BY <1>4, <1>14 DEF Lua!StrKey, Lua!Value, Value
  <2> QED
    BY <1>4, <1>11, <1>14, <2>1 DEF Lua!Next, Lua!Writes
<1>15. ASSUME op = "setnum", UNCHANGED <<hash, meta>>, NEW ans \in Lua!SetNumAnswers(t, k, v), Finish(walk, ans),
              array' = IF ans.kind = "value" THEN [array EXCEPT ![ans.at] = Lua!Assigned(@, k, v)] ELSE array
       PROVE  Lua!Next
  <2>1. k \in Lua!NumKey /\ v \in Lua!Value
    BY <1>4, <1>15 DEF Lua!NumKey, NumKey, Lua!Value, Value
  <2> QED
    BY <1>4, <1>11, <1>15, <2>1 DEF Lua!Next, Lua!Writes
<1>16. CASE IndexTooDeep
  <2>1. op = "get" /\ h = 0 /\ UNCHANGED <<hash, array, meta>> /\ Finish(walk, Trap)
    BY <1>3, <1>16 DEF IndexTooDeep
  <2>2. Trap \in Lua!GetAnswers(t, k)
    BY <1>6, <2>1, GetAnswered
  <2> QED
    BY <1>12, <2>1, <2>2
<1>17. CASE IndexTable
  <2>1. PICK f \in Table : f = Metavalue(u, "__index")
    BY <1>3, <1>17 DEF IndexTable
  <2>2. op = "get" /\ h > 0 /\ UNCHANGED <<hash, array, meta>>
    BY <1>3, <1>17 DEF IndexTable
  <2>3. IF Raw(f, k) # Nil THEN Finish(walk, Answer("value", f, Raw(f, k))) ELSE GoOn(f)
    BY <1>3, <1>17, <2>1 DEF IndexTable
  <2>4. CASE Raw(f, k) # Nil
    <3>1. Lua!Has(op, f, k)
      BY <2>2, <2>4, HasMeans
    <3>2. Lua!Handler(op, u) = f
      BY <2>1, <2>2, MetafieldIsHandler
    <3>3. f \in Lua!Ends(op, t, k)
      BY <1>5, <1>9, <2>2, <3>1, <3>2
    <3>4. Answer("value", f, Raw(f, k)) \in Lua!GetAnswers(t, k)
      BY <2>2, <3>1, <3>3, GetAnswered
    <3> QED
      BY <1>12, <2>2, <2>3, <2>4, <3>4
  <2> QED
    BY <1>10, <2>2, <2>3, <2>4
<1>18. CASE IndexOther
  <2>1. PICK f : f = Metavalue(u, "__index")
    OBVIOUS
  <2>2. op = "get" /\ h > 0 /\ UNCHANGED <<hash, array, meta>> /\ f \notin Table
    BY <1>3, <1>18, <2>1 DEF IndexOther
  <2>3. Finish(walk, IF f = Nil THEN Answer("value", u, Nil) ELSE Dispatch(f, "TS-N", Nil))
    BY <1>3, <1>18, <2>1 DEF IndexOther
  <2>4. Lua!Handler(op, u) = f /\ ~Lua!Has(op, u, k)
    BY <1>5, <2>1, <2>2, MetafieldIsHandler
  <2>5. u \in Lua!Ends(op, t, k)
    BY <1>8, <2>2, <2>4
  <2>6. (IF f = Nil THEN Answer("value", u, Raw(u, k))
         ELSE IF Lua!Callable("get", u) THEN Answer("call", u, Nil) ELSE Trap) \in Lua!GetAnswers(t, k)
    BY <2>2, <2>4, <2>5, GetAnswered
  <2>7. Raw(u, k) = Nil
    BY <2>2, <2>4, HasMeans
  <2>8. Lua!Callable("get", u) <=> f = "TS-N"
    BY <2>2, <2>4 DEF Lua!Callable, Lua!HandlerSignature
  <2>9. (IF f = Nil THEN Answer("value", u, Nil) ELSE Dispatch(f, "TS-N", Nil)) \in Lua!GetAnswers(t, k)
    BY <1>3, <2>6, <2>7, <2>8 DEF Dispatch
  <2> QED
    BY <1>12, <2>2, <2>3, <2>9
<1>19. CASE IndexNumTooDeep
  <2>1. op = "getnum" /\ h = 0 /\ UNCHANGED <<hash, array, meta>> /\ Finish(walk, Answer("value", t, Nil))
    BY <1>3, <1>19 DEF IndexNumTooDeep
  <2>2. Answer("value", t, Nil) \in Lua!GetNumAnswers(t, k)
    BY <1>6, <2>1, GetNumAnswered
  <2> QED
    BY <1>13, <2>1, <2>2
<1>20. CASE IndexNumTable
  <2>1. PICK f \in Table : f = Metavalue(u, "__index")
    BY <1>3, <1>20 DEF IndexNumTable
  <2>2. op = "getnum" /\ h > 0 /\ UNCHANGED <<hash, array, meta>>
    BY <1>3, <1>20 DEF IndexNumTable
  <2>3. IF InArray(f, k) THEN Finish(walk, Answer("value", f, array[f][k])) ELSE GoOn(f)
    BY <1>3, <1>20, <2>1 DEF IndexNumTable
  <2>4. CASE InArray(f, k)
    <3>1. Lua!Has(op, f, k)
      BY <1>2, <1>4, <2>2, <2>4, HasNumMeans
    <3>2. Lua!Handler(op, u) = f
      BY <2>1, <2>2, MetafieldIsHandler
    <3>3. f \in Lua!Ends(op, t, k)
      BY <1>5, <1>9, <2>2, <3>1, <3>2
    <3>4. Answer("value", f, array[f][k]) \in Lua!GetNumAnswers(t, k)
      BY <2>2, <3>1, <3>3, GetNumAnswered
    <3> QED
      BY <1>13, <2>2, <2>3, <2>4, <3>4
  <2> QED
    BY <1>10, <2>2, <2>3, <2>4
<1>21. CASE IndexNumOther
  <2>1. PICK f : f = Metavalue(u, "__index")
    OBVIOUS
  <2>2. op = "getnum" /\ h > 0 /\ UNCHANGED <<hash, array, meta>> /\ f \notin Table
    BY <1>3, <1>21, <2>1 DEF IndexNumOther
  <2>3. Finish(walk, IF f \in Signature /\ "TN-N" \in Signature THEN Dispatch(f, "TN-N", Nil)
                     ELSE Answer("value", t, Nil))
    BY <1>3, <1>21, <2>1 DEF IndexNumOther
  <2>4. Lua!Handler(op, u) = f /\ ~Lua!Has(op, u, k)
    BY <1>5, <2>1, <2>2, MetafieldIsHandler
  <2>5. u \in Lua!Ends(op, t, k)
    BY <1>8, <2>2, <2>4
  <2>6. (IF Lua!Callable("getnum", u) THEN Answer("call", u, Nil)
         ELSE IF Lua!Mismatch("getnum", u) THEN Trap ELSE Answer("value", t, Nil)) \in Lua!GetNumAnswers(t, k)
    BY <2>2, <2>4, <2>5, GetNumAnswered
  <2>7. /\ Lua!Callable("getnum", u) <=> f = "TN-N"
        /\ Lua!Mismatch("getnum", u) <=> f \in Signature \ {"TN-N"} /\ "TN-N" \in Signature
    BY <2>2, <2>4 DEF Lua!Callable, Lua!Mismatch, Lua!HandlerSignature
  <2>8. f = "TN-N" => f \in Signature
    BY <1>2, <1>4, <2>4, HandlerIsValue DEF Handlers
  <2>9. (IF f \in Signature /\ "TN-N" \in Signature THEN Dispatch(f, "TN-N", Nil)
         ELSE Answer("value", t, Nil)) \in Lua!GetNumAnswers(t, k)
    BY <1>3, <2>6, <2>7, <2>8 DEF Dispatch
  <2> QED
    BY <1>13, <2>2, <2>3, <2>9
<1>22. CASE NewindexTooDeep
  <2>1. op = "set" /\ h = 0 /\ UNCHANGED <<hash, array, meta>> /\ Finish(walk, Trap)
    BY <1>3, <1>22 DEF NewindexTooDeep
  <2>2. Trap \in Lua!SetAnswers(t, k, v, num)
    BY <1>6, <2>1, SetAnswered
  <2>3. Trap.kind # "value"
    BY DEF Trap
  <2> QED
    BY <1>14, <2>1, <2>2, <2>3
<1>23. CASE NewindexWrites
  <2>1. op = "set" /\ h > 0 /\ UNCHANGED <<array, meta>> /\ hash' = [hash EXCEPT ![u][k] = v]
    BY <1>3, <1>23 DEF NewindexWrites
  <2>2. Finish(walk, Answer("value", u, v))
    BY <1>3, <1>23 DEF NewindexWrites
  <2>3. Lua!Has(op, u, k) \/ Lua!Handler(op, u) = Nil
    BY <1>3, <1>23, <2>1, HasMeans, MetafieldIsHandler DEF NewindexWrites
  <2>4. u \in Lua!Ends(op, t, k)
    BY <1>8, <2>3, TagAssumption
  <2>5. Answer("value", u, v) \in Lua!SetAnswers(t, k, v, num)
    BY <2>1, <2>3, <2>4, SetAnswered
  <2>6. Answer("value", u, v).kind = "value" /\ Answer("value", u, v).at = u
    BY DEF Answer
  <2> QED
    BY <1>14, <2>1, <2>2, <2>5, <2>6
<1>24. CASE NewindexAsks
  <2>1. PICK f : f = Metavalue(u, "__newindex")
    OBVIOUS
  <2>2. op = "set" /\ h > 0 /\ UNCHANGED <<hash, array, meta>> /\ f # Nil /\ hash[u][k] = Absent
    BY <1>3, <1>24, <2>1 DEF NewindexAsks
  <2>3. IF f \in Table THEN GoOn(f) ELSE Finish(walk, IF num THEN Dispatch(f, "TSN-", v) ELSE Trap)
    BY <1>3, <1>24, <2>1 DEF NewindexAsks
  <2>4. Lua!Handler(op, u) = f /\ ~Lua!Has(op, u, k)
    BY <2>1, <2>2, MetafieldIsHandler, HasMeans
  <2>5. CASE f \in Table
    BY <1>10, <2>2, <2>3, <2>5
  <2>6. CASE f \notin Table
    <3>1. u \in Lua!Ends(op, t, k)
      BY <1>8, <2>4, <2>6
    <3>2. (IF Lua!Callable("set", u) /\ num THEN Answer("call", u, v) ELSE Trap) \in Lua!SetAnswers(t, k, v, num)
      BY <2>2, <2>4, <3>1, SetAnswered
    <3>3. Lua!Callable("set", u) <=> f = "TSN-"
      BY <2>2, <2>4 DEF Lua!Callable, Lua!HandlerSignature
    <3>4. PICK ans : ans = IF num THEN Dispatch(f, "TSN-", v) ELSE Trap
      OBVIOUS
    <3>5. ans \in Lua!SetAnswers(t, k, v, num) /\ ans.kind # "value"
      BY <1>3, <1>4, <3>2, <3>3, <3>4 DEF Dispatch, Answer, Trap
    <3> QED
      BY <1>14, <2>2, <2>3, <2>6, <3>4, <3>5
  <2> QED
    BY <2>5, <2>6
<1>25. CASE RouteNum
  BY <1>10, <1>25 DEF RouteNum
<1>26. CASE CallNum
  <2>1. PICK f : f = Metavalue(u, "__newindex")
    OBVIOUS
  <2>2. op = "setnum" /\ h > 0 /\ UNCHANGED <<hash, array, meta>>
    BY <1>3, <1>26 DEF CallNum
  <2>3. Finish(walk, Dispatch(f, "TNN-", v)) /\ f \in Signature /\ num /\ "TNN-" \in Signature
    BY <1>3, <1>26, <2>1 DEF CallNum, Dispatches
  <2>4. Lua!Handler(op, u) = f
    BY <2>1, <2>2, MetafieldIsHandler
  <2>5. ~Lua!Has(op, u, k)
    BY <1>2, <1>3, <1>4, <1>26, <2>2, HasNumMeans DEF CallNum, Asks
  <2>6. u \in Lua!Ends(op, t, k)
    BY <1>2, <1>4, <1>8, <2>3, <2>4, HandlerIsValue
  <2>7. k # 0 /\ v \in Payload
    BY <1>4, <2>2, <2>3
  <2>8. (IF Lua!Callable("setnum", u) THEN Answer("call", u, v)
         ELSE IF Lua!Mismatch("setnum", u) THEN Trap ELSE Answer("value", u, v)) \in Lua!SetNumAnswers(t, k, v)
    BY <2>2, <2>5, <2>6, <2>7, SetNumAnswered
  <2>9. /\ Lua!Callable("setnum", u) <=> f = "TNN-"
        /\ Lua!Mismatch("setnum", u) <=> f # "TNN-"
    BY <2>2, <2>3, <2>4 DEF Lua!Callable, Lua!Mismatch, Lua!HandlerSignature
  <2>10. Dispatch(f, "TNN-", v) \in Lua!SetNumAnswers(t, k, v) /\ Dispatch(f, "TNN-", v).kind # "value"
    BY <1>3, <2>8, <2>9 DEF Dispatch, Answer, Trap
  <2> QED
    BY <1>15, <2>2, <2>3, <2>10
<1>27. CASE WriteNum
  <2>1. op = "setnum" /\ UNCHANGED <<hash, meta>> /\ array' = ArrayAssign(u, k, v)
    BY <1>3, <1>27 DEF WriteNum
  <2>2. Finish(walk, Answer("value", u, v))
    BY <1>3, <1>27 DEF WriteNum
  <2>3. Answer("value", u, v).kind = "value" /\ Answer("value", u, v).at = u
    BY DEF Answer
  <2>4. array' = [array EXCEPT ![u] = Lua!Assigned(@, k, v)]
    BY <2>1 DEF ArrayAssign, Lua!Assigned
  <2>5. k \in NumKey /\ k # 0
    BY <1>4, <2>1
  <2>6. CASE h = 0
    BY <1>6, <1>15, <2>1, <2>2, <2>3, <2>4, <2>5, <2>6, SetNumAnswered
  <2>7. CASE h > 0 /\ InArray(u, k) /\ array[u][k] # Nil
    <3>1. Lua!Has(op, u, k)
      BY <1>2, <1>4, <2>1, <2>5, <2>7, HasNumMeans
    <3>2. Answer("value", u, v) \in Lua!SetNumAnswers(t, k, v)
      BY <1>8, <2>1, <2>5, <3>1, SetNumAnswered
    <3> QED
      BY <1>15, <2>1, <2>2, <2>3, <2>4, <3>2
  <2>8. CASE h > 0 /\ ~(InArray(u, k) /\ array[u][k] # Nil)
    <3>1. Asks(u, k)
      BY <1>3, <2>8 DEF Asks
    <3>2. Metavalue(u, "__newindex") \notin Table /\ ~Dispatches
      BY <1>3, <1>27, <3>1 DEF WriteNum
    <3>3. PICK f : f = Metavalue(u, "__newindex")
      OBVIOUS
    <3>4. Lua!Handler(op, u) = f /\ ~Lua!Has(op, u, k)
      BY <1>2, <1>4, <2>1, <2>5, <2>8, <3>3, MetafieldIsHandler, HasNumMeans
    <3>5. u \in Lua!Ends(op, t, k)
      BY <1>8, <3>2, <3>3, <3>4
    <3>6. f = "TNN-" => f \in Signature
      BY <1>2, <1>4, <3>4, HandlerIsValue DEF Handlers
    <3>7. v \in Payload => ~(f \in Signature /\ "TNN-" \in Signature)
      BY <1>3, <1>4, <2>1, <3>2, <3>3 DEF Dispatches
    <3>8. v \in Payload => ~Lua!Callable("setnum", u) /\ ~Lua!Mismatch("setnum", u)
      BY <2>1, <3>4, <3>6, <3>7 DEF Lua!Callable, Lua!Mismatch, Lua!HandlerSignature
    <3>9. (IF Lua!Has("setnum", u, k) \/ v \notin Payload THEN Answer("value", u, v)
           ELSE IF Lua!Callable("setnum", u) THEN Answer("call", u, v)
           ELSE IF Lua!Mismatch("setnum", u) THEN Trap ELSE Answer("value", u, v)) \in Lua!SetNumAnswers(t, k, v)
      BY <2>1, <2>5, <3>5, SetNumAnswered
    <3>10. Answer("value", u, v) \in Lua!SetNumAnswers(t, k, v)
      BY <3>8, <3>9
    <3> QED
      BY <1>15, <2>1, <2>2, <2>3, <2>4, <3>10
  <2> QED
    BY <1>4, <2>6, <2>7, <2>8, HopsType
<1> QED
  BY <1>16, <1>17, <1>18, <1>19, <1>20, <1>21, <1>22, <1>23, <1>24, <1>25, <1>26, <1>27 DEF Hop

\* A table that holds the key answers the access at once.
LEMMA DirectEnd ==
    ASSUME NEW op, NEW t \in Table, NEW k, Lua!Has(op, t, k)
    PROVE  t \in Lua!Ends(op, t, k)
<1>1. \E p \in Lua!Chains(op, t, k) : Len(p) = 1 /\ p[1] = t
  BY ChainOfOne
<1> QED
  BY <1>1, Decided

\* An operation of the program is a step of LuaIndex, or begins a walk.
LEMMA OperationRefines ==
    ASSUME IndexInv, NEW t \in Table,
           \/ \E k \in Field : Index(t, k) \/ IsNilIndex(t, k)
           \/ \E i \in NumKey : IndexNum(t, i) \/ IsNilIndexNum(t, i)
           \/ GetMetatable(t)
           \/ \E k \in Field : \E v \in ValuesFor(k) :
                 IndexAssign(t, k, v, v \in Payload) \/ IndexAssign(t, k, v, FALSE)
           \/ \E i \in NumKey, v \in Payload \cup {Nil} : IndexAssignNum(t, i, v)
           \/ \E k \in StrKey : Erase(t, k) \/ \E v \in ValuesFor(k) : RawSet(t, k, v)
           \/ \E m \in Table \cup {Null} : SetMetatable(t, m)
    PROVE  Lua!Next \/ UNCHANGED Lua!vars
<1>1. TablesOK
  BY DEF IndexInv, TypeOK, TablesOK
<1>2. ASSUME NEW a, Begin(a), UNCHANGED <<hash, array, meta>>
      PROVE  UNCHANGED Lua!vars
  BY <1>2 DEF Begin, Lua!vars
<1>3. ASSUME NEW k \in Field, Index(t, k)
      PROVE  Lua!Next \/ UNCHANGED Lua!vars
  <2>1. CASE Raw(t, k) # Nil
    <3>1. Lua!Has("get", t, k)
      BY <2>1, HasMeans
    <3>2. Answer("value", t, Raw(t, k)) \in Lua!GetAnswers(t, k)
      BY <3>1, DirectEnd, GetAnswered
    <3>3. Lua!Answered("get", t, k) /\ out'.ans = Answer("value", t, Raw(t, k)) /\ UNCHANGED <<hash, array, meta>>
      BY <1>3, <2>1 DEF Index, Finish, Access, Lua!Answered
    <3> QED
      BY <3>2, <3>3 DEF Lua!Next, Lua!Reads
  <2>2. CASE Raw(t, k) = Nil
    BY <1>2, <1>3, <2>2 DEF Index
  <2> QED
    BY <2>1, <2>2
<1>4. ASSUME NEW i \in NumKey, IndexNum(t, i)
      PROVE  Lua!Next \/ UNCHANGED Lua!vars
  <2>1. CASE InArray(t, i)
    <3>1. Lua!Has("getnum", t, i)
      BY <1>1, <2>1, HasNumMeans
    <3>2. Answer("value", t, array[t][i]) \in Lua!GetNumAnswers(t, i)
      BY <3>1, DirectEnd, GetNumAnswered
    <3>3. Lua!Answered("getnum", t, i) /\ out'.ans = Answer("value", t, array[t][i]) /\ UNCHANGED <<hash, array, meta>>
      BY <1>4, <2>1 DEF IndexNum, Finish, Access, Lua!Answered
    <3> QED
      BY <3>2, <3>3 DEF Lua!Next, Lua!Reads, Lua!NumKey, NumKey
  <2>2. CASE ~InArray(t, i)
    BY <1>2, <1>4, <2>2 DEF IndexNum
  <2> QED
    BY <2>1, <2>2
<1>5. ASSUME NEW k \in Field, IsNilIndex(t, k)
      PROVE  Lua!Next
  <2>1. UNCHANGED <<hash, array, meta>> /\ Lua!Answered("isnil", t, k) /\ out'.ans = (Raw(t, k) = Nil)
    BY <1>5 DEF IsNilIndex, Lua!Answered
  <2>2. Raw(t, k) = Lua!Raw(t, k)
    BY DEF Raw, Lua!Raw
  <2> QED
    BY <2>1, <2>2 DEF Lua!Next, Lua!NilTest
<1>6. ASSUME NEW i \in NumKey, IsNilIndexNum(t, i)
      PROVE  Lua!Next
  <2>1. UNCHANGED <<hash, array, meta>> /\ Lua!Answered("isnilnum", t, i) /\ out'.ans = (InArray(t, i) => array[t][i] = Nil)
    BY <1>6 DEF IsNilIndexNum, Lua!Answered
  <2>2. i \in Int /\ Len(array[t]) \in Nat
    BY <1>1, HopsType DEF NumKey, TablesOK
  <2>3. InArray(t, i) <=> i \in 1 .. Len(array[t])
    BY <2>2 DEF InArray
  <2>4. (InArray(t, i) => array[t][i] = Nil) <=> i \notin {j \in 1 .. Len(array[t]) : array[t][j] # Nil}
    BY <2>3
  <2>5. (InArray(t, i) => array[t][i] = Nil) = (i \notin {j \in 1 .. Len(array[t]) : array[t][j] # Nil})
    BY <2>4
  <2>6. out'.ans = (i \notin {j \in 1 .. Len(array[t]) : array[t][j] # Nil})
    BY <2>1, <2>5
  <2> QED
    BY <2>1, <2>6 DEF Lua!Next, Lua!NilTest, NumKey, Lua!NumKey
<1>7. ASSUME GetMetatable(t)
      PROVE  Lua!Next
  <2>1. Metavalue(t, "__metatable") = IF meta[t] = Null THEN Nil ELSE Lua!Raw(meta[t], "__metatable")
    BY DEF Metavalue, Raw, Lua!Raw
  <2>2. out' = [op |-> "getmetatable", obj |-> t,
                ans |-> IF meta[t] = Null THEN Nil
                        ELSE IF Lua!Raw(meta[t], "__metatable") # Nil THEN Lua!Raw(meta[t], "__metatable") ELSE meta[t]]
    BY <1>7, <2>1 DEF GetMetatable
  <2>3. UNCHANGED <<hash, array, meta>>
    BY <1>7 DEF GetMetatable
  <2> QED
    BY <2>2, <2>3 DEF Lua!Next, Lua!GetMetatable
<1>8. ASSUME NEW k, NEW v, NEW numeric, IndexAssign(t, k, v, numeric)
      PROVE  UNCHANGED Lua!vars
  BY <1>2, <1>8 DEF IndexAssign
<1>9. ASSUME NEW i \in NumKey, NEW v \in Payload \cup {Nil}, IndexAssignNum(t, i, v)
      PROVE  Lua!Next \/ UNCHANGED Lua!vars
  <2>1. i \in Nat
    BY HopsType DEF NumKey
  <2>2. CASE i < 1
    <3>1. i = 0
      BY <2>1, <2>2
    <3>2. Lua!Answered("setnum", t, i) /\ out'.ans = Trap /\ UNCHANGED <<hash, array, meta>>
      BY <1>9, <2>2 DEF IndexAssignNum, Finish, Access, Lua!Answered
    <3>3. Trap \in Lua!SetNumAnswers(t, i, v) /\ Trap.kind # "value"
      BY <3>1 DEF Lua!SetNumAnswers, Trap, Lua!Trap
    <3>4. v \in Lua!Value /\ i \in Lua!NumKey
      BY <1>9 DEF Lua!Value, NumKey, Lua!NumKey
    <3> QED
      BY <3>2, <3>3, <3>4 DEF Lua!Next, Lua!Writes
  <2>3. CASE ~(i < 1)
    BY <1>2, <1>9, <2>3 DEF IndexAssignNum
  <2> QED
    BY <2>2, <2>3
<1>10. ASSUME NEW k \in StrKey, Erase(t, k)
       PROVE  Lua!Next
  <2>1. hash' = [hash EXCEPT ![t][k] = Absent] /\ UNCHANGED <<array, meta>> /\ out' = Lua!NoAccess
    BY <1>10 DEF Erase, Idle, NoAccess, Lua!NoAccess
  <2>2. k \in Lua!StrKey /\ Absent \in Lua!Value \cup {Absent}
    BY <1>10 DEF StrKey, Lua!StrKey, Metafield, Lua!Metafield
  <2> QED
    BY <2>1, <2>2 DEF Lua!Next, Lua!RawWrites
<1>11. ASSUME NEW k \in StrKey, NEW v \in ValuesFor(k), RawSet(t, k, v)
       PROVE  Lua!Next
  <2>1. hash' = [hash EXCEPT ![t][k] = v] /\ UNCHANGED <<array, meta>> /\ out' = Lua!NoAccess
    BY <1>11 DEF RawSet, Idle, NoAccess, Lua!NoAccess
  <2>2. k \in Lua!StrKey /\ v \in Lua!Value \cup {Absent}
    BY <1>11, StoredAreValues DEF StrKey, Lua!StrKey, Metafield, Lua!Metafield, Value, Lua!Value
  <2> QED
    BY <2>1, <2>2 DEF Lua!Next, Lua!RawWrites
<1>12. ASSUME NEW m \in Table \cup {Null}, SetMetatable(t, m)
       PROVE  Lua!Next
  <2>1. meta' = [meta EXCEPT ![t] = m] /\ UNCHANGED <<array, hash>> /\ out' = Lua!NoAccess
    BY <1>12 DEF SetMetatable, Idle, NoAccess, Lua!NoAccess
  <2>2. meta[t] # Null => Lua!Raw(meta[t], "__metatable") = Nil
    BY <1>12 DEF SetMetatable, Metavalue, Raw, Lua!Raw
  <2> QED
    BY <2>1, <2>2 DEF Lua!Next, Lua!RawWrites
<1> QED
  BY <1>3, <1>4, <1>5, <1>6, <1>7, <1>8, <1>9, <1>10, <1>11, <1>12

\* Every step of MetaIndex is a step of LuaIndex or leaves it unchanged.
LEMMA StepRefines ==
    ASSUME IndexInv, [Next]_vars
    PROVE  [Lua!Next]_(Lua!vars)
<1>1. CASE UNCHANGED vars
  BY <1>1 DEF vars, Lua!vars
<1>2. CASE Hop
  BY <1>2, HopRefines
<1>3. CASE Use
  BY <1>3 DEF Use, Lua!Next, Lua!Forget, NoAccess, Lua!NoAccess
<1> QED
  BY <1>1, <1>2, <1>3, OperationRefines DEF Next

\* Every access of t[k] and t[k] = v is decided at the one table its chain of
\* handlers leads to, whatever the metatables are: the unrolled walks of emit.rs
\* implement the rules of the design documents.
THEOREM WalksAreLua == Spec => ImplementsLuaIndex
<1>1. Init => Lua!Init
  BY DEF Init, Lua!Init, StrKey, Lua!StrKey, Metafield, Lua!Metafield, NoAccess, Lua!NoAccess
<1>2. IndexInv /\ [Next]_vars => [Lua!Next]_(Lua!vars)
  BY StepRefines
<1> QED
  BY <1>1, <1>2, WalksFollowChains, PTL DEF Spec, ImplementsLuaIndex, Lua!Spec
=============================================================================
