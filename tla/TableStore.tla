---------------------------- MODULE TableStore ----------------------------
(***************************************************************************)
(* The storage of one Lua table: the array part, the open-addressing hash  *)
(* part with its tombstones and rehashing, and @lumelir_next, which walks  *)
(* both (src/codegen/emit.rs).                                             *)
(*                                                                         *)
(* A field is assigned by code emitted in line, which calls back into the  *)
(* program in two places: a __newindex function, called between the probe  *)
(* and the commit, and the value expression of table.insert, evaluated     *)
(* between the shift of the elements and the store.  What a __newindex     *)
(* function does to this very table is interleaved through `pending`.      *)
(***************************************************************************)
EXTENDS Naturals, Sequences, FiniteSets, FiniteSetsExt, SequencesExt

CONSTANTS
    Key,               \* keys of the hash part: strings, booleans, functions, tables
    Value,             \* what a field can hold
    Elem,              \* what an element of the array part can hold
    Nil,               \* TAG_NIL
    Deleted,           \* TAG_DELETED, the tombstone
    Junk,              \* a slot of a fresh buffer nobody has written
    HASH_INITIAL_CAP,
    Hashes,            \* the hash functions considered
    MaxCount, MaxLen,  \* bounds: counted entries, elements
    MaxDepth           \* bound: nested callbacks

ASSUME TableStoreAssumption ==
    /\ {Nil, Deleted, Junk} \cap (Key \cup Value \cup Elem) = {}
    /\ Nil # Deleted /\ Nil # Junk /\ Key \cap Nat = {} /\ Nil \notin Nat
    /\ HASH_INITIAL_CAP \in Nat /\ HASH_INITIAL_CAP >= 4
    /\ Hashes \subseteq [Key -> Nat]
    /\ MaxCount \in Nat /\ MaxLen \in Nat /\ MaxDepth \in Nat

VARIABLES
    hash,        \* the hash of each key
    len,         \* TABLE_OFF_LEN
    array_buf,   \* slots 1 .. TABLE_OFF_CAP
    hash_buf,    \* Null, or the buckets with HASH_OFF_CAP and HASH_OFF_COUNT
    pending,     \* callbacks in progress, outermost first
    trav         \* a `pairs` loop: its control variable and its history

table == <<len, array_buf, hash_buf>>
vars == <<hash, table, pending, trav>>

---------------------------------------------------------------------------
(* The hash part.                                                          *)

\* The null hash_buf.
Null == [cap |-> 0]

Bucket(buf) == 0 .. buf.cap - 1

FreshBuf(cap, count) ==
    [cap |-> cap, count |-> count,
     key |-> [b \in 0 .. cap - 1 |-> Nil], value |-> [b \in 0 .. cap - 1 |-> Junk]]

\* The probe: from the home bucket of k on, wrapping around, past tombstones
\* and other keys, to an empty bucket or to k itself.  It loops forever when
\* there is no such bucket.
At(buf, k, i) == (hash[k] + i) % buf.cap
Stops(buf, k, i) == buf.key[At(buf, k, i)] \in {Nil, k}
Probe(buf, k) ==
    At(buf, k, CHOOSE i \in Bucket(buf) : Stops(buf, k, i) /\ \A j \in 0 .. i - 1 : ~Stops(buf, k, j))

Put(buf, k, v) ==
    LET b == Probe(buf, k)
    IN  [buf EXCEPT !.key[b] = k, !.value[b] = v]

Live(buf) == IF buf = Null THEN {} ELSE {b \in Bucket(buf) : buf.key[b] \in Key}

\* Live buckets move in bucket order; tombstones stay behind.
Rehashed(buf) ==
    LET moved[n \in 0 .. buf.cap] ==
            IF n = 0 THEN FreshBuf(2 * buf.cap, buf.count)
            ELSE IF n - 1 \in Live(buf)
                 THEN Put(moved[n - 1], buf.key[n - 1], buf.value[n - 1])
                 ELSE moved[n - 1]
    IN  moved[buf.cap]

Ensured == IF hash_buf = Null THEN FreshBuf(HASH_INITIAL_CAP, 0) ELSE hash_buf
NeedsGrow(buf) == buf.count * 4 >= buf.cap * 3
Grown == IF NeedsGrow(Ensured) THEN Rehashed(Ensured) ELSE Ensured

\* What a lookup finds: the value of k, Nil when the probe stops at an empty bucket.
Lookup(buf, k) ==
    IF buf = Null THEN Nil
    ELSE LET b == Probe(buf, k) IN IF buf.key[b] = k THEN buf.value[b] ELSE Nil

---------------------------------------------------------------------------
(* Traversal.  Positions number the elements, then the buckets.            *)

KeyAt(p) == IF p <= len THEN p ELSE hash_buf.key[p - len - 1]
ValueAt(p) == IF p <= len THEN array_buf[p] ELSE hash_buf.value[p - len - 1]
Entries == {i \in 1 .. len : array_buf[i] # Nil} \cup {len + 1 + b : b \in Live(hash_buf)}
Present == {KeyAt(p) : p \in {q \in Entries : ValueAt(q) # Nil}}

\* Where the walk resumes: before everything, or behind the entry whose key
\* is prev; an element need not be there any more, a bucket must be.
ResumeAt(prev) ==
    IF prev = Nil THEN {0}
    ELSE {i \in 1 .. len : i = prev} \cup {p \in Entries : KeyAt(p) = prev}

\* Faulty: the walk over the buckets starts at the second one.
NextEntrySkips(prev) == {p \in Entries \ {len + 1} : \E r \in ResumeAt(prev) : p > r}

NextEntry(prev) == {p \in Entries : \E r \in ResumeAt(prev) : p > r}

Loop(prev, seen, owed) == [on |-> TRUE, followed |-> TRUE, prev |-> prev, seen |-> seen, owed |-> owed]
Lost == [on |-> TRUE, followed |-> FALSE, prev |-> trav.prev, seen |-> {}, owed |-> {}]
Idle == [on |-> FALSE]

\* What an assignment does to the history of a loop.  A key that goes away is
\* no longer owed, and may come back.  A loop is followed as long as its body
\* does not move buckets or remove the current entry.
Watch ==
    LET keys == {KeyAt(p)' : p \in Entries'}
        moves == hash_buf # Null /\ hash_buf'.cap # hash_buf.cap
        stays == ~moves /\ trav.prev \in {Nil} \cup keys \cup 1 .. len'
    IN  trav' = IF ~trav.on THEN Idle
                ELSE IF trav.followed /\ stays
                     THEN Loop(trav.prev, trav.seen \cap keys, trav.owed \cap Present')
                     ELSE Lost

Shifted == trav' = IF trav.on THEN Lost ELSE Idle

---------------------------------------------------------------------------
(* Assigning and erasing fields.                                           *)

\* The program works on this table: not while table.insert evaluates its value,
\* which uses other tables.
Runs == pending # <<>> => Last(pending).op = "newindex"

Overwrite(k, v) ==
    LET buf == Grown IN
    /\ Runs
    /\ buf.key[Probe(buf, k)] = k
    /\ hash_buf' = Put(buf, k, v)
    /\ UNCHANGED <<hash, len, array_buf, pending>>
    /\ Watch

\* Faulty: the entry is not counted.
AddUncounted(k, v) ==
    LET buf == Grown IN
    /\ Runs /\ buf.count < MaxCount /\ buf.key[Probe(buf, k)] = Nil
    /\ hash_buf' = Put(buf, k, v)
    /\ UNCHANGED <<hash, len, array_buf, pending>>
    /\ Watch

\* The key is committed and counted first, then the value written.
Add(k, v) ==
    LET buf == Grown IN
    /\ Runs /\ buf.count < MaxCount
    /\ buf.key[Probe(buf, k)] = Nil
    /\ hash_buf' = [Put(buf, k, v) EXCEPT !.count = @ + 1]
    /\ UNCHANGED <<hash, len, array_buf, pending>>
    /\ Watch

\* A new key with a __newindex function: buf and bucket wait while it runs.
CallNewindex(k) ==
    LET buf == Grown IN
    /\ Runs /\ buf.count < MaxCount /\ Len(pending) < MaxDepth
    /\ buf.key[Probe(buf, k)] = Nil
    /\ hash_buf' = buf
    /\ pending' = Append(pending, [op |-> "newindex", key |-> k, bucket |-> Probe(buf, k)])
    /\ UNCHANGED <<hash, len, array_buf>>
    /\ Watch

\* Faulty: the entry found before the call is written after it.
NewindexReturnsCommitting ==
    /\ pending # <<>> /\ Last(pending).op = "newindex"
    /\ pending' = Front(pending)
    /\ hash_buf' = [hash_buf EXCEPT !.key[Last(pending).bucket] = Last(pending).key,
                                    !.value[Last(pending).bucket] = CHOOSE v \in Value : TRUE,
                                    !.count = @ + 1]
    /\ UNCHANGED <<hash, len, array_buf>>
    /\ Watch

\* The function owns the write: nothing is committed after it.
NewindexReturns ==
    /\ pending # <<>> /\ Last(pending).op = "newindex"
    /\ pending' = Front(pending)
    /\ UNCHANGED <<hash, table, trav>>

\* Overwriting goes ahead whatever the metatable; a new key only without one
\* or through rawset.
AssignField(k, v) == Overwrite(k, v) \/ Add(k, v)

\* Faulty: the bucket of an erased key becomes empty.
EraseFieldLeavingGap(k) ==
    LET buf == Grown
        b == Probe(buf, k)
    IN
    /\ Runs
    /\ hash_buf' = [buf EXCEPT !.key[b] = Nil, !.value[b] = Nil]
    /\ UNCHANGED <<hash, len, array_buf, pending>>
    /\ Watch

\* t[k] = nil: the bucket becomes a tombstone and stays counted; the table is
\* given a hash part, or grows, even when k is not there.
EraseField(k) ==
    LET buf == Grown
        b == Probe(buf, k)
    IN
    /\ Runs
    /\ hash_buf' = IF buf.key[b] = Nil THEN buf
                   ELSE [buf EXCEPT !.key[b] = Deleted, !.value[b] = Nil]
    /\ UNCHANGED <<hash, len, array_buf, pending>>
    /\ Watch

---------------------------------------------------------------------------
(* The array part.                                                         *)

\* emit_table_grow_if_needed: room for n slots, the first len copied.
Enlarged(n) ==
    IF n <= Len(array_buf) THEN array_buf
    ELSE [i \in 1 .. Max({2 * Len(array_buf), n}) |-> IF i <= len THEN array_buf[i] ELSE Junk]

\* Faulty: gaps are not filled.
FillNone(buf, i) == buf

FillNil(buf, i) == [j \in DOMAIN buf |-> IF j > len /\ j < i THEN Nil ELSE buf[j]]

\* t[i] = v, v possibly nil.
AssignElem(i, v) ==
    /\ Runs /\ i \in 1 .. MaxLen
    /\ array_buf' = [FillNil(Enlarged(i), i) EXCEPT ![i] = v]
    /\ len' = IF i > len THEN i ELSE len
    /\ UNCHANGED <<hash, hash_buf, pending>>
    /\ Watch

\* Faulty: room is made for the elements there are.
InsertBeginsWithoutRoom(pos) ==
    /\ Runs /\ len < MaxLen /\ pos \in 1 .. len + 1 /\ Len(pending) < MaxDepth
    /\ array_buf' = LET buf == Enlarged(len)
                    IN  [i \in DOMAIN buf |-> IF i > pos /\ i <= len THEN buf[i - 1] ELSE buf[i]]
    /\ pending' = Append(pending, [op |-> "insert", pos |-> pos, len |-> len,
                                   cap |-> Len(array_buf')])
    /\ UNCHANGED <<hash, len, hash_buf, trav>>

\* table.insert: make room, shift, then evaluate the value.  The length and
\* the buffer (told by its capacity) are remembered across the evaluation.
InsertBegins(pos) ==
    /\ Runs /\ len < MaxLen /\ pos \in 1 .. len + 1 /\ Len(pending) < MaxDepth
    /\ array_buf' = LET buf == Enlarged(len + 1)
                    IN  [i \in DOMAIN buf |-> IF i > pos /\ i <= len + 1 THEN buf[i - 1] ELSE buf[i]]
    /\ pending' = Append(pending, [op |-> "insert", pos |-> pos, len |-> len,
                                   cap |-> Len(array_buf')])
    /\ UNCHANGED <<hash, len, hash_buf, trav>>

InsertReturns(v) ==
    /\ pending # <<>> /\ Last(pending).op = "insert"
    /\ array_buf' = IF Last(pending).cap = Len(array_buf)
                    THEN [array_buf EXCEPT ![Last(pending).pos] = v] ELSE array_buf
    /\ len' = Last(pending).len + 1
    /\ pending' = Front(pending)
    /\ UNCHANGED <<hash, hash_buf>>
    /\ Shifted

\* table.remove: the elements behind pos move down; their last slot keeps its value.
RemoveElem(pos) ==
    /\ Runs /\ pos \in 1 .. len
    /\ array_buf' = [i \in DOMAIN array_buf |->
                        IF i >= pos /\ i < len THEN array_buf[i + 1] ELSE array_buf[i]]
    /\ len' = len - 1
    /\ UNCHANGED <<hash, hash_buf, pending>>
    /\ Shifted

---------------------------------------------------------------------------
(* for k, v in pairs(t).                                                   *)

Traverse ==
    /\ Runs /\ ~trav.on
    /\ trav' = Loop(Nil, {}, Present)
    /\ UNCHANGED <<hash, table, pending>>

\* One call of @lumelir_next; the loop ends when it finds nothing.
Advance ==
    /\ Runs /\ trav.on
    /\ LET after == NextEntry(trav.prev)
           k == KeyAt(Min(after))
       IN  trav' = IF after = {} THEN Idle
                   ELSE IF trav.followed THEN Loop(k, trav.seen \cup {k}, trav.owed \ {k})
                   ELSE [Lost EXCEPT !.prev = k]
    /\ UNCHANGED <<hash, table, pending>>

\* break
Leave ==
    /\ Runs /\ trav.on
    /\ trav' = Idle
    /\ UNCHANGED <<hash, table, pending>>

---------------------------------------------------------------------------
Init ==
    /\ hash \in Hashes
    /\ len = 0
    /\ array_buf = <<>>
    /\ hash_buf = Null
    /\ pending = <<>>
    /\ trav = Idle

Next ==
    \/ \E k \in Key, v \in Value \cup {Nil} : AssignField(k, v)
    \/ \E k \in Key : EraseField(k) \/ CallNewindex(k)
    \/ NewindexReturns
    \/ \E i \in 1 .. MaxLen, v \in Elem \cup {Nil} : AssignElem(i, v)
    \/ \E pos \in 1 .. len + 1 : InsertBegins(pos)
    \/ \E v \in Elem \cup {Nil} : InsertReturns(v)
    \/ \E pos \in 1 .. len : RemoveElem(pos)
    \/ Traverse \/ Advance \/ Leave

Spec == Init /\ [][Next]_vars

---------------------------------------------------------------------------
TypeOK ==
    /\ hash \in Hashes
    /\ len \in 0 .. Len(array_buf)
    /\ array_buf \in Seq(Elem \cup {Nil, Junk})
    /\ hash_buf # Null =>
         /\ hash_buf.cap \in Nat /\ hash_buf.count \in Nat
         /\ hash_buf.key \in [Bucket(hash_buf) -> Key \cup {Nil, Deleted}]
         /\ hash_buf.value \in [Bucket(hash_buf) -> Value \cup {Nil, Junk}]
    /\ Len(pending) <= MaxDepth
    /\ trav.on => /\ trav.prev \in Key \cup (1 .. MaxLen) \cup {Nil}
                  /\ trav.seen \cup trav.owed \subseteq Key \cup 1 .. MaxLen

\* Every probe ends: the buckets that are not empty are counted (emit_hash_
\* indexassign_with_newindex) and the growth test leaves an empty one, whatever
\* was erased, rehashed or assigned by a __newindex function meanwhile.
ProbesEnd ==
    hash_buf # Null =>
        /\ Cardinality({b \in Bucket(hash_buf) : hash_buf.key[b] # Nil}) <= hash_buf.count
        /\ hash_buf.count < hash_buf.cap

\* A key sits in one bucket, the one its probe stops at: no tombstone, rehash
\* or callback between probe and commit hides a live entry or doubles it.
Findable ==
    \A b \in Live(hash_buf) : Probe(hash_buf, hash_buf.key[b]) = b

\* Nothing the program or the marker can reach in a table was never written:
\* gaps are filled, shifts stay inside, rehashed buckets come with their value.
NoJunk ==
    /\ pending = <<>> => \A i \in 1 .. len : array_buf[i] # Junk
    /\ \A b \in Live(hash_buf) : hash_buf.value[b] # Junk

\* A step of the loop yields something new, or everything it owed is visited.
Yields == IF trav'.on THEN trav'.prev \notin trav.seen ELSE trav.owed = {}

\* A pairs loop whose buckets did not move and whose current entry was not
\* removed yields nothing twice, and when it ends it has yielded every entry
\* that was there all along.
TraversalExact == [][Advance /\ trav.followed => Yields]_vars

---------------------------------------------------------------------------
\* The elements the program sees: those already shifted for an insertion in
\* progress count where they were.
items ==
    LET p == IF pending # <<>> /\ Last(pending).op = "insert" THEN Last(pending).pos ELSE len + 1
    IN  [i \in 1 .. len |-> IF i < p THEN array_buf[i] ELSE array_buf[i + 1]]

Promise == INSTANCE LuaTable WITH fields <- [k \in Key |-> Lookup(hash_buf, k)],
                                 Value <- Value \cup Elem

\* The storage implements the table of LuaTable.
ImplementsLuaTable == Promise!Spec
=============================================================================
