----------------------------- MODULE LuaTable -----------------------------
(***************************************************************************)
(* What a table promises a Lua program: a map from keys to values and a    *)
(* list of elements, where nil stands for "nothing there".  TableStore     *)
(* implements it with an open-addressing hash part and a growable array.   *)
(***************************************************************************)
EXTENDS Naturals, Sequences, SequencesExt

CONSTANTS Key, Value, Nil

VARIABLES
    fields,   \* the value of each key, or Nil
    items     \* the elements 1 .. #t; an element may be Nil (a hole)

vars == <<fields, items>>

Init == fields = [k \in Key |-> Nil] /\ items = <<>>

\* t[k] = v, v possibly nil
Assign(k, v) == fields' = [fields EXCEPT ![k] = v]

\* t[i] = v: writing past the end leaves holes in between
AssignIndex(i, v) ==
    items' = [j \in 1 .. IF i > Len(items) THEN i ELSE Len(items) |->
                 IF j = i THEN v ELSE IF j <= Len(items) THEN items[j] ELSE Nil]

\* table.insert(t, pos, v) and table.remove(t, pos)
InsertItem(pos, v) == items' = InsertAt(items, pos, v)
RemoveItem(pos) == items' = RemoveAt(items, pos)

Next ==
    \/ /\ UNCHANGED items
       /\ \E k \in Key, v \in Value \cup {Nil} : Assign(k, v)
    \/ /\ UNCHANGED fields
       /\ \/ \E v \in Value \cup {Nil} :
               \/ \E i \in 1 .. Len(items') : AssignIndex(i, v)
               \/ \E pos \in 1 .. Len(items) + 1 : InsertItem(pos, v)
          \/ \E pos \in 1 .. Len(items) : RemoveItem(pos)

Spec == Init /\ [][Next]_vars
=============================================================================
