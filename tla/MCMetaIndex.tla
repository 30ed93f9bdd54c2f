---------------------------- MODULE MCMetaIndex ----------------------------
(* Two tables that can be each other's metatable and handler.              *)
EXTENDS MetaIndex, TLC

Sym == Permutations(Table)
=============================================================================
