--------------------------- MODULE MCTableStore ---------------------------
(* Small tables for TableStore.                                            *)
EXTENDS TableStore, TLC

\* Keys that share a home bucket, and a probe that wraps around.
CollidingHashes == {h \in [Key -> {3, 4}] : \E k \in Key : h[k] = 3}

Sym == Permutations(Key)
=============================================================================
