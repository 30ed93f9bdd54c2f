----------------------------- MODULE MCGcSweep -----------------------------
(* A small heap for GcSweep.                                               *)
EXTENDS GcSweep, TLC

\* What the finalizers of a program do: fail; allocate and fail; collect.
Finalizers == {{"raise"}, {"alloc", "raise"}, {"collect"}}
=============================================================================
