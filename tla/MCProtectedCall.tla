-------------------------- MODULE MCProtectedCall --------------------------
(* A small instance of ProtectedCall for TLC.                              *)
EXTENDS ProtectedCall
=============================================================================
