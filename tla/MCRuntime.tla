----------------------------- MODULE MCRuntime -----------------------------
(* Instances of Runtime for TLC.                                           *)
EXTENDS Runtime, TLC

Symmetry == Permutations(Thread) \cup Permutations(Token)
=============================================================================
