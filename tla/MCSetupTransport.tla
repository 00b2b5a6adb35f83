-------------------------- MODULE MCSetupTransport --------------------------
(* Operator setup for model checking: interchangeable scripts.             *)
EXTENDS SetupTransport, TLC

Interchangeable == Permutations(Script)
=============================================================================
