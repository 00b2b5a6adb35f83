-------------------------- MODULE MCPrivateInstall --------------------------
(* PrivateInstall for TLC; hooks, scripts and bundles are interchangeable. *)
EXTENDS PrivateInstall, TLC

Interchangeable == Permutations(Hook) \cup Permutations(Proc) \cup Permutations(Bundle)
=============================================================================
