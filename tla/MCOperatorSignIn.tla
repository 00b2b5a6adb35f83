-------------------------- MODULE MCOperatorSignIn --------------------------
(***************************************************************************)
(* Operator sign-in for model checking: the Redis side (SecurityStore) and *)
(* the database side (OperatorAccess).  They share no state, so a          *)
(* behaviour runs one of them, part, and leaves the other as it was.       *)
(***************************************************************************)
EXTENDS SecurityStore, OperatorAccess, TLC

VARIABLE part

SignInInit == part \in {"store", "access"} /\ Init /\ AccessInit

SignInNext ==
  \/ part = "store" /\ Next /\ UNCHANGED <<part, accessVars>>
  \/ part = "access" /\ AccessNext /\ UNCHANGED <<part, vars>>

SignInSpec == SignInInit /\ [][SignInNext]_<<part, vars, accessVars>>

\* The threads and the challenges are the same model values as the sessions and the
\* commands, so that one permutation serves the part that runs.
Symmetry == Permutations(Session) \cup Permutations(Command)
=============================================================================
