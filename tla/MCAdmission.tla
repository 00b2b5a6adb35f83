---------------------------- MODULE MCAdmission ----------------------------
(* Instances of Admission for TLC.                                         *)
EXTENDS Admission, TLC

Symmetry == Permutations(Thread) \cup Permutations(Token)
              \cup Permutations(Source) \cup Permutations(Credential)
=============================================================================
