--------------------------- MODULE MCDurableSync ---------------------------
(* Instances of DurableSync for TLC.                                       *)
EXTENDS DurableSync, TLC

MCRules == <<1, 3>>

Symmetry == Permutations(Server) \cup Permutations(Device)
=============================================================================
