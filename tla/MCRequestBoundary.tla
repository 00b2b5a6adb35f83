------------------------- MODULE MCRequestBoundary -------------------------
(***************************************************************************)
(* The limits of a Santa request for model checking: the nesting scan      *)
(* (JsonDepth), the sizes (RequestLimits) and the number of keys and the   *)
(* windows of the request budgets (Admission, with one thread).  They      *)
(* share no state, so a behaviour runs one of them, part.                  *)
(***************************************************************************)
EXTENDS Admission, JsonDepth, RequestLimits, TLC

VARIABLE part

SmallCeiling == [compressed |-> 2, expanded |-> 2, events |-> 2]

\* A request that stands for all where the sizes are not the part that runs.
SomeRequest ==
  /\ setting = [compressed |-> 1, expanded |-> 1, events |-> 1]
  /\ request = [declared |-> [text |-> "none", length |-> 0], sent |-> 0, encoding |-> "identity",
                out |-> 0, events |-> [c \in Collection |-> 0], fault |-> "none"]
  /\ check = "length" /\ body = 0 /\ held = 0 /\ status = 0

\* The requests the sizes are checked on: the size of the expansion is never looked at
\* where nothing is compressed, and two collections of at most 2 events are enough to
\* reach a limit of 2 alone and to go past it together.
Telling(r) ==
  /\ r.encoding \notin Compressions => r.out = 0
  /\ \A c \in Collection : r.events[c] <= 2

BoundaryInit ==
  /\ DepthInit /\ Init
  /\ \/ part = "sizes" /\ SizesInit /\ Telling(request)
     \/ part \in {"depth", "budgets"} /\ SomeRequest

BoundaryNext ==
  \/ part = "depth" /\ DepthNext /\ UNCHANGED <<part, sizesVars, vars>>
  \/ part = "sizes" /\ SizesNext /\ UNCHANGED <<part, depthVars, vars>>
  \/ part = "budgets" /\ Next /\ UNCHANGED <<part, depthVars, sizesVars>>

BoundarySpec == BoundaryInit /\ [][BoundaryNext]_<<part, depthVars, sizesVars, vars>>

Symmetry == Permutations(Source) \cup Permutations(Credential)
=============================================================================
