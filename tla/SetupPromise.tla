---------------------------- MODULE SetupPromise ----------------------------
(***************************************************************************)
(* What operator setup promises, whatever is lost, repeated or restarted:  *)
(* the account is reset at most once for a request, and the sealed link of *)
(* a request reaches its recipient only after that reset.                  *)
(***************************************************************************)
EXTENDS Naturals

CONSTANT Context            \* setup requests, each with its nonce and recipient

VARIABLES commits,          \* resets committed for a request
          delivered         \* requests whose link the recipient has

vars == <<commits, delivered>>

Init == commits = [c \in Context |-> 0] /\ delivered = {}

Commit(c) ==
    /\ commits[c] = 0
    /\ commits' = [commits EXCEPT ![c] = 1]
    /\ UNCHANGED delivered

Deliver(c) ==
    /\ commits[c] = 1
    /\ delivered' = delivered \cup {c}
    /\ UNCHANGED commits

Next == \E c \in Context : Commit(c) \/ Deliver(c)

Spec == Init /\ [][Next]_vars
=============================================================================
