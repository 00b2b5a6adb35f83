-------------------------------- MODULE Ledger --------------------------------
(***************************************************************************)
(* What the synchronization state promises to publishers, operators and    *)
(* clients, whatever processes keep it and in how many steps: revisions    *)
(* are published in increasing order and never withdrawn, a device is      *)
(* barred for good, a device's mark rises through published revisions and  *)
(* never after the device was barred, and a client is promised a revision  *)
(* only once the mark covers it.  There are no processes, requests, locks  *)
(* or failures here: DurableSync has them, and shows that it keeps this.   *)
(***************************************************************************)
EXTENDS Integers

CONSTANTS Device, Revision

VARIABLES history,     \* the published revisions
          barred,      \* the devices that are barred
          mark,        \* the highest revision reported for each device, or 0
          promised     \* what clients were told is reported

ledger == <<history, barred, mark, promised>>

Init ==
  /\ history = {}
  /\ barred = {}
  /\ mark = [d \in Device |-> 0]
  /\ promised = {}

Extend(r) ==
  /\ \A q \in history : q < r
  /\ history' = history \cup {r}
  /\ UNCHANGED <<barred, mark, promised>>

Bar(d) ==
  /\ barred' = barred \cup {d}
  /\ UNCHANGED <<history, mark, promised>>

Raise(d, r) ==
  /\ d \notin barred
  /\ r \in history
  /\ r >= mark[d]
  /\ mark' = [mark EXCEPT ![d] = r]
  /\ UNCHANGED <<history, barred, promised>>

Promise(d, r) ==
  /\ mark[d] >= r
  /\ promised' = promised \cup {[device |-> d, rev |-> r]}
  /\ UNCHANGED <<history, barred, mark>>

Next ==
  \/ \E r \in Revision : Extend(r)
  \/ \E d \in Device : Bar(d)
  \/ \E d \in Device, r \in Revision : Raise(d, r) \/ Promise(d, r)

Spec == Init /\ [][Next]_ledger

-----------------------------------------------------------------------------
\* The sets the state is drawn from.
TypeOK ==
  /\ history \in SUBSET Revision
  /\ barred \in SUBSET Device
  /\ mark \in [Device -> Revision \cup {0}]
  /\ promised \in SUBSET [device : Device, rev : Revision]

\* A mark is a revision that was published.
MarkIsPublished == \A d \in Device : mark[d] # 0 => mark[d] \in history

\* What a client was told stays covered by the mark.
PromisesKept == \A p \in promised : mark[p.device] >= p.rev

\* No step lowers a mark, moves a barred device, lifts a bar or withdraws a revision.
LedgerMonotone ==
  [][/\ history \subseteq history'
     /\ barred \subseteq barred'
     /\ \A d \in Device :
          /\ mark'[d] >= mark[d]
          /\ d \in barred => mark'[d] = mark[d]]_ledger
=============================================================================
