------------------------------ MODULE Admission ------------------------------
(***************************************************************************)
(* Sync admission of the private Zentral backend: the Django middleware in *)
(* experiments/server/santa_admission.py and the Redis state its Lua       *)
(* scripts keep.  Web threads send ACQUIRE before and RELEASE after the    *)
(* handler; Redis runs one script at a time.  The listener (`open') is the *)
(* web process; the host opens it only on empty permits and reconciles     *)
(* permits only while it is closed.  Runtime.tla refines those host steps. *)
(***************************************************************************)
EXTENDS AdmissionConfig, Integers, FiniteSets

Slot == 0 .. Capacity - 1

Identity == Source \cup Credential

Key == {Global} \cup Identity

Limit == [k \in Key |-> IF k = Global THEN GlobalMax
                        ELSE IF k \in Source THEN SourceMax ELSE CredentialMax]

Acquiring == [op : {"acquire"}, token : Token, source : Source, credential : Credential]

Releasing == [op : {"release"}, token : Token, slot : Slot]

VARIABLES
  stored,    \* the admission hash exists with this configuration's fingerprint
  permits,   \* its slot fields: owner token, or None when the field is absent
  count,     \* the counters; an absent key counts 0
  ttl,       \* ticks until a counter key expires
  open,      \* the web process is alive
  pc,        \* where each thread is in Admission.__call__
  permit,    \* the token of the request a thread serves
  inflight   \* scripts sent to Redis that may still run

vars == <<stored, permits, count, ttl, open, pc, permit, inflight>>

TypeOK ==
  /\ stored \in BOOLEAN
  /\ permits \in [Slot -> Token \cup {None}]
  /\ count \in [Key -> Nat]
  /\ ttl \in [Key -> 0 .. Window]
  /\ open \in BOOLEAN
  /\ pc \in [Thread -> {"idle", "acquiring", "running", "releasing"}]
  /\ permit \in [Thread -> Token \cup {None}]
  /\ inflight \subseteq Acquiring \cup Releasing

Init ==
  /\ stored = FALSE
  /\ permits = [s \in Slot |-> None]
  /\ count = [k \in Key |-> 0]
  /\ ttl = [k \in Key |-> 0]
  /\ open = FALSE
  /\ pc = [t \in Thread |-> "idle"]
  /\ permit = [t \in Thread |-> None]
  /\ inflight = {}

-----------------------------------------------------------------------------
(* Redis: what the scripts do to the counters and the slots.               *)

\* SET ... EX window on an absent key, INCR (which keeps the TTL) otherwise.
Charge(keys) ==
  /\ count' = [k \in Key |-> IF k \in keys THEN count[k] + 1 ELSE count[k]]
  /\ ttl' = [k \in Key |-> IF k \in keys /\ count[k] = 0 THEN Window ELSE ttl[k]]

\* Mutant of Exhausted: off by one.
ExhaustedLate(k) == count[k] > Limit[k]

Exhausted(k) == count[k] >= Limit[k]

Free == {s \in Slot : permits[s] = None}

\* The loop over 0 .. capacity - 1 that stops at the first absent field.
FirstFree(s) == s \in Free /\ \A r \in Free : s <= r

\* The threads whose _eval is still waiting for the reply to this script.
Waiting(c) ==
  {t \in Thread : /\ permit[t] = c.token
                  /\ pc[t] = IF c.op = "acquire" THEN "acquiring" ELSE "releasing"}

\* The reply reaches the waiting thread, if it has not given up.  The client
\* may have resent the script on a broken connection: another copy can remain.
Reply(c, state) ==
  /\ inflight' \in {inflight, inflight \ {c}}
  /\ pc' = [t \in Thread |-> IF t \in Waiting(c) THEN state ELSE pc[t]]
  /\ permit' = [t \in Thread |-> IF t \in Waiting(c) /\ state = "idle"
                                 THEN None ELSE permit[t]]

\* Mutant of AcquireLimited: identity counters are allocated past the global cap.
AcquireLimitedAllocates(c) ==
  /\ stored
  /\ Exhausted(Global)
  /\ Charge({k \in {c.source, c.credential} : ~ Exhausted(k)})
  /\ Reply(c, "idle")
  /\ UNCHANGED <<stored, permits, open>>

\* Mutant of AcquireLimited: a refused attempt prolongs the global window.
AcquireLimitedExtends(c) ==
  /\ stored
  /\ Exhausted(Global)
  /\ ttl' = [ttl EXCEPT ![Global] = Window]
  /\ Reply(c, "idle")
  /\ UNCHANGED <<stored, permits, count, open>>

\* {0, ttl of the global key}: the global budget is spent, nothing is charged.
AcquireLimited(c) ==
  /\ stored
  /\ Exhausted(Global)
  /\ Reply(c, "idle")
  /\ UNCHANGED <<stored, permits, count, ttl, open>>

\* The attempt is charged to the global budget and refused: an identity is
\* exhausted or every slot is taken.
AcquireRefused(c) ==
  /\ stored
  /\ ~ Exhausted(Global)
  /\ \/ Exhausted(c.source)
     \/ Exhausted(c.credential)
     \/ Free = {}
  /\ Charge({Global})
  /\ Reply(c, "idle")
  /\ UNCHANGED <<stored, permits, open>>

\* {1, slot}.  The middleware serves the request only on slot '0'; any other
\* slot is an invalid permit, answered 503 with the slot left behind.
AcquireGranted(c, s) ==
  /\ stored
  /\ ~ Exhausted(Global)
  /\ ~ Exhausted(c.source)
  /\ ~ Exhausted(c.credential)
  /\ FirstFree(s)
  /\ Charge({Global, c.source, c.credential})
  /\ permits' = [permits EXCEPT ![s] = c.token]
  /\ Reply(c, IF s = 0 THEN "running" ELSE "idle")
  /\ UNCHANGED <<stored, open>>

\* Mutant of Release: HDEL without comparing the token.
ReleaseAnyOwner(c) ==
  /\ stored
  /\ permits' = [permits EXCEPT ![c.slot] = None]
  /\ Reply(c, "idle")
  /\ UNCHANGED <<stored, count, ttl, open>>

\* RELEASE deletes the field only if it holds the exact token.
Release(c) ==
  /\ stored
  /\ permits' = IF permits[c.slot] = c.token
                THEN [permits EXCEPT ![c.slot] = None] ELSE permits
  /\ Reply(c, "idle")
  /\ UNCHANGED <<stored, count, ttl, open>>

\* Redis is down, not ready or answers with an error: no effect, 503.
Unavailable(c) ==
  /\ Reply(c, "idle")
  /\ UNCHANGED <<stored, permits, count, ttl, open>>

\* Redis time: a counter key disappears when its window is over.
Tick ==
  /\ \E k \in Key : ttl[k] > 0
  /\ ttl' = [k \in Key |-> IF ttl[k] > 0 THEN ttl[k] - 1 ELSE 0]
  /\ count' = [k \in Key |-> IF ttl[k] > 1 THEN count[k] ELSE 0]
  /\ UNCHANGED <<stored, permits, open, pc, permit, inflight>>

-----------------------------------------------------------------------------
(* The middleware: Admission.__call__ on one web thread.                   *)

\* secrets.token_urlsafe never repeats a token that is still known anywhere.
Fresh == Token \ ({permits[s] : s \in Slot} \cup {permit[t] : t \in Thread}
                    \cup {c.token : c \in inflight})

Arrive(t, k, s, c) ==
  /\ open
  /\ pc[t] = "idle"
  /\ k \in Fresh
  /\ pc' = [pc EXCEPT ![t] = "acquiring"]
  /\ permit' = [permit EXCEPT ![t] = k]
  /\ inflight' = inflight \cup {[op |-> "acquire", token |-> k, source |-> s, credential |-> c]}
  /\ UNCHANGED <<stored, permits, count, ttl, open>>

\* The two-second socket timeout: 503, while the script may still run.
GiveUp(t) ==
  /\ pc[t] \in {"acquiring", "releasing"}
  /\ pc' = [pc EXCEPT ![t] = "idle"]
  /\ permit' = [permit EXCEPT ![t] = None]
  /\ UNCHANGED <<stored, permits, count, ttl, open, inflight>>

\* get_response returned or raised: the handler's work is over.
Finish(t) ==
  /\ pc[t] = "running"
  /\ pc' = [pc EXCEPT ![t] = "releasing"]
  /\ inflight' = inflight \cup {[op |-> "release", token |-> permit[t], slot |-> 0]}
  /\ UNCHANGED <<stored, permits, count, ttl, open, permit>>

\* A streaming response is refused and keeps its slot.
Stream(t) ==
  /\ pc[t] = "running"
  /\ pc' = [pc EXCEPT ![t] = "idle"]
  /\ permit' = [permit EXCEPT ![t] = None]
  /\ UNCHANGED <<stored, permits, count, ttl, open, inflight>>

-----------------------------------------------------------------------------
(* The host.  Its scripts reach Redis after everything the dead web        *)
(* process had sent, hence inflight = {}.                                  *)

\* initialize_fresh, or reconcile(initialize_missing=True).
Initialize ==
  /\ ~ open /\ inflight = {}
  /\ ~ stored
  /\ stored' = TRUE
  /\ UNCHANGED <<permits, count, ttl, open, pc, permit, inflight>>

\* check(require_empty=True), then the listener starts.
Open ==
  /\ ~ open /\ inflight = {}
  /\ stored
  /\ \A s \in Slot : permits[s] = None
  /\ open' = TRUE
  /\ UNCHANGED <<stored, permits, count, ttl, pc, permit, inflight>>

\* The web process stops or dies; what its threads held stays in Redis.
Close ==
  /\ open
  /\ open' = FALSE
  /\ pc' = [t \in Thread |-> "idle"]
  /\ permit' = [t \in Thread |-> None]
  /\ UNCHANGED <<stored, permits, count, ttl, inflight>>

\* Mutant of Reconcile: the quiescence requirement is dropped.
ReconcileLive ==
  /\ stored
  /\ permits' = [s \in Slot |-> None]
  /\ UNCHANGED <<stored, count, ttl, open, pc, permit, inflight>>

\* The RECONCILE script: slots are cleared, budgets are kept.
Reconcile ==
  /\ ~ open /\ inflight = {}
  /\ stored
  /\ permits' = [s \in Slot |-> None]
  /\ UNCHANGED <<stored, count, ttl, open, pc, permit, inflight>>

-----------------------------------------------------------------------------
ScriptRuns ==
  \E c \in inflight :
    \/ c.op = "acquire" /\ (AcquireLimited(c) \/ AcquireRefused(c))
    \/ c.op = "acquire" /\ \E s \in Slot : AcquireGranted(c, s)
    \/ c.op = "release" /\ Release(c)
    \/ Unavailable(c)

ThreadStep ==
  \E t \in Thread :
    \/ \E k \in Token, s \in Source, c \in Credential : Arrive(t, k, s, c)
    \/ GiveUp(t)
    \/ Finish(t)
    \/ Stream(t)

Next == ScriptRuns \/ ThreadStep \/ Tick \/ Initialize \/ Open \/ Close \/ Reconcile

Spec == Init /\ [][Next]_vars

\* Time passes whatever the processes do.
FairSpec == Spec /\ WF_vars(Tick)

-----------------------------------------------------------------------------
(* Properties.                                                             *)

\* At most one sync handler runs at a time, whatever scripts are lost, late or
\* resent and however often the web process dies (Admission.__call__, capacity 1).
OneHandler ==
  \A t, u \in Thread : pc[t] = "running" /\ pc[u] = "running" => t = u

\* A thread carries a token exactly while it serves a request.
BusyHasToken == \A t \in Thread : pc[t] = "idle" <=> permit[t] = None

\* No two threads serve under the same token.
TokensDiffer ==
  \A t, u \in Thread : permit[t] = permit[u] /\ permit[t] # None => t = u

\* The token of a running handler sits in slot 0.
HandlerHoldsSlot == \A t \in Thread : pc[t] = "running" => permits[0] = permit[t]

\* A RELEASE is in flight only for a request whose handler is over.
ReleaseAfterHandler ==
  \A c \in inflight : c.op = "release" =>
    \A t \in Thread : permit[t] = c.token => pc[t] = "releasing"

\* A closed listener serves nobody.
ClosedServesNobody == open \/ \A t \in Thread : pc[t] = "idle"

\* Why OneHandler holds, and its inductive strengthening: the permit in Redis
\* and the handler it stands for in the web process never part while it runs.
PermitBacksHandler ==
  /\ BusyHasToken
  /\ TokensDiffer
  /\ HandlerHoldsSlot
  /\ ReleaseAfterHandler
  /\ ClosedServesNobody

\* A slot is given up only by its owner's own RELEASE, sent when the handler is
\* over, or by a reconciliation with the listener closed: a permit has no expiry,
\* and a late or repeated RELEASE never frees another request's slot.
PermitGivenUpByOwner ==
  [][\A s \in Slot :
       permits[s] # None /\ permits'[s] # permits[s]
         => \/ ~ open
            \/ [op |-> "release", token |-> permits[s], slot |-> s] \in inflight]_vars

\* The counters always pass the validation ACQUIRE does before it counts: a
\* present key is between 1 and its limit and expires within the window, so the
\* script never locks itself out with ADMISSION_UNAVAILABLE.
CountersValid ==
  \A k \in Key : /\ count[k] <= Limit[k]
                 /\ count[k] = 0 <=> ttl[k] = 0

\* The bound the design rests on ("at most 4 * global_max identity keys"), made
\* exact: two global windows overlap one identity window, but the two keys of the
\* older window's first request expire with that window.
IdentityKeysBounded ==
  Cardinality({k \in Identity : count[k] > 0}) <= 4 * GlobalMax - 2

\* A spent budget always comes back, even under traffic that never pauses.
BudgetsRecover ==
  \A k \in Key : []<>(count[k] < Limit[k])
=============================================================================
