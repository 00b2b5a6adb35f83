-------------------------- MODULE DurableSyncProofs --------------------------
(***************************************************************************)
(* Theorems about the ledger and about DurableSync, for every set of       *)
(* processes, devices and revisions and every page count.                  *)
(***************************************************************************)
EXTENDS DurableSync, TLAPS

\* The rows of the file and the answers hold what the schema and the checks admit.
FileTyped ==
  /\ published \in SUBSET Revision
  /\ revoked \in [Device -> BOOLEAN]
  /\ reported \in [Device -> Revision \cup {0}]
  /\ acked \in SUBSET [device : Device, rev : Revision]

\* Requests are kept per process, and one in progress names a known device.
RequestsKnown ==
  /\ DOMAIN request = Server
  /\ \A s \in Server : request[s] # None => request[s].device \in Device

\* A process that has made its checks holds the lock, so that they still hold.
ChecksHold(s) ==
  At(s, "write") =>
    /\ writer = s
    /\ ~ revoked[request[s].device]
    /\ request[s].rev \in published
    /\ request[s].rev >= reported[request[s].device]

\* What is about to be answered is stored already.
AnswerIsStored(s) ==
  At(s, "answer") =>
    request[s].rev \in Revision /\ reported[request[s].device] >= request[s].rev

\* What relates the requests in progress to the file: the refinement rests on it.
FileInv ==
  /\ FileTyped /\ RequestsKnown
  /\ \A s \in Server : ChecksHold(s) /\ AnswerIsStored(s)

\* Revisions, and the initial mark 0, are integers that can be compared.
LEMMA RevisionsAreIntegers == \A r : r \in Revision \cup {0} => r \in Int
<1> SUFFICES ASSUME NEW r, r \in Revision \cup {0} PROVE r \in Int
  BY Zenon
<1>1. CASE r = 0
  BY <1>1
<1>2. CASE r \in Revision
  <2>1. r \in Nat \ {0}
    BY <1>2, RulesAssumption, Zenon
  <2> QED
    BY <2>1
<1> QED
  BY <1>1, <1>2, Zenon

-----------------------------------------------------------------------------
(* The ledger: what is promised to whoever uses the service.               *)

\* The type of the ledger is kept by every ledger step.
LEMMA LedgerTypeStep == Stored!TypeOK /\ [Stored!Next]_(Stored!ledger) => Stored!TypeOK'
<1> SUFFICES ASSUME Stored!TypeOK, [Stored!Next]_(Stored!ledger) PROVE Stored!TypeOK'
  BY Zenon
<1> USE DEF Stored!TypeOK
<1>1. ASSUME NEW r \in Revision, Stored!Extend(r) PROVE Stored!TypeOK'
  BY <1>1, Zenon DEF Stored!Extend
<1>2. ASSUME NEW d \in Device, Stored!Bar(d) PROVE Stored!TypeOK'
  BY <1>2, Zenon DEF Stored!Bar
<1>3. ASSUME NEW d \in Device, NEW r \in Revision, Stored!Raise(d, r) PROVE Stored!TypeOK'
  BY <1>3, Zenon DEF Stored!Raise
<1>4. ASSUME NEW d \in Device, NEW r \in Revision, Stored!Promise(d, r) PROVE Stored!TypeOK'
  <2>1. [device |-> d, rev |-> r] \in [device : Device, rev : Revision]
    BY Zenon
  <2> QED
    BY <1>4, <2>1, Zenon DEF Stored!Promise
<1>5. CASE UNCHANGED Stored!ledger
  BY <1>5, Zenon DEF Stored!ledger
<1> QED
  BY <1>1, <1>2, <1>3, <1>4, <1>5, Zenon DEF Stored!Next

\* A ledger step keeps every mark published.
LEMMA PublishedStep ==
  ASSUME Stored!TypeOK, Stored!MarkIsPublished, [Stored!Next]_(Stored!ledger)
  PROVE  Stored!MarkIsPublished'
<1> USE DEF Stored!TypeOK, Stored!MarkIsPublished
<1>1. ASSUME NEW r \in Revision, Stored!Extend(r) PROVE Stored!MarkIsPublished'
  BY <1>1, Zenon DEF Stored!Extend
<1>2. ASSUME NEW d \in Device, Stored!Bar(d) PROVE Stored!MarkIsPublished'
  BY <1>2, Zenon DEF Stored!Bar
<1>3. ASSUME NEW d \in Device, NEW r \in Revision, Stored!Raise(d, r)
      PROVE  Stored!MarkIsPublished'
  BY <1>3, Zenon DEF Stored!Raise
<1>4. ASSUME NEW d \in Device, NEW r \in Revision, Stored!Promise(d, r)
      PROVE  Stored!MarkIsPublished'
  BY <1>4, Zenon DEF Stored!Promise
<1>5. CASE UNCHANGED Stored!ledger
  BY <1>5, Zenon DEF Stored!ledger
<1> QED
  BY <1>1, <1>2, <1>3, <1>4, <1>5, Zenon DEF Stored!Next

\* A mark only rises, and stays where it is once the device is barred.
LEMMA MarkRises ==
  ASSUME Stored!TypeOK, [Stored!Next]_(Stored!ledger), NEW d \in Device
  PROVE  /\ reported[d] \in Int /\ reported'[d] \in Int /\ reported'[d] >= reported[d]
         /\ revoked[d] => reported'[d] = reported[d]
<1>1. reported[d] \in Int
  BY RevisionsAreIntegers, Zenon DEF Stored!TypeOK
<1>2. reported'[d] \in Int
  BY LedgerTypeStep, RevisionsAreIntegers, Zenon DEF Stored!TypeOK
<1>3. ASSUME NEW e \in Device, NEW r \in Revision, Stored!Raise(e, r)
      PROVE  reported'[d] >= reported[d] /\ (revoked[d] => reported'[d] = reported[d])
  <2>1. /\ reported' = [reported EXCEPT ![e] = r] /\ DOMAIN reported = Device
        /\ r >= reported[e] /\ ~ revoked[e]
    BY <1>3, Zenon DEF Stored!Raise, Stored!TypeOK
  <2> QED
    BY <1>1, <2>1
<1>4. CASE reported' = reported
  BY <1>1, <1>4
<1>5. reported' = reported \/ \E e \in Device, r \in Revision : Stored!Raise(e, r)
  BY Zenon DEF Stored!Next, Stored!Extend, Stored!Bar, Stored!Promise, Stored!ledger
<1> QED
  BY <1>1, <1>2, <1>3, <1>4, <1>5, Zenon

\* A ledger step keeps every promise.
LEMMA PromisesStep ==
  ASSUME Stored!TypeOK, Stored!PromisesKept, [Stored!Next]_(Stored!ledger)
  PROVE  Stored!PromisesKept'
<1>1. ASSUME NEW p \in acked PROVE reported'[p.device] >= p.rev
  <2>1. p.device \in Device /\ p.rev \in Int /\ reported[p.device] >= p.rev
    BY RevisionsAreIntegers, Zenon DEF Stored!TypeOK, Stored!PromisesKept
  <2> QED
    BY <2>1, MarkRises
<1>2. CASE acked' = acked
  BY <1>1, <1>2, Zenon DEF Stored!PromisesKept
<1>3. ASSUME NEW d \in Device, NEW r \in Revision, Stored!Promise(d, r)
      PROVE  Stored!PromisesKept'
  <2>1. \A p \in acked' : p \in acked \/ p = [device |-> d, rev |-> r]
    BY <1>3, Zenon DEF Stored!Promise
  <2>2. reported' = reported /\ reported[d] >= r
    BY <1>3, Zenon DEF Stored!Promise
  <2>3. ASSUME NEW p \in acked', p = [device |-> d, rev |-> r] PROVE reported'[p.device] >= p.rev
    BY <2>2, <2>3
  <2> QED
    BY <1>1, <2>1, <2>3, Zenon DEF Stored!PromisesKept
<1>4. acked' = acked \/ \E d \in Device, r \in Revision : Stored!Promise(d, r)
  BY Zenon DEF Stored!Next, Stored!Extend, Stored!Bar, Stored!Raise, Stored!ledger
<1> QED
  BY <1>2, <1>3, <1>4, Zenon

\* Type correctness; a mark is always a published revision, and promises are kept.
THEOREM LedgerInvariant ==
  Stored!Spec => [](Stored!TypeOK /\ Stored!MarkIsPublished /\ Stored!PromisesKept)
<1>1. Stored!Init => Stored!TypeOK /\ Stored!MarkIsPublished /\ Stored!PromisesKept
  BY Zenon DEF Stored!Init, Stored!TypeOK, Stored!MarkIsPublished, Stored!PromisesKept
<1>2. /\ Stored!TypeOK /\ Stored!MarkIsPublished /\ Stored!PromisesKept
      /\ [Stored!Next]_(Stored!ledger)
      => (Stored!TypeOK /\ Stored!MarkIsPublished /\ Stored!PromisesKept)'
  BY LedgerTypeStep, PublishedStep, PromisesStep, Zenon
<1> QED
  BY <1>1, <1>2, PTL DEF Stored!Spec

\* Marks never fall, a bar is final and nothing is withdrawn.
THEOREM LedgerIsMonotone == Stored!Spec => Stored!LedgerMonotone
<1> DEFINE Barred == {d \in Device : revoked[d]}
<1>1. ASSUME Stored!TypeOK, [Stored!Next]_(Stored!ledger)
      PROVE  [/\ published \subseteq published'
              /\ Barred \subseteq Barred'
              /\ \A d \in Device :
                   /\ reported'[d] >= reported[d]
                   /\ d \in Barred => reported'[d] = reported[d]]_(Stored!ledger)
  <2>1. published \subseteq published' /\ Barred \subseteq Barred'
    BY <1>1, Zenon DEF Stored!Next, Stored!Extend, Stored!Bar, Stored!Raise, Stored!Promise,
       Stored!ledger
  <2>2. ASSUME NEW d \in Device
        PROVE  reported'[d] >= reported[d] /\ (d \in Barred => reported'[d] = reported[d])
    BY <1>1, MarkRises, Zenon
  <2> QED
    BY <2>1, <2>2, Zenon
<1> QED
  BY <1>1, LedgerInvariant, PTL DEF Stored!Spec, Stored!LedgerMonotone

-----------------------------------------------------------------------------
(* The processes on the file.                                              *)

\* Requests always name known devices.
LEMMA RequestsStep == RequestsKnown /\ [Next]_vars => RequestsKnown'
<1> SUFFICES ASSUME RequestsKnown, [Next]_vars PROVE RequestsKnown'
  OBVIOUS
<1> USE DEF RequestsKnown
<1>1. CASE \E r \in Revision : Publish(r)
  BY <1>1, Zenon DEF Publish
<1>2. CASE \E d \in Device : RevokeStored(d)
  BY <1>2, Zenon DEF RevokeStored
<1>3. ASSUME NEW s \in Server, Start(s) PROVE RequestsKnown'
  BY <1>3, Zenon DEF Start
<1>4. ASSUME NEW s \in Server, Crash(s) \/ CommitFails(s) \/ Answer(s) PROVE RequestsKnown'
  BY <1>4, Zenon DEF Crash, CommitFails, Answer
<1>5. ASSUME NEW s \in Server, Transact(s) \/ Commit(s) PROVE RequestsKnown'
  <2>1. request[s] # None /\ request[s].device \in Device
    BY <1>5, Zenon DEF Transact, Commit, At
  <2>2. PICK q : request' = [request EXCEPT ![s] = q] /\ q.device = request[s].device
    BY <1>5 DEF Transact, Commit, Goto
  <2> QED
    BY <2>1, <2>2, Zenon
<1>6. ASSUME NEW s \in Server, NEW d \in Device, RevokeLocal(s, d) \/ Expire(s, d)
      PROVE  RequestsKnown'
  BY <1>6, Zenon DEF RevokeLocal, Expire
<1>7. ASSUME NEW s \in Server, NEW d \in Device, Handle(s, d) PROVE RequestsKnown'
  <2>1. CASE PreflightBegin(s, d) \/ Preflight(s, d) \/ PostflightBegin(s, d) \/ ReadFails(s, d)
    BY <2>1 DEF PreflightBegin, Preflight, PostflightBegin, ReadFails
  <2>2. CASE \/ \E es \in SUBSET Event \ {{}} : EventUpload(s, d, es)
             \/ \E page \in Pages(session[s][d].rev) : RuleDownload(s, d, page)
    BY <2>2, Zenon DEF EventUpload, RuleDownload
  <2> QED
    BY <1>7, <2>1, <2>2, Zenon DEF Handle
<1>8. CASE UNCHANGED vars
  BY <1>8, Zenon DEF vars
<1> QED
  BY <1>1, <1>2, <1>3, <1>4, <1>5, <1>6, <1>7, <1>8, Zenon DEF Next

\* Starting, time, revocation in memory and the stages that only read the file.
Quiet ==
  \/ \E s \in Server : Start(s)
  \/ \E s \in Server, d \in Device : RevokeLocal(s, d) \/ Expire(s, d) \/ Handle(s, d)
  \/ UNCHANGED vars

\* They leave the file, its lock and the answers alone, and no request moves into a
\* transaction or out of one.
LEMMA QuietSteps ==
  ASSUME RequestsKnown, Quiet
  PROVE  /\ UNCHANGED <<file, writer, acked>>
         /\ \A t \in Server : \/ request'[t] = request[t] \/ request'[t] = None
                              \/ request'[t].stage \in {"preflight", "report"}
<1>1. ASSUME NEW s \in Server, Start(s) PROVE UNCHANGED <<file, writer, acked, request>>
  BY <1>1, Zenon DEF Start
<1>2. ASSUME NEW s \in Server, NEW d \in Device, RevokeLocal(s, d) \/ Expire(s, d)
      PROVE  UNCHANGED <<file, writer, acked, request>>
  BY <1>2, Zenon DEF RevokeLocal, Expire
<1>3. ASSUME UNCHANGED vars PROVE UNCHANGED <<file, writer, acked, request>>
  BY <1>3, Zenon DEF vars
<1>4. ASSUME NEW s \in Server, NEW d \in Device, Handle(s, d)
      PROVE  /\ UNCHANGED <<file, writer, acked>>
             /\ \A t \in Server : \/ request'[t] = request[t] \/ request'[t] = None
                                  \/ request'[t].stage \in {"preflight", "report"}
  <2>1. CASE PreflightBegin(s, d)
    BY <2>1 DEF PreflightBegin, RequestsKnown
  <2>2. CASE Preflight(s, d) \/ ReadFails(s, d)
    BY <2>2, Zenon DEF Preflight, ReadFails, RequestsKnown
  <2>3. CASE PostflightBegin(s, d)
    BY <2>3 DEF PostflightBegin, RequestsKnown
  <2>4. CASE \/ \E es \in SUBSET Event \ {{}} : EventUpload(s, d, es)
             \/ \E page \in Pages(session[s][d].rev) : RuleDownload(s, d, page)
    BY <2>4, Zenon DEF EventUpload, RuleDownload
  <2> QED
    BY <1>4, <2>1, <2>2, <2>3, <2>4, Zenon DEF Handle
<1> QED
  BY <1>1, <1>2, <1>3, <1>4, Zenon DEF Quiet

\* Every step is one of these.
LEMMA StepKinds ==
  [Next]_vars =>
    \/ Quiet
    \/ \E r \in Revision : Publish(r)
    \/ \E d \in Device : RevokeStored(d)
    \/ \E s \in Server : Crash(s) \/ Transact(s) \/ Commit(s) \/ CommitFails(s) \/ Answer(s)
BY Zenon DEF Next, Quiet

\* While one process is in a transaction no other one is, and none is while it is free.
LEMMA OneWriter ==
  ASSUME FileInv, NEW s \in Server, At(s, "write")
  PROVE  writer = s /\ writer # None /\ \A t \in Server \ {s} : ~ At(t, "write")
BY NoneIsNoServer, Zenon DEF FileInv, ChecksHold

\* A commit is of a published revision, at or above the mark of a device in good
\* standing, although all three were read in an earlier step.
LEMMA CommitChecked ==
  ASSUME FileInv, NEW s \in Server, Commit(s)
  PROVE  /\ request[s].device \in Device /\ request[s].rev \in Revision
         /\ Stored!Raise(request[s].device, request[s].rev)
<1>1. At(s, "write") /\ request[s].device \in Device
  BY Zenon DEF Commit, At, FileInv, RequestsKnown
<1>2. /\ ~ revoked[request[s].device] /\ request[s].rev \in published
      /\ request[s].rev >= reported[request[s].device]
  BY <1>1, Zenon DEF FileInv, ChecksHold
<1>3. /\ UNCHANGED <<published, revoked, acked>>
      /\ reported' = [reported EXCEPT ![request[s].device] = request[s].rev]
  BY Zenon DEF Commit
<1>4. request[s].rev \in Revision
  BY <1>2, Zenon DEF FileInv, FileTyped
<1> QED
  BY <1>1, <1>2, <1>3, <1>4, Zenon DEF Stored!Raise

\* The simulation: a step is a step of the ledger or leaves it as it is.
LEMMA LedgerStep ==
  ASSUME FileInv, [Next]_vars PROVE [Stored!Next]_(Stored!ledger)
<1>1. CASE Quiet
  BY <1>1, QuietSteps, Zenon DEF FileInv, Stored!ledger, file
<1>2. ASSUME NEW r \in Revision, Publish(r) PROVE Stored!Next
  BY <1>2, Zenon DEF Publish, Stored!Next, Stored!Extend
<1>3. ASSUME NEW d \in Device, RevokeStored(d) PROVE Stored!Next
  <2>1. {e \in Device : revoked'[e]} = {e \in Device : revoked[e]} \cup {d}
    BY <1>3, Zenon DEF RevokeStored, FileInv, FileTyped
  <2> QED
    BY <1>3, <2>1, Zenon DEF RevokeStored, Stored!Next, Stored!Bar
<1>4. ASSUME NEW s \in Server, Crash(s) \/ Transact(s) \/ CommitFails(s)
      PROVE  UNCHANGED Stored!ledger
  BY <1>4, Zenon DEF Crash, Transact, CommitFails, Stored!ledger, file
<1>5. ASSUME NEW s \in Server, Commit(s) PROVE Stored!Next
  BY <1>5, CommitChecked, Zenon DEF Stored!Next
<1>6. ASSUME NEW s \in Server, Answer(s) PROVE Stored!Next
  <2>1. /\ request[s].device \in Device /\ request[s].rev \in Revision
        /\ reported[request[s].device] >= request[s].rev
    BY <1>6, Zenon DEF Answer, At, FileInv, RequestsKnown, AnswerIsStored
  <2>2. Stored!Promise(request[s].device, request[s].rev)
    BY <1>6, <2>1, Zenon DEF Answer, Stored!Promise, file
  <2> QED
    BY <2>1, <2>2, Zenon DEF Stored!Next
<1> QED
  BY <1>1, <1>2, <1>3, <1>4, <1>5, <1>6, StepKinds, Zenon

\* The rows keep their types.
LEMMA FileTypedStep ==
  ASSUME FileInv, [Next]_vars PROVE FileTyped'
<1>1. Stored!TypeOK'
  BY LedgerStep, LedgerTypeStep, Zenon DEF FileInv, FileTyped, Stored!TypeOK
<1>2. revoked' \in [Device -> BOOLEAN]
  <2>1. CASE revoked' = revoked
    BY <2>1, Zenon DEF FileInv, FileTyped
  <2>2. CASE \E d \in Device : RevokeStored(d)
    BY <2>2, Zenon DEF FileInv, FileTyped, RevokeStored
  <2>3. ASSUME Quiet PROVE revoked' = revoked
    BY <2>3, QuietSteps, Zenon DEF FileInv, file
  <2>4. ASSUME \/ \E r \in Revision : Publish(r)
               \/ \E s \in Server : \/ Crash(s) \/ Transact(s) \/ Commit(s) \/ CommitFails(s)
                                    \/ Answer(s)
        PROVE  revoked' = revoked
    BY <2>4, Zenon DEF Publish, Crash, Transact, Commit, CommitFails, Answer, file
  <2> QED
    BY <2>1, <2>2, <2>3, <2>4, StepKinds, Zenon
<1> QED
  BY <1>1, <1>2, Zenon DEF FileTyped, Stored!TypeOK

\* One request moves, and what the other ones rely on is left alone.
LEMMA OthersKept ==
  ASSUME FileInv, [Next]_vars, NEW t \in Server, request'[t] = request[t],
         At(t, "write") => UNCHANGED <<published, revoked, reported, writer>>
  PROVE  ChecksHold(t)' /\ AnswerIsStored(t)'
<1>1. ChecksHold(t) /\ AnswerIsStored(t)
  BY Zenon DEF FileInv
<1>2. ChecksHold(t)'
  <2>1. CASE At(t, "write")
    <3>1. writer' = writer /\ published' = published /\ revoked' = revoked /\ reported' = reported
      BY <2>1, Zenon
    <3> QED
      BY <1>1, <3>1 DEF ChecksHold, At
  <2>2. CASE ~ At(t, "write")
    BY <2>2, Zenon DEF ChecksHold, At
  <2> QED
    BY <2>1, <2>2, Zenon
<1>3. ASSUME At(t, "answer")
      PROVE  /\ request[t].rev \in Revision
             /\ reported'[request[t].device] >= request[t].rev
  <2>1. request[t].device \in Device /\ request[t].rev \in Revision
        /\ reported[request[t].device] >= request[t].rev
    BY <1>1, <1>3, Zenon DEF AnswerIsStored, At, FileInv, RequestsKnown
  <2>2. /\ reported[request[t].device] \in Int /\ reported'[request[t].device] \in Int
        /\ reported'[request[t].device] >= reported[request[t].device]
    BY <2>1, LedgerStep, MarkRises, Zenon DEF FileInv, FileTyped, Stored!TypeOK
  <2>3. request[t].rev \in Int
    BY <2>1, RevisionsAreIntegers, Zenon
  <2> QED
    BY <2>1, <2>2, <2>3
<1> QED
  BY <1>2, <1>3, Zenon DEF AnswerIsStored, At

\* The checks of a transaction hold until it ends, and answers follow commits.
LEMMA FileInvStep == FileInv /\ [Next]_vars => FileInv'
<1> SUFFICES ASSUME FileInv, [Next]_vars PROVE FileInv'
  BY Zenon
<1>1. FileTyped' /\ RequestsKnown'
  BY FileTypedStep, RequestsStep, Zenon DEF FileInv
<1>2. SUFFICES ASSUME NEW t \in Server PROVE ChecksHold(t)' /\ AnswerIsStored(t)'
  BY <1>1, Zenon DEF FileInv
<1>3. ASSUME request'[t] = None \/ request'[t].stage \in {"preflight", "report"}
      PROVE  ChecksHold(t)' /\ AnswerIsStored(t)'
  BY <1>3 DEF ChecksHold, AnswerIsStored, At
<1>4. CASE Quiet
  <2>1. UNCHANGED <<published, revoked, reported, writer>>
    BY <1>4, QuietSteps, Zenon DEF FileInv, file
  <2> QED
    BY <1>3, <1>4, <2>1, QuietSteps, OthersKept, Zenon DEF FileInv
<1>5. CASE (\E r \in Revision : Publish(r)) \/ (\E d \in Device : RevokeStored(d))
  <2>1. writer = None /\ request' = request
    BY <1>5, Zenon DEF Publish, RevokeStored
  <2>2. ~ At(t, "write")
    BY <2>1, OneWriter, Zenon
  <2> QED
    BY <2>1, <2>2, OthersKept, Zenon
<1>6. ASSUME NEW s \in Server, Crash(s) \/ CommitFails(s) \/ Answer(s)
      PROVE  ChecksHold(t)' /\ AnswerIsStored(t)'
  <2>1. /\ UNCHANGED <<published, revoked, reported>> /\ request'[s] = None
        /\ t # s => request'[t] = request[t]
    BY <1>6, Zenon DEF Crash, CommitFails, Answer, file, FileInv, RequestsKnown
  <2>2. ASSUME t # s, At(t, "write") PROVE writer' = writer
    BY <1>6, <2>2, OneWriter, Zenon DEF Crash, CommitFails, Answer, Release
  <2> QED
    BY <1>3, <2>1, <2>2, OthersKept, Zenon
<1>7. ASSUME NEW s \in Server, Transact(s) PROVE ChecksHold(t)' /\ AnswerIsStored(t)'
  <2>1. /\ writer = None /\ writer' = s /\ UNCHANGED <<published, revoked, reported>>
        /\ ~ revoked[request[s].device] /\ request[s].rev \in published
        /\ request[s].rev >= reported[request[s].device]
    BY <1>7, Zenon DEF Transact, file
  <2>2. /\ request'[s] = [stage |-> "write", device |-> request[s].device, rev |-> request[s].rev]
        /\ t # s => request'[t] = request[t]
    BY <1>7, Zenon DEF Transact, Goto, FileInv, RequestsKnown
  <2>3. ~ At(t, "write")
    BY <2>1, OneWriter, Zenon
  <2>4. CASE t = s
    BY <2>1, <2>2, <2>4 DEF ChecksHold, AnswerIsStored, At
  <2> QED
    BY <2>2, <2>3, <2>4, OthersKept, Zenon
<1>8. ASSUME NEW s \in Server, Commit(s) PROVE ChecksHold(t)' /\ AnswerIsStored(t)'
  <2>1. /\ request'[s] = [stage |-> "answer", device |-> request[s].device, rev |-> request[s].rev]
        /\ t # s => request'[t] = request[t]
    BY <1>8, Zenon DEF Commit, Goto, FileInv, RequestsKnown
  <2>2. t # s => ~ At(t, "write")
    BY <1>8, OneWriter, Zenon DEF Commit
  <2>3. /\ request[s].device \in Device /\ request[s].rev \in Revision
        /\ reported'[request[s].device] = request[s].rev
    BY <1>8, CommitChecked, Zenon DEF Stored!Raise, FileInv, FileTyped
  <2>4. request[s].rev \in Int
    BY <2>3, RevisionsAreIntegers, Zenon
  <2>5. CASE t = s
    BY <2>1, <2>3, <2>4, <2>5 DEF ChecksHold, AnswerIsStored, At
  <2> QED
    BY <2>1, <2>2, <2>5, OthersKept, Zenon
<1> QED
  BY <1>4, <1>5, <1>6, <1>7, <1>8, StepKinds, Zenon

\* The invariant of the file and its transactions.
THEOREM FileInvariant == Spec => []FileInv
<1>1. Init => FileInv
  BY Zenon DEF Init, FileInv, FileTyped, RequestsKnown, ChecksHold, AnswerIsStored, At
<1> QED
  BY <1>1, FileInvStep, PTL DEF Spec

\* However the reads, transactions and answers of the processes interleave, fail or
\* are cut off by a crash, the file and the answers are those of a ledger: so every
\* theorem about Ledger holds of the running system.
THEOREM SyncImplementsLedger == Spec => ImplementsLedger
<1>1. Init => Stored!Init
  BY Zenon DEF Init, Stored!Init
<1>2. FileInv /\ [Next]_vars => [Stored!Next]_(Stored!ledger)
  BY LedgerStep, Zenon
<1> QED
  BY <1>1, <1>2, FileInvariant, PTL DEF Spec, ImplementsLedger, Stored!Spec

\* What a device has reported stays published, however the processes interleave.
THEOREM StoredAlwaysPublished == Spec => []StoredIsPublished
BY SyncImplementsLedger, LedgerInvariant, PTL DEF StoredIsPublished, ImplementsLedger

\* No process lowers a mark, moves a revoked device, undoes a revocation or
\* withdraws a revision.
THEOREM StoredAlwaysMonotone == Spec => StoredMonotone
BY SyncImplementsLedger, LedgerIsMonotone, PTL DEF StoredMonotone, ImplementsLedger

\* "A successful postflight response requires its report to commit first": what a
\* client saw acknowledged stays covered by the stored mark, as the ledger promises.
THEOREM AckedAlwaysStored == Spec => []AckedIsStored
<1>1. Stored!PromisesKept => AckedIsStored
  BY Zenon DEF Stored!PromisesKept, AckedIsStored
<1> QED
  BY <1>1, SyncImplementsLedger, LedgerInvariant, PTL DEF ImplementsLedger

-----------------------------------------------------------------------------
(* Sessions, pages and reports.                                            *)

\* A process keeps one slot per device; it accepts tokens and serves requests only
\* once there is a revision, and the published revisions have a newest one.
SyncTyped ==
  /\ session \in [Server -> [Device -> Session \cup {None}]]
  /\ tokens \in [Server -> SUBSET Device]
  /\ opened \in 0 .. MaxSession
  /\ \A c \in cursors : c.id \in 1 .. opened /\ c.page \in Nat
  /\ \A s \in Server : tokens[s] # {} \/ request[s] # None => published # {}
  /\ published # {} => \E m \in published : \A r \in published : m >= r

\* The session in a slot has an id that was handed out, its pages are in order, and
\* a cursor that fits it asks for a page whose predecessors it has served.
SlotOK(s, d) ==
  session[s][d] # None =>
    /\ session[s][d].id <= opened
    /\ session[s][d].served \subseteq Pages(session[s][d].rev)
    /\ \A p \in session[s][d].served : 0 .. p \subseteq session[s][d].served
    /\ \A c \in cursors : c.device = d /\ c.id = session[s][d].id =>
         0 .. c.page - 1 \subseteq session[s][d].served

\* A session id names one slot: a cursor cannot fit two sessions.
IdsUnique ==
  \A s, t \in Server, d, e \in Device :
    /\ session[s][d] # None /\ session[t][e] # None
    /\ session[s][d].id = session[t][e].id
    => s = t /\ d = e

\* A pending report is of the session that earned it, unless the device was revoked
\* meanwhile: the report cannot commit then.
ReportEarned(s) ==
  Reporting(s) =>
    \/ revoked[request[s].device]
    \/ /\ session[s][request[s].device] # None
       /\ session[s][request[s].device].rev = request[s].rev
       /\ session[s][request[s].device].served = Pages(request[s].rev)

SlotsInv ==
  /\ \A s \in Server, d \in Device : SlotOK(s, d)
  /\ IdsUnique

SyncInv == FileInv /\ SyncTyped /\ SlotsInv /\ \A s \in Server : ReportEarned(s)

\* A step that opens no session and serves no page keeps the slots in order.
LEMMA SlotsStay ==
  ASSUME SlotsInv, UNCHANGED <<cursors, opened>>,
         \A s \in Server, d \in Device :
           \/ session'[s][d] = None
           \/ /\ session[s][d] # None /\ session'[s][d].id = session[s][d].id
              /\ session'[s][d].rev = session[s][d].rev
              /\ session'[s][d].served = session[s][d].served
  PROVE  SlotsInv'
<1>1. ASSUME NEW s \in Server, NEW d \in Device PROVE SlotOK(s, d)'
  BY <1>1 DEF SlotsInv, SlotOK, Pages
<1>2. IdsUnique'
  BY DEF SlotsInv, IdsUnique
<1> QED  BY <1>1, <1>2, Zenon DEF SlotsInv

\* The newest revision is a published one.
LEMMA NewestPublished ==
  ASSUME FileInv, SyncTyped, NEW s \in Server, request[s] # None
  PROVE  Max(published) \in Revision
<1>1. \E m \in published : \A r \in published : m >= r
  BY Zenon DEF SyncTyped
<1>2. Max(published) \in published
  BY <1>1, Zenon DEF Max
<1> QED  BY <1>2, Zenon DEF FileInv, FileTyped

\* A revision is published or a device revoked.
LEMMA FileSteps ==
  ASSUME SyncInv, FileInv',
         (\E r \in Revision : Publish(r)) \/ (\E d \in Device : RevokeStored(d))
  PROVE  SyncInv'
<1>1. UNCHANGED <<tokens, session, request, cursors, opened>>
  BY Zenon DEF Publish, RevokeStored
<1>2. SlotsInv'
  BY <1>1, SlotsStay, Zenon DEF SyncInv
<1>3. ASSUME NEW s \in Server PROVE ReportEarned(s)'
  <2>1. \A d \in Device : revoked[d] => revoked'[d]
    BY Zenon DEF SyncInv, FileInv, FileTyped, Publish, RevokeStored
  <2>2. ReportEarned(s) /\ (request[s] # None => request[s].device \in Device)
    BY Zenon DEF SyncInv, FileInv, RequestsKnown
  <2> QED  BY <1>1, <2>1, <2>2, Zenon DEF ReportEarned, Reporting, At, Pages
<1>4. published' # {} => \E m \in published' : \A r \in published' : m >= r
  <2>1. CASE published' = published
    BY <2>1, Zenon DEF SyncInv, SyncTyped
  <2>2. ASSUME NEW r \in Revision, Publish(r)
        PROVE  \E m \in published' : \A q \in published' : m >= q
    <3>1. published' = published \cup {r} /\ \A q \in published : q < r
      BY <2>2, Zenon DEF Publish
    <3>2. r \in Int /\ \A q \in published : q \in Int
      BY RevisionsAreIntegers, Zenon DEF SyncInv, FileInv, FileTyped
    <3>3. \A q \in published' : r >= q
      BY <3>1, <3>2
    <3> QED  BY <3>1, <3>3, Zenon
  <2> QED  BY <2>1, <2>2, Zenon DEF RevokeStored
<1>5. published \subseteq published'
  BY Zenon DEF Publish, RevokeStored
<1>6. SyncTyped'
  BY <1>1, <1>4, <1>5, Zenon DEF SyncInv, SyncTyped
<1> QED  BY <1>2, <1>3, <1>6, Zenon DEF SyncInv

\* A step of one process that leaves the file alone.
LEMMA ProcessSteps ==
  ASSUME SyncInv, UNCHANGED file, FileInv', SyncTyped', SlotsInv', NEW s \in Server,
         \A t \in Server \ {s} : request'[t] = request[t] /\ session'[t] = session[t],
         ReportEarned(s)'
  PROVE  SyncInv'
<1>1. ASSUME NEW t \in Server \ {s} PROVE ReportEarned(t)'
  <2>1. ReportEarned(t) /\ request'[t] = request[t] /\ session'[t] = session[t] /\ revoked' = revoked
    BY <1>1, Zenon DEF SyncInv, file
  <2> QED  BY <2>1, Zenon DEF ReportEarned, Reporting, At, Pages
<1> QED  BY <1>1, Zenon DEF SyncInv

\* A process starts or dies: its sessions and its request are gone.
LEMMA RestartSteps ==
  ASSUME SyncInv, FileInv', NEW s \in Server, Start(s) \/ Crash(s)
  PROVE  SyncInv'
<1>1. UNCHANGED <<file, cursors, opened>>
  BY Zenon DEF Start, Crash
<1>2. /\ session' \in [Server -> [Device -> Session \cup {None}]]
      /\ \A d \in Device : session'[s][d] = None
      /\ \A t \in Server \ {s} : session'[t] = session[t]
  BY DEF Start, Crash, SyncInv, SyncTyped
<1>3. request'[s] = None /\ \A t \in Server \ {s} : request'[t] = request[t]
  BY Zenon DEF Start, Crash, SyncInv, FileInv, RequestsKnown
<1>4. /\ tokens' \in [Server -> SUBSET Device]
      /\ tokens'[s] # {} => published # {}
      /\ \A t \in Server \ {s} : tokens'[t] = tokens[t]
  BY Zenon DEF Start, Crash, SyncInv, SyncTyped
<1>5. SyncTyped'
  BY <1>1, <1>2, <1>3, <1>4, Zenon DEF SyncInv, SyncTyped, file
<1>6. SlotsInv'
  BY <1>1, <1>2, SlotsStay, Zenon DEF SyncInv
<1>7. ReportEarned(s)'
  BY <1>3, Zenon DEF ReportEarned, Reporting, At
<1> QED  BY <1>1, <1>2, <1>3, <1>5, <1>6, <1>7, ProcessSteps, Zenon

\* A process changes at most one slot, in its flags or by dropping the session.
LEMMA SlotSteps ==
  ASSUME SyncInv, UNCHANGED <<file, cursors, opened>>, FileInv',
         NEW s \in Server, NEW d \in Device, NEW x \in Session \cup {None},
         session' = [session EXCEPT ![s][d] = x],
         \/ x = None
         \/ /\ session[s][d] # None /\ x.id = session[s][d].id
            /\ x.rev = session[s][d].rev /\ x.served = session[s][d].served,
         \A t \in Server \ {s} : request'[t] = request[t],
         tokens' \in [Server -> SUBSET Device],
         \A t \in Server : tokens'[t] \subseteq tokens[t],
         request'[s] # None => published # {},
         ReportEarned(s)'
  PROVE  SyncInv'
<1>1. /\ session' \in [Server -> [Device -> Session \cup {None}]]
      /\ session'[s][d] = x
      /\ \A t \in Server, e \in Device : t # s \/ e # d => session'[t][e] = session[t][e]
  <2>1. session \in [Server -> [Device -> Session \cup {None}]]
    BY Zenon DEF SyncInv, SyncTyped
  <2>2. session'[s][d] = x
    BY <2>1, Zenon
  <2>3. \A t \in Server, e \in Device : t # s \/ e # d => session'[t][e] = session[t][e]
    BY <2>1, Zenon
  <2> QED  BY <2>1, <2>2, <2>3, Zenon
<1>2. SlotsInv'
  <2>1. ASSUME NEW t \in Server, NEW e \in Device
        PROVE  \/ session'[t][e] = None
               \/ /\ session[t][e] # None /\ session'[t][e].id = session[t][e].id
                  /\ session'[t][e].rev = session[t][e].rev
                  /\ session'[t][e].served = session[t][e].served
    <3>1. CASE t = s /\ e = d
      BY <1>1, <3>1, Zenon
    <3>2. CASE ~ (t = s /\ e = d)
      <4>1. session'[t][e] = session[t][e]
        BY <1>1, <3>2, Zenon
      <4> QED  BY <4>1, Zenon
    <3> QED  BY <3>1, <3>2, Zenon
  <2> QED  BY <2>1, SlotsStay, Zenon DEF SyncInv
<1>3. \A t \in Server : tokens'[t] # {} \/ request'[t] # None => published # {}
  BY Zenon DEF SyncInv, SyncTyped
<1>4. SyncTyped'
  BY <1>1, <1>3, Zenon DEF SyncInv, SyncTyped, file
<1>5. \A t \in Server \ {s} : session'[t] = session[t]
  BY Zenon DEF SyncInv, SyncTyped
<1> QED  BY <1>2, <1>4, <1>5, ProcessSteps, Zenon

\* A process changes no slot.
LEMMA IdleSteps ==
  ASSUME SyncInv, UNCHANGED <<file, cursors, opened, session, tokens>>, FileInv',
         NEW s \in Server, \A t \in Server \ {s} : request'[t] = request[t],
         request'[s] # None => published # {},
         ReportEarned(s)'
  PROVE  SyncInv'
<1>1. SlotsInv'
  BY SlotsStay, Zenon DEF SyncInv
<1>2. SyncTyped'
  BY Zenon DEF SyncInv, SyncTyped, file
<1> QED  BY <1>1, <1>2, ProcessSteps, Zenon

\* What the invariant says of one process.
LEMMA OneRequest ==
  ASSUME SyncInv, NEW s \in Server
  PROVE  ReportEarned(s) /\ (Reporting(s) => request[s].device \in Device)
BY Zenon DEF SyncInv, FileInv, RequestsKnown, Reporting, At

\* Time, revocation in memory, failing reads.
LEMMA DropSteps ==
  ASSUME SyncInv, FileInv', NEW s \in Server, NEW d \in Device,
         RevokeLocal(s, d) \/ Expire(s, d) \/ ReadFails(s, d)
  PROVE  SyncInv'
<1>1. UNCHANGED <<file, cursors, opened>>
  BY Zenon DEF RevokeLocal, Expire, ReadFails
<1>2. /\ tokens' \in [Server -> SUBSET Device]
      /\ \A t \in Server : tokens'[t] \subseteq tokens[t]
  BY Zenon DEF SyncInv, SyncTyped, RevokeLocal, Expire, ReadFails
<1>3. /\ \A t \in Server \ {s} : request'[t] = request[t]
      /\ request'[s] = request[s] \/ request'[s] = None
  BY Zenon DEF SyncInv, FileInv, RequestsKnown, RevokeLocal, Expire, ReadFails
<1>4. request'[s] # None => published # {}
  BY <1>3, Zenon DEF SyncInv, SyncTyped
<1>5. ReportEarned(s) /\ revoked' = revoked
  BY <1>1, Zenon DEF SyncInv, file
<1>6. CASE Expire(s, d)
  <2> DEFINE x == [session[s][d] EXCEPT !.expired = TRUE]
  <2>1. session[s][d] \in Session /\ session[s][d] # None
    BY <1>6, Zenon DEF Expire, Live, SyncInv, SyncTyped
  <2>2. /\ x \in Session /\ x.id = session[s][d].id
        /\ x.rev = session[s][d].rev /\ x.served = session[s][d].served
    BY <2>1, Zenon DEF Session
  <2>3. session' = [session EXCEPT ![s][d] = x]
    BY <1>6, Zenon DEF Expire
  <2>4. \A e \in Device : e # d => session'[s][e] = session[s][e]
    BY <2>3, Zenon DEF SyncInv, SyncTyped
  <2>5. session'[s][d] = x
    BY <2>3, Zenon DEF SyncInv, SyncTyped
  <2>6. request'[s] = request[s]
    BY <1>6, Zenon DEF Expire
  <2>7. x # None
    BY <2>2, NoneIsNoSession, Zenon
  <2>8. ASSUME NEW e \in Device, session[s][e] # None
        PROVE  /\ session'[s][e] # None /\ session'[s][e].rev = session[s][e].rev
               /\ session'[s][e].served = session[s][e].served
    BY <2>2, <2>4, <2>5, <2>7, <2>8, Zenon
  <2>9. ReportEarned(s)'
    BY <1>5, <2>6, <2>8, OneRequest DEF ReportEarned, Reporting, At, Pages
  <2> QED  BY <1>1, <1>2, <1>3, <1>4, <2>1, <2>2, <2>3, <2>9, SlotSteps, Zenon
<1>7. CASE RevokeLocal(s, d)
  <2>1. session' = [session EXCEPT ![s][d] = None] /\ revoked[d] /\ request' = request
    BY <1>7, Zenon DEF RevokeLocal
  <2>2. \A e \in Device : e # d => session'[s][e] = session[s][e]
    BY <2>1, Zenon DEF SyncInv, SyncTyped
  <2>3. ReportEarned(s)'
    BY <1>5, <2>1, <2>2, OneRequest DEF ReportEarned, Reporting, At, Pages
  <2> QED  BY <1>1, <1>2, <1>3, <1>4, <2>1, <2>3, SlotSteps, Zenon
<1>8. CASE ReadFails(s, d)
  <2>1. session' = [session EXCEPT ![s][d] = None] /\ request'[s] = None
    BY <1>8, Zenon DEF ReadFails, SyncInv, FileInv, RequestsKnown
  <2>2. ReportEarned(s)'
    BY <2>1, Zenon DEF ReportEarned, Reporting, At
  <2> QED  BY <1>1, <1>2, <1>3, <1>4, <2>1, <2>2, SlotSteps, Zenon
<1> QED  BY <1>6, <1>7, <1>8, Zenon

\* A request begins, uploads events or is answered: no slot changes.
LEMMA RequestSteps ==
  ASSUME SyncInv, FileInv', NEW s \in Server,
         \/ \E d \in Device : PreflightBegin(s, d)
         \/ \E d \in Device, es \in SUBSET Event : EventUpload(s, d, es)
         \/ Answer(s)
  PROVE  SyncInv'
<1>1. UNCHANGED <<file, cursors, opened, session, tokens>>
  BY Zenon DEF PreflightBegin, EventUpload, Answer
<1>2. /\ \A t \in Server \ {s} : request'[t] = request[t]
      /\ \/ request'[s] = None \/ request'[s] = request[s]
         \/ request'[s].stage = "preflight" /\ tokens[s] # {}
  <2>1. ASSUME NEW d \in Device, PreflightBegin(s, d)
        PROVE  /\ \A t \in Server \ {s} : request'[t] = request[t]
               /\ request'[s].stage = "preflight" /\ tokens[s] # {}
    BY <2>1, Zenon DEF SyncInv, FileInv, RequestsKnown, PreflightBegin, Accepts
  <2>2. ASSUME NEW d \in Device, NEW es \in SUBSET Event, EventUpload(s, d, es)
        PROVE  request' = request
    BY <2>2, Zenon DEF EventUpload
  <2>3. ASSUME Answer(s)
        PROVE  request'[s] = None /\ \A t \in Server \ {s} : request'[t] = request[t]
    BY <2>3, Zenon DEF SyncInv, FileInv, RequestsKnown, Answer
  <2> QED  BY <2>1, <2>2, <2>3, Zenon
<1>3. request'[s] # None => published # {}
  BY <1>2, Zenon DEF SyncInv, SyncTyped
<1>4. ReportEarned(s)'
  BY <1>1, <1>2, OneRequest, Zenon DEF ReportEarned, Reporting, At, Pages, file
<1> QED  BY <1>1, <1>2, <1>3, <1>4, IdleSteps, Zenon

\* The counts are accepted: the report that follows is of the session that served them.
LEMMA PostflightSteps ==
  ASSUME SyncInv, FileInv', NEW s \in Server, NEW d \in Device, PostflightBegin(s, d)
  PROVE  SyncInv'
<1> DEFINE x == [session[s][d] EXCEPT !.acked = TRUE]
<1>1. UNCHANGED <<file, cursors, opened, tokens>>
  BY Zenon DEF PostflightBegin
<1>2. session[s][d] \in Session /\ session[s][d] # None /\ tokens[s] # {}
  BY DEF PostflightBegin, Live, Accepts, SyncInv, SyncTyped
<1>3. /\ x \in Session /\ x.id = session[s][d].id
      /\ x.rev = session[s][d].rev /\ x.served = session[s][d].served
  BY <1>2, Zenon DEF Session
<1>4. session' = [session EXCEPT ![s][d] = x]
  BY Zenon DEF PostflightBegin
<1>5. session'[s][d] = x
  BY <1>4, Zenon DEF SyncInv, SyncTyped
<1>6. /\ request'[s] = [stage |-> "report", device |-> d, rev |-> session[s][d].rev]
      /\ \A t \in Server \ {s} : request'[t] = request[t]
  BY Zenon DEF PostflightBegin, SyncInv, FileInv, RequestsKnown
<1>7. ReportEarned(s)'
  <2>1. session[s][d].served = Pages(session[s][d].rev)
    BY Zenon DEF PostflightBegin
  <2>2. session'[s][d] # None /\ session'[s][d].rev = session[s][d].rev
        /\ session'[s][d].served = Pages(session[s][d].rev)
    BY <1>3, <1>5, <2>1, NoneIsNoSession, Zenon
  <2>3. request'[s].device = d /\ request'[s].rev = session[s][d].rev
    BY <1>6
  <2> QED  BY <2>2, <2>3, Zenon DEF ReportEarned, Pages
<1>8. tokens' \in [Server -> SUBSET Device] /\ published # {}
  BY <1>1, <1>2, Zenon DEF SyncInv, SyncTyped
<1>9. \A t \in Server : tokens'[t] \subseteq tokens[t]
  BY <1>1, Zenon
<1> QED  BY <1>1, <1>2, <1>3, <1>4, <1>6, <1>7, <1>8, <1>9, SlotSteps, Zenon

\* The report enters its transaction, commits, or raises and the session is dropped.
LEMMA ReportSteps ==
  ASSUME SyncInv, FileInv', NEW s \in Server, Transact(s) \/ Commit(s) \/ CommitFails(s)
  PROVE  SyncInv'
<1>1. Reporting(s) /\ request[s].device \in Device
  BY OneRequest, Zenon DEF Transact, Commit, CommitFails, Reporting
<1>2. CASE CommitFails(s)
  <2>1. UNCHANGED <<file, cursors, opened, tokens>>
    BY <1>2, Zenon DEF CommitFails
  <2>2. session' = [session EXCEPT ![s][request[s].device] = None]
    BY <1>2, Zenon DEF CommitFails
  <2>3. request'[s] = None /\ \A t \in Server \ {s} : request'[t] = request[t]
    BY <1>2, Zenon DEF CommitFails, SyncInv, FileInv, RequestsKnown
  <2>4. ReportEarned(s)'
    BY <2>3, Zenon DEF ReportEarned, Reporting, At
  <2>5. tokens' \in [Server -> SUBSET Device] /\ \A t \in Server : tokens'[t] \subseteq tokens[t]
    BY <2>1, Zenon DEF SyncInv, SyncTyped
  <2> QED  BY <1>1, <2>1, <2>2, <2>3, <2>4, <2>5, SlotSteps, Zenon
<1>3. CASE Transact(s) \/ Commit(s)
  <2>1. UNCHANGED <<tokens, session, cursors, opened, published, revoked>>
    BY <1>3, Zenon DEF Transact, Commit, file
  <2>2. \A t \in Server \ {s} : request'[t] = request[t]
    BY <1>3, Zenon DEF Transact, Commit, Goto, SyncInv, FileInv, RequestsKnown
  <2>3. /\ request'[s].device = request[s].device
        /\ request'[s].rev = request[s].rev
    BY <1>3 DEF Transact, Commit, Goto, SyncInv, FileInv, RequestsKnown
  <2>4. ReportEarned(s)'
    BY <1>1, <2>1, <2>3, OneRequest, Zenon DEF ReportEarned, Pages
  <2>5. ASSUME NEW t \in Server \ {s} PROVE ReportEarned(t)'
    BY <2>1, <2>2, OneRequest, Zenon DEF ReportEarned, Reporting, At, Pages
  <2>6. SlotsInv'
    BY <2>1, SlotsStay, Zenon DEF SyncInv
  <2>7. SyncTyped'
    BY <1>1, <2>1, <2>2, Zenon DEF SyncInv, SyncTyped, Reporting, At
  <2> QED  BY <2>4, <2>5, <2>6, <2>7, Zenon DEF SyncInv
<1> QED  BY <1>2, <1>3, Zenon

\* A preflight opens a session with a fresh id, or leaves the one that is open.
LEMMA PreflightSteps ==
  ASSUME SyncInv, FileInv', NEW s \in Server, NEW d \in Device, Preflight(s, d)
  PROVE  SyncInv'
<1> DEFINE x == [id |-> opened + 1, rev |-> Max(published), expired |-> FALSE,
                 served |-> {}, acked |-> FALSE]
<1>1. UNCHANGED <<file, cursors, tokens>> /\ request[s] # None
  BY Zenon DEF Preflight, At
<1>2. request'[s] = None /\ \A t \in Server \ {s} : request'[t] = request[t]
  BY Zenon DEF Preflight, SyncInv, FileInv, RequestsKnown
<1>3. ReportEarned(s)'
  BY <1>2, Zenon DEF ReportEarned, Reporting, At
<1>4. CASE UNCHANGED <<session, opened>>
  BY <1>1, <1>2, <1>3, <1>4, IdleSteps, Zenon
<1>5. CASE opened < MaxSession /\ opened' = opened + 1 /\ session' = [session EXCEPT ![s][d] = x]
  <2>1. opened \in 0 .. MaxSession /\ MaxSession \in Nat
    BY SizesAreNat, Zenon DEF SyncInv, SyncTyped
  <2>2. Max(published) \in Revision
    BY <1>1, NewestPublished, Zenon DEF SyncInv
  <2>3. x \in Session /\ x # None
    <3>1. opened + 1 \in 1 .. MaxSession
      BY <1>5, <2>1
    <3>2. x \in Session
      BY <2>2, <3>1, Zenon DEF Session
    <3> QED  BY <3>2, NoneIsNoSession, Zenon
  <2>4. session \in [Server -> [Device -> Session \cup {None}]]
    BY Zenon DEF SyncInv, SyncTyped
  <2>5. /\ session' \in [Server -> [Device -> Session \cup {None}]]
        /\ session'[s][d] = x
    BY <1>5, <2>3, <2>4, Zenon
  <2>6. /\ \A t \in Server, e \in Device : t # s \/ e # d => session'[t][e] = session[t][e]
        /\ \A t \in Server \ {s} : session'[t] = session[t]
    BY <1>5, <2>4, Zenon
  <2>7. \A c \in cursors : c.id \in Int /\ c.id <= opened
    BY <2>1 DEF SyncInv, SyncTyped
  <2>8. \A t \in Server, e \in Device : session[t][e] # None =>
          session[t][e].id \in Int /\ session[t][e].id <= opened
    BY <2>1, <2>4 DEF SyncInv, SlotsInv, SlotOK, Session
  <2>9. SyncTyped'
    <3>1. opened' \in 0 .. MaxSession /\ \A c \in cursors : c.id \in 1 .. opened' /\ c.page \in Nat
      BY <1>5, <2>1 DEF SyncInv, SyncTyped
    <3> QED  BY <1>1, <1>2, <2>5, <3>1, Zenon DEF SyncInv, SyncTyped, file
  <2>10. SlotOK(s, d)'
    <3>1. session'[s][d].id = opened + 1 /\ session'[s][d].served = {}
      BY <2>5
    <3>2. \A c \in cursors' : c.id # session'[s][d].id
      BY <1>1, <2>1, <2>7, <3>1
    <3> QED  BY <1>5, <2>1, <3>1, <3>2 DEF SlotOK
  <2>11. ASSUME NEW t \in Server, NEW e \in Device, t # s \/ e # d PROVE SlotOK(t, e)'
    <3>1. SlotOK(t, e) /\ session'[t][e] = session[t][e]
      BY <2>6, <2>11, Zenon DEF SyncInv, SlotsInv
    <3> QED  BY <1>1, <1>5, <2>1, <2>8, <3>1 DEF SlotOK, Pages
  <2>12. IdsUnique'
    <3>1. session'[s][d].id = opened + 1
      BY <2>5
    <3>2. ASSUME NEW t \in Server, NEW e \in Device, t # s \/ e # d, session'[t][e] # None
          PROVE  session'[t][e].id # session'[s][d].id
      BY <2>1, <2>6, <2>8, <3>1, <3>2
    <3>3. IdsUnique
      BY Zenon DEF SyncInv, SlotsInv
    <3> QED  BY <2>6, <3>2, <3>3 DEF IdsUnique
  <2>13. SlotsInv'
    BY <2>10, <2>11, <2>12, Zenon DEF SlotsInv
  <2> QED  BY <1>1, <1>2, <1>3, <2>6, <2>9, <2>13, ProcessSteps, Zenon
<1> QED  BY <1>4, <1>5, Zenon DEF Preflight

\* A page is served, and the cursor of the next one handed out.
LEMMA DownloadSteps ==
  ASSUME SyncInv, FileInv', NEW s \in Server, NEW d \in Device,
         NEW page \in Pages(session[s][d].rev), RuleDownload(s, d, page)
  PROVE  SyncInv'
<1> DEFINE q == session[s][d]
           x == [q EXCEPT !.served = @ \cup {page}]
           More == {[device |-> d, id |-> q.id, page |-> p] : p \in {page + 1} \cap Pages(q.rev)}
<1>1. UNCHANGED <<file, opened, tokens, request>>
  BY Zenon DEF RuleDownload
<1>2. session \in [Server -> [Device -> Session \cup {None}]] /\ q \in Session /\ q # None
  BY Zenon DEF RuleDownload, Live, SyncInv, SyncTyped
<1>3. SlotOK(s, d)
  BY Zenon DEF SyncInv, SlotsInv
<1>4. Rules[q.rev] \in Nat /\ page \in 0 .. Rules[q.rev] - 1 /\ q.id \in 1 .. opened
      /\ opened \in Nat
  <2>1. q.rev \in Revision /\ q.id \in 1 .. MaxSession
    BY <1>2, Zenon DEF Session
  <2>2. opened \in Nat /\ q.id <= opened
    BY <1>2, <1>3 DEF SlotOK, SyncInv, SyncTyped
  <2> QED  BY <2>1, <2>2, SizesAreNat DEF Pages
<1>5. x \in Session /\ x # None /\ x.id = q.id /\ x.rev = q.rev /\ x.served = q.served \cup {page}
      /\ q.served \in SUBSET Nat
  BY <1>2, <1>4, NoneIsNoSession DEF Session
<1>6. session' = [session EXCEPT ![s][d] = x] /\ cursors' = cursors \cup More
  BY Zenon DEF RuleDownload
<1>7. session' \in [Server -> [Device -> Session \cup {None}]] /\ session'[s][d] = x
  BY <1>2, <1>5, <1>6, Zenon
<1>8. /\ \A t \in Server, e \in Device : t # s \/ e # d => session'[t][e] = session[t][e]
      /\ \A t \in Server \ {s} : session'[t] = session[t]
  BY <1>2, <1>6, Zenon
<1>9. \A c \in cursors' : c \in cursors \/ c = [device |-> d, id |-> q.id, page |-> page + 1]
  BY <1>6, Zenon
<1>10. 0 .. page - 1 \subseteq q.served
  <2>1. CASE page = 0
    BY <2>1
  <2>2. CASE page # 0
    <3>1. PICK c \in cursors : c.page = page /\ c.device = d /\ c.id = q.id
      BY <2>2, Zenon DEF RuleDownload, Offset
    <3> QED  BY <1>2, <1>3, <3>1, Zenon DEF SlotOK
  <2> QED  BY <2>1, <2>2, Zenon
<1>11. SyncTyped'
  <2>1. \A c \in cursors' : c.id \in 1 .. opened /\ c.page \in Nat
    BY <1>4, <1>9 DEF SyncInv, SyncTyped
  <2> QED  BY <1>1, <1>7, <2>1, Zenon DEF SyncInv, SyncTyped, file
<1>12. 0 .. page \subseteq x.served
  BY <1>4, <1>5, <1>10
<1>13. SlotOK(s, d)'
  <2>1. \A p \in x.served : 0 .. p \subseteq x.served
    BY <1>2, <1>3, <1>5, <1>12, Zenon DEF SlotOK
  <2>2. x.served \subseteq Pages(x.rev)
    BY <1>2, <1>3, <1>5, Zenon DEF SlotOK
  <2>3. ASSUME NEW c \in cursors', c.device = d, c.id = x.id PROVE 0 .. c.page - 1 \subseteq x.served
    <3>1. CASE c \in cursors
      BY <1>2, <1>3, <1>5, <2>3, <3>1, Zenon DEF SlotOK
    <3>2. CASE c = [device |-> d, id |-> q.id, page |-> page + 1]
      <4>1. c.page - 1 = page
        BY <1>4, <3>2
      <4> QED  BY <1>12, <4>1, Zenon
    <3> QED  BY <1>9, <2>3, <3>1, <3>2, Zenon
  <2>4. x.id <= opened'
    BY <1>1, <1>4, <1>5
  <2> QED  BY <1>7, <2>1, <2>2, <2>3, <2>4, Zenon DEF SlotOK, Pages
<1>14. ASSUME NEW t \in Server, NEW e \in Device, t # s \/ e # d PROVE SlotOK(t, e)'
  <2>1. SlotOK(t, e) /\ session'[t][e] = session[t][e]
    BY <1>8, <1>14, Zenon DEF SyncInv, SlotsInv
  <2>2. session[t][e] # None => session[t][e].id # q.id
    BY <1>2, <1>14 DEF SyncInv, SlotsInv, IdsUnique
  <2>3. \A c \in cursors' : c \in cursors \/ c.id = q.id
    BY <1>9
  <2> QED  BY <1>1, <2>1, <2>2, <2>3, Zenon DEF SlotOK, Pages
<1>15. IdsUnique'
  <2>1. IdsUnique
    BY Zenon DEF SyncInv, SlotsInv
  <2>2. \A t \in Server, e \in Device :
          session'[t][e] # None => session[t][e] # None /\ session'[t][e].id = session[t][e].id
    BY <1>2, <1>5, <1>7, <1>8, Zenon
  <2> QED  BY <2>1, <2>2 DEF IdsUnique
<1>16. SlotsInv'
  BY <1>13, <1>14, <1>15, Zenon DEF SlotsInv
<1>17. ReportEarned(s)'
  <2>1. request[s] = None
    BY Zenon DEF RuleDownload, Accepts
  <2> QED  BY <1>1, <2>1, Zenon DEF ReportEarned, Reporting, At
<1> QED  BY <1>1, <1>8, <1>11, <1>16, <1>17, ProcessSteps, Zenon

\* Every step keeps sessions, pages, cursors and pending reports consistent.
LEMMA SyncStep == SyncInv /\ [Next]_vars => SyncInv'
<1> SUFFICES ASSUME SyncInv, [Next]_vars PROVE SyncInv'
  OBVIOUS
<1>1. FileInv'
  BY FileInvStep, Zenon DEF SyncInv
<1>2. CASE (\E r \in Revision : Publish(r)) \/ (\E d \in Device : RevokeStored(d))
  BY <1>1, <1>2, FileSteps, Zenon
<1>3. CASE UNCHANGED vars
  <2>1. UNCHANGED <<file, tokens, session, request, cursors, opened>>
    BY <1>3, Zenon DEF vars
  <2>2. ASSUME NEW s \in Server PROVE ReportEarned(s)'
    BY <2>1, OneRequest, Zenon DEF ReportEarned, Reporting, At, Pages, file
  <2>3. SlotsInv' /\ SyncTyped'
    BY <2>1, SlotsStay, Zenon DEF SyncInv, SyncTyped, file
  <2> QED  BY <1>1, <2>2, <2>3, Zenon DEF SyncInv
<1>4. ASSUME NEW s \in Server,
             Start(s) \/ Crash(s) \/ Transact(s) \/ Commit(s) \/ CommitFails(s) \/ Answer(s)
      PROVE  SyncInv'
  BY <1>1, <1>4, RestartSteps, ReportSteps, RequestSteps, Zenon
<1>5. ASSUME NEW s \in Server, NEW d \in Device, RevokeLocal(s, d) \/ Expire(s, d)
      PROVE  SyncInv'
  BY <1>1, <1>5, DropSteps, Zenon
<1>6. ASSUME NEW s \in Server, NEW d \in Device, Handle(s, d) PROVE SyncInv'
  <2>1. CASE PreflightBegin(s, d)
    BY <1>1, <2>1, RequestSteps, Zenon
  <2>2. CASE Preflight(s, d)
    BY <1>1, <2>2, PreflightSteps, Zenon
  <2>3. CASE \E es \in SUBSET Event \ {{}} : EventUpload(s, d, es)
    <3>1. \E es \in SUBSET Event : EventUpload(s, d, es)
      BY <2>3, Zenon
    <3> QED  BY <1>1, <3>1, RequestSteps, Zenon
  <2>4. CASE \E page \in Pages(session[s][d].rev) : RuleDownload(s, d, page)
    BY <1>1, <2>4, DownloadSteps, Zenon
  <2>5. CASE PostflightBegin(s, d)
    BY <1>1, <2>5, PostflightSteps
  <2>6. CASE ReadFails(s, d)
    BY <1>1, <2>6, DropSteps, Zenon
  <2> QED  BY <1>6, <2>1, <2>2, <2>3, <2>4, <2>5, <2>6, Zenon DEF Handle
<1> QED  BY <1>2, <1>3, <1>4, <1>5, <1>6, Zenon DEF Next

\* The invariant of the sessions holds in every behaviour.
THEOREM SyncInvariant == Spec => []SyncInv
<1>1. Init => SyncInv
  <2> SUFFICES ASSUME Init PROVE SyncInv
    BY Zenon
  <2>1. FileInv
    BY Zenon DEF Init, FileInv, FileTyped, RequestsKnown, ChecksHold, AnswerIsStored, At
  <2>2. SyncTyped
    BY SizesAreNat DEF Init, SyncTyped
  <2>3. SlotsInv
    BY Zenon DEF Init, SlotsInv, SlotOK, IdsUnique
  <2>4. \A s \in Server : ReportEarned(s)
    BY Zenon DEF Init, ReportEarned, Reporting, At
  <2> QED  BY <2>1, <2>2, <2>3, <2>4, Zenon DEF SyncInv
<1> QED  BY <1>1, SyncStep, PTL DEF Spec

\* A session serves the pages of its own revision and serves them in order: the
\* cursor Model.offset accepts is bound to the session that handed it out.
THEOREM PagesAlwaysInOrder == Spec => []PagesInOrder
<1>1. SyncInv => PagesInOrder
  BY Zenon DEF SyncInv, SyncTyped, SlotsInv, SlotOK, PagesInOrder
<1> QED  BY <1>1, SyncInvariant, PTL

\* What report_fixture commits is a revision that one session of that process served
\* to the last page, whatever happened between the counts and the commit.
THEOREM AlwaysReportedAfterDownload == Spec => ReportedAfterDownload
<1>1. ASSUME SyncInv, Next, NEW d \in Device, reported'[d] # reported[d]
      PROVE  \E s \in Server : /\ session[s][d] # None
                               /\ session[s][d].rev = reported'[d]
                               /\ session[s][d].served = Pages(reported'[d])
  <2>1. PICK s \in Server : Commit(s)
    <3>1. ASSUME NEW s \in Server, Start(s) \/ Crash(s) \/ Transact(s) \/ CommitFails(s) \/ Answer(s)
          PROVE  reported' = reported
      BY <3>1, Zenon DEF Start, Crash, Transact, CommitFails, Answer, file
    <3>2. ASSUME NEW s \in Server, NEW e \in Device, RevokeLocal(s, e) \/ Expire(s, e) \/ Handle(s, e)
          PROVE  reported' = reported
      BY <3>2, Zenon DEF RevokeLocal, Expire, Handle, PreflightBegin, Preflight, EventUpload,
         RuleDownload, PostflightBegin, ReadFails, file
    <3>3. ASSUME (\E r \in Revision : Publish(r)) \/ (\E e \in Device : RevokeStored(e))
          PROVE  reported' = reported
      BY <3>3, Zenon DEF Publish, RevokeStored
    <3> QED  BY <1>1, <3>1, <3>2, <3>3, Zenon DEF Next
  <2>2. /\ Reporting(s) /\ request[s].device \in Device /\ ReportEarned(s)
        /\ Stored!Raise(request[s].device, request[s].rev)
    BY <1>1, <2>1, OneRequest, CommitChecked, Zenon DEF Commit, Reporting, SyncInv
  <2>3. ~ revoked[request[s].device] /\ d = request[s].device /\ reported'[d] = request[s].rev
    BY <1>1, <2>2, Zenon DEF Stored!Raise, SyncInv, FileInv, FileTyped
  <2> QED  BY <2>2, <2>3, Zenon DEF ReportEarned
<1>2. ASSUME SyncInv, [Next]_vars
      PROVE  [\A d \in Device : reported'[d] # reported[d] =>
                \E s \in Server : /\ session[s][d] # None
                                  /\ session[s][d].rev = reported'[d]
                                  /\ session[s][d].served = Pages(reported'[d])]_vars
  BY <1>1, <1>2, Zenon
<1> QED  BY <1>2, SyncInvariant, PTL DEF Spec, ReportedAfterDownload
=============================================================================
