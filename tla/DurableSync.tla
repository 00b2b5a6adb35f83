----------------------------- MODULE DurableSync -----------------------------
(***************************************************************************)
(* The durable sync spike: processes running DurableModel (durable.py) on  *)
(* top of Model (model.py), sharing one SQLite file.  Sessions, cursors and *)
(* tokens live in a process and die with it.  A request reads the file,    *)
(* works in memory and, for a postflight, reports in a transaction; other  *)
(* processes publish, revoke and report between those steps, and find the  *)
(* file locked while a transaction is open.                                *)
(***************************************************************************)
EXTENDS Integers, FiniteSets, FiniteSetsExt

CONSTANTS
  Server, Device,
  Rules,          \* rules (pages) of each revision the fixtures publish
  HistoryMax,     \* snapshots kept at most
  Event,          \* canonical telemetry events
  EventMax,       \* MAX_EVENT_DIGESTS
  MaxSession,     \* bound: sessions opened in a behaviour
  None

Revision == DOMAIN Rules

ASSUME RulesAssumption == Revision \subseteq Nat \ {0} /\ HistoryMax \in Nat \ {0}

ASSUME SizesAreNat == (\A r \in Revision : Rules[r] \in Nat) /\ MaxSession \in Nat

Pages(r) == 0 .. Rules[r] - 1

VARIABLES
  published,  \* the file: revisions of the snapshots table
  revoked,    \* the file: devices.revoked; FALSE for a device without a row
  reported,   \* the file: devices.reported; 0 for a device without a row
  writer,     \* the process in a transaction that began IMMEDIATE, if any
  tokens,     \* devices whose bearer token a process accepts; {} when it is down
  session,    \* the session each process holds for each device
  events,     \* event digests kept per process and device
  request,    \* the request a process is in the middle of
  cursors,    \* page cursors handed out to clients
  opened,     \* sessions opened so far: the next session id
  acked       \* postflights a client saw answered with 200

file == <<published, revoked, reported>>
vars == <<file, writer, tokens, session, events, request, cursors, opened, acked>>

Session == [id : 1 .. MaxSession, rev : Revision, expired : BOOLEAN,
            served : SUBSET Nat, acked : BOOLEAN]

ASSUME NoneIsNoSession == None \notin Session

ASSUME NoneIsNoServer == None \notin Server

Init ==
  /\ published = {}
  /\ revoked = [d \in Device |-> FALSE]
  /\ reported = [d \in Device |-> 0]
  /\ writer = None
  /\ tokens = [s \in Server |-> {}]
  /\ session = [s \in Server |-> [d \in Device |-> None]]
  /\ events = [s \in Server |-> [d \in Device |-> {}]]
  /\ request = [s \in Server |-> None]
  /\ cursors = {}
  /\ opened = 0
  /\ acked = {}

\* The process is free and the bearer token is accepted.
Accepts(s, d) == request[s] = None /\ d \in tokens[s]

Live(s, d) == session[s][d] # None /\ ~ session[s][d].expired

\* Where the request of a process is, and how a report moves on.
At(s, stage) == request[s] # None /\ request[s].stage = stage
Goto(s, stage) ==
  request' = [request EXCEPT ![s] =
                [stage |-> stage, device |-> request[s].device, rev |-> request[s].rev]]

\* A transaction of the process ends, if there is one.
Release(s) == writer' = IF writer = s THEN None ELSE writer

-----------------------------------------------------------------------------
(* The file, from any process holding a State.  A transaction waits for   *)
(* the one that is open, or raises and changes nothing.                    *)

\* publish_fixture: one transaction, with the newest revision read inside it.
Publish(r) ==
  /\ writer = None
  /\ \A q \in published : q < r
  /\ Cardinality(published) < HistoryMax
  /\ published' = published \cup {r}
  /\ UNCHANGED <<revoked, reported, writer, tokens, session, events, request, cursors, opened, acked>>

\* revoke_fixture: one statement in a transaction.
RevokeStored(d) ==
  /\ writer = None
  /\ revoked' = [revoked EXCEPT ![d] = TRUE]
  /\ UNCHANGED <<published, reported, writer, tokens, session, events, request, cursors, opened, acked>>

\* The second half of DurableModel.revoke_fixture_device, after the commit.
RevokeLocal(s, d) ==
  /\ revoked[d]
  /\ tokens' = [tokens EXCEPT ![s] = @ \ {d}]
  /\ session' = [session EXCEPT ![s][d] = None]
  /\ UNCHANGED <<file, writer, events, request, cursors, opened, acked>>

-----------------------------------------------------------------------------
(* A process: start, death, time and the four stages.                      *)

\* DurableModel.__init__: tokens for every device, also the revoked ones.
Start(s) ==
  /\ tokens[s] = {} /\ request[s] = None
  /\ published # {}
  /\ tokens' = [tokens EXCEPT ![s] = Device]
  /\ session' = [session EXCEPT ![s] = [d \in Device |-> None]]
  /\ events' = [events EXCEPT ![s] = [d \in Device |-> {}]]
  /\ UNCHANGED <<file, writer, request, cursors, opened, acked>>

\* Its locks go with it, and an open transaction is rolled back.
Crash(s) ==
  /\ Release(s)
  /\ tokens' = [tokens EXCEPT ![s] = {}]
  /\ session' = [session EXCEPT ![s] = [d \in Device |-> None]]
  /\ events' = [events EXCEPT ![s] = [d \in Device |-> {}]]
  /\ request' = [request EXCEPT ![s] = None]
  /\ UNCHANGED <<file, cursors, opened, acked>>

Expire(s, d) ==
  /\ Live(s, d)
  /\ session' = [session EXCEPT ![s][d].expired = TRUE]
  /\ UNCHANGED <<file, writer, tokens, events, request, cursors, opened, acked>>

\* state.device: not revoked, and the high-water mark as it is now.
PreflightBegin(s, d) ==
  /\ Accepts(s, d)
  /\ ~ revoked[d]
  /\ request' = [request EXCEPT ![s] = [stage |-> "preflight", device |-> d, seen |-> reported[d]]]
  /\ UNCHANGED <<file, writer, tokens, session, events, cursors, opened, acked>>

\* state.snapshot, later: the newest revision is pinned unless a session is open.
Preflight(s, d) ==
  LET newest == Max(published) IN
  /\ At(s, "preflight") /\ request[s].device = d
  /\ IF newest < request[s].seen \/ (Live(s, d) /\ ~ session[s][d].acked)
     THEN UNCHANGED <<session, opened>>
     ELSE /\ opened < MaxSession
          /\ opened' = opened + 1
          /\ session' = [session EXCEPT ![s][d] =
               [id |-> opened + 1, rev |-> newest, expired |-> FALSE, served |-> {}, acked |-> FALSE]]
  /\ request' = [request EXCEPT ![s] = None]
  /\ UNCHANGED <<file, writer, tokens, events, cursors, acked>>

EventUpload(s, d, es) ==
  /\ Accepts(s, d)
  /\ ~ revoked[d]
  /\ Live(s, d)
  /\ Cardinality(events[s][d] \cup es) <= EventMax
  /\ events' = [events EXCEPT ![s][d] = @ \cup es]
  /\ UNCHANGED <<file, writer, tokens, session, request, cursors, opened, acked>>

\* Mutant of Offset: the session id is not compared.
OffsetAnySession(c, d, q) == c.device = d /\ c.page \in Pages(q.rev) \ {0}

\* Model.offset: the cursor must name this device, this session and a page of it.
Offset(c, d, q) == c.device = d /\ c.id = q.id /\ c.page \in Pages(q.rev) \ {0}

\* One page is served and the cursor of the next one handed out.
RuleDownload(s, d, page) ==
  /\ Accepts(s, d)
  /\ ~ revoked[d]
  /\ Live(s, d)
  /\ page = 0 \/ \E c \in cursors : c.page = page /\ Offset(c, d, session[s][d])
  /\ session' = [session EXCEPT ![s][d].served = @ \cup {page}]
  /\ cursors' = cursors \cup {[device |-> d, id |-> session[s][d].id, page |-> p] :
                                p \in {page + 1} \cap Pages(session[s][d].rev)}
  /\ UNCHANGED <<file, writer, tokens, events, request, opened, acked>>

\* Mutant of PostflightBegin: the client's counts are believed.
PostflightUnserved(s, d) ==
  /\ Accepts(s, d)
  /\ ~ revoked[d]
  /\ Live(s, d)
  /\ session' = [session EXCEPT ![s][d].acked = TRUE]
  /\ request' = [request EXCEPT ![s] =
       [stage |-> "report", device |-> d, rev |-> session[s][d].rev]]
  /\ UNCHANGED <<file, writer, tokens, events, cursors, opened, acked>>

\* Model.handle accepts the counts: in memory the session is acknowledged.
PostflightBegin(s, d) ==
  /\ Accepts(s, d)
  /\ ~ revoked[d]
  /\ Live(s, d)
  /\ session[s][d].served = Pages(session[s][d].rev)
  /\ session' = [session EXCEPT ![s][d].acked = TRUE]
  /\ request' = [request EXCEPT ![s] =
       [stage |-> "report", device |-> d, rev |-> session[s][d].rev]]
  /\ UNCHANGED <<file, writer, tokens, events, cursors, opened, acked>>

\* The report is pending, or in its transaction.
Reporting(s) == At(s, "report") \/ At(s, "write")

\* Mutant of Transact: the transaction trusts what was read when the request began.
TransactUnchecked(s) ==
  /\ At(s, "report")
  /\ writer = None
  /\ writer' = s
  /\ Goto(s, "write")
  /\ UNCHANGED <<file, tokens, session, events, cursors, opened, acked>>

\* state.report_fixture: BEGIN IMMEDIATE takes the lock, and what the request read
\* before is read again.  If a check fails the transaction is rolled back, CommitFails.
Transact(s) ==
  LET d == request[s].device
      r == request[s].rev
  IN
  /\ At(s, "report")
  /\ writer = None
  /\ ~ revoked[d] /\ r >= reported[d]
  /\ r \in published
  /\ writer' = s
  /\ Goto(s, "write")
  /\ UNCHANGED <<file, tokens, session, events, cursors, opened, acked>>

\* The row is written and the transaction commits.
Commit(s) ==
  /\ At(s, "write")
  /\ reported' = [reported EXCEPT ![request[s].device] = request[s].rev]
  /\ writer' = None
  /\ Goto(s, "answer")
  /\ UNCHANGED <<published, revoked, tokens, session, events, cursors, opened, acked>>

\* Mutant of CommitFails: the exception is swallowed and 200 returned.
CommitFailsSilently(s) ==
  /\ Reporting(s)
  /\ Release(s)
  /\ Goto(s, "answer")
  /\ UNCHANGED <<file, tokens, session, events, cursors, opened, acked>>

\* It raises: a busy or failing database before or after BEGIN, a revocation, a
\* regression.  What was begun is rolled back, 503.
CommitFails(s) ==
  /\ Reporting(s)
  /\ Release(s)
  /\ session' = [session EXCEPT ![s][request[s].device] = None]
  /\ request' = [request EXCEPT ![s] = None]
  /\ UNCHANGED <<file, tokens, events, cursors, opened, acked>>

Answer(s) ==
  /\ At(s, "answer")
  /\ acked' = acked \cup {[device |-> request[s].device, rev |-> request[s].rev]}
  /\ request' = [request EXCEPT ![s] = None]
  /\ UNCHANGED <<file, writer, tokens, session, events, cursors, opened>>

\* A read raises inside handle: the session is dropped, 503.
ReadFails(s, d) ==
  /\ Accepts(s, d) \/ (At(s, "preflight") /\ request[s].device = d)
  /\ session' = [session EXCEPT ![s][d] = None]
  /\ request' = [request EXCEPT ![s] = None]
  /\ UNCHANGED <<file, writer, tokens, events, cursors, opened, acked>>

-----------------------------------------------------------------------------
Handle(s, d) ==
  \/ PreflightBegin(s, d) \/ Preflight(s, d)
  \/ \E es \in SUBSET Event \ {{}} : EventUpload(s, d, es)
  \/ Live(s, d) /\ \E page \in Pages(session[s][d].rev) : RuleDownload(s, d, page)
  \/ PostflightBegin(s, d)
  \/ ReadFails(s, d)

Next ==
  \/ \E r \in Revision : Publish(r)
  \/ \E d \in Device : RevokeStored(d)
  \/ \E s \in Server : Start(s) \/ Crash(s) \/ Transact(s) \/ Commit(s) \/ CommitFails(s) \/ Answer(s)
  \/ \E s \in Server, d \in Device : RevokeLocal(s, d) \/ Expire(s, d) \/ Handle(s, d)

Spec == Init /\ [][Next]_vars

-----------------------------------------------------------------------------
(* Properties.                                                             *)

\* The ledger a user of the service sees: the rows of the file, and the answers.
Stored == INSTANCE Ledger
  WITH history <- published, barred <- {d \in Device : revoked[d]},
       mark <- reported, promised <- acked

\* However the reads, transactions and answers of the processes interleave, and
\* wherever they fail or die, the file and the answers are those of a ledger: a
\* report is never written from a revocation, a mark or a history that was read
\* before the transaction (handle reads in one step and reports in another).
ImplementsLedger == Stored!Spec

\* A revision a device has reported is never withdrawn from the history.
StoredIsPublished == Stored!MarkIsPublished

\* No step of any process lowers a high-water mark, moves a revoked device, undoes
\* a revocation or withdraws a revision.
StoredMonotone == Stored!LedgerMonotone

\* "A successful postflight response requires its report to commit first": what a
\* client saw acknowledged is covered by the stored high-water mark for good,
\* across crashes and other processes' reports.
AckedIsStored == \A a \in acked : reported[a.device] >= a.rev

\* A session serves pages of its own revision, in order: page n only after page n - 1
\* of the same session, since a cursor is bound to its session.
PagesInOrder ==
  \A s \in Server, d \in Device :
    session[s][d] # None =>
      /\ session[s][d] \in Session
      /\ session[s][d].served \subseteq Pages(session[s][d].rev)
      /\ \A p \in session[s][d].served : 0 .. p \subseteq session[s][d].served

\* A report moves only to a revision whose every page one live session served.
ReportedAfterDownload ==
  [][\A d \in Device : reported'[d] # reported[d] =>
       \E s \in Server : /\ session[s][d] # None
                         /\ session[s][d].rev = reported'[d]
                         /\ session[s][d].served = Pages(reported'[d])]_vars
=============================================================================
