---------------------------- MODULE IntunePackage ----------------------------
(***************************************************************************)
(* Publication of the package (scripts/Invoke-SantaIntunePackage.ps1).     *)
(* A run looks for an app of the package's name, creates or resumes one,   *)
(* adds a content version and a file, uploads and commits it, publishes    *)
(* the app and requires it for the pilot group.  Every request may be the  *)
(* run's last, taken or not; the script may then be run again, or run      *)
(* twice at once.  Intune (external) processes files and apps in its own   *)
(* time and may refuse; an administrator works between runs.               *)
(*                                                                         *)
(* The apps are those with the package's display name.  A run adds at most *)
(* one file, which is known by the run.                                    *)
(***************************************************************************)
EXTENDS Naturals, Sequences, FiniteSets, IntuneRuns

VARIABLES apps,      \* in Intune
          file,      \* the content file each run added
          run,       \* where each run is, and its app and content version
          receipts,  \* runs that wrote the receipt
          deaths, admin

vars == <<apps, file, run, receipts, deaths, admin>>

NoFile == [app |-> 0, content |-> 0, state |-> "none"]

\* published: Intune has published a content version of the app.  It is assumed that
\* this stays so while a version that another run commits is processed; the poll for
\* it then only takes longer.  pilot counts the required assignments to the pilot
\* group, other says whether there is any different one.
NewApp(owned) == [owned |-> owned, contents |-> 0, committed |-> 0,
                  published |-> FALSE, pilot |-> 0, other |-> FALSE]

Steps == {"new", "look", "create", "app", "exact", "verify", "unassigned", "contents", "content",
          "nofiles", "file", "uri", "send", "commit", "wait", "patch", "publish", "assign",
          "readback", "over"}

TypeOK ==
  /\ apps \in Seq([owned : BOOLEAN, contents : Nat, committed : Nat, published : BOOLEAN,
                   pilot : Nat, other : BOOLEAN])
  /\ file \in [Run -> [app : 0 .. Len(apps), content : Nat,
                       state : {"none", "pending", "ready", "sent", "committing", "committed",
                                "failed"}]]
  /\ run \in [Run -> [pc : Steps, app : 0 .. Len(apps), content : Nat]]
  /\ receipts \subseteq Run
  /\ deaths \in 0 .. MaxDeaths /\ admin \in 0 .. MaxAdmin

Init ==
  /\ apps = <<>>
  /\ file = [r \in Run |-> NoFile]
  /\ run = [r \in Run |-> [pc |-> "new", app |-> 0, content |-> 0]]
  /\ receipts = {} /\ deaths = 0 /\ admin = 0

Live == {r \in Run : run[r].pc \notin {"new", "over"}}

At(r, pc) == run[r].pc = pc
Goto(r, pc) == run' = [run EXCEPT ![r].pc = pc]
App(r) == apps[run[r].app]

\* The files of a content version.
Files(a, c) == {q \in Run : file[q].app = a /\ file[q].content = c /\ a # 0}

-----------------------------------------------------------------------------
(* The script.  A throw ends the run.                                      *)

\* Receipt, profile readiness, tenant, account, group and its one device.
Begin(r) ==
  /\ At(r, "new") /\ Cardinality(Live) < MaxLive
  /\ Goto(r, "look")
  /\ UNCHANGED <<apps, file, receipts, deaths, admin>>

\* The inventory of apps with the display name.
Look(r) ==
  /\ At(r, "look")
  /\ CASE Len(apps) = 0 -> Goto(r, "create")
       [] Len(apps) = 1 -> run' = [run EXCEPT ![r].pc = "app", ![r].app = 1]
       [] OTHER -> Goto(r, "over")
  /\ UNCHANGED <<apps, file, receipts, deaths, admin>>

Create(r) ==
  /\ At(r, "create")
  /\ apps' = Append(apps, NewApp(TRUE))
  /\ run' = [run EXCEPT ![r].pc = "contents", ![r].app = Len(apps) + 1]
  /\ UNCHANGED <<file, receipts, deaths, admin>>

IsAssigned(a) == a.pilot > 0 \/ a.other

\* The app is read once: its version, when committed, is kept and must be
\* published; an app not committed must not be assigned.
KeepApp(r) ==
  CASE App(r).committed # 0 /\ App(r).published ->
         run' = [run EXCEPT ![r].pc = "exact", ![r].content = App(r).committed]
    [] App(r).committed = 0 /\ ~ IsAssigned(App(r)) -> Goto(r, "unassigned")
    [] OTHER -> Goto(r, "over")

\* Type, name, marker, owner and bundle must be the template's.
InspectApp(r) ==
  /\ At(r, "app")
  /\ IF App(r).owned THEN KeepApp(r) ELSE Goto(r, "over")
  /\ UNCHANGED <<apps, file, receipts, deaths, admin>>

\* Test-ExactRequiredAssignment of the only assignment.
ExactAssignment(a) == a.pilot = 1 /\ ~ a.other

\* Mutant of Exact: a committed app is taken to be assigned.
ExactUnread(r) ==
  /\ At(r, "exact")
  /\ Goto(r, "verify")
  /\ UNCHANGED <<apps, file, receipts, deaths, admin>>

\* The assignments of a committed app are exactly the pilot's.
Exact(r) ==
  /\ At(r, "exact")
  /\ Goto(r, IF ExactAssignment(App(r)) THEN "verify" ELSE "over")
  /\ UNCHANGED <<apps, file, receipts, deaths, admin>>

\* Write-PackageReceipt, when the script's last comparison succeeds.
Receipt(r, holds) ==
  /\ receipts' = IF holds THEN receipts \cup {r} ELSE receipts
  /\ Goto(r, "over")
  /\ UNCHANGED <<apps, file, deaths, admin>>

\* verified-existing: one file, committed, of the package's name and size.
Verify(r) ==
  /\ At(r, "verify")
  /\ LET fs == Files(run[r].app, run[r].content)
     IN  Receipt(r, Cardinality(fs) = 1 /\ \A q \in fs : file[q].state = "committed")

Unassigned(r) ==
  /\ At(r, "unassigned")
  /\ Goto(r, IF ~ IsAssigned(App(r)) THEN "contents" ELSE "over")
  /\ UNCHANGED <<apps, file, receipts, deaths, admin>>

Contents(r) ==
  /\ At(r, "contents")
  /\ CASE App(r).contents = 0 -> Goto(r, "content")
       [] App(r).contents = 1 -> run' = [run EXCEPT ![r].pc = "nofiles", ![r].content = 1]
       [] OTHER -> Goto(r, "over")
  /\ UNCHANGED <<apps, file, receipts, deaths, admin>>

AddContent(r) ==
  /\ At(r, "content")
  /\ apps' = [apps EXCEPT ![run[r].app].contents = @ + 1]
  /\ run' = [run EXCEPT ![r].pc = "file", ![r].content = App(r).contents + 1]
  /\ UNCHANGED <<file, receipts, deaths, admin>>

NoFiles(r) ==
  /\ At(r, "nofiles")
  /\ Goto(r, IF Files(run[r].app, run[r].content) = {} THEN "file" ELSE "over")
  /\ UNCHANGED <<apps, file, receipts, deaths, admin>>

AddFile(r) ==
  /\ At(r, "file")
  /\ file' = [file EXCEPT ![r] = [app |-> run[r].app, content |-> run[r].content,
                                  state |-> "pending"]]
  /\ Goto(r, "uri")
  /\ UNCHANGED <<apps, receipts, deaths, admin>>

\* Wait-ContentFileState: success goes on; failure and twelve polls without an
\* answer throw, which is GiveUp.
Wait(r, step, state, next) ==
  /\ At(r, step) /\ file[r].state = state
  /\ Goto(r, next)
  /\ UNCHANGED <<apps, file, receipts, deaths, admin>>

\* Send-BlockBlob: all blocks, then the block list.
Send(r) ==
  /\ At(r, "send")
  /\ file' = [file EXCEPT ![r].state = "sent"]
  /\ Goto(r, "commit")
  /\ UNCHANGED <<apps, receipts, deaths, admin>>

\* Mutant of CommitFile: the content service's verdict is not waited for.
CommitFileAndPatch(r) ==
  /\ At(r, "commit")
  /\ file' = [file EXCEPT ![r].state = "committing"]
  /\ Goto(r, "patch")
  /\ UNCHANGED <<apps, receipts, deaths, admin>>

CommitFile(r) ==
  /\ At(r, "commit")
  /\ file' = [file EXCEPT ![r].state = "committing"]
  /\ Goto(r, "wait")
  /\ UNCHANGED <<apps, receipts, deaths, admin>>

Patch(r) ==
  /\ At(r, "patch")
  /\ apps' = [apps EXCEPT ![run[r].app].committed = run[r].content]
  /\ Goto(r, "publish")
  /\ UNCHANGED <<file, receipts, deaths, admin>>

Published(r) ==
  /\ At(r, "publish") /\ App(r).published
  /\ Goto(r, "assign")
  /\ UNCHANGED <<apps, file, receipts, deaths, admin>>

\* The assignment is posted; Intune may refuse one that it has already.
Assign(r) ==
  /\ At(r, "assign")
  /\ \/ apps' = [apps EXCEPT ![run[r].app].pilot = @ + 1] /\ Goto(r, "readback")
     \/ App(r).pilot > 0 /\ UNCHANGED apps /\ Goto(r, "over")
  /\ UNCHANGED <<file, receipts, deaths, admin>>

ReadBack(r) == At(r, "readback") /\ Receipt(r, ExactAssignment(App(r)))

\* A polling loop ends without the state it waits for.
GiveUp(r) ==
  /\ run[r].pc \in {"uri", "wait", "publish"}
  /\ Goto(r, "over")
  /\ UNCHANGED <<apps, file, receipts, deaths, admin>>

\* The run is killed, or the answer to its last request is lost.
Die(r) ==
  /\ r \in Live /\ deaths < MaxDeaths
  /\ deaths' = deaths + 1
  /\ Goto(r, "over")
  /\ UNCHANGED <<apps, file, receipts, admin>>

-----------------------------------------------------------------------------
(* Intune and its administrator.                                           *)

\* A storage address is granted and a committed file processed, or either fails.
Process(r) ==
  /\ \/ file[r].state = "pending" /\ \E s \in {"ready", "failed"} : file' = [file EXCEPT ![r].state = s]
     \/ file[r].state = "committing" /\ \E s \in {"committed", "failed"} : file' = [file EXCEPT ![r].state = s]
  /\ UNCHANGED <<apps, run, receipts, deaths, admin>>

Publish(a) ==
  /\ apps[a].committed # 0 /\ ~ apps[a].published
  /\ apps' = [apps EXCEPT ![a].published = TRUE]
  /\ UNCHANGED <<file, run, receipts, deaths, admin>>

\* Between runs: an app of the same name, or an assignment to others.
Administrate ==
  /\ admin < MaxAdmin /\ Live = {}
  /\ admin' = admin + 1
  /\ \/ apps' = Append(apps, NewApp(FALSE))
     \/ \E a \in DOMAIN apps : apps' = [apps EXCEPT ![a].other = TRUE]
  /\ UNCHANGED <<file, run, receipts, deaths>>

Advance(r) ==
  \/ Look(r) \/ Create(r) \/ InspectApp(r) \/ Exact(r) \/ Verify(r) \/ Unassigned(r)
  \/ Contents(r) \/ AddContent(r) \/ NoFiles(r) \/ AddFile(r)
  \/ Wait(r, "uri", "ready", "send") \/ Send(r) \/ CommitFile(r)
  \/ Wait(r, "wait", "committed", "patch") \/ Patch(r) \/ Published(r) \/ Assign(r)
  \/ ReadBack(r)

Next ==
  \/ \E r \in Run : Begin(r) \/ Advance(r) \/ GiveUp(r) \/ Die(r) \/ Process(r)
  \/ \E a \in DOMAIN apps : Publish(a)
  \/ Administrate

Spec == Init /\ [][Next]_vars

\* The script is run again until every run is over, and each goes on while it can.
FairSpec ==
  /\ Spec
  /\ \A r \in Run : WF_vars(Begin(r)) /\ WF_vars(Advance(r)) /\ WF_vars(GiveUp(r))

-----------------------------------------------------------------------------

\* What the pilot device is required to install is the template's own app, and
\* is published with a content version whose file Intune has accepted in full,
\* however many runs worked on it at once or died (the waits before PATCH and
\* assignment).
RequiredMeansInstallable ==
  \A a \in DOMAIN apps : apps[a].pilot > 0 =>
    /\ apps[a].owned /\ apps[a].published
    /\ \E q \in Files(a, apps[a].committed) : file[q].state = "committed"

\* An app of that name which is not the template's is never changed by a run
\* (the ownership checks after the inventory).
ForeignUntouched ==
  [][\A a \in DOMAIN apps :
       ~ apps[a].owned => apps'[a] = apps[a] \/ admin' # admin]_vars

\* With one run at a time the template never owns two apps, although a run may
\* die with its creation unanswered (the inventory before POST).
OneOwnedApp == Cardinality({a \in DOMAIN apps : apps[a].owned}) <= 1

\* With one run at a time a receipt is written only for an app that is then
\* required for the pilot group, once, and for nobody else.
ReceiptExact ==
  receipts' # receipts => \E a \in DOMAIN apps : apps[a].published /\ ExactAssignment(apps[a])

\* Running the script again ends with a receipt, unless a run ended after it had
\* added its file: until then what a dead run leaves behind is resumed.
ResumedUntilFile ==
  <>(receipts # {} \/ \E r \in Run : file[r] # NoFile /\ At(r, "over"))
=============================================================================
