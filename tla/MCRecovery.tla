----------------------------- MODULE MCRecovery -----------------------------
(***************************************************************************)
(* What has to happen in the end: small instances of the components for    *)
(* checking liveness.  They share no state, so a behaviour runs one of     *)
(* them, part, and leaves the others in an initial state.  Each has the    *)
(* fairness of its module's FairSpec while it is the part that runs.       *)
(***************************************************************************)
EXTENDS Runtime

CONSTANTS Absent, Partial

VARIABLES
  part,
  slots, tokens, counts, ttls, listening, threads, owned, scripts,
  hold, used, usedCode, spent, spentTtl, age, req, accepted, acceptedCode,
  hook, proc, chunk, guestDisk, active, guestUnit, host, guestStarts, inits, exited, guestSpent,
  disk, manifest, serviceUnit, loaded, enabled, servicePlace, todo, bound, serviceChanged, data, lost,
  edits, losses, serviceStarts,
  apps, file, run, receipts, deaths, admin,
  objects, apply, profileChanged, receipt, profileDeaths, profileAdmin

admissionVars == <<slots, tokens, counts, ttls, listening, threads, owned, scripts>>
storeVars == <<hold, used, usedCode, spent, spentTtl, age, req, accepted, acceptedCode>>
installVars == <<hook, proc, chunk, guestDisk, active, guestUnit, host, guestStarts, inits, exited,
                 guestSpent>>
bindingVars == <<disk, manifest, serviceUnit, loaded, enabled, servicePlace, todo, bound,
                 serviceChanged, data, lost, edits, losses, serviceStarts>>
packageVars == <<apps, file, run, receipts, deaths, admin>>
profileVars == <<objects, apply, profileChanged, receipt, profileDeaths, profileAdmin>>
allVars == <<part, vars, admissionVars, storeVars, installVars, bindingVars, packageVars, profileVars>>

Part == {"runtime", "admission", "store", "install", "binding", "package", "profiles"}

\* One thread that sends again and again.
Requests == INSTANCE Admission WITH
  Token <- {"k1", "k2"}, Window <- 2, GlobalMax <- 2, SourceMax <- 2,
  stored <- slots, permits <- tokens, count <- counts, ttl <- ttls, open <- listening,
  pc <- threads, permit <- owned, inflight <- scripts

Store == INSTANCE SecurityStore WITH
  Thread <- {"w1"}, Challenge <- {"c1"}, ChallengeAge <- 1, ClaimTtl <- 3, CodeTtl <- 3,
  Hold <- 2, PasswordMax <- 2, VerifyMax <- 2, BudgetTtl <- 2, Gap <- 1

\* One hook, no restart of the VM, a lost reply, two chunks.
Install == INSTANCE PrivateInstall WITH
  Hook <- {"h1"}, Bundle <- {"b1"}, Proc <- {"p1", "p2"}, Chunks <- 2, MaxCrash <- 0, MaxLost <- 1,
  Nil <- None, disk <- guestDisk, unit <- guestUnit, starts <- guestStarts, spent <- guestSpent

Binding == INSTANCE ServiceBinding WITH
  Job <- {"j1"}, Version <- {"a", "b"}, Volume <- {"v1"}, MaxEdits <- 2, MaxLosses <- 0,
  MaxStarts <- 1, unitFile <- serviceUnit, place <- servicePlace, changed <- serviceChanged,
  starts <- serviceStarts

\* Three runs after one another; the last is not killed.
Package == INSTANCE IntunePackage WITH
  Run <- {"r1", "r2", "r3"}, MaxLive <- 1, MaxDeaths <- 2, MaxAdmin <- 0

Profiles == INSTANCE IntuneProfiles WITH
  N <- 2, Run <- {"r1", "r2"}, MaxLive <- 1, MaxDeaths <- 1, MaxAdmin <- 0, changed <- profileChanged

AllInit ==
  /\ part \in Part
  /\ Init /\ Requests!Init /\ Store!Init /\ Install!Init /\ Binding!BindingInit
  /\ Package!Init /\ Profiles!ProfilesInit
  /\ part # "install" => ~ host.docker /\ ~ host.runtime
  /\ part # "binding" => \A i \in Binding!Item : disk[i] = "a"
  /\ part # "profiles" => \A r \in DOMAIN apply : ~ apply[r].allow

AllNext ==
  /\ UNCHANGED part
  /\ IF part = "runtime" THEN Next ELSE UNCHANGED vars
  /\ IF part = "admission" THEN Requests!Next ELSE UNCHANGED admissionVars
  /\ IF part = "store" THEN Store!Next ELSE UNCHANGED storeVars
  /\ IF part = "install" THEN Install!Next ELSE UNCHANGED installVars
  /\ IF part = "binding" THEN Binding!BindingNext ELSE UNCHANGED bindingVars
  /\ IF part = "package" THEN Package!Next ELSE UNCHANGED packageVars
  /\ IF part = "profiles" THEN Profiles!ProfilesNext ELSE UNCHANGED profileVars

RuntimeFairness ==
  /\ WF_vars(part = "runtime" /\ (Advance \/ (Abandon /\ sup # "ready")))
  /\ WF_vars(part = "runtime" /\ Abandon /\ (term \/ Broken))
  /\ WF_vars(part = "runtime" /\ (Stop \/ StopFails))

RedisFairness ==
  /\ WF_admissionVars(part = "admission" /\ Requests!Tick)
  /\ WF_storeVars(part = "store" /\ Store!Tick)
  /\ WF_storeVars(part = "store" /\ Store!Step("w1"))

InstallFairness ==
  /\ WF_installVars(part = "install" /\ Install!HookStep("h1"))
  /\ \A p \in {"p1", "p2"} : WF_installVars(part = "install" /\ Install!Script(p))
  /\ WF_installVars(part = "install" /\ Install!Job("b1"))

BindingFairness ==
  /\ WF_bindingVars(part = "binding" /\ Binding!Supervise)
  /\ WF_bindingVars(part = "binding" /\ Binding!CheckNext("sup"))
  /\ WF_bindingVars(part = "binding" /\ Binding!Mismatch)

IntuneFairness ==
  /\ \A r \in {"r1", "r2", "r3"} :
       /\ WF_packageVars(part = "package" /\ Package!Begin(r))
       /\ WF_packageVars(part = "package" /\ Package!Advance(r))
       /\ WF_packageVars(part = "package" /\ Package!GiveUp(r))
  /\ \A r \in {"r1", "r2"} :
       /\ WF_profileVars(part = "profiles" /\ Profiles!BeginProfiles(r))
       /\ WF_profileVars(part = "profiles" /\ Profiles!AdvanceProfiles(r))

AllFairSpec ==
  /\ AllInit /\ [][AllNext]_allVars
  /\ RuntimeFairness /\ RedisFairness /\ InstallFairness /\ BindingFairness /\ IntuneFairness

-----------------------------------------------------------------------------
\* The state of the components whose types are not proved has the values their programs write.
TypesOK ==
  TypeOK /\ Install!TypeOK /\ Binding!BindingTypeOK /\ Package!TypeOK /\ Profiles!ProfilesTypeOK

\* A start of the runtime decides: it serves or it is over.  A runtime that is asked
\* to stop, breaks, or whose files stay replaced is not supervised for ever.
RuntimeSettles == StartupDecides /\ SupervisionEnds /\ Binding!ReplacedFileNoticed

\* A spent budget always comes back, even under attempts that never pause: the
\* request budgets of ACQUIRE and the sign-in budgets of _budget.
BudgetsComeBack == Requests!BudgetsRecover /\ Store!BudgetComesBack

\* A hook that has started ends, and on a fresh host azd, run again as often as it
\* throws, reserves the installation in the end (Invoke-PrivateVmAzdHook).
InstallProgresses == Install!HookEnds /\ (part = "install" => Install!UploadResumes)

\* Publishing the package again ends with a receipt, unless a run ended after it had
\* added its file; applying the profiles again completes them, whatever runs that
\* were killed have left behind.
RerunsComplete ==
  /\ part = "package" => Package!ResumedUntilFile
  /\ part = "profiles" => Profiles!RerunCompletes
=============================================================================
