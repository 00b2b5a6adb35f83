# Formal models of azd-santa

TLA+ specifications of the stateful parts of this repository, kept beside the
code. `PROJECT.json` lists components, runs, the line map, mutants, hazards,
findings and theorems; this file explains them.

## The system and its parts

| Part | State | Operations | Hard behaviour |
|---|---|---|---|
| Sync admission (`experiments/server/santa_admission.py`) | Redis hash with permit slots, three kinds of counters with expiry | ACQUIRE, RELEASE, CHECK, EMPTY, RECONCILE, the middleware around a request | lost, late and resent scripts; a web process that dies holding a slot |
| Runtime supervisor (`experiments/server/runtime_service.py`) | seven containers, `container-generation.json`, `supervisor.lock`, the systemd unit | start, supervise, stop, bind-fresh, reconcile, install | half-done Docker commands, replaced containers, kills, reboots |
| Durable sync spike (`tools/sync_spike`) | SQLite file; sessions, cursors and tokens per process | publish, revoke, report, the four sync stages | several processes on one file, crash around a commit |
| Operator MFA (`operator_mfa.py`) | session records, factors; challenges, budgets and claims in the security store | enrol, challenge, verify, initialise | two requests racing for one code, store loss |
| Operator recovery (`operator_recovery.py`) | user rows, reset tokens, output file | apply_access, confirm | crash between commit and output |
| Setup host and transport (`operator_setup_host.py`, `SetupTransport.psm1`) | artifacts on the VM, checkpoints on the controller | run, send, complete | lost Run Command results, retries |
| Private installation (`private_install*.py`, `PrivateVmInstall.psm1`) | receipts and marker files | run, status, hook | asynchronous job, concurrent deliveries |
| Fresh staging (`stage_runtime.py`, `prepare_zentral_eval.py`) | destination directories, Compose namespaces, the initializer container | stage | a client that times out while its container runs on |
| Database roles (`database_roles.py`) | tables, grants, the runtime role, advisory lock, receipts | initialize, check_runtime | two initializers, kills between migrations, lost sessions |
| Request limits (`santa_request_limits.py`) | one request body on its way through the checks | decode_request, decode_bytes, `_check_depth` | sizes at the limit, understated lengths, nesting in strings |
| Service binding (`runtime_service.py`: prepare, install) | manifest, systemd unit, bound files, data volumes | prepare, install, load_manifest, backing_data | files replaced between check and use, overlapping installs |
| Intune scripts (`scripts/Invoke-SantaIntune*.ps1`) | remote apps, profiles, assignments, receipt | create, upload, commit, assign | service failing between steps, reruns |

The parts meet in the runtime: the supervisor opens the listener whose threads
admission counts, admission lives in the Redis whose marker the MFA module
writes, and the installation delivers the manifest the supervisor runs.
Staging runs the database initializer, operator setup runs the recovery command
inside the attested web container, and the profiles precede the package.

## Modules

* `Admission` - the middleware and its scripts. A thread goes `idle`,
  `acquiring`, `running`, `releasing`; `inflight` holds scripts that were sent
  and may still run, once or more often. `Open`, `Close`, `Initialize` and
  `Reconcile` are the host's steps in the abstract.
* `Runtime` - the supervisor and the two admission jobs. `A == INSTANCE
  Admission WITH open <- running["web"]`, and `ImplementsAdmission` is
  `A!Spec`: the host steps are derived, not assumed. `redis` stands for the four
  dependencies, `workers` for workers and celery, which the code starts and
  stops together. A step that fails or is killed may have moved any of its
  containers (`StepOutcomes`).
* `Ledger` - what the synchronization state promises, without processes, requests,
  locks or failures: `Extend` the history, `Bar` a device, `Raise` its mark, `Promise` a
  client a revision.
* `DurableSync` - processes on the SQLite file. A request is split at its first reads
  (`Handle`), at the checks inside the transaction (`Transact`, which takes `writer`, the
  lock of BEGIN IMMEDIATE), at its commit (`Commit`, `CommitFails`) and at its answer.
  `Stored` maps the rows and the answers to a ledger, and `ImplementsLedger` is
  `Stored!Spec`. It holds because the checks are made under the lock: what `Handle` read
  may be stale by then, and the mutant whose transaction trusts those reads breaks it.
* `SecurityStore` - one operator's sign-in against Redis: a request goes `login`
  or `submitted`, `checked`, `claimed`, `matched`; keys are their remaining life,
  challenges and codes their age, so that time needs no clock. A tick is one
  TOTP step of 30 seconds.
* `OperatorAccess` - the account behind it: session records stamped with the auth
  hash (a number that every `set_password` replaces), factors, the user-row and
  ContentType locks, `apply_access` and the reset view. A setup link is bound to the hash
  and to `last_login`, as Django's reset token is: `signedIn` says that somebody has signed
  in since the latest reset, after which its link is refused. A locked request is split
  where it has decided and where it has written; `login` in a proof, `resets` and
  `uses` are history that only the properties read.
* `PrivateInstall` - azd hooks, guest scripts and the systemd job. A file of
  `exclusive()` is absent, partial, then full, so a restart can cut it off.
* `SetupPromise`, `SetupTransport` - what operator setup promises (one reset per
  request, delivery after it), and the caller, Run Command scripts, host files and
  the command in the container that implement it: `KeepsPromise` is the refinement.
* `DatabaseRoles` - initializers on one database. Grants are applied in the
  source's order in one transaction; `acl` records what each of them leaves.
* `FreshStaging` - stagers over destinations and project names; the initializer's
  container has a life of its own.
* `JsonDepth` - the nesting scan and a JSON parser reading the same text side by
  side. `RequestLimits` - the other checks of a request in their order, among
  them the Content-Length that is refused for having more than 12 characters; `held` is
  what a request occupies: the compressed body, its expansion and the text together.
* `ServiceBinding` - prepare and install processes and the supervisor's checks. A
  digest is the content it stands for, so a replaced file is a different content.
  `Runtime` has what the supervisor then does with the containers.
* `IntunePackage`, `IntuneProfiles` - runs of the two apply scripts, request by
  request, against the objects in Intune. Killing a run right after a request
  stands for a lost answer.
* `AdmissionConfig`, `Provisioners`, `IntuneRuns` - the constants that `Admission` and
  `Runtime`, `DatabaseRoles` and `FreshStaging`, and the two Intune modules share, with
  what is assumed of them.
* Theorems: `AdmissionProofs` (`Admission`, `JsonDepth`, `RequestLimits`),
  `ServiceBindingProofs` (`ServiceBinding`, `Runtime`), `DurableSyncProofs`
  (`DurableSync`, `Ledger`), `OperatorAccessProofs`, `DatabaseProofs` (`SecurityStore`,
  `DatabaseRoles`), `SetupProofs` (`SetupTransport`, `FreshStaging`),
  `PrivateInstallProofs`, `IntuneProofs` (`IntunePackage`, `IntuneProfiles`).
* `MC*` - instances for TLC. `MCAdmission`, `MCRuntime`, `MCDurableSync`,
  `MCPrivateInstall` and `MCSetupTransport` are one component each.
  `MCRequestBoundary`, `MCOperatorSignIn`, `MCProvisioning`, `MCIntune` and
  `MCRecovery` hold several that share no variables. A variable `part` is chosen
  initially and never changes: its component takes its own `Next` steps and the
  others stay in an initial state. Such a run checks each component as if it were
  alone; it says nothing about one affecting another. The components of such a
  module have no name in common, so that it extends them and checks the very
  definitions the theorems state. Where a component is needed with other constants,
  it is an `INSTANCE` (all of `MCRecovery`; the overlapping runs in `MCIntune`, beside
  the serial ones it extends). What two or three
  related properties promise together is one conjunction (`LimitsHold`,
  `StartsChecked`, `RuntimeSettles`, ...) whose conjuncts have names of their own.

Some definitions are deliberately wrong versions of the one that follows them;
their comments begin with "Mutant of". They are used by no specification: they
show that each property can fail, and `PROJECT.json` names the property each one
breaks. For a conjunction that is one of its conjuncts.

## Runs

| Run | Shows | Bounds |
|---|---|---|
| `admission` | `OneHandler`, `PermitBacksHandler`, `CountersValid` | 2 threads (gunicorn has 2), 4 tokens so that old scripts survive two later requests, limits 3/1/2 so that each limit is hit first by some request |
| `request_boundary` | `JsonDepth`: `RecursionBounded` | every text of up to 10 characters, limit 3 |
| | `RequestLimits`: `LimitsHold` - accepted exactly when well-formed and within limits; bodies and text together at most compressed + 2 * expanded + 1 | limits 1 and 2, sizes up to 3: one past the largest limit, two past the smallest; 2 collections of up to 2 events, which go past it only together |
| | `Admission`: `IdentityKeysBounded` - at most 4 * global_max - 2 identity keys | global_max 2; 4 sources and 3 credentials, one more than the bound of 6 |
| `runtime` | `ImplementsAdmission`, the refinement; `CleanupAuthorised` | one replacement per container (`MaxId` = 1), every limit 1 |
| `runtime_held` | violation: see Findings | no replacements (`MaxId` = 0) |
| `durable_sync` | `ImplementsLedger`, the refinement; `AckedIsStored`, `PagesInOrder`, `ReportedAfterDownload` | 2 processes, revisions of 1 and 3 pages, 3 sessions (`MaxSession`) |
| `operator_sign_in` | `SecurityStore`: `AcceptedOnce` - challenges and codes | 2 threads, 2 challenges; expiries scaled down to the smallest that `TimeAssumption` admits, where an off-by-one shows |
| | `OperatorAccess`: `OneHuman`, `LinkUsedOnce`, `LinkOfLatestReset` (a link sets a password only if it is the latest and nobody has signed in since), `VerifiedAfterReset` (recovery shuts out earlier sessions), `FactorsGuarded` (the last factor stays, others are added by verified sessions) | 2 sessions, 2 commands (a bootstrap and a recovery, or two bootstraps), 2 factors (`MaxFactor`) |
| `private_install` | `OneFreshInstallation` - one job, reserved first, on a fresh host; `CompletionEarned` | 2 hooks with different bundles, 2 guest scripts, 1 chunk, 1 restart, 1 lost reply: two deliveries can race and either can be cut off |
| `staging_resume` | violation: see Findings | 1 hook, 1 restart |
| `setup_transport` | `AttemptsAccounted` - one attempt, recorded first, confirmed when done; `RunsWhereAttested`; `KeepsPromise`, the refinement of `SetupPromise` | a valid and a refused request, 2 scripts at once, 2 runs of each operation, 1 restart, 1 replaced container |
| `provisioning` | `DatabaseRoles`: `RuntimeAuthority`, `NoAdoption` of remains, `HandedOverReady` (receipts and services imply separation) | 3 initializers and receipts, 2 tables, 2 later ones |
| | `FreshStaging`: `InitializesOwnData`, one stager per destination; `StageReportsTrue`, of receipts and of failures | 3 stagers, 2 destinations, 2 project names, so that two must share one |
| | `ServiceBinding`: `EnabledUnitSound` (unit and finished manifest), `StartsChecked` (only checked files and data are started) | 2 jobs, 2 contents, 2 volumes, 2 replacements (there and back), 1 loss, 2 launches |
| `intune` | `IntunePackage`: `RequiredMeansInstallable`; with one run at a time one owned app and exact receipts (`SerialRunsExact`) | 3 runs: 2 at once with 1 kill and 1 administrator change, or one by one with 2 and 2 |
| | `IntuneProfiles`: `RefusedChangedNothing`, `ProfilesGuarded` (foreign and edited profiles); with one run at a time a complete run leaves the template's state (`SerialRunsExact`) | the same, 2 profiles (a first and a last) |
| `recovery` | liveness, see Fairness: `RuntimeSettles` (a startup decides; supervision ends, also when a file stays replaced), `BudgetsComeBack`, `InstallProgresses` (a hook ends, an upload resumes), `RerunsComplete` (of both Intune scripts) | the smallest instance in which the obstacle occurs: a replaced container, a thread that never pauses, a lost reply between two chunks, two replacements of a file, two killed package runs, one killed profile run |

Deadlock is not checked where the processes are finite in number and end.

Fairness. The properties of `recovery` are conjunctions; the names below are those
of the conjuncts in the component modules. A component has the fairness of its
`FairSpec` while it is the part that runs. `BudgetComesBack` assumes that time passes
and that a store operation ends, which its 2-second socket timeout gives.
`BudgetsRecover` assumes only that time passes (`Tick`).
`StartupDecides` and `SupervisionEnds` assume that a step of `start` ends, one
way or the other: each Docker call has a timeout and each wait a deadline
(`Runtime.call`, `Runtime.wait`), and the loop looks every five seconds.
`OperatedSpec`, for the violation only, also assumes an operator who retries and
commands that succeed when they can, which makes the counterexample stronger.
`UploadResumes`, `HookEnds` and the violated `StagingResumes` assume that hooks,
guest scripts and the job keep going: Run Command calls and systemd units have
timeouts, and azd is run again after a failure. `ReplacedFileNoticed` assumes the
supervision loop, which runs every five seconds. `ResumedUntilFile` and
`RerunCompletes` assume an operator who runs the script again and runs that go on
unless killed; kills are bounded, so the last run is not killed. A profile
inventory that comes in pages ends a run too (`Paginated`) and counts among the kills in
`MaxDeaths`: `RerunCompletes` assumes that the inventory of some run fits one page.
Polling loops may still give up.

Assumed of Intune, in both Intune runs and in the proofs: a published app stays
published while a further committed version is processed (`NewApp`).
`RequiredMeansInstallable` rests on it when a second run commits to an app that is
already assigned; nothing in the repository shows what Intune does in between.

## Findings

`runtime_held`: docs/santa-admission.md says held slots block startup until the
reconciliation command is run on the stopped runtime. `Runtime.stop` stops
Redis, `reconcile_admission` uses `run --no-deps` and starts nothing, and
`start` stops Redis again when it meets the held slot; so after a reboot with a
held slot neither command ever succeeds.

`staging_resume`: docs/private-vm-installation.md says that public source staging
can resume missing identical files before job reservation. `bundle.json` is
written only by the script that finds the bundle's directory absent. A script cut
off between the two leaves a host on which every later submission fails; a cut
between `context.json` and `active.json` does the same.

Met while modelling, and consistent with the docs: a package run that ends after
adding its content file leaves an app that later runs refuse, which is where
`ResumedUntilFile` stops; two overlapping first runs can create two apps, so
`OneOwnedApp` is stated for one run at a time (in `SerialRunsExact`).

## Proofs

TLAPS proves the theorems below for every value of the constants that the named
`ASSUME`s admit: any number of threads, processes, sessions, jobs, tables, limits.
Most properties are not inductive, because a step acts on what an earlier one read;
each theorem says what has to be added.

`AdmissionProofs`
* `OneHandlerAlways`, from `PermitBacksHandler` (`PermitInvariant`). `OneHandler`
  alone is not inductive: a RELEASE still in flight could free the slot under a
  running handler. The strengthening says that a running handler's token is in slot
  0, tokens differ, a RELEASE is in flight only after its handler, and a closed
  listener serves nobody.
* `CountersAlwaysValid`, and `PermitsGivenUpByOwners`: no step but its owner's, or
  the host's reconciliation, frees a slot.
* `IdentityKeysAlwaysBounded`: at most 4 * global_max - 2 identity keys. `KeysInv`
  counts the keys of the current global window and those of the one before apart.
  Each request makes at most two keys; the keys of the first request of a window
  expire with it, so all but two survive it.
* `RecursionAlwaysBounded` and `RefusalAlwaysJustified`, for every text and limit: scan
  and parser agree on strings and escapes, and while the parser has not failed its
  stack is as deep as the scan's counter (`InStep`).
* `LimitsAlwaysHold`, for all limits, from `SizesInv`: what the checks that are over have
  established, and what is held at each of them.

`ServiceBindingProofs`
* `EnabledUnitAlwaysSound` and `AlwaysStartsChecked`, from `BindingInv`: manifest and
  unit are each written by the one job that created them (`OneWriter`), an install
  works from the finished manifest (`JobOK`), and what the supervisor has compared in
  its present step is as recorded, unless replaced since the step began (`SupOK`).
* `HostImplementsAdmission`, the refinement of `Admission` by `Runtime`, and
  `CleanupAlwaysAuthorised`, from `HostInv`: the lock keeps the supervisor and the
  jobs apart, and without the listener no thread is busy; so what the check of the
  admission state found is still so when the listener starts.

`DurableSyncProofs`
* `LedgerInvariant`, `LedgerIsMonotone`, of the ledger alone.
* `SyncImplementsLedger`, from `FileInv`: a process that has made its checks holds the
  lock, so that they still hold at the commit, and what is about to be answered is
  stored. A step is then a ledger step or leaves rows and answers alone. Through the
  refinement, what the ledger promises is true of the processes: `StoredAlwaysPublished`,
  `StoredAlwaysMonotone` and `AckedAlwaysStored`.
* `PagesAlwaysInOrder` and `AlwaysReportedAfterDownload`, from `SyncInv`: a session id
  names one slot, a cursor that fits a session asks for a page whose predecessors that
  session served, and a pending report is of the session that earned it unless the
  device was revoked meanwhile, in which case it cannot commit.

`OperatorAccessProofs`
* `AlwaysOneHuman`, `LinkAlwaysUsedOnce`, `AlwaysVerifiedAfterReset` and the action
  properties `AlwaysLinkOfLatestReset` and `FactorsAlwaysGuarded`, from `AccessInv`, of
  which `AccessTypeOK` is a part: a request that writes holds the user row, and what it
  read under the row is still so; a hash that is in force was entered after the latest
  reset; a link is for the hash its reset made, and a later reset or its use has
  replaced that hash.

`DatabaseProofs`
* `ChallengeOnce`, `CodeOnce` (together `AlwaysAcceptedOnce`) and
  `SecurityStoreTyped`, from `IInv`. "Accepted once" is not inductive: nothing in it
  stops a second claim. `IInv` adds why a claimed challenge cannot be claimed again
  (`ChallengeCovered`): its key outlives it, or the store was lost and its hold
  outlives it, and then no request has it checked. A request that has checked a
  challenge is at most `Gap` ticks old, and no request is in progress during a hold.
* `RuntimeAuthorityAlways`, `NeverAdopts` and `AlwaysHandedOverReady`, from `RolesInv`:
  the advisory lock belongs to the initializer inside whose session took it, at most
  one initializer works on a database it found fresh, and until it has made the role
  nobody else has made a table. What the seven statements of the transaction leave of
  the privileges is computed lemma by lemma.

`SetupProofs`
* `AttemptsOnce`, `AlwaysRecordedFirst`, `ConfirmationsHold` (together
  `AttemptsAlwaysAccounted`), `StartsWhereAttested` and the refinement
  `KeepsPromiseAlways`, from `IInv`: what each script may rely on at each place
  (`ScriptInv`), that the files, the attempt and the commit of a context agree
  (`ContextInv`), and that at most one script holds the claim on a context's folder
  (`Exclusive`). Frame lemmas show that a step of one script keeps the facts of others.
* `AlwaysInitializesOwnData` and `StageAlwaysReportsTrue`, from `StagingInv`: no two
  stagers share a destination or a project, nothing runs before the volumes are the
  stager's own, and each file of a destination says how far its stager is.

`PrivateInstallProofs`
* `InstallsOnceOnFreshHost` and `CompletionAlwaysEarned`, for any number of hooks,
  guest scripts, bundles, chunks, restarts and lost replies. Both speak of the job; a
  step breaks them only because a script or a hook acts on what it read long before.
  `InstallInv` (`InstallInvariant`) therefore says what each of them may still rely on.
  A hook that waits for a reply has the bundle of its script (`HookInv`). A script has
  a fresh host and complete files at its place, and of all scripts past the reservation
  of the host there is one, under whose reservation nothing was started (`ScriptInv`).
  Without a reservation nothing has happened, and a unit's state and step tell how often
  the job has started and initialised, and whether it exited with status 0 before its
  proof is on disk (`UnitInv`). A restart ends scripts and units and cuts off the files
  being written, and keeps all of this.

`IntuneProofs`
* `RequiredAlwaysInstallable` and `ForeignAlwaysUntouched`, for any number of
  overlapping and killed runs. The strengthening: an app's committed version has an
  accepted file, which no step touches again; a run past its waits has an accepted file
  of its own for the very version it is about to commit; and a run past the inspection
  is at an owned app.
* `RefusedAlwaysChangedNothing` and the action property `ProfilesAlwaysGuarded`, from
  `ProfilesInv` (`ProfilesInvariant`), again for overlapping and killed runs and changes
  by administrators. A run has changed nothing before it has decided to apply. A run that
  applies was allowed to update, or its whole plan holds no update. What it has seen still
  exists, and the object a plan names is one the template owned when it was planned;
  objects are not removed and do not change hands, so it is still owned when it is
  written, however long ago the inventory was.
* `SerialOwnsOnce`, `SerialReceiptsExact` (package) and `SerialReceiptsComplete` (profiles),
  the conjuncts of `SerialRunsExact`, with one run at a time: `MaxLive = 1` and a finite
  `Run` are assumptions in their statements. `SerialInv` and `SerialProfiles` add that at
  most one run is past its start, so that what it has read of Intune is still so: a run that
  creates found no app, a run about to write its receipt is at a published app assigned
  exactly to the pilot, and the profiles a run has been through are as its template says.

Assumptions are the named `ASSUME`s, which the runs evaluate: limits, sizes, bounds and
revisions are natural numbers, positive where the code requires it; identities, tokens,
parties and the markers for "nobody" differ from each other; claims and hold outlive
what they cover (`TimeAssumption`). `Runtime` is proved to implement an instance of
`Admission` and has its assumptions from `AdmissionConfig`.

Most leaves name their prover: Zenon where the step is first-order, SMT where it needs
arithmetic, records or sequences.

Model-checked only: liveness (`recovery`), which is out of the prover's reach, and
`TypesOK`, of which the proofs use the parts, as conjuncts of the inductive invariants.
`PermitsGivenUpByOwners`, `LedgerInvariant`, `LedgerIsMonotone`, `StoredAlwaysPublished`,
`StoredAlwaysMonotone`, `RefusalAlwaysJustified` and `ForeignAlwaysUntouched` state
properties that no run checks beside the proof.

## Abstractions

* A Docker operation a killed client had sent takes effect at that instant or
  not at all; host scripts reach Redis after those of the dead web process.
* Only the supervisor starts application containers.
* Hashing, header and JSON parsing are model values or a nondeterministic failure.
* `SecurityStore`: between the check of a token or code and the claim at most
  `Gap` ticks pass; the row lock of the verification form is not relied on.
  Migration happens with the application stopped, as `--confirm-quiesced` states.
* `OperatorAccess`: records expire at any time; one account; the password form
  receives the right password or changes nothing. Django's session and token
  machinery is external.
* `PrivateInstall`: building, staging and activating inside the job succeed or
  fail as a whole.
* `SetupTransport`: sealing is exact; a request is accepted or refused as a whole.
* `DatabaseRoles`: PostgreSQL applies a transaction at once; `FreshStaging` takes
  the initializer as ending with or without its receipt.
* `RequestLimits`: what is ill-formed in a body is one of a few faults, in the
  order the code meets them.
* `ServiceBinding`: the two reads of the composition in `bundle` are one, and the
  sentinels of a data directory are one predicate.
* `IntunePackage`, `IntuneProfiles`: the preflight of account, group and device
  passes, since it changes nothing; an administrator works between runs; a file's
  name, size and encryption are those of the verified package.

## Not modelled

* `upgrade_core_runtime.py`, `resume_runtime.py`, `resume-runtime.sh`: a manual
  path of the qualification host. Whether an image may serve before `migrate`
  depends on the upstream entrypoint, which is not in this repository.
* `prepare_*.py` and `lock_dependencies.py`, apart from the directory that
  `prepare_zentral_eval.py` reserves: one-shot transformations of pinned text.
* Read-only reports, probes and test drivers (`qualify_*`, `run_*`,
  `vm_probe.py`, health and status scripts, `installation_readback.py`): they
  change no state of the system.
* Candidate parsing and template validation (`Santa.*.psm1`,
  `New-DeploymentPlan.ps1`): functions of files without state; Bicep templates:
  declarations.
