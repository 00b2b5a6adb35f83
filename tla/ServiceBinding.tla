--------------------------- MODULE ServiceBinding ---------------------------
(***************************************************************************)
(* How the supervised runtime is pinned to its files                       *)
(* (experiments/server/runtime_service.py): `prepare` records what the     *)
(* files hold in manifest.json, `install` writes a systemd unit naming the *)
(* manifest's digest, and the supervisor that systemd runs hashes the      *)
(* files again before every start and in its supervision loop.  Operators  *)
(* run prepare and install at any time, two at once included, a job may    *)
(* die anywhere, and the files and volumes may change under all of them.   *)
(*                                                                         *)
(* A digest is the content it is the digest of.  Runtime models what the   *)
(* supervisor does with the containers.                                    *)
(***************************************************************************)
EXTENDS Integers, Sequences

CONSTANTS
  Job,        \* operators' prepare and install processes
  Version,    \* what a file may hold
  Volume,     \* the project's data volumes
  Absent, Partial,
  MaxEdits,   \* bound: replacements of a file
  MaxLosses,  \* bound: volumes emptied
  MaxStarts   \* bound: launches; the unit says StartLimitBurst=3

\* "code" is the controller and its two helpers, "config" base.json and the
\* service env files.
Item == {"code", "compose", "config"}

Content == [Item -> Version]

\* Before a process has read or been given anything.
Nothing == [i \in Item |-> Absent]

Proc == Job \cup {"sup"}

ASSUME NamesDistinct ==
  "sup" \notin Job /\ Absent \notin Version \cup Content /\ Partial \notin Content /\ Absent # Partial

ASSUME BoundsAreNat == MaxEdits \in Nat /\ MaxLosses \in Nat /\ MaxStarts \in Nat

VARIABLES
  disk,      \* what each file holds
  manifest,  \* runtime-service/manifest.json; Partial from mkdir to fsync
  unitFile,      \* azd-santa-runtime.service; Partial from O_EXCL to fsync
  loaded,    \* the unit as systemd last read it
  enabled,
  place,        \* the step each process is at
  todo,      \* the files the process has still to hash in this step
  bound,     \* the content it records (prepare) or requires (the others)
  changed,   \* files replaced since the supervisor's step began
  data,      \* volumes that hold initialised data
  lost,      \* volumes emptied since the supervisor last checked them
  edits, losses, starts

files == <<disk, manifest, unitFile, loaded, enabled>>
procs == <<place, todo, bound, changed>>
volumes == <<data, lost>>
counters == <<edits, losses, starts>>
bindingVars == <<files, procs, volumes, counters>>

JobSteps == {"idle", "hash", "write", "load", "fill", "reload", "enable"}

Starting == <<"init", "backing", "dependencies", "workers", "listener", "ready">>

SupSteps == {"off"} \cup {Starting[i] : i \in 1 .. 6}

\* The order in which prepare, and load_manifest, read the files.
HashOrder == <<"compose", "config", "code">>
LoadOrder == <<"code", "compose", "config">>

\* Runtime.start, start_ids: the step after s.
After(s) == Starting[1 + CHOOSE i \in 1 .. 5 : Starting[i] = s]

BindingTypeOK ==
  /\ disk \in Content
  /\ manifest \in Content \cup {Absent, Partial}
  /\ unitFile \in Content \cup {Absent, Partial}
  /\ loaded \in Content \cup {Absent, Partial}
  /\ enabled \in BOOLEAN
  /\ place \in [Proc -> JobSteps \cup SupSteps]
  /\ todo \in [Proc -> Seq(Item)]
  /\ bound \in [Proc -> [Item -> Version \cup {Absent}]]
  /\ changed \subseteq Item
  /\ data \subseteq Volume /\ lost \subseteq Volume
  /\ edits \in 0 .. MaxEdits /\ losses \in 0 .. MaxLosses /\ starts \in 0 .. MaxStarts

BindingInit ==
  /\ disk \in {[i \in Item |-> v] : v \in Version}
  /\ manifest = Absent /\ unitFile = Absent /\ loaded = Absent /\ enabled = FALSE
  /\ place = [p \in Proc |-> IF p = "sup" THEN "off" ELSE "idle"]
  /\ todo = [p \in Proc |-> <<>>]
  /\ bound = [p \in Proc |-> Nothing]
  /\ changed = {}
  /\ data = Volume /\ lost = {}
  /\ edits = 0 /\ losses = 0 /\ starts = 0

-----------------------------------------------------------------------------
(* Steps that several commands share.                                      *)

\* Process p enters a step that reads the files in the given order.
Enter(p, step, order) ==
  /\ place' = [place EXCEPT ![p] = step]
  /\ todo' = [todo EXCEPT ![p] = order]
  /\ changed' = IF p = "sup" THEN {} ELSE changed

Goto(p, step) == Enter(p, step, <<>>) /\ UNCHANGED bound

\* The process ends, successfully or not, and what it knew is gone.
End(p, step) == Enter(p, step, <<>>) /\ bound' = [bound EXCEPT ![p] = Nothing]

Finished(p, step) == place[p] = step /\ todo[p] = <<>>

\* load_manifest, the first comparison: manifest.json has the digest required.
Selects(d) == manifest = d /\ d \in Content

\* load_manifest and bundle: the next file must be the one the manifest names.
CheckNext(p) ==
  /\ place[p] \notin {"idle", "hash"} /\ todo[p] # <<>>
  /\ disk[Head(todo[p])] = bound[p][Head(todo[p])]
  /\ todo' = [todo EXCEPT ![p] = Tail(@)]
  /\ UNCHANGED <<files, place, bound, changed, volumes, counters>>

-----------------------------------------------------------------------------
(* prepare.                                                                *)

PrepareBegin(j) ==
  /\ place[j] = "idle"
  /\ Enter(j, "hash", HashOrder)
  /\ UNCHANGED <<files, bound, volumes, counters>>

\* Mutant of HashNext: only the composition is recorded.
HashCompose(j) ==
  /\ place[j] = "hash" /\ todo[j] # <<>>
  /\ bound' = [bound EXCEPT ![j][Head(todo[j])] = disk[Head(todo[j])]]
  /\ todo' = [todo EXCEPT ![j] = <<>>]
  /\ UNCHANGED <<files, place, changed, volumes, counters>>

\* bundle and the two hashes of the controller and its helpers.
HashNext(j) ==
  /\ place[j] = "hash" /\ todo[j] # <<>>
  /\ bound' = [bound EXCEPT ![j][Head(todo[j])] = disk[Head(todo[j])]]
  /\ todo' = [todo EXCEPT ![j] = Tail(@)]
  /\ UNCHANGED <<files, place, changed, volumes, counters>>

\* destination.mkdir fails for the second of two.
MakeDirectory(j) ==
  /\ Finished(j, "hash") /\ manifest = Absent
  /\ manifest' = Partial
  /\ Goto(j, "write")
  /\ UNCHANGED <<disk, unitFile, loaded, enabled, volumes, counters>>

\* An existing manifest is reused when identical and otherwise refused: either
\* way nothing changes.
ExistingManifest(j) ==
  /\ Finished(j, "hash") /\ manifest # Absent
  /\ End(j, "idle")
  /\ UNCHANGED <<files, volumes, counters>>

WriteManifest(j) ==
  /\ place[j] = "write"
  /\ manifest' = bound[j]
  /\ End(j, "idle")
  /\ UNCHANGED <<disk, unitFile, loaded, enabled, volumes, counters>>

-----------------------------------------------------------------------------
(* install.                                                                *)

\* The operator passes a digest; any other than the manifest's is refused.
InstallBegin(j) ==
  /\ place[j] = "idle"
  /\ \E d \in Content : Selects(d) /\ bound' = [bound EXCEPT ![j] = d]
  /\ Enter(j, "load", LoadOrder)
  /\ UNCHANGED <<files, volumes, counters>>

\* O_EXCL: another installer may have created the unit since it was looked for.
CreateUnit(j) ==
  /\ Finished(j, "load") /\ unitFile = Absent
  /\ unitFile' = Partial
  /\ Goto(j, "fill")
  /\ UNCHANGED <<disk, manifest, loaded, enabled, volumes, counters>>

\* Mutant of ExistingUnit: whatever unit is there is kept.
ExistingUnitKept(j) ==
  /\ Finished(j, "load") /\ unitFile # Absent
  /\ Goto(j, "reload")
  /\ UNCHANGED <<files, volumes, counters>>

\* target.read_bytes() != raw
ExistingUnit(j) ==
  /\ Finished(j, "load") /\ unitFile # Absent
  /\ IF unitFile = bound[j] THEN Goto(j, "reload") ELSE End(j, "idle")
  /\ UNCHANGED <<files, volumes, counters>>

FillUnit(j) ==
  /\ place[j] = "fill"
  /\ unitFile' = bound[j]
  /\ Goto(j, "reload")
  /\ UNCHANGED <<disk, manifest, loaded, enabled, volumes, counters>>

\* systemctl daemon-reload; without --enable-now the command ends here.
Reload(j) ==
  /\ place[j] = "reload"
  /\ loaded' = unitFile
  /\ Goto(j, "enable") \/ End(j, "idle")
  /\ UNCHANGED <<disk, manifest, unitFile, enabled, volumes, counters>>

\* systemctl enable --now; the start itself is Launch.
Enable(j) ==
  /\ place[j] = "enable"
  /\ enabled' = TRUE
  /\ End(j, "idle")
  /\ UNCHANGED <<disk, manifest, unitFile, loaded, volumes, counters>>

\* A file differs, a command fails, or the process is killed.
JobEnds(j) ==
  /\ place[j] # "idle"
  /\ End(j, "idle")
  /\ UNCHANGED <<files, volumes, counters>>

-----------------------------------------------------------------------------
(* The supervisor.                                                         *)

\* systemd starts an enabled unit; Runtime.__init__ loads the manifest.
LaunchUnit ==
  /\ enabled /\ place["sup"] = "off" /\ starts < MaxStarts
  /\ starts' = starts + 1
  /\ Selects(loaded)
  /\ bound' = [bound EXCEPT !["sup"] = loaded]
  /\ Enter("sup", "init", LoadOrder)
  /\ UNCHANGED <<files, volumes, edits, losses>>

\* inspect and close-admission come between; backing_data begins.
Loaded ==
  /\ Finished("sup", "init")
  /\ Goto("sup", "backing")
  /\ lost' = {}
  /\ UNCHANGED <<files, data, counters>>

\* Mutant of Recheck: the check of the step before is relied on.
RecheckNothing(step) == Goto("sup", step)

\* start_ids and the loop read the manifest anew before they act.
Recheck(step) ==
  /\ Selects(bound["sup"])
  /\ Enter("sup", step, LoadOrder)
  /\ UNCHANGED bound

\* state_path, check_postgres_data and check_redis_data: the files that an
\* entrypoint leaves in a volume it has initialised.
Initialised(v) == v \in data

\* backing_data: every volume must hold initialised data.
BackingData ==
  /\ place["sup"] = "backing"
  /\ \A v \in Volume : Initialised(v)
  /\ Recheck("dependencies")
  /\ UNCHANGED <<files, volumes, counters>>

\* docker start: an entrypoint initialises a volume it finds empty.
StartDependencies ==
  /\ Finished("sup", "dependencies")
  /\ data' = Volume
  /\ Recheck("workers")
  /\ UNCHANGED <<files, lost, counters>>

\* docker start of workers and celery, of web, and readiness.
StartApps ==
  /\ \E s \in {"workers", "listener"} : Finished("sup", s) /\ Recheck(After(s))
  /\ UNCHANGED <<files, volumes, counters>>

\* supervise: five seconds later.
Supervise ==
  /\ Finished("sup", "ready")
  /\ Recheck("ready")
  /\ UNCHANGED <<files, volumes, counters>>

\* A file or the manifest differs, a step fails, a signal arrives.
SupEnds ==
  /\ place["sup"] # "off"
  /\ End("sup", "off")
  /\ UNCHANGED <<files, volumes, counters>>

\* What load_manifest refuses while the supervisor is ready.
Mismatch ==
  /\ place["sup"] = "ready"
  /\ IF todo["sup"] = <<>> THEN ~ Selects(bound["sup"])
     ELSE disk[Head(todo["sup"])] # bound["sup"][Head(todo["sup"])]
  /\ SupEnds

-----------------------------------------------------------------------------
(* The host.                                                               *)

\* Someone replaces a file, as an upgrade would.
Edit(i) ==
  /\ edits < MaxEdits
  /\ edits' = edits + 1
  /\ \E v \in Version \ {disk[i]} : disk' = [disk EXCEPT ![i] = v]
  /\ changed' = changed \cup {i}
  /\ UNCHANGED <<manifest, unitFile, loaded, enabled, place, todo, bound, volumes, losses, starts>>

Lose(v) ==
  /\ losses < MaxLosses /\ v \in data
  /\ losses' = losses + 1
  /\ data' = data \ {v}
  /\ lost' = lost \cup {v}
  /\ UNCHANGED <<files, procs, edits, starts>>

\* Processes die, files stay, and systemd reads the units again.
HostReboots ==
  /\ place' = [p \in Proc |-> IF p = "sup" THEN "off" ELSE "idle"]
  /\ todo' = [p \in Proc |-> <<>>]
  /\ bound' = [p \in Proc |-> Nothing]
  /\ changed' = {}
  /\ loaded' = unitFile
  /\ UNCHANGED <<disk, manifest, unitFile, enabled, volumes, counters>>

Prepare(j) ==
  \/ PrepareBegin(j) \/ HashNext(j) \/ MakeDirectory(j) \/ ExistingManifest(j)
  \/ WriteManifest(j)

Install(j) ==
  \/ InstallBegin(j) \/ CreateUnit(j) \/ ExistingUnit(j) \/ FillUnit(j)
  \/ Reload(j) \/ Enable(j)

Supervisor ==
  LaunchUnit \/ Loaded \/ BackingData \/ StartDependencies \/ StartApps \/ Supervise \/ SupEnds

BindingNext ==
  \/ \E j \in Job : Prepare(j) \/ Install(j) \/ JobEnds(j)
  \/ \E p \in Proc : CheckNext(p)
  \/ Supervisor
  \/ \E i \in Item : Edit(i)
  \/ \E v \in Volume : Lose(v)
  \/ HostReboots

BindingSpec == BindingInit /\ [][BindingNext]_bindingVars

\* The loop's sleep and hashing end; a refused comparison ends supervision.
BindingFairSpec ==
  /\ BindingSpec
  /\ WF_bindingVars(Supervise) /\ WF_bindingVars(CheckNext("sup")) /\ WF_bindingVars(Mismatch)

-----------------------------------------------------------------------------

\* A unit file that is complete names a manifest that is complete and has that
\* very digest, however prepare and install jobs overlapped or died, and
\* whatever happened to the files in between (prepare, install_unit).
UnitNamesManifest == unitFile \in Content => manifest = unitFile

\* Once the service is enabled, what systemd starts, at a boot too, is the
\* finished unit: a unit that another job is still writing, or that one left
\* unfinished, is never enabled (install_unit).
EnabledUnitFinished == enabled => unitFile \in Content /\ loaded = unitFile

\* When the supervisor is about to start containers, every file is the one the
\* manifest names, except those replaced since this start's own check began: a
\* check made for an earlier step is never relied on (start_ids).
StartsBoundFiles ==
  \A s \in {"dependencies", "workers", "listener"} : Finished("sup", s) =>
    \A i \in Item \ changed : disk[i] = manifest[i]

\* When the dependencies are about to be started, a volume without data was
\* emptied after this run began to check the volumes: data missing before is
\* never replaced by a blank store (Runtime.start, backing_data).
NoBlankStart ==
  place["sup"] = "dependencies" => Volume \ data \subseteq lost

\* A complete unit file names a complete manifest by its very digest, and what an
\* enabled service starts, at a boot too, is that finished unit, however prepare and
\* install jobs overlapped or died (prepare, install_unit).
EnabledUnitSound == UnitNamesManifest /\ EnabledUnitFinished

\* When containers are about to be started every file is the one the manifest names,
\* except those replaced since this start's own check began, and a volume without
\* data was emptied since (start_ids, backing_data).
StartsChecked == StartsBoundFiles /\ NoBlankStart

\* A file that stays replaced ends supervision (supervise's binding check).
ReplacedFileNoticed ==
  \A i \in Item : []<>(place["sup"] = "ready" => disk[i] = bound["sup"][i])
=============================================================================
