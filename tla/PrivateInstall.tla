--------------------------- MODULE PrivateInstall ---------------------------
(***************************************************************************)
(* Installation of the private backend on one VM.  An azd hook             *)
(* (experiments/vm/PrivateVmInstall.psm1) sends Run Command scripts to the *)
(* guest.  A script (private_install_transport.py) stores source chunks,   *)
(* reserves the host durably and submits one systemd job                   *)
(* (private_install.py), or observes that job.  Hooks of different source  *)
(* trees may overlap, replies may be lost while the script runs on, and    *)
(* the VM may restart between any two steps.                               *)
(*                                                                         *)
(* A file written by exclusive() is created first and has its content only *)
(* after the fsync: "absent", then "partial", then "full".                 *)
(***************************************************************************)
EXTENDS Naturals, FiniteSets

CONSTANTS Hook,      \* invocations of azd that may run at the same time
          Bundle,    \* content-addressed source bundles
          Proc,      \* guest scripts that may run at the same time
          Chunks,    \* number of chunks of a bundle
          MaxCrash,  \* bound on restarts of the VM
          MaxLost,   \* bound on lost replies
          Nil

ASSUME InstallAssumption ==
    /\ Chunks \in Nat \ {0} /\ MaxCrash \in Nat /\ MaxLost \in Nat
    /\ Nil \notin Hook \cup Bundle /\ "partial" \notin Bundle \cup {Nil}

VARIABLES hook,      \* a hook: pc, the bundle it carries, the next chunk
          proc,      \* the guest scripts
          chunk,     \* the uploaded chunks of a bundle
          disk,      \* the other files of a bundle
          active,    \* active.json, the reservation of the host
          unit,      \* the transient systemd unit of a bundle
          host,      \* docker data, runtime unit file, was the host fresh
          starts,    \* jobs systemd has started: the invocation identifiers
          inits,     \* times a job has begun to initialise the data
          exited,    \* bundles whose job has exited with status 0
          spent      \* restarts and lost replies so far

durable == <<chunk, disk, active, host>>
history == <<starts, inits, exited>>
vars == <<hook, proc, durable, unit, history, spent>>

Chunk == 0 .. (Chunks - 1)
Named == {"dir", "bundle", "source", "context", "evidence", "complete", "proof"}
Sending == {"observe", "chunk", "submit", "reobserve", "poll"}
Ended == {"idle", "bound"}

NoHook == [pc |-> "idle", bundle |-> Nil, index |-> 0]
NoProc == [pc |-> "free", mode |-> "none", owner |-> Nil, bundle |-> Nil, index |-> 0,
           filling |-> FALSE, seen |-> "unread"]
NoUnit == [st |-> "not-found", step |-> "none", ok |-> FALSE]

Init ==
    /\ hook = [h \in Hook |-> NoHook]
    /\ proc = [p \in Proc |-> NoProc]
    /\ chunk = [b \in Bundle |-> [i \in Chunk |-> "absent"]]
    /\ disk = [b \in Bundle |-> [f \in Named |-> "absent"]]
    /\ active = Nil
    /\ unit = [b \in Bundle |-> NoUnit]
    /\ \E docker, runtime \in BOOLEAN :
         host = [docker |-> docker, runtime |-> runtime, fresh |-> ~docker /\ ~runtime]
    /\ starts = 0 /\ inits = 0 /\ exited = {}
    /\ spent = [crash |-> 0, lost |-> 0]
-----------------------------------------------------------------------------
(***************************************************************************)
(* The hook.                                                               *)
(***************************************************************************)
\* azd up: the postprovision hook bundles the sources it finds.
Start(h) ==
    /\ hook[h].pc \in Ended
    /\ \E b \in Bundle : hook' = [hook EXCEPT ![h] = [pc |-> "observe", bundle |-> b, index |-> 0]]
    /\ UNCHANGED <<proc, durable, unit, history, spent>>

Waiting(h) == \E p \in Proc : proc[p].owner = h

\* Send-PrivateInstallCommand: the script of one command starts on the guest.
SendCommand(h, p) ==
    /\ hook[h].pc \in Sending
    /\ ~Waiting(h)
    /\ proc[p].pc = "free"
    /\ LET mode == IF hook[h].pc \in {"chunk", "submit"} THEN hook[h].pc ELSE "observe"
       IN proc' = [proc EXCEPT ![p] = [NoProc EXCEPT !.pc = "check", !.mode = mode, !.owner = h,
                                         !.bundle = hook[h].bundle, !.index = hook[h].index]]
    /\ UNCHANGED <<hook, durable, unit, history, spent>>

\* Where the hook goes after reply r: it uploads and submits only when nothing is
\* installed, observes once after an unknown submission, and polls a running job.
AfterReply(s, r) ==
    LET To(pc) == [s EXCEPT !.pc = pc, !.index = 0]
    IN CASE s.pc = "observe" /\ r = "not-installed" -> To("chunk")
         [] s.pc = "chunk" /\ r = "chunk" ->
              IF s.index + 1 < Chunks THEN [s EXCEPT !.index = @ + 1] ELSE To("submit")
         [] s.pc = "submit" /\ r = "error" -> To("reobserve")
         [] s.pc # "chunk" /\ r = "completed" -> To("bound")
         [] s.pc # "chunk" /\ r \in {"activating", "deactivating"} -> To("poll")
         [] OTHER -> NoHook   \* it throws

Hears(h, r) == hook' = [hook EXCEPT ![h] = AfterReply(@, r)]

\* The reply is lost or truncated; the script itself may still be running.
LoseReply(p) ==
    /\ spent.lost < MaxLost
    /\ proc[p].owner # Nil
    /\ Hears(proc[p].owner, "error")
    /\ proc' = [proc EXCEPT ![p].owner = Nil]
    /\ spent' = [spent EXCEPT !.lost = @ + 1]
    /\ UNCHANGED <<durable, unit, history>>

\* The deadline of the polling loop.
Deadline(h) ==
    /\ hook[h].pc = "poll" /\ ~Waiting(h)
    /\ hook' = [hook EXCEPT ![h] = NoHook]
    /\ UNCHANGED <<proc, durable, unit, history, spent>>

-----------------------------------------------------------------------------
(***************************************************************************)
(* The guest script.                                                       *)
(***************************************************************************)
Goto(p, pc) == proc' = [proc EXCEPT ![p] = [@ EXCEPT !.pc = pc, !.filling = FALSE]] /\ UNCHANGED hook
Filling(p) == proc' = [proc EXCEPT ![p].filling = TRUE] /\ UNCHANGED hook

\* The script ends with a reply, which the hook that still waits for it hears.
Answer(p, r) ==
    /\ proc' = [proc EXCEPT ![p] = NoProc]
    /\ IF proc[p].owner = Nil THEN UNCHANGED hook ELSE Hears(proc[p].owner, r)

\* Mutant of Check: a submission for the reserved bundle starts the unit again.
CheckResubmits(p) ==
    /\ proc[p].pc = "check"
    /\ CASE active = proc[p].bundle ->
              Goto(p, CASE proc[p].mode = "submit" -> "run" [] proc[p].mode = "observe" -> "show" [] OTHER -> "chunk")
         [] active = Nil /\ host.runtime -> Answer(p, "error")
         [] OTHER -> IF proc[p].mode = "observe" THEN Answer(p, "not-installed") ELSE Goto(p, proc[p].mode)
    /\ UNCHANGED <<durable, unit, history, spent>>

\* run, up to the branch on the mode.  A reservation of another bundle, or one
\* whose content is not there yet, is an error.
Check(p) ==
    /\ proc[p].pc = "check"
    /\ LET b == proc[p].bundle
           m == proc[p].mode
       IN CASE active \notin {Nil, b} -> Answer(p, "error")
            [] active = b /\ m # "chunk" -> Goto(p, "show")
            [] active = Nil /\ host.runtime -> Answer(p, "error")
            [] active = Nil /\ ~host.runtime /\ m = "observe" -> Answer(p, "not-installed")
            [] OTHER -> Goto(p, m)
    /\ UNCHANGED <<durable, unit, history, spent>>

\* A file that is already there must have the content that was to be written.
Identical(v) == v = "full"

\* The chunk is written, or is already there.
PutChunk(p) ==
    /\ proc[p].pc = "chunk"
    /\ LET c == chunk[proc[p].bundle][proc[p].index]
           Put(v) == chunk' = [chunk EXCEPT ![proc[p].bundle][proc[p].index] = v]
       IN CASE proc[p].filling -> Put("full") /\ Answer(p, "chunk")
            [] ~proc[p].filling /\ c = "absent" ->
                 Put("partial") /\ Filling(p)
            [] OTHER -> UNCHANGED chunk /\ Answer(p, IF Identical(c) THEN "chunk" ELSE "error")
    /\ UNCHANGED <<disk, active, host, unit, history, spent>>

\* Join the chunks, compare the hashes, and make the directory of the bundle.
\* bundle.json is written only by the script that made the directory.
Submit(p) ==
    /\ proc[p].pc = "submit"
    /\ LET b == proc[p].bundle
           joined == \A i \in Chunk : chunk[b][i] = "full"
       IN CASE joined /\ disk[b]["dir"] = "absent" ->
                 disk' = [disk EXCEPT ![b]["dir"] = "full"] /\ Goto(p, "bundle")
            [] joined /\ Identical(disk[b]["bundle"]) -> UNCHANGED disk /\ Goto(p, "source")
            [] OTHER -> UNCHANGED disk /\ Answer(p, "error")
    /\ UNCHANGED <<chunk, active, host, unit, history, spent>>

\* exclusive() for bundle.json, the source files and context.json: only a source
\* file may already be there, and must then be identical.
Store(p) ==
    /\ proc[p].pc \in {"bundle", "source", "context"}
    /\ LET b == proc[p].bundle
           f == proc[p].pc
           next == CASE f = "bundle" -> "source" [] f = "source" -> "fresh" [] f = "context" -> "reserve"
           Put(v) == disk' = [disk EXCEPT ![b][f] = v]
       IN CASE proc[p].filling ->
                 Put("full") /\ Goto(p, next)
            [] ~proc[p].filling /\ disk[b][f] = "absent" ->
                 Put("partial") /\ Filling(p)
            [] ~proc[p].filling /\ f = "source" /\ Identical(disk[b][f]) -> UNCHANGED disk /\ Goto(p, next)
            [] OTHER -> UNCHANGED disk /\ Answer(p, "error")
    /\ UNCHANGED <<chunk, active, host, unit, history, spent>>

\* No container and no volume may exist.
Fresh(p) ==
    /\ proc[p].pc = "fresh"
    /\ IF host.docker THEN Answer(p, "error") ELSE Goto(p, "context")
    /\ UNCHANGED <<durable, unit, history, spent>>

\* exclusive(ACTIVE): one reservation per host, whatever the bundle.
Reserve(p) ==
    /\ proc[p].pc \in {"reserve", "reserved"}
    /\ CASE proc[p].pc = "reserved" -> active' = proc[p].bundle /\ Goto(p, "run")
         [] proc[p].pc = "reserve" /\ active = Nil -> active' = "partial" /\ Goto(p, "reserved")
         [] OTHER -> UNCHANGED active /\ Answer(p, "error")
    /\ UNCHANGED <<chunk, disk, host, unit, history, spent>>

\* systemd-run --no-block: the start job of a unit that is not loaded is queued, or
\* the command fails.
Run(p) ==
    /\ proc[p].pc = "run"
    /\ \/ /\ unit[proc[p].bundle].st = "not-found"
          /\ unit' = [unit EXCEPT ![proc[p].bundle] = [st |-> "queued", step |-> "none", ok |-> TRUE]]
          /\ Goto(p, "show")
       \/ UNCHANGED unit /\ Answer(p, "error")
    /\ UNCHANGED <<durable, history, spent>>

\* Mutant of Seen: a unit that systemd does not know is taken to be starting.
SeenStarting(u) == "activating"

\* The state systemctl shows; a failed result is visible before the unit has ended.
Seen(u) ==
    CASE u.st = "queued" -> "inactive"
      [] u.st \in {"running", "stopping"} -> IF u.ok THEN "activating" ELSE "deactivating"
      [] OTHER -> u.st

\* status: systemctl show.
Show(p) ==
    /\ proc[p].pc = "show"
    /\ proc' = [proc EXCEPT ![p] = [@ EXCEPT !.pc = "status", !.seen = Seen(unit[proc[p].bundle])]]
    /\ UNCHANGED <<hook, durable, unit, history, spent>>

\* Mutant of Proven: completion is inferred from complete.json.
ProvenByFile(p) == disk[proc[p].bundle]["complete"] = "full"

\* completion: complete.json of this bundle.
Completed(b) == disk[b]["complete"] = "full"

\* status: a complete proof counts unless the unit was seen to fail, and only while
\* the runtime service answers is-active; without a proof the unit must be loaded.
Proven(p) ==
    LET d == disk[proc[p].bundle]
    IN /\ proc[p].seen \notin {"failed", "deactivating"}
       /\ d["proof"] = "full" /\ Completed(proc[p].bundle) /\ d["context"] = "full"

Status(p) ==
    /\ proc[p].pc = "status"
    /\ LET proof == disk[proc[p].bundle]["proof"]
       IN \/ Proven(p) /\ host.runtime /\ Answer(p, "completed")
          \/ proof # "absent" /\ Answer(p, "error")
          \/ /\ proof = "absent"
             /\ Answer(p, IF proc[p].seen = "not-found" THEN "error" ELSE proc[p].seen)
    /\ UNCHANGED <<durable, unit, history, spent>>

-----------------------------------------------------------------------------
(***************************************************************************)
(* The job, as systemd runs it.                                            *)
(***************************************************************************)
Step(b, from, to) ==
    /\ unit[b].st = "running" /\ unit[b].step = from
    /\ unit' = [unit EXCEPT ![b].step = to]

JobStarts(b) ==
    /\ unit[b].st = "queued"
    /\ unit' = [unit EXCEPT ![b] = [@ EXCEPT !.st = "running", !.step = "verify"]]
    /\ starts' = starts + 1
    /\ UNCHANGED <<hook, proc, durable, inits, exited, spent>>

\* verified: every file of the bundle against its hash.
Verified(b) == \A f \in {"context", "bundle", "source"} : disk[b][f] = "full"

\* The bundle, the VM against its metadata; no runtime unit; the evidence directory
\* is made exclusively.
JobVerifies(b) ==
    /\ Step(b, "verify", "build")
    /\ Verified(b) /\ ~host.runtime /\ disk[b]["evidence"] = "absent"
    /\ disk' = [disk EXCEPT ![b]["evidence"] = "full"]
    /\ UNCHANGED <<hook, proc, chunk, active, host, history, spent>>

\* Packages, source, core build and pulls: nothing yet that a second job would repeat
\* at a loss.
JobBuilds(b) ==
    Step(b, "build", "stage") /\ UNCHANGED <<hook, proc, durable, history, spent>>

\* The data is initialised, the security store admitted, the containers created.
JobStages(b) ==
    /\ Step(b, "stage", "activate")
    /\ host' = [host EXCEPT !.docker = TRUE]
    /\ inits' = inits + 1
    /\ UNCHANGED <<hook, proc, chunk, disk, active, starts, exited, spent>>

\* activate_runtime: manifest, admission anchor, runtime unit.
JobActivates(b) ==
    /\ Step(b, "activate", "complete")
    /\ host' = [host EXCEPT !.runtime = TRUE]
    /\ UNCHANGED <<hook, proc, chunk, disk, active, history, spent>>

JobCompletes(b) ==
    /\ \/ Step(b, "complete", "completing") /\ disk' = [disk EXCEPT ![b]["complete"] = "partial"]
       \/ Step(b, "completing", "exit") /\ disk' = [disk EXCEPT ![b]["complete"] = "full"]
    /\ UNCHANGED <<hook, proc, chunk, active, host, history, spent>>

JobExits(b) ==
    /\ Step(b, "exit", "record")
    /\ exited' = exited \cup {b}
    /\ UNCHANGED <<hook, proc, durable, starts, inits, spent>>

\* A failed requirement or child process (failed.json is for the reader only), or
\* the time limit of the unit.
JobFails(b) ==
    /\ unit[b].st = "running" /\ unit[b].step # "record"
    /\ unit' = [unit EXCEPT ![b] = [@ EXCEPT !.step = "record", !.ok = FALSE]]
    /\ UNCHANGED <<hook, proc, durable, history, spent>>

\* ExecStopPost, record_terminal: only an exit with status 0 of the reserved bundle.
Recordable(b) == unit[b].ok /\ active = b /\ Completed(b)

Record(b) ==
    /\ unit[b].st = "running" /\ unit[b].step = "record"
    /\ Recordable(b) /\ disk[b]["proof"] = "absent"
    /\ disk' = [disk EXCEPT ![b]["proof"] = "partial"]
    /\ unit' = [unit EXCEPT ![b].st = "stopping"]
    /\ UNCHANGED <<hook, proc, chunk, active, host, history, spent>>

\* The recorder ends: the unit of a success is unloaded, a failed unit stays loaded.
UnitEnds(b) ==
    /\ \/ /\ unit[b].st = "stopping"
          /\ disk' = [disk EXCEPT ![b]["proof"] = "full"]
          /\ unit' = [unit EXCEPT ![b] = NoUnit]
       \/ /\ unit[b].st = "stopping"
          /\ disk' \in {[disk EXCEPT ![b]["proof"] = v] : v \in {"partial", "full"}}
          /\ unit' = [unit EXCEPT ![b] = [@ EXCEPT !.st = "failed", !.ok = FALSE]]
       \/ /\ unit[b].st = "running" /\ unit[b].step = "record" /\ ~Recordable(b)
          /\ unit' = [unit EXCEPT ![b] = [@ EXCEPT !.st = "failed", !.ok = FALSE]]
          /\ UNCHANGED disk
    /\ UNCHANGED <<hook, proc, chunk, active, host, history, spent>>

\* The VM restarts: scripts and transient units are gone, a file without its fsync
\* may be gone too, and a hook that waited for a reply gets none.
Restart ==
    /\ spent.crash < MaxCrash
    /\ proc' = [p \in Proc |-> NoProc]
    /\ unit' = [b \in Bundle |-> NoUnit]
    /\ hook' = [h \in Hook |-> IF Waiting(h) THEN AfterReply(hook[h], "error") ELSE hook[h]]
    /\ \E kept \in {"partial", "absent"} :
         LET After(v) == IF v = "partial" THEN kept ELSE v
         IN /\ chunk' = [b \in Bundle |-> [i \in Chunk |-> After(chunk[b][i])]]
            /\ disk' = [b \in Bundle |-> [f \in Named |-> After(disk[b][f])]]
            /\ active' = IF active = "partial" /\ kept = "absent" THEN Nil ELSE active
    /\ spent' = [spent EXCEPT !.crash = @ + 1]
    /\ UNCHANGED <<host, history>>

-----------------------------------------------------------------------------
HookStep(h) == (\E p \in Proc : SendCommand(h, p)) \/ Start(h) \/ Deadline(h)

Script(p) ==
    Check(p) \/ PutChunk(p) \/ Submit(p) \/ Store(p) \/ Fresh(p) \/ Reserve(p)
        \/ Run(p) \/ Show(p) \/ Status(p)

Job(b) ==
    JobStarts(b) \/ JobVerifies(b) \/ JobBuilds(b) \/ JobStages(b) \/ JobActivates(b) \/ JobCompletes(b)
        \/ JobExits(b) \/ JobFails(b) \/ Record(b) \/ UnitEnds(b)

Next ==
    \/ \E h \in Hook : HookStep(h)
    \/ \E p \in Proc : Script(p) \/ LoseReply(p)
    \/ \E b \in Bundle : Job(b)
    \/ Restart

Spec == Init /\ [][Next]_vars

\* Scripts and jobs run to their end, and azd is run again after it has thrown.
FairSpec ==
    /\ Spec
    /\ \A h \in Hook : WF_vars(HookStep(h))
    /\ \A p \in Proc : WF_vars(Script(p))
    /\ \A b \in Bundle : WF_vars(Job(b))

-----------------------------------------------------------------------------
Content == {"absent", "partial", "full"}

HookRecord == [pc : Sending \cup Ended, bundle : Bundle \cup {Nil}, index : Chunk]

ScriptPlace == {"free", "check", "chunk", "submit", "bundle", "source", "fresh", "context",
                "reserve", "reserved", "run", "show", "status"}

ScriptRecord == [pc : ScriptPlace, mode : {"none", "observe", "chunk", "submit"}, owner : Hook \cup {Nil},
                 bundle : Bundle \cup {Nil}, index : Chunk, filling : BOOLEAN,
                 seen : {"unread", "inactive", "activating", "deactivating", "failed", "not-found"}]

UnitRecord == [st : {"not-found", "queued", "running", "stopping", "failed"}, ok : BOOLEAN,
               step : {"none", "verify", "build", "stage", "activate", "complete", "completing",
                       "exit", "record"}]

\* Every variable has a value the hook, the scripts, the disk and systemd can have.
TypeOK ==
    /\ hook \in [Hook -> HookRecord]
    /\ proc \in [Proc -> ScriptRecord]
    /\ chunk \in [Bundle -> [Chunk -> Content]]
    /\ disk \in [Bundle -> [Named -> Content]]
    /\ active \in Bundle \cup {Nil, "partial"}
    /\ unit \in [Bundle -> UnitRecord]
    /\ host \in [docker : BOOLEAN, runtime : BOOLEAN, fresh : BOOLEAN]
    /\ starts \in Nat /\ inits \in Nat /\ exited \subseteq Bundle
    /\ spent \in [crash : 0 .. MaxCrash, lost : 0 .. MaxLost]

\* "Neither a new hook invocation nor a service failure can rerun initialization":
\* whatever overlaps, is lost or restarts, one job starts and one initialisation runs.
OneInstallation == starts <= 1 /\ inits <= 1

\* A hook records the operator binding only for the bundle the host is reserved for,
\* and only after the job of that bundle has exited with status 0; a completion file
\* left by a job that was killed or failed is never enough (status, record_terminal).
CompletionEarned ==
    \A h \in Hook : hook[h].pc = "bound" =>
        /\ active = hook[h].bundle
        /\ hook[h].bundle \in exited
        /\ inits = 1

\* A host that had containers, volumes or a runtime unit is never installed over, also
\* when its first observation and its submission are far apart (run, install).
OnlyFreshHost == starts > 0 => host.fresh

\* A job runs only under its own reservation, with every file of its bundle complete
\* on disk: the reservation precedes systemd-run.
JobIsReserved ==
    \A b \in Bundle : unit[b].st # "not-found" =>
        active = b /\ Verified(b)

\* The same in one: one job starts, on a host that was fresh, under its own
\* reservation and with every file of its bundle complete (run, install).
OneFreshInstallation == OneInstallation /\ OnlyFreshHost /\ JobIsReserved

\* The files a script was about to write all have their content or are missing.
NoPartialFile ==
    /\ active # "partial"
    /\ \A p \in Proc : ~proc[p].filling
    /\ \A b \in Bundle : (\A i \in Chunk : chunk[b][i] # "partial") /\ (\A f \in Named : disk[b][f] # "partial")

\* An upload that was interrupted can be completed: on a fresh host azd, run again as
\* often as it throws, reserves the installation in the end (run, Invoke-PrivateVmAzdHook).
UploadResumes == host.fresh => <>(active \in Bundle)

\* A hook that has started ends: the job it polls for always ends, and is then observed.
HookEnds == \A h \in Hook : []<>(hook[h].pc \in Ended)

\* "Public source staging can resume missing identical files before job reservation":
\* the same when the VM has restarted and every file that was cut short is missing.
StagingResumes == host.fresh => <>(active \in Bundle \/ [](~NoPartialFile))

=============================================================================
