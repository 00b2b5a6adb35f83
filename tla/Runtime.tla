------------------------------- MODULE Runtime -------------------------------
(***************************************************************************)
(* The host side of the backend (experiments/server/runtime_service.py):   *)
(* the systemd-run supervisor that starts and stops the containers, and    *)
(* the explicit admission jobs, serialised by supervisor.lock and composed *)
(* with the web threads and the Redis scripts of Admission.                *)
(*                                                                         *)
(* "redis" stands for the four dependency containers, which are started    *)
(* and stopped together, and "workers" for workers and celery.             *)
(***************************************************************************)
EXTENDS AdmissionConfig, Integers, FiniteSets

CONSTANT MaxId   \* bound: incarnations of a container

App == {"web", "workers"}

Container == App \cup {"redis"}

VARIABLES
  stored, permits, count, ttl, pc, permit, inflight,   \* see Admission
  running,   \* containers whose process is alive
  current,   \* the incarnation (Docker ID) each compose service has now
  anchor,    \* container-generation.json: the original incarnations
  unit,      \* the systemd unit is installed
  lock,      \* who holds the flock on supervisor.lock
  sup,       \* the step the supervisor is about to take, "off" without one
  term,      \* self.stopping: SIGTERM or SIGINT was received
  cleanup,   \* self.cleanup_ids: the incarnations stop() may stop
  job,       \* the step the admission job is about to take
  chosen     \* the incarnations the admission job inspected

serveVars == <<stored, permits, count, ttl, pc, permit, inflight>>
dockerVars == <<running, current>>
supVars == <<sup, term, cleanup>>
jobVars == <<job, chosen>>
vars == <<serveVars, dockerVars, anchor, unit, lock, supVars, jobVars>>

A == INSTANCE Admission WITH open <- running["web"]

Incarnations == [Container -> 0 .. MaxId]

\* The order of Runtime.start; "ready" is the five-second supervision loop.
Steps == <<"inspect", "close", "dependencies", "checks", "admission", "workers",
           "consumers", "listener", "verify", "http", "ready">>

Active == {Steps[i] : i \in 1 .. 11}

NextStep(step) == Steps[1 + CHOOSE i \in 1 .. 10 : Steps[i] = step]

TypeOK ==
  /\ A!TypeOK
  /\ running \in [Container -> BOOLEAN]
  /\ current \in Incarnations
  /\ anchor \in Incarnations \cup {None}
  /\ unit \in BOOLEAN
  /\ lock \in {"free", "supervisor", "job"}
  /\ sup \in Active \cup {"off", "stopping"}
  /\ term \in BOOLEAN
  /\ cleanup \in Incarnations \cup {None}
  /\ job \in {"off", "bind", "quiescence", "reconcile"}
  /\ chosen \in Incarnations \cup {None}

\* A created project: dependencies initialised and running, apps never started.
Init ==
  /\ running = [c \in Container |-> c = "redis"]
  /\ A!Init
  /\ current = [c \in Container |-> 0]
  /\ anchor = None
  /\ unit = FALSE
  /\ lock = "free"
  /\ sup = "off" /\ term = FALSE /\ cleanup = None
  /\ job = "off" /\ chosen = None

-----------------------------------------------------------------------------
(* Docker and the requests being served.                                   *)

\* The outcomes of stopping or starting some containers when the command may
\* have failed or timed out half way.
StopOutcomes(cs) == {r \in [Container -> BOOLEAN] :
                       \A c \in Container : r[c] = running[c] \/ (c \in cs /\ ~ r[c])}

StartOutcomes(cs) == {r \in [Container -> BOOLEAN] :
                        \A c \in Container : r[c] = running[c] \/ (c \in cs /\ r[c])}

\* The containers change; with the web process its threads end.
Becomes(r) ==
  LET webEnds == running["web"] /\ ~ r["web"] IN
  /\ running' = r
  /\ pc' = IF webEnds THEN [t \in Thread |-> "idle"] ELSE pc
  /\ permit' = IF webEnds THEN [t \in Thread |-> None] ELSE permit
  /\ UNCHANGED <<stored, permits, count, ttl, inflight>>

Serve ==
  /\ UNCHANGED <<dockerVars, anchor, unit, lock, supVars, jobVars>>
  /\ \/ A!ThreadStep
     \/ A!Tick
     \/ running["redis"] /\ A!ScriptRuns
     \/ ~ running["redis"] /\ \E c \in inflight : A!Unavailable(c)

\* A container exits on its own; the restart policy is "no".
ContainerExits(c) ==
  /\ running[c]
  /\ Becomes([running EXCEPT ![c] = FALSE])
  /\ UNCHANGED <<current, anchor, unit, lock, supVars, jobVars>>

\* Somebody recreates a service: a new container, not started.
Replaced(c) ==
  /\ current[c] < MaxId
  /\ current' = [current EXCEPT ![c] = @ + 1]
  /\ Becomes([running EXCEPT ![c] = FALSE])
  /\ UNCHANGED <<anchor, unit, lock, supVars, jobVars>>

-----------------------------------------------------------------------------
(* The supervisor.                                                         *)

\* systemd at boot, after a failure or on request; flock must be free.
Launch ==
  /\ unit
  /\ sup = "off" /\ lock = "free"
  /\ sup' = "inspect" /\ term' = FALSE /\ cleanup' = None
  /\ lock' = "supervisor"
  /\ UNCHANGED <<serveVars, dockerVars, anchor, unit, jobVars>>

Signal ==
  /\ sup \in Active /\ ~ term
  /\ term' = TRUE
  /\ UNCHANGED <<serveVars, dockerVars, anchor, unit, lock, sup, cleanup, jobVars>>

\* One step of start() is done; self.ids still name the current containers.
Proceed(step, r) ==
  /\ sup = step /\ ~ term
  /\ Becomes(r)
  /\ sup' = NextStep(step)
  /\ UNCHANGED <<current, anchor, unit, lock, term, jobVars>>

Selected == cleanup = current

\* Mutant of Inspect: the inspected containers are authorised without the anchor.
InspectArms ==
  /\ cleanup' = current
  /\ Proceed("inspect", running)

\* inspect, then container_generation: only equality with the anchor arms cleanup.
Inspect ==
  /\ anchor = current
  /\ cleanup' = anchor
  /\ Proceed("inspect", running)

CloseAdmission ==
  /\ Proceed("close", [c \in Container |-> running[c] /\ c \notin App])
  /\ UNCHANGED cleanup

StartIds(step, cs) ==
  /\ Selected
  /\ Proceed(step, [c \in Container |-> running[c] \/ c \in cs])
  /\ UNCHANGED cleanup

\* Database, source, schema and security-store checks.
Checks ==
  /\ Selected
  /\ running["redis"]
  /\ Proceed("checks", running)
  /\ UNCHANGED cleanup

\* check(require_empty=True) in a one-off container, then the search check.  The
\* script reaches Redis after those the previous web process had sent.
CheckAdmission ==
  /\ Selected
  /\ running["redis"] /\ inflight = {}
  /\ stored
  /\ \A s \in A!Slot : permits[s] = None
  /\ Proceed("admission", running)
  /\ UNCHANGED cleanup

Consumers ==
  /\ running["redis"] /\ running["workers"]
  /\ Proceed("consumers", running)
  /\ UNCHANGED cleanup

Verify ==
  /\ Selected
  /\ \A c \in Container : running[c]
  /\ Proceed("verify", running)
  /\ UNCHANGED cleanup

HttpReady ==
  /\ running["web"]
  /\ Proceed("http", running)
  /\ UNCHANGED cleanup

\* What a failing, timed out or cancelled step may still have done.
StepOutcomes ==
  CASE sup = "close" -> StopOutcomes(App)
    [] sup = "dependencies" /\ Selected -> StartOutcomes({"redis"})
    [] sup = "workers" /\ Selected -> StartOutcomes({"workers"})
    [] sup = "listener" /\ Selected -> StartOutcomes({"web"})
    [] OTHER -> {running}

\* Mutant of Abandon: the supervision loop does not look.
AbandonNotReady ==
  /\ sup \in Active \ {"ready"}
  /\ \E r \in StepOutcomes : Becomes(r)
  /\ sup' = "stopping"
  /\ UNCHANGED <<current, anchor, unit, lock, term, cleanup, jobVars>>

\* A check or command fails, or cancellation is noticed: on to the finally block.
Abandon ==
  /\ sup \in Active
  /\ \E r \in StepOutcomes : Becomes(r)
  /\ sup' = "stopping"
  /\ UNCHANGED <<current, anchor, unit, lock, term, cleanup, jobVars>>

\* stop(): the authorised containers that still exist.
Authorised == {c \in Container : cleanup # None /\ cleanup[c] = current[c]}

Leave(r) ==
  /\ sup = "stopping"
  /\ Becomes(r)
  /\ sup' = "off" /\ term' = FALSE /\ cleanup' = None
  /\ lock' = "free"
  /\ UNCHANGED <<current, anchor, unit, jobVars>>

Stop == Leave([c \in Container |-> running[c] /\ c \notin Authorised])

StopFails == \E r \in StopOutcomes(Authorised) : Leave(r)

\* SIGKILL, also in the middle of a Docker command.
Killed ==
  /\ sup # "off"
  /\ \E r \in StepOutcomes : Becomes(r)
  /\ sup' = "off" /\ term' = FALSE /\ cleanup' = None
  /\ lock' = "free"
  /\ UNCHANGED <<current, anchor, unit, jobVars>>

Reboot ==
  /\ Becomes([c \in Container |-> FALSE])
  /\ sup' = "off" /\ term' = FALSE /\ cleanup' = None
  /\ job' = "off" /\ chosen' = None
  /\ lock' = "free"
  /\ UNCHANGED <<current, anchor, unit>>

-----------------------------------------------------------------------------
(* The explicit admission jobs.                                            *)

BeginJob(step) ==
  /\ job = "off" /\ lock = "free"
  /\ job' = step /\ chosen' = current
  /\ lock' = "job"
  /\ UNCHANGED <<serveVars, dockerVars, anchor, unit, supVars>>

\* bind_admission_fresh: lock, no anchor, no unit, first inspection.
BindFresh ==
  /\ anchor = None /\ ~ unit
  /\ \A c \in Container : running[c] <=> c \notin App
  /\ BeginJob("bind")

EndJob == job' = "off" /\ chosen' = None /\ lock' = "free"

\* The second inspection must agree before the anchor is written.
BindWrite ==
  /\ job = "bind"
  /\ current = chosen
  /\ anchor' = chosen
  /\ EndJob
  /\ UNCHANGED <<serveVars, dockerVars, unit, supVars>>

InstallUnit ==
  /\ ~ unit
  /\ unit' = TRUE
  /\ UNCHANGED <<serveVars, dockerVars, anchor, lock, supVars, jobVars>>

\* reconcile_admission: lock, inspection and equality with the anchor.
ReconcileBegin ==
  /\ anchor = current
  /\ BeginJob("quiescence")

\* Mutant of Quiescent: a live app does not stop the job.
QuiescentUnchecked ==
  /\ job = "quiescence"
  /\ current = chosen
  /\ job' = "reconcile"
  /\ UNCHANGED <<serveVars, dockerVars, anchor, unit, lock, supVars, chosen>>

\* All apps are stopped; the helper bytes and the manifest are unchanged.
Quiescent ==
  /\ job = "quiescence"
  /\ current = chosen
  /\ \A c \in App : ~ running[c]
  /\ job' = "reconcile"
  /\ UNCHANGED <<serveVars, dockerVars, anchor, unit, lock, supVars, chosen>>

ClearPermits ==
  /\ running["redis"] /\ inflight = {}
  /\ current = chosen
  /\ \/ stored /\ permits' = [s \in A!Slot |-> None] /\ UNCHANGED stored
     \/ ~ stored /\ stored' = TRUE /\ UNCHANGED permits
  /\ UNCHANGED <<count, ttl, pc, permit, inflight>>

\* The one-off container runs reconcile(); its timeout may hide the success.
ReconcileRuns ==
  /\ job = "reconcile"
  /\ ClearPermits
  /\ EndJob
  /\ UNCHANGED <<dockerVars, anchor, unit, supVars>>

JobFails ==
  /\ job # "off"
  /\ EndJob
  /\ UNCHANGED <<serveVars, dockerVars, anchor, unit, supVars>>

\* operator_security_store fresh, before any app runs.
InitializeFresh ==
  /\ ~ stored
  /\ ~ unit /\ running["redis"]
  /\ stored' = TRUE
  /\ UNCHANGED <<permits, count, ttl, pc, permit, inflight, dockerVars, anchor, unit,
                 lock, supVars, jobVars>>

-----------------------------------------------------------------------------
Advance ==
  \/ Inspect
  \/ CloseAdmission
  \/ StartIds("dependencies", {"redis"})
  \/ Checks
  \/ CheckAdmission
  \/ StartIds("workers", {"workers"})
  \/ Consumers
  \/ StartIds("listener", {"web"})
  \/ Verify
  \/ HttpReady

Host ==
  \/ Launch \/ Signal \/ Advance \/ Abandon \/ Stop \/ StopFails \/ Killed
  \/ BindFresh \/ BindWrite \/ InstallUnit
  \/ ReconcileBegin \/ Quiescent \/ ReconcileRuns \/ JobFails
  \/ InitializeFresh

World == Reboot \/ \E c \in Container : ContainerExits(c) \/ Replaced(c)

Next == Serve \/ Host \/ World

Spec == Init /\ [][Next]_vars

\* The five-second loop finds a container gone or replaced.
Broken == sup = "ready" /\ ~ (Selected /\ \A c \in Container : running[c])

\* Every Docker call and every wait has a timeout, the supervision loop runs
\* every five seconds, and cancellation is looked at before and after each step.
FairSpec ==
  /\ Spec
  /\ WF_vars(Advance \/ (Abandon /\ sup # "ready"))
  /\ WF_vars(Abandon /\ (term \/ Broken))
  /\ WF_vars(Stop \/ StopFails)

\* Besides, systemd keeps launching the supervisor, Docker commands that are tried
\* again and again succeed, and the operator keeps trying the reconciliation
\* command; it succeeds if it can.  Resent scripts run out, and from some point on
\* there are no more reboots and kills.
OperatedSpec ==
  /\ FairSpec
  /\ SF_vars(Launch)
  /\ SF_vars(Advance)
  /\ SF_vars(Stop)
  /\ SF_vars(ReconcileBegin)
  /\ SF_vars(Quiescent)
  /\ SF_vars(ReconcileRuns)
  /\ WF_vars(JobFails)
  /\ WF_vars(Serve /\ inflight' # inflight /\ inflight' \subseteq inflight)
  /\ <>[][~ ((Reboot /\ running' # running) \/ Killed) \/ sup = "stopping"]_vars

-----------------------------------------------------------------------------
(* Properties.                                                             *)

\* The supervisor, its restarts and crashes and the admission jobs implement the
\* host steps of Admission: the listener opens only on an initialised store with
\* no held permit, and permits are cleared only while it is closed.
ImplementsAdmission == A!Spec

\* Inspection alone never arms cleanup: what stop() may stop is the anchored
\* original generation, never a replacement container.
CleanupAuthorised == cleanup # None => cleanup = anchor

\* A startup does not hang: it reaches readiness or gives up and lets go of the
\* lock, whatever containers die or are replaced under it.
StartupDecides == []<>(sup \in {"off", "ready"})

\* SIGTERM, a dead container or a replaced one ends supervision.
SupervisionEnds == term \/ Broken ~> sup = "off"

\* "Held slots block startup until explicit reconciliation": with the runtime
\* stopped, the reconciliation command clears the slots a dead web process held.
HeldSlotsReconcilable ==
  (/\ unit /\ anchor = current
   /\ \A c \in App : ~ running[c]
   /\ \E s \in A!Slot : permits[s] # None)
    ~> \A s \in A!Slot : permits[s] = None
=============================================================================
