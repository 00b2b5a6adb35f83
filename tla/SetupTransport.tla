--------------------------- MODULE SetupTransport ---------------------------
(***************************************************************************)
(* Operator setup through Azure Run Command.  A caller                     *)
(* (Invoke-SantaOperatorSetup.ps1, SetupTransport.psm1) prepares a request *)
(* with a fresh context, checkpoints it locally and submits it; a host     *)
(* script (operator_setup_host.py) attests the runtime, reserves the       *)
(* context durably and runs the operator_access command in the attested    *)
(* web container; a readback script only reads the artifact of the         *)
(* original command.  A submitted script may start late, twice or never,   *)
(* its reply may be lost, the docker client may be killed while the        *)
(* command runs on, and the host may restart.                              *)
(*                                                                         *)
(* A file is "absent", "partial" from its exclusive creation, and "full"   *)
(* after its fsync.                                                        *)
(***************************************************************************)
EXTENDS Naturals, FiniteSets

CONSTANTS Context,     \* requests: nonce, recipient, identity, mode and binding
          Faulty,      \* those whose request or VM the host refuses
          Script,      \* host scripts that may run at the same time
          MaxRuns,     \* bound on the runs of one submitted operation
          MaxRestart,  \* bound on restarts of the host
          MaxWeb,      \* bound on replacements of the web container
          None

ASSUME SetupAssumption ==
    /\ Faulty \subseteq Context /\ None \notin Context
    /\ MaxRuns \in Nat /\ MaxRestart \in Nat /\ MaxWeb \in Nat

VARIABLES caller,      \* the step of the caller of each context
          local,       \* its checkpoint files
          delivered,   \* contexts whose link the recipient has
          runs,        \* scripts started for each operation of a context
          script,      \* the host scripts
          folder,      \* operator-setup/<context> on the host
          artifact,    \* the sealed artifact in the media volume
          command,     \* operator_access in the container
          commits,     \* resets committed for each context
          web,         \* the web container: its ID, and whether it is the bound one
          begun,       \* operator_access commands started for each context
          restarts

callerVars == <<caller, local, delivered>>
commandVars == <<artifact, command, commits, begun>>
hostVars == <<folder, web, restarts>>
vars == <<callerVars, runs, script, hostVars, commandVars>>

Op == {"create", "readback"}
File == {"folder", "request", "attempt", "exit", "sealed"}
NoScript == [pc |-> "free", ctx |-> None, op |-> "create", id |-> 0, filling |-> FALSE]

Init ==
    /\ caller = [c \in Context |-> "new"]
    /\ local = [c \in Context |-> {}]
    /\ delivered = {}
    /\ runs = [c \in Context |-> [o \in Op |-> 0]]
    /\ script = [s \in Script |-> NoScript]
    /\ folder = [c \in Context |-> [f \in File |-> "absent"]]
    /\ artifact = [c \in Context |-> "absent"]
    /\ command = [c \in Context |-> "idle"]
    /\ commits = [c \in Context |-> 0]
    /\ begun = [c \in Context |-> 0]
    /\ \E bound \in BOOLEAN : web = [id |-> 0, bound |-> bound]
    /\ restarts = 0

-----------------------------------------------------------------------------
(* The caller.                                                             *)

\* Send-SantaSetupRunCommand up to the submission: an exclusive local checkpoint.
Submit(c, o) ==
    /\ caller[c] = IF o = "create" THEN "new" ELSE "unknown"
    /\ <<o, "submitted">> \notin local[c]
    /\ local' = [local EXCEPT ![c] = @ \cup {<<o, "submitted">>}]
    /\ caller' = [caller EXCEPT ![c] = o]
    /\ UNCHANGED <<delivered, runs, script, hostVars, commandVars>>

\* The send failed before its checkpoint, or its reply is missing or refused: after
\* a create, one readback by explicit choice.  The key is gone when the caller stops.
Unknown(c) ==
    /\ caller[c] \in Op \cup {"new"}
    /\ \/ caller[c] # "readback" /\ caller' = [caller EXCEPT ![c] = "unknown"]
       \/ caller' = [caller EXCEPT ![c] = "stopped"]
    /\ UNCHANGED <<local, delivered, runs, script, hostVars, commandVars>>

\* The caller ends or is killed; its in-memory recipient key is disposed of.
Stop(c) ==
    /\ caller[c] \in {"unknown", "received"}
    /\ caller' = [caller EXCEPT ![c] = "stopped"]
    /\ UNCHANGED <<local, delivered, runs, script, hostVars, commandVars>>

\* Receive-SantaSetupEnvelope: bindings, decryption, expiry, then delivery.
Receive(c) ==
    /\ caller[c] = "received"
    /\ delivered' = delivered \cup {c}
    /\ caller' = [caller EXCEPT ![c] = "stopped"]
    /\ UNCHANGED <<local, runs, script, hostVars, commandVars>>

-----------------------------------------------------------------------------
(* The host script.  The guards are the script's needs: a script that      *)
(* fails one, or meets its 300 second alarm, ends in Abort.                *)

Set(s, pc) == [script EXCEPT ![s].pc = pc]
Mine(s, f) == folder[script[s].ctx][f]

\* A submitted operation reaches the VM: at once, late, or once more.
Launch(s, c, o) ==
    /\ script[s] = NoScript
    /\ <<o, "submitted">> \in local[c]
    /\ runs[c][o] < MaxRuns
    /\ runs' = [runs EXCEPT ![c][o] = @ + 1]
    /\ script' = [script EXCEPT ![s] = [NoScript EXCEPT !.pc = "attest", !.ctx = c, !.op = o]]
    /\ UNCHANGED <<callerVars, hostVars, commandVars>>

\* request_from_environment and attest_metadata: this request, on this VM.
Accepted(c) == c \notin Faulty

\* attest_runtime: every service's container, image, mounts, ports and probes
\* are the bound ones.  It returns the ID of the web container.
Attest(s) ==
    /\ script[s].pc = "attest"
    /\ Accepted(script[s].ctx) /\ web.bound
    /\ script' = [script EXCEPT ![s].pc = IF script[s].op = "create" THEN "reserve" ELSE "check",
                                ![s].id = web.id]
    /\ UNCHANGED <<callerVars, runs, hostVars, commandVars>>

\* folder.mkdir: the cross-process mutation lock, never released.
Reserve(s) ==
    /\ script[s].pc = "reserve" /\ Mine(s, "folder") = "absent"
    /\ folder' = [folder EXCEPT ![script[s].ctx]["folder"] = "full"]
    /\ script' = Set(s, "request")
    /\ UNCHANGED <<callerVars, runs, web, restarts, commandVars>>

\* Mutant of AfterWrite: the attempt is recorded when the command has ended.
AttemptAfterExec == [request |-> "exec", attempt |-> "compare", exit |-> "attempt", sealed |-> "reply"]

\* What follows the durable write of a file.
AfterWrite == [request |-> "attempt", attempt |-> "exec", exit |-> "compare", sealed |-> "reply"]

\* write_new: exclusive creation, then contents and fsync of file and directory.
WriteNew(s) ==
    /\ script[s].pc \in DOMAIN AfterWrite
    /\ LET f == script[s].pc
           was == IF script[s].filling THEN "partial" ELSE "absent"
       IN  /\ Mine(s, f) = was
           /\ folder' = [folder EXCEPT ![script[s].ctx][f] =
                            IF script[s].filling THEN "full" ELSE "partial"]
           /\ script' = [script EXCEPT ![s].filling = ~@,
                                       ![s].pc = IF script[s].filling THEN AfterWrite[f] ELSE @]
    /\ UNCHANGED <<callerVars, runs, web, restarts, commandVars>>

\* Mutant of Reached: docker exec by service name instead of container ID.
ReachedByName(s) == TRUE

\* docker exec on the inspected container ID only; a replaced container has another.
Reached(s) == script[s].id = web.id

Exec(s) ==
    /\ script[s].pc = "exec" /\ Reached(s)
    /\ command' = [command EXCEPT ![script[s].ctx] = "running"]
    /\ begun' = [begun EXCEPT ![script[s].ctx] = @ + 1]
    /\ script' = Set(s, "wait")
    /\ UNCHANGED <<callerVars, runs, hostVars, artifact, commits>>

\* The command's exit code: 0 goes on to the comparison, any other is recorded
\* and then refused.
Exited(s) ==
    /\ script[s].pc = "wait"
    /\ command[script[s].ctx] \in {"done", "failed", "killed"}
    /\ script' = Set(s, "exit")
    /\ UNCHANGED <<callerVars, runs, hostVars, commandVars>>

\* Mutant of Envelope: an artifact that is only reserved passes for complete.
EnvelopeReserved(s) == Reached(s) /\ artifact[script[s].ctx] # "absent"

\* read_artifact and envelope: a complete envelope bound to this request.
Envelope(s) == Reached(s) /\ artifact[script[s].ctx] = "full"

Compare(s) ==
    /\ script[s].pc = "compare"
    /\ command[script[s].ctx] = "done" /\ Envelope(s)
    /\ script' = Set(s, "sealed")
    /\ UNCHANGED <<callerVars, runs, hostVars, commandVars>>

\* Readback: the same request was attempted here.  It never runs operator_access.
CheckAttempt(s) ==
    /\ script[s].pc = "check"
    /\ Mine(s, "request") = "full" /\ Mine(s, "attempt") # "absent"
    /\ script' = Set(s, "read")
    /\ UNCHANGED <<callerVars, runs, hostVars, commandVars>>

ReadArtifact(s) ==
    /\ script[s].pc = "read" /\ Envelope(s)
    /\ script' = Set(s, "cross")
    /\ UNCHANGED <<callerVars, runs, hostVars, commandVars>>

\* A sealed.json that exists must be the artifact.
CrossCheck(s) ==
    /\ script[s].pc = "cross" /\ Mine(s, "sealed") # "partial"
    /\ script' = Set(s, "reply")
    /\ UNCHANGED <<callerVars, runs, hostVars, commandVars>>

\* The marker is printed.  A caller still waiting for this operation validates
\* the envelope and writes its terminal checkpoint; otherwise nobody hears it.
Reply(s) ==
    LET c == script[s].ctx  o == script[s].op IN
    /\ script[s].pc = "reply"
    /\ script' = [script EXCEPT ![s] = NoScript]
    /\ IF caller[c] = o
       THEN /\ caller' = [caller EXCEPT ![c] = "received"]
            /\ local' = [local EXCEPT ![c] = @ \cup {<<o, "terminal">>}]
       ELSE UNCHANGED <<caller, local>>
    /\ UNCHANGED <<delivered, runs, hostVars, commandVars>>

\* A refusal, a killed docker client (the command runs on), or the alarm.
Abort(s) ==
    /\ script[s] # NoScript
    /\ script' = [script EXCEPT ![s] = NoScript]
    /\ UNCHANGED <<callerVars, runs, hostVars, commandVars>>

-----------------------------------------------------------------------------
(* operator_access in the container.                                       *)

\* reserve_output: the artifact is created exclusively before the transaction.
ReserveOutput(c) ==
    /\ command[c] = "running" /\ artifact[c] = "absent"
    /\ artifact' = [artifact EXCEPT ![c] = "partial"]
    /\ command' = [command EXCEPT ![c] = "reserved"]
    /\ UNCHANGED <<callerVars, runs, script, hostVars, commits, begun>>

\* The durable transaction: reset, link and sealing, all or nothing.
Commit(c) ==
    /\ command[c] = "reserved"
    /\ commits' = [commits EXCEPT ![c] = @ + 1]
    /\ command' = [command EXCEPT ![c] = "committed"]
    /\ UNCHANGED <<callerVars, runs, script, hostVars, artifact, begun>>

\* The artifact is written and synced after the commit.
WriteArtifact(c) ==
    /\ command[c] = "committed"
    /\ artifact' = [artifact EXCEPT ![c] = "full"]
    /\ command' = [command EXCEPT ![c] = "written"]
    /\ UNCHANGED <<callerVars, runs, script, hostVars, commits, begun>>

\* The audit event is submitted, the queues stopped, the envelope printed last.
Finish(c) ==
    /\ command[c] = "written"
    /\ command' = [command EXCEPT ![c] = "done"]
    /\ UNCHANGED <<callerVars, runs, script, hostVars, artifact, commits, begun>>

Live == {"running", "reserved", "committed", "written"}

\* An exception, reported by a nonzero exit, leaves what was done so far.
Fail(c) ==
    /\ command[c] \in Live
    /\ command' = [command EXCEPT ![c] = "failed"]
    /\ UNCHANGED <<callerVars, runs, script, hostVars, artifact, commits, begun>>

Killed == [c \in Context |-> IF command[c] \in Live THEN "killed" ELSE command[c]]

\* The web container is replaced, by the bound image or by another.
ReplaceWeb ==
    /\ web.id < MaxWeb
    /\ \E bound \in BOOLEAN : web' = [id |-> web.id + 1, bound |-> bound]
    /\ command' = Killed
    /\ UNCHANGED <<callerVars, runs, script, folder, restarts, artifact, commits, begun>>

\* The host restarts: scripts and commands are gone, files stay.
Restart ==
    /\ restarts < MaxRestart
    /\ restarts' = restarts + 1
    /\ script' = [s \in Script |-> NoScript]
    /\ command' = Killed
    /\ UNCHANGED <<callerVars, runs, folder, web, artifact, commits, begun>>

-----------------------------------------------------------------------------
CallerStep(c) == Unknown(c) \/ Stop(c) \/ Receive(c) \/ \E o \in Op : Submit(c, o)

ScriptStep(s) ==
    \/ Attest(s) \/ Reserve(s) \/ WriteNew(s) \/ Exec(s) \/ Exited(s) \/ Compare(s)
    \/ CheckAttempt(s) \/ ReadArtifact(s) \/ CrossCheck(s) \/ Reply(s) \/ Abort(s)

CommandStep(c) ==
    ReserveOutput(c) \/ Commit(c) \/ WriteArtifact(c) \/ Finish(c) \/ Fail(c)

Next ==
    \/ \E c \in Context : CallerStep(c) \/ CommandStep(c)
    \/ \E s \in Script : ScriptStep(s)
    \/ \E s \in Script, c \in Context, o \in Op : Launch(s, c, o)
    \/ ReplaceWeb \/ Restart

Spec == Init /\ [][Next]_vars

-----------------------------------------------------------------------------
(* Properties.                                                             *)

TypeOK ==
    /\ caller \in [Context -> {"new", "create", "readback", "unknown", "received", "stopped"}]
    /\ local \in [Context -> SUBSET (Op \X {"submitted", "terminal"})]
    /\ delivered \subseteq Context
    /\ runs \in [Context -> [Op -> 0 .. MaxRuns]]
    /\ script \in [Script -> [pc : {"free", "attest", "reserve", "request", "attempt", "exec",
                                    "wait", "exit", "compare", "sealed", "check", "read",
                                    "cross", "reply"},
                              ctx : Context \cup {None}, op : Op, id : Nat, filling : BOOLEAN]]
    /\ folder \in [Context -> [File -> {"absent", "partial", "full"}]]
    /\ artifact \in [Context -> {"absent", "partial", "full"}]
    /\ command \in [Context -> Live \cup {"idle", "done", "failed", "killed"}]
    /\ commits \in [Context -> Nat]
    /\ begun \in [Context -> Nat]
    /\ web \in [id : Nat, bound : BOOLEAN]
    /\ restarts \in Nat

\* operator_access is attempted at most once for a context, although its create
\* may reach the VM twice, concurrently, or again after a restart (the folder
\* reservation in operator_setup_host.run).
OneAttempt == \A c \in Context : begun[c] <= 1

\* Before the account can change, the caller's checkpoint, the request and the
\* attempt record are durable, so a reset never happens without a trace that
\* readback accepts (write_new before docker exec).
RecordedFirst ==
    \A c \in Context : begun[c] > 0 =>
        /\ <<"create", "submitted">> \in local[c]
        /\ folder[c]["request"] = "full" /\ folder[c]["attempt"] = "full"

\* operator_access starts only in the bound web container and for a request the
\* host accepts, even when the container is replaced after the attestation.
RunsWhereAttested ==
    [][\A c \in Context : begun'[c] # begun[c] => web.bound /\ Accepted(c)]_vars

\* A confirmed create (sealed.json, or the terminal checkpoint of the caller)
\* means the command exited with 0 after its commit, and the artifact is whole.
ConfirmedMeansDone ==
    \A c \in Context :
        (folder[c]["sealed"] # "absent" \/ <<"create", "terminal">> \in local[c]) =>
            /\ folder[c]["exit"] = "full"
            /\ command[c] = "done" /\ artifact[c] = "full" /\ commits[c] = 1

\* Every attempt to change the account is accounted for: it is the only one of its
\* context, it was recorded before it could run, and it is confirmed only when done.
AttemptsAccounted == OneAttempt /\ RecordedFirst /\ ConfirmedMeansDone

\* Setup keeps its promise: one reset per request, and delivery only after it.
Promise == INSTANCE SetupPromise
KeepsPromise == Promise!Spec
=============================================================================
