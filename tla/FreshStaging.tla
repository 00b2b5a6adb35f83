---------------------------- MODULE FreshStaging ----------------------------
(***************************************************************************)
(* Staging of one fresh core namespace (stage_runtime.py with              *)
(* prepare_zentral_eval.py).  Stagers check their destination, reserve and *)
(* fill it, require an unused Compose namespace, start the dependencies    *)
(* and run the database initializer in a container of its own.  The        *)
(* container outlives a killed or timed-out client: a stager that sees its *)
(* step fail stops the container it can identify; one that is killed stops *)
(* nothing.  What the initializer does inside is DatabaseRoles; here it    *)
(* ends with or without its completion receipt.                            *)
(***************************************************************************)
EXTENDS Naturals, FiniteSets, Provisioners

VARIABLES stager,       \* step, destination and project of each invocation
          staged,        \* files in each destination
          owner,        \* the stager that made each destination
          backing,      \* who created a project's volumes and network: see Init
          job,          \* the initializer container of each project
          launches,     \* initializers ever started for a project
          complete      \* projects whose initializer wrote attempt.json.complete

stagingVars == <<stager, staged, owner, backing, job, launches, complete>>

Old == "old"            \* volumes left by an earlier installation
NoStager == [pc |-> "start", dest |-> Nil, project |-> Nil]

StagingInit ==
    /\ stager = [s \in Stager |-> NoStager]
    /\ staged = [d \in Destination |-> {}]
    /\ owner = [d \in Destination |-> Nil]
    /\ backing \in [Project -> {{}, {Old}}]
    /\ job = [p \in Project |-> "none"]
    /\ launches = [p \in Project |-> 0]
    /\ complete = {}

StagerAt(s, pc) == stager[s].pc = pc
StagerGoto(s, pc) == stager' = [stager EXCEPT ![s].pc = pc]
MyFiles(s) == staged[stager[s].dest]
Save(s, f) == staged' = [staged EXCEPT ![stager[s].dest] = @ \cup {f}]

-----------------------------------------------------------------------------
\* stage up to prepare: an absent destination, the exact image and its labels.
CheckDestination(s, d) ==
    /\ StagerAt(s, "start") /\ owner[d] = Nil
    /\ stager' = [stager EXCEPT ![s] = [@ EXCEPT !.pc = "reserve", !.dest = d]]
    /\ UNCHANGED <<staged, owner, backing, job, launches, complete>>

\* prepare: pinned sources and lock, fresh secrets, a random project name, then
\* the exclusive mkdir.  Two preparations do not draw the same 48 random bits.
ReserveDestination(s, p) ==
    /\ StagerAt(s, "reserve") /\ owner[stager[s].dest] = Nil
    /\ \A t \in Stager : stager[t].project # p
    /\ owner' = [owner EXCEPT ![stager[s].dest] = s]
    /\ stager' = [stager EXCEPT ![s] = [@ EXCEPT !.pc = "fill", !.project = p]]
    /\ UNCHANGED <<staged, backing, job, launches, complete>>

\* The configuration, the environment files, compose.json and the provenance are
\* written, each exclusively, and stage checks the credential separation in them.
Fill(s) ==
    /\ StagerAt(s, "fill")
    /\ Save(s, "compose")
    /\ StagerGoto(s, "namespace")
    /\ UNCHANGED <<owner, backing, job, launches, complete>>

\* Mutant of Namespace: only containers are looked for, not what they left.
NamespaceContainers(s) ==
    /\ StagerAt(s, "namespace") /\ job[stager[s].project] = "none"
    /\ StagerGoto(s, "dependencies")
    /\ UNCHANGED <<staged, owner, backing, job, launches, complete>>

\* No container, volume or network of the project exists; then the Compose
\* capability, the bytes in the image and the configuration are probed.
Namespace(s) ==
    /\ StagerAt(s, "namespace") /\ job[stager[s].project] = "none" /\ backing[stager[s].project] = {}
    /\ StagerGoto(s, "dependencies")
    /\ UNCHANGED <<staged, owner, backing, job, launches, complete>>

\* up --no-recreate of the four dependencies creates missing volumes only.
Dependencies(s) ==
    /\ StagerAt(s, "dependencies")
    /\ backing' = [backing EXCEPT ![stager[s].project] = IF @ = {} THEN {s} ELSE @]
    /\ StagerGoto(s, "wait")
    /\ UNCHANGED <<staged, owner, job, launches, complete>>

\* All four are ready before their deadlines; the binding is retained first.
Bind(s) ==
    /\ StagerAt(s, "wait")
    /\ Save(s, "binding")
    /\ StagerGoto(s, "launch")
    /\ UNCHANGED <<owner, backing, job, launches, complete>>

\* compose run of the named initializer with migration.env.
LaunchInitializer(s) ==
    /\ StagerAt(s, "launch")
    /\ job' = [job EXCEPT ![stager[s].project] = "running"]
    /\ launches' = [launches EXCEPT ![stager[s].project] = @ + 1]
    /\ StagerGoto(s, "initialize")
    /\ UNCHANGED <<staged, owner, backing, complete>>

\* The initializer itself: it completes, or it ends without its receipt.
InitializerWrites(p) ==
    /\ job[p] = "running" /\ p \notin complete
    /\ complete' = complete \cup {p}
    /\ UNCHANGED <<stager, staged, owner, backing, job, launches>>

InitializerEnds(p) ==
    /\ job[p] = "running"
    /\ \/ p \in complete /\ job' = [job EXCEPT ![p] = "ok"]
       \/ job' = [job EXCEPT ![p] = "failed"]
    /\ UNCHANGED <<stager, staged, owner, backing, launches, complete>>

\* Exit code 0 within 600 seconds, and a valid completion receipt.
Initialized(s) ==
    /\ StagerAt(s, "initialize") /\ job[stager[s].project] = "ok"
    /\ stager[s].project \in complete
    /\ StagerGoto(s, "checks")
    /\ UNCHANGED <<staged, owner, backing, job, launches, complete>>

\* A timeout or a nonzero exit: the container is inspected by its unique name and
\* stopped by its ID if it is this stage's.  A container that is gone needs
\* nothing; one that cannot be identified or stopped is left for inspection.
NotInitialized(s) ==
    LET p == stager[s].project IN
    /\ StagerAt(s, "initialize")
    /\ \/ /\ job' = [job EXCEPT ![p] = IF @ = "running" THEN "failed" ELSE @]
          /\ StagerGoto(s, "failed")
       \/ job[p] = "running" /\ StagerGoto(s, "inspect") /\ UNCHANGED job
    /\ UNCHANGED <<staged, owner, backing, launches, complete>>

\* Mutant of Receipt: the receipt is written before the initializer is known.
ReceiptEarly(s) ==
    /\ stager[s].pc \in {"initialize", "checks"}
    /\ Save(s, "receipt")
    /\ StagerGoto(s, "done")
    /\ UNCHANGED <<owner, backing, job, launches, complete>>

\* The authority, Django and store checks pass with the runtime's credentials.
Receipt(s) ==
    /\ StagerAt(s, "checks")
    /\ Save(s, "receipt")
    /\ StagerGoto(s, "done")
    /\ UNCHANGED <<owner, backing, job, launches, complete>>

StageEnded == {"done", "failed", "inspect", "killed"}

\* A refusal or a failed step other than the initializer's ends the stage.
Refuse(s) ==
    /\ stager[s].pc \notin StageEnded \cup {"start", "initialize"}
    /\ StagerGoto(s, "failed")
    /\ UNCHANGED <<staged, owner, backing, job, launches, complete>>

\* The stager is killed; containers and files stay.
Kill(s) ==
    /\ stager[s].pc \notin StageEnded \cup {"start"}
    /\ StagerGoto(s, "killed")
    /\ UNCHANGED <<staged, owner, backing, job, launches, complete>>

StagingNext ==
    \/ \E s \in Stager :
          \/ \E d \in Destination : CheckDestination(s, d)
          \/ \E p \in Project : ReserveDestination(s, p)
          \/ Fill(s) \/ Namespace(s) \/ Dependencies(s) \/ Bind(s) \/ LaunchInitializer(s)
          \/ Initialized(s) \/ NotInitialized(s) \/ Receipt(s) \/ Refuse(s) \/ Kill(s)
    \/ \E p \in Project : InitializerWrites(p) \/ InitializerEnds(p)

StagingSpec == StagingInit /\ [][StagingNext]_stagingVars

-----------------------------------------------------------------------------
(* Properties.                                                             *)

StagingTypeOK ==
    /\ stager \in [Stager ->
          [pc : StageEnded \cup {"start", "reserve", "fill", "namespace", "dependencies", "wait",
                           "launch", "initialize", "checks"},
           dest : Destination \cup {Nil}, project : Project \cup {Nil}]]
    /\ staged \in [Destination -> SUBSET {"compose", "binding", "receipt"}]
    /\ owner \in [Destination -> Stager \cup {Nil}]
    /\ backing \in [Project -> SUBSET (Stager \cup {Old})]
    /\ job \in [Project -> {"none", "running", "ok", "failed"}]
    /\ launches \in [Project -> Nat]
    /\ complete \subseteq Project

\* Two invocations never work in one destination, although both may have found
\* it absent (the mkdir in prepare).
OneStagerPerDestination ==
    \A s \in Stager : stager[s].project # Nil => owner[stager[s].dest] = s

\* The initializer runs once, and only over volumes its own stager created.
InitializesOnce ==
    \A p \in Project : launches[p] > 0 =>
        launches[p] = 1 /\ \E s \in Stager : backing[p] = {s} /\ stager[s].project = p

\* A stage receipt means that the initializer exited with 0 and wrote its own
\* receipt, and that nothing with the owner's credentials still runs.
ReceiptMeansInitialized ==
    \A s \in Stager : (StagerAt(s, "done") \/ (stager[s].dest # Nil /\ owner[stager[s].dest] = s
                                          /\ "receipt" \in MyFiles(s))) =>
        /\ job[stager[s].project] = "ok" /\ stager[s].project \in complete
        /\ {"compose", "binding"} \subseteq MyFiles(s)

\* A stage that reports failure leaves no initializer running, unless it was
\* killed or could not identify or stop the container.
FailureContained ==
    \A s \in Stager : StagerAt(s, "failed") /\ stager[s].project # Nil =>
        job[stager[s].project] # "running"

\* Two stagers never work in one destination, and the initializer runs once, over
\* volumes its own stager created: never over the data of an earlier installation
\* (the namespace inventory of stage and the mkdir in prepare).
InitializesOwnData == OneStagerPerDestination /\ InitializesOnce

\* What a stage reports is so: with a receipt the initializer has finished and
\* nothing with the owner's credentials runs; with a failure no initializer is left
\* running, unless the stage was killed or could not identify or stop the container.
StageReportsTrue == ReceiptMeansInitialized /\ FailureContained
=============================================================================
