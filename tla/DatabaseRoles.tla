---------------------------- MODULE DatabaseRoles ----------------------------
(***************************************************************************)
(* The separation of owner and runtime authority in PostgreSQL             *)
(* (database_roles.py).  Initializers, of which several may be started on  *)
(* one database, reserve a receipt, take the advisory lock, require a      *)
(* fresh database, migrate and provision it, create the restricted role in *)
(* one transaction and check it through a login of its own.  Any of them   *)
(* may be killed between two steps, and a committed transaction may be all *)
(* that is left of it.  Application containers start only after            *)
(* check_runtime, and the owner may add tables later.                      *)
(***************************************************************************)
EXTENDS Naturals, FiniteSets, Provisioners

CONSTANTS ReceiptPath,  \* receipt paths an invocation may be given
          Table,        \* application tables the migrations create
          Later,        \* tables of a later migration by the owner
          Ledger        \* the django_migrations table

VARIABLES init,         \* the step and receipt of each initializer
          receipt,      \* receipt files: "absent", "unknown" or "complete"
          lock,         \* holder of the session advisory lock
          maker,        \* who created each table: an initializer, the owner later, or Nil
          storeReady,   \* whether the Elasticsearch Store is provisioned
          acl,          \* privileges granted, see NoGrants
          role,         \* whether zentral_runtime exists
          creators,     \* the initializers that created the role
          service       \* whether application containers run

rolesVars == <<init, receipt, lock, maker, storeReady, acl, role, creators, service>>

DML == {"SELECT", "INSERT", "UPDATE", "DELETE"}
Write == DML \ {"SELECT"}
All == {Ledger} \cup Table \cup Later
tables == {t \in All : maker[t] # Nil}

\* Privileges by grantee: the database's and the schema's, each table's, and the
\* default ones of tables the owner creates later.
NoGrants(public) ==
    [public |-> [database |-> {"CONNECT", "TEMPORARY"}, schema |-> public],
     runtime |-> [database |-> {}, schema |-> {}],
     table |-> [t \in All |-> {}],
     default |-> {}]

NoInit == [pc |-> "start", path |-> Nil, session |-> TRUE]

RolesInit ==
    /\ init = [i \in Initializer |-> NoInit]
    /\ receipt = [r \in ReceiptPath |-> "absent"]
    /\ lock = Nil
    /\ maker = [t \in All |-> Nil] /\ storeReady = FALSE
    /\ \E public \in {{"USAGE"}, {"USAGE", "CREATE"}} : acl = NoGrants(public)
    /\ role = FALSE /\ creators = {} /\ service = FALSE

-----------------------------------------------------------------------------
(* The statements of the role transaction, in the order of the code.       *)

RevokePublicDatabase(a) == [a EXCEPT !.public.database = {}]
GrantDatabase(a) == [a EXCEPT !.runtime.database = @ \cup {"CONNECT", "TEMPORARY"}]
RevokePublicCreate(a) == [a EXCEPT !.public.schema = @ \ {"CREATE"}]
GrantSchema(a) == [a EXCEPT !.runtime.schema = @ \cup {"USAGE"}]
GrantTables(a) == [a EXCEPT !.table = [t \in All |-> IF t \in tables THEN @[t] \cup DML ELSE @[t]]]
RevokeLedger(a) == [a EXCEPT !.table[Ledger] = @ \ Write]
GrantDefault(a) == [a EXCEPT !.default = DML]

\* Mutant of RoleGrants: the ledger is revoked before all tables are granted.
RevokeThenGrant(a) ==
    GrantDefault(GrantTables(RevokeLedger(GrantSchema(RevokePublicCreate(GrantDatabase(
        RevokePublicDatabase(a)))))))

RoleGrants(a) ==
    GrantDefault(RevokeLedger(GrantTables(GrantSchema(RevokePublicCreate(GrantDatabase(
        RevokePublicDatabase(a)))))))

\* What the runtime role may do: its own privileges and those of PUBLIC.
May(where) == acl.public[where] \cup acl.runtime[where]

\* check_role: exactly these privileges, and the ledger only to read.
CheckRole ==
    /\ role
    /\ "CREATE" \notin May("database") /\ "TEMPORARY" \in May("database")
    /\ "CREATE" \notin May("schema") /\ "USAGE" \in May("schema")
    /\ acl.table[Ledger] \cap DML = {"SELECT"}

\* The image's migrations are all applied.
Migrated == Table \cup {Ledger} \subseteq tables

\* check_runtime: the role, no pending migration, and the one Store.
CheckRuntime == CheckRole /\ Migrated /\ storeReady

-----------------------------------------------------------------------------
(* initialize.  A need that fails, an exception or a kill ends in Quit.    *)

InitializerAt(i, pc) == init[i].pc = pc
InitializerGoto(i, pc) == init' = [init EXCEPT ![i].pc = pc]

\* The receipt is reserved and synced before the first change of the database.
ReserveReceipt(i, r) ==
    /\ InitializerAt(i, "start") /\ receipt[r] = "absent"
    /\ receipt' = [receipt EXCEPT ![r] = "unknown"]
    /\ init' = [init EXCEPT ![i] = [@ EXCEPT !.pc = "lock", !.path = r]]
    /\ UNCHANGED <<lock, maker, storeReady, acl, role, creators, service>>

\* pg_try_advisory_lock does not wait.
Lock(i) ==
    /\ InitializerAt(i, "lock") /\ lock = Nil
    /\ lock' = i
    /\ InitializerGoto(i, "fresh")
    /\ UNCHANGED <<receipt, maker, storeReady, acl, role, creators, service>>

\* Mutant of Fresh: relations left by another attempt are not looked for.
FreshRole(i) ==
    /\ InitializerAt(i, "fresh") /\ ~role
    /\ InitializerGoto(i, "migrate")
    /\ UNCHANGED <<receipt, lock, maker, storeReady, acl, role, creators, service>>

\* No runtime role and no relation outside the system schemas.
FreshDatabase(i) ==
    /\ InitializerAt(i, "fresh") /\ ~role /\ tables = {}
    /\ InitializerGoto(i, "migrate")
    /\ UNCHANGED <<receipt, lock, maker, storeReady, acl, role, creators, service>>

\* A migration or the provisioner closes the connection and Django opens another:
\* the session's lock is gone.  The ledger is the first thing migrate creates.
Reconnect(i) ==
    /\ init[i].pc \in {"migrate", "provision", "grant"} /\ lock = i /\ Ledger \in tables
    /\ lock' = Nil
    /\ init' = [init EXCEPT ![i].session = FALSE]
    /\ UNCHANGED <<receipt, maker, storeReady, acl, role, creators, service>>

\* migrate applies what the ledger does not have, one table after the other.
MigrateSchema(i) ==
    /\ InitializerAt(i, "migrate")
    /\ IF Migrated
       THEN InitializerGoto(i, "provision") /\ UNCHANGED maker
       ELSE /\ \E t \in (Table \cup {Ledger}) \ tables :
                  /\ t = Ledger \/ Ledger \in tables
                  /\ maker' = [maker EXCEPT ![t] = i]
            /\ UNCHANGED init
    /\ UNCHANGED <<receipt, lock, storeReady, acl, role, creators, service>>

\* Mutant of Provision: its exit status stands for the Store.
ProvisionBelieved(i) ==
    /\ InitializerAt(i, "provision")
    /\ \E done \in BOOLEAN : storeReady' = (storeReady \/ done)
    /\ role' = TRUE /\ creators' = creators \cup {i} /\ acl' = RoleGrants(acl)
    /\ InitializerGoto(i, "probe")
    /\ UNCHANGED <<receipt, lock, maker, service>>

\* provision reports success even when it stored nothing.
Provision(i) ==
    /\ InitializerAt(i, "provision")
    /\ \E done \in BOOLEAN : storeReady' = (storeReady \/ done)
    /\ InitializerGoto(i, "grant")
    /\ UNCHANGED <<receipt, lock, maker, acl, role, creators, service>>

\* pg_backend_pid is still the one that took the lock.
SameSession(i) == init[i].session

\* The role and all its grants, in one transaction; CREATE ROLE needs it absent.
Grant(i) ==
    /\ InitializerAt(i, "grant") /\ storeReady
    /\ SameSession(i) /\ ~role
    /\ role' = TRUE
    /\ creators' = creators \cup {i}
    /\ acl' = RoleGrants(acl)
    /\ InitializerGoto(i, "probe")
    /\ UNCHANGED <<receipt, lock, maker, storeReady, service>>

\* A login with the runtime password passes check_role.
Probe(i) ==
    /\ InitializerAt(i, "probe") /\ CheckRole
    /\ InitializerGoto(i, "complete")
    /\ UNCHANGED <<receipt, lock, maker, storeReady, acl, role, creators, service>>

\* The separate completion receipt; the lock goes with it.
Complete(i) ==
    /\ InitializerAt(i, "complete")
    /\ receipt' = [receipt EXCEPT ![init[i].path] = "complete"]
    /\ lock' = IF lock = i THEN Nil ELSE lock
    /\ InitializerGoto(i, "done")
    /\ UNCHANGED <<maker, storeReady, acl, role, creators, service>>

\* A refusal, a failure or a kill; the session's end releases its lock.
Quit(i) ==
    /\ init[i].pc \notin {"start", "done"}
    /\ InitializerGoto(i, "done")
    /\ lock' = IF lock = i THEN Nil ELSE lock
    /\ UNCHANGED <<receipt, maker, storeReady, acl, role, creators, service>>

\* The entrypoint of web, workers and celery runs operator_database check first.
ServiceStarts ==
    /\ ~service /\ CheckRuntime
    /\ service' = TRUE
    /\ UNCHANGED <<init, receipt, lock, maker, storeReady, acl, role, creators>>

\* A later migration by the owner: its tables get the default privileges.
OwnerMigrates(t) ==
    /\ role /\ t \in Later \ tables
    /\ maker' = [maker EXCEPT ![t] = Owner]
    /\ acl' = [acl EXCEPT !.table[t] = acl.default]
    /\ UNCHANGED <<init, receipt, lock, storeReady, role, creators, service>>

InitializerStep(i) ==
    \/ Lock(i) \/ FreshDatabase(i) \/ Reconnect(i) \/ MigrateSchema(i) \/ Provision(i) \/ Grant(i)
    \/ Probe(i) \/ Complete(i) \/ Quit(i) \/ \E r \in ReceiptPath : ReserveReceipt(i, r)

RolesNext ==
    \/ \E i \in Initializer : InitializerStep(i)
    \/ ServiceStarts
    \/ \E t \in Later : OwnerMigrates(t)

RolesSpec == RolesInit /\ [][RolesNext]_rolesVars

-----------------------------------------------------------------------------
(* Properties.                                                             *)

RolesTypeOK ==
    /\ init \in [Initializer ->
          [pc : {"start", "lock", "fresh", "migrate", "provision", "grant", "probe",
                 "complete", "done"},
           path : ReceiptPath \cup {Nil}, session : BOOLEAN]]
    /\ receipt \in [ReceiptPath -> {"absent", "unknown", "complete"}]
    /\ lock \in Initializer \cup {Nil}
    /\ maker \in [All -> Initializer \cup {Owner, Nil}]
    /\ storeReady \in BOOLEAN /\ role \in BOOLEAN /\ service \in BOOLEAN
    /\ creators \subseteq Initializer
    /\ acl \in [public : [database : SUBSET {"CONNECT", "TEMPORARY"}, schema : SUBSET {"USAGE", "CREATE"}],
                runtime : [database : SUBSET {"CONNECT", "TEMPORARY"}, schema : SUBSET {"USAGE"}],
                table : [All -> SUBSET DML], default : SUBSET DML]

\* Whenever the runtime role exists it may read and write every application
\* table, those of later migrations included, may only read the migration
\* ledger, and may create nothing permanent (the grants of initialize).
RuntimeAuthority ==
    role => /\ \A t \in tables : acl.table[t] = IF t = Ledger THEN {"SELECT"} ELSE DML
            /\ "CREATE" \notin May("schema") /\ May("database") = {"CONNECT", "TEMPORARY"}

\* The initializer that created the role created every table the image needs: no
\* remains of a killed attempt and no table of a concurrent one are adopted.
NoAdoption ==
    \A i \in creators : \A t \in Table \cup {Ledger} : maker[t] = i

\* A completion receipt stands for a finished initialization, whatever happens
\* afterwards: the runtime check of every service passes.
CompleteMeansReady ==
    (\E r \in ReceiptPath : receipt[r] = "complete") => CheckRuntime

\* No service runs before the database has been handed to the restricted role.
ServiceRestricted == service => CheckRuntime /\ creators # {}

\* A completion receipt stands for a finished initialization, whatever happens
\* afterwards, and no service runs before the database has been handed to the
\* restricted role (check_runtime).
HandedOverReady == CompleteMeansReady /\ ServiceRestricted
=============================================================================
