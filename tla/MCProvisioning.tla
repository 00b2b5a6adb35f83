--------------------------- MODULE MCProvisioning ---------------------------
(***************************************************************************)
(* The host's preparation for model checking: staging of fresh projects    *)
(* (FreshStaging), the database roles (DatabaseRoles) and the binding of   *)
(* the service to its files (ServiceBinding).  They share no state, so a   *)
(* behaviour runs one of them, part, and leaves the others as they were.   *)
(***************************************************************************)
EXTENDS ServiceBinding, DatabaseRoles, FreshStaging, TLC

VARIABLE part

ProvisioningInit ==
  /\ part \in {"staging", "roles", "binding"}
  /\ BindingInit /\ StagingInit /\ RolesInit
  /\ part # "staging" => \A p \in Project : backing[p] = {}
  /\ part # "roles" => acl = NoGrants({"USAGE"})

ProvisioningNext ==
  \/ part = "staging" /\ StagingNext /\ UNCHANGED <<part, bindingVars, rolesVars>>
  \/ part = "roles" /\ RolesNext /\ UNCHANGED <<part, bindingVars, stagingVars>>
  \/ part = "binding" /\ BindingNext /\ UNCHANGED <<part, stagingVars, rolesVars>>

ProvisioningSpec ==
  ProvisioningInit /\ [][ProvisioningNext]_<<part, bindingVars, stagingVars, rolesVars>>

Symmetry == Permutations(Job) \cup Permutations(Version) \cup Permutations(Volume)

-----------------------------------------------------------------------------
\* The state of each part has the values its program writes.
TypesOK == BindingTypeOK /\ StagingTypeOK /\ RolesTypeOK
=============================================================================
