---------------------------- MODULE IntuneProfiles ----------------------------
(***************************************************************************)
(* Application of the configuration profiles                               *)
(* (scripts/Invoke-SantaIntuneProfiles.ps1).  A run takes an inventory,    *)
(* checks every profile it is about to apply, and only then creates,       *)
(* updates and assigns them one by one, adding each to its receipt.  A run *)
(* may be killed between any two requests and the script run again, or run *)
(* twice at once.  An administrator edits profiles between runs.           *)
(***************************************************************************)
EXTENDS Naturals, Sequences, FiniteSets, IntuneRuns

CONSTANT N   \* number of profiles the template has

ASSUME ProfilesCounted == N \in Nat \ {0}

Profile == 1 .. N

VARIABLES objects,     \* the device configurations with one of the display names
          apply,       \* where each run is, its inventory, its plan and its switch
          changed,     \* runs that have changed an object
          receipt,     \* the profiles in each run's receipt
          profileDeaths, profileAdmin

profileVars == <<objects, apply, changed, receipt, profileDeaths, profileAdmin>>

Target == {"pilot", "other"}
Object == [profile : Profile, owned : BOOLEAN, desired : BOOLEAN, assigned : SUBSET Target]

\* object 0: the profile has to be created.
NoPlan == [action |-> "none", object |-> 0, assigned |-> FALSE]

ProfilesTypeOK ==
  /\ objects \in Seq(Object)
  /\ apply \in
       [Run -> [pc : {"new", "inventory", "check", "mutate", "assign", "verify", "done", "refused", "over"},
                i : Profile, allow : BOOLEAN, seen : SUBSET (1 .. Len(objects)),
                plan : [Profile -> [action : {"none", "create", "verify", "update"},
                                    object : 0 .. Len(objects), assigned : BOOLEAN]]]]
  /\ changed \subseteq Run
  /\ receipt \in [Run -> SUBSET Profile]
  /\ profileDeaths \in 0 .. MaxDeaths /\ profileAdmin \in 0 .. MaxAdmin

ProfilesInit ==
  /\ objects = <<>>
  /\ apply \in [Run -> [pc : {"new"}, i : {1}, allow : BOOLEAN, seen : {{}},
                        plan : {[p \in Profile |-> NoPlan]}]]
  /\ changed = {} /\ receipt = [r \in Run |-> {}]
  /\ profileDeaths = 0 /\ profileAdmin = 0

LiveProfiles == {r \in Run : apply[r].pc \in {"inventory", "check", "mutate", "assign", "verify"}}

ProfileAt(r, pc) == apply[r].pc = pc
ProfileGoto(r, pc) == apply' = [apply EXCEPT ![r].pc = pc]
Plan(r) == apply[r].plan[apply[r].i]

-----------------------------------------------------------------------------
(* The script.  A throw before the first change is "refused", a later one  *)
(* "over".                                                                 *)

\* Context, account, scopes, the static group and its one member.
BeginProfiles(r) ==
  /\ ProfileAt(r, "new") /\ Cardinality(LiveProfiles) < MaxLive
  /\ ProfileGoto(r, "inventory")
  /\ UNCHANGED <<objects, changed, receipt, profileDeaths, profileAdmin>>

Inventory(r) ==
  /\ ProfileAt(r, "inventory")
  /\ apply' = [apply EXCEPT ![r].pc = "check", ![r].seen = DOMAIN objects]
  /\ UNCHANGED <<objects, changed, receipt, profileDeaths, profileAdmin>>

\* The tenant's profiles do not fit the one page that is read: nothing is compared.
Paginated(r) ==
  /\ ProfileAt(r, "inventory") /\ profileDeaths < MaxDeaths
  /\ profileDeaths' = profileDeaths + 1
  /\ ProfileGoto(r, "refused")
  /\ UNCHANGED <<objects, changed, receipt, profileAdmin>>

\* The inventoried objects with the display name of the profile.
SameName(r) == {o \in apply[r].seen : objects[o].profile = apply[r].i}

\* Every object of the name is the template's, and there is at most one; its
\* only assignment, if any, is the pilot's.
Acceptable(r) ==
  /\ \A o \in SameName(r) : objects[o].owned /\ objects[o].assigned \subseteq {"pilot"}
  /\ Cardinality(SameName(r)) <= 1

\* Create without an object, update one that differs, else only verify it.
Planned(r) ==
  IF SameName(r) = {} THEN [NoPlan EXCEPT !.action = "create"]
  ELSE LET o == CHOOSE x \in SameName(r) : TRUE
       IN  [action |-> IF objects[o].desired THEN "verify" ELSE "update", object |-> o,
            assigned |-> objects[o].assigned = {"pilot"}]

\* Mutant of MayApply: drift is looked for in the first profile only.
MayApplyFirst(r, plan) == apply[r].allow \/ plan[1].action # "update"

\* Drift needs -AllowProfileUpdate, over the plan of all profiles.
MayApply(r, plan) == apply[r].allow \/ \A p \in Profile : plan[p].action # "update"

\* Mutant of Check: a missing profile is created at once.
CheckAndCreate(r) ==
  LET new == [action |-> "verify", object |-> Len(objects) + 1, assigned |-> FALSE]
      missing == SameName(r) = {}
      plan == [apply[r].plan EXCEPT ![apply[r].i] = IF missing THEN new ELSE Planned(r)] IN
  /\ ProfileAt(r, "check")
  /\ CASE ~ Acceptable(r) -> ProfileGoto(r, "refused")
       [] Acceptable(r) /\ apply[r].i < N -> apply' = [apply EXCEPT ![r].i = @ + 1, ![r].plan = plan]
       [] OTHER ->
            IF MayApply(r, plan)
              THEN apply' = [apply EXCEPT ![r].pc = "mutate", ![r].i = 1, ![r].plan = plan]
              ELSE ProfileGoto(r, "refused")
  /\ IF missing
       THEN /\ objects' = Append(objects, [profile |-> apply[r].i, owned |-> TRUE, desired |-> TRUE,
                                           assigned |-> {}])
            /\ changed' = changed \cup {r}
       ELSE UNCHANGED <<objects, changed>>
  /\ UNCHANGED <<receipt, profileDeaths, profileAdmin>>

\* The preflight of one profile; after the last, the decision to apply.
Check(r) ==
  LET plan == [apply[r].plan EXCEPT ![apply[r].i] = Planned(r)] IN
  /\ ProfileAt(r, "check")
  /\ CASE ~ Acceptable(r) -> ProfileGoto(r, "refused")
       [] Acceptable(r) /\ apply[r].i < N -> apply' = [apply EXCEPT ![r].i = @ + 1, ![r].plan = plan]
       [] OTHER ->
            IF MayApply(r, plan)
              THEN apply' = [apply EXCEPT ![r].pc = "mutate", ![r].i = 1, ![r].plan = plan]
              ELSE ProfileGoto(r, "refused")
  /\ UNCHANGED <<objects, changed, receipt, profileDeaths, profileAdmin>>

\* POST or PATCH, which leaves the assignments alone; nothing for "verify".
Mutate(r) ==
  /\ ProfileAt(r, "mutate")
  /\ CASE Plan(r).action = "create" ->
            /\ objects' = Append(objects, [profile |-> apply[r].i, owned |-> TRUE, desired |-> TRUE,
                                           assigned |-> {}])
            /\ apply' = [apply EXCEPT ![r].pc = "assign", ![r].plan[apply[r].i].object = Len(objects) + 1]
            /\ changed' = changed \cup {r}
       [] Plan(r).action = "update" ->
            /\ objects' = [objects EXCEPT ![Plan(r).object].desired = TRUE]
            /\ ProfileGoto(r, "assign")
            /\ changed' = changed \cup {r}
       [] OTHER -> ProfileGoto(r, "assign") /\ UNCHANGED <<objects, changed>>
  /\ UNCHANGED <<receipt, profileDeaths, profileAdmin>>

\* Mutant of Assign: only an object that was created or updated is assigned.
AssignNew(r) ==
  /\ ProfileAt(r, "assign")
  /\ IF Plan(r).action # "verify"
       THEN /\ objects' = [objects EXCEPT ![Plan(r).object].assigned = {"pilot"}]
            /\ changed' = changed \cup {r}
       ELSE UNCHANGED <<objects, changed>>
  /\ ProfileGoto(r, "verify")
  /\ UNCHANGED <<receipt, profileDeaths, profileAdmin>>

\* The assign request replaces the assignments of the object.
AssignProfile(r) ==
  /\ ProfileAt(r, "assign")
  /\ IF ~ Plan(r).assigned \/ Plan(r).action = "update"
       THEN /\ objects' = [objects EXCEPT ![Plan(r).object].assigned = {"pilot"}]
            /\ changed' = changed \cup {r}
       ELSE UNCHANGED <<objects, changed>>
  /\ ProfileGoto(r, "verify")
  /\ UNCHANGED <<receipt, profileDeaths, profileAdmin>>

\* Test-ExactPilotAssignment of the only assignment.
Exactly(o) == objects[o].assigned = {"pilot"}

\* Mutant of NextProfile: the index moves past the last profile.
PastEnd(r, entries) ==
  apply' = [apply EXCEPT ![r].i = @ + 1,
                         ![r].pc = CASE apply[r].i < N -> "mutate"
                                     [] apply[r].i = N /\ entries = Profile -> "done"
                                     [] OTHER -> "over"]

\* The loop goes on, or ends with all profiles in the receipt or not.
NextProfile(r, entries) ==
  apply' = CASE apply[r].i < N -> [apply EXCEPT ![r].pc = "mutate", ![r].i = @ + 1]
           [] apply[r].i = N /\ entries = Profile -> [apply EXCEPT ![r].pc = "done"]
           [] OTHER -> [apply EXCEPT ![r].pc = "over"]

\* Read-back of the assignment, the profile's entry in the receipt, the next one.
VerifyProfile(r) ==
  /\ ProfileAt(r, "verify")
  /\ IF Exactly(Plan(r).object)
       THEN /\ receipt' = [receipt EXCEPT ![r] = @ \cup {apply[r].i}]
            /\ NextProfile(r, receipt[r] \cup {apply[r].i})
       ELSE ProfileGoto(r, "over") /\ UNCHANGED receipt
  /\ UNCHANGED <<objects, changed, profileDeaths, profileAdmin>>

\* The operator declines to apply one profile.
Decline(r) ==
  /\ ProfileAt(r, "mutate") /\ profileDeaths < MaxDeaths
  /\ profileDeaths' = profileDeaths + 1
  /\ NextProfile(r, receipt[r])
  /\ UNCHANGED <<objects, changed, receipt, profileAdmin>>

\* The run is killed or the answer to its last request is lost.
DieProfiles(r) ==
  /\ r \in LiveProfiles /\ profileDeaths < MaxDeaths
  /\ profileDeaths' = profileDeaths + 1
  /\ ProfileGoto(r, "over")
  /\ UNCHANGED <<objects, changed, receipt, profileAdmin>>

\* Between runs: a profile is edited, assigned to others, or made under the name.
AdministrateProfiles ==
  /\ profileAdmin < MaxAdmin /\ LiveProfiles = {}
  /\ profileAdmin' = profileAdmin + 1
  /\ \/ \E o \in DOMAIN objects : objects' = [objects EXCEPT ![o].desired = FALSE]
     \/ \E o \in DOMAIN objects : objects' = [objects EXCEPT ![o].assigned = @ \cup {"other"}]
     \/ \E p \in Profile :
          objects' = Append(objects, [profile |-> p, owned |-> FALSE, desired |-> FALSE,
                                      assigned |-> {"other"}])
  /\ UNCHANGED <<apply, changed, receipt, profileDeaths>>

AdvanceProfiles(r) == Inventory(r) \/ Check(r) \/ Mutate(r) \/ AssignProfile(r) \/ VerifyProfile(r)

ProfilesNext ==
  \/ \E r \in Run :
       BeginProfiles(r) \/ AdvanceProfiles(r) \/ Paginated(r) \/ Decline(r) \/ DieProfiles(r)
  \/ AdministrateProfiles

ProfilesSpec == ProfilesInit /\ [][ProfilesNext]_profileVars

\* The script is run again, and each run goes on unless it is killed; the inventory of
\* one of them fits one page.
ProfilesFairSpec ==
  ProfilesSpec /\ \A r \in Run : WF_profileVars(BeginProfiles(r)) /\ WF_profileVars(AdvanceProfiles(r))

-----------------------------------------------------------------------------

\* A run that its preflight refuses has changed nothing in Intune, even when the
\* profile at fault is the last one ("No Intune changes were made").
RefusedChangedNothing == \A r \in Run : ProfileAt(r, "refused") => r \notin changed

\* A profile the template does not own is never changed by a run.
ForeignProfilesUntouched ==
  \A o \in DOMAIN objects : ~ objects[o].owned => objects'[o] = objects[o] \/ profileAdmin' # profileAdmin

\* An edited profile is replaced only by a run with -AllowProfileUpdate,
\* whichever of the profiles it is.
ReplacesOnlyAllowed ==
  \A o \in DOMAIN objects : ~ objects[o].desired /\ objects'[o].desired =>
    \E r \in Run : ProfileAt(r, "mutate") /\ apply[r].allow /\ apply'[r] # apply[r]

\* A run never changes a profile the template does not own, and replaces an edited
\* one only with -AllowProfileUpdate, whichever of the profiles it is.
ProfilesGuarded == [][ForeignProfilesUntouched /\ ReplacesOnlyAllowed]_profileVars

\* With one run at a time, a run that ends with all profiles in its receipt
\* leaves exactly one object for each, with the template's payload and required
\* for the pilot group alone.
CompleteMeansApplied ==
  \A r \in Run : apply'[r].pc = "done" /\ ~ ProfileAt(r, "done") =>
    \A p \in Profile : \E o \in DOMAIN objects :
      /\ {x \in DOMAIN objects : objects[x].profile = p} = {o}
      /\ objects[o].owned /\ objects[o].desired /\ objects[o].assigned = {"pilot"}

\* Whatever runs that were killed have left behind, running the script again
\* completes the profiles.
RerunCompletes == <>(\E r \in Run : ProfileAt(r, "done"))
=============================================================================
