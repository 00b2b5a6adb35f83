------------------------------ MODULE MCIntune ------------------------------
(***************************************************************************)
(* The Intune scripts for model checking: the package and the profiles,    *)
(* each with two runs at a time and with one run at a time.  A behaviour   *)
(* runs one of the four, part; the scripts share no state.                 *)
(***************************************************************************)
EXTENDS IntunePackage, IntuneProfiles, TLC

VARIABLE part

\* Two runs at a time, one of which may be killed.
TwoPackages == INSTANCE IntunePackage WITH MaxLive <- 2, MaxDeaths <- 1, MaxAdmin <- 1
TwoProfiles == INSTANCE IntuneProfiles WITH MaxLive <- 2, MaxDeaths <- 1, MaxAdmin <- 1

IntuneInit ==
  /\ part \in {"package", "two packages", "profiles", "two profiles"}
  /\ Init /\ ProfilesInit
  /\ part \in {"package", "two packages"} => \A r \in Run : ~ apply[r].allow

IntuneNext ==
  \/ part = "package" /\ Next /\ UNCHANGED <<part, profileVars>>
  \/ part = "two packages" /\ TwoPackages!Next /\ UNCHANGED <<part, profileVars>>
  \/ part = "profiles" /\ ProfilesNext /\ UNCHANGED <<part, vars>>
  \/ part = "two profiles" /\ TwoProfiles!ProfilesNext /\ UNCHANGED <<part, vars>>

IntuneSpec == IntuneInit /\ [][IntuneNext]_<<part, vars, profileVars>>

RunSymmetry == Permutations(Run)

-----------------------------------------------------------------------------
\* With one run at a time the template never owns two apps, although a run may die
\* with its creation unanswered, and a receipt is written only for what is then in
\* Intune: the app required once, for the pilot group alone; and for each profile
\* exactly one object with the template's payload, required for the pilot group.
SerialRunsExact ==
  [][/\ part = "package" => OneOwnedApp' /\ ReceiptExact
     /\ part = "profiles" => CompleteMeansApplied]_<<vars, profileVars>>
=============================================================================
