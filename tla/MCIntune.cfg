\* Three runs and two profiles; one run at a time, two of which may be killed, or two
\* at a time (see MCIntune).
SPECIFICATION IntuneSpec
CONSTANTS
  Run = {r1, r2, r3}
  MaxLive = 1
  MaxDeaths = 2
  MaxAdmin = 2
  N = 2
SYMMETRY RunSymmetry
INVARIANTS
  RequiredMeansInstallable
  RefusedChangedNothing
PROPERTIES
  SerialRunsExact
  ProfilesGuarded
CHECK_DEADLOCK FALSE
