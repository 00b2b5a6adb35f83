\* Two threads and two challenges; two sessions, two commands and two devices.  The
\* parts share no state, and take their identities from the same model values.
SPECIFICATION SignInSpec
CONSTANTS
  Thread = {s1, s2}
  Challenge = {r1, r2}
  ChallengeAge = 1
  ClaimTtl = 3
  CodeTtl = 3
  Hold = 2
  PasswordMax = 2
  VerifyMax = 2
  BudgetTtl = 2
  Gap = 1
  None = none
  Nil = nil
  Session = {s1, s2}
  Command = {r1, r2}
  MaxFactor = 2
SYMMETRY Symmetry
INVARIANTS
  AcceptedOnce
  OneHuman
  LinkUsedOnce
  VerifiedAfterReset
PROPERTIES
  FactorsGuarded
  LinkOfLatestReset
