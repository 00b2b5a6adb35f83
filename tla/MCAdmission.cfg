SPECIFICATION Spec
CONSTANTS
  Thread = {t1, t2}
  Token = {k1, k2, k3, k4}
  Source = {s1, s2}
  Credential = {c1}
  Capacity = 1
  Window = 2
  GlobalMax = 3
  SourceMax = 1
  CredentialMax = 2
  Global = global
  None = none
SYMMETRY Symmetry
INVARIANTS
  OneHandler
  PermitBacksHandler
  CountersValid
