SPECIFICATION Spec
CONSTANTS
  Thread = {t1, t2}
  Token = {k1, k2}
  Source = {s1}
  Credential = {c1}
  Capacity = 1
  Window = 1
  GlobalMax = 1
  SourceMax = 1
  CredentialMax = 1
  Global = global
  None = none
  MaxId = 1
SYMMETRY Symmetry
INVARIANTS
  CleanupAuthorised
PROPERTIES
  ImplementsAdmission
