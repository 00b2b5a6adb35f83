\* All texts of up to 10 characters against a depth of 3; every configuration with
\* limits of 1 or 2 against sizes of up to MaxSize; more sources and credentials than
\* the bound on their keys.
SPECIFICATION BoundarySpec
CONSTANTS
  Maximum = 3
  MaxLength = 10
  Ceiling <- SmallCeiling
  MaxSize = 3
  Collection = {a, b}
  Thread = {t1}
  Token = {k1, k2}
  Source = {s1, s2, s3, s4}
  Credential = {c1, c2, c3}
  Capacity = 1
  Window = 3
  GlobalMax = 2
  SourceMax = 2
  CredentialMax = 1
  Global = global
  None = none
SYMMETRY Symmetry
INVARIANTS
  RecursionBounded
  LimitsHold
  IdentityKeysBounded
CHECK_DEADLOCK FALSE
