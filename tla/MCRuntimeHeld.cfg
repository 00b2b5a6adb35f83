SPECIFICATION OperatedSpec
CONSTANTS
  Thread = {t1}
  Token = {k1}
  Source = {s1}
  Credential = {c1}
  Capacity = 1
  Window = 1
  GlobalMax = 1
  SourceMax = 1
  CredentialMax = 1
  Global = global
  None = none
  MaxId = 0
PROPERTY HeldSlotsReconcilable
