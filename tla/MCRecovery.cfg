SPECIFICATION AllFairSpec
CONSTANTS
  Thread = {t1}
  Token = {k1}
  Source = {s1}
  Credential = {c1}
  Capacity = 1
  Window = 1
  GlobalMax = 1
  SourceMax = 1
  CredentialMax = 1
  Global = global
  None = none
  MaxId = 1
  Absent = Absent
  Partial = Partial
INVARIANTS
  TypesOK
PROPERTIES
  RuntimeSettles
  BudgetsComeBack
  InstallProgresses
  RerunsComplete
CHECK_DEADLOCK FALSE
