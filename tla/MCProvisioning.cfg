\* Three stagers, two destinations and two project names, any of them used before;
\* three initializers with three receipt paths; two jobs, two versions of every file.
SPECIFICATION ProvisioningSpec
CONSTANTS
  Stager = {s1, s2, s3}
  Destination = {d1, d2}
  Project = {p1, p2}
  Initializer = {i1, i2, i3}
  ReceiptPath = {r1, r2, r3}
  Table = {t1, t2}
  Later = {t3, t4}
  Ledger = Ledger
  Owner = Owner
  Nil = Nil
  Job = {j1, j2}
  Version = {a, b}
  Volume = {v1, v2}
  Absent = Absent
  Partial = Partial
  MaxEdits = 2
  MaxLosses = 1
  MaxStarts = 2
SYMMETRY Symmetry
INVARIANTS
  TypesOK
  EnabledUnitSound
  StartsChecked
  InitializesOwnData
  StageReportsTrue
  RuntimeAuthority
  NoAdoption
  HandedOverReady
CHECK_DEADLOCK FALSE
