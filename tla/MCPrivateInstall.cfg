SPECIFICATION Spec
CONSTANTS
  Hook = {h1, h2}
  Bundle = {b1, b2}
  Proc = {p1, p2}
  Chunks = 1
  MaxCrash = 1
  MaxLost = 1
  Nil = Nil
SYMMETRY Interchangeable
INVARIANTS
  OneFreshInstallation
  CompletionEarned
