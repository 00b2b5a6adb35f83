SPECIFICATION FairSpec
CONSTANTS
  Hook = {h1}
  Bundle = {b1}
  Proc = {p1}
  Chunks = 1
  MaxCrash = 1
  MaxLost = 0
  Nil = Nil
PROPERTIES StagingResumes
