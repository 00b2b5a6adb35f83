\* One valid request and one refused, two scripts at a time, every operation run
\* at most twice, one restart and one replaced web container.
CONSTANTS
    c1 = c1
    c2 = c2
    s1 = s1
    s2 = s2
    None = None
    Context = {c1, c2}
    Faulty = {c2}
    Script = {s1, s2}
    MaxRuns = 2
    MaxRestart = 1
    MaxWeb = 1
SPECIFICATION Spec
SYMMETRY Interchangeable
INVARIANTS
  AttemptsAccounted
PROPERTIES
  RunsWhereAttested
  KeepsPromise
CHECK_DEADLOCK FALSE
