\* Several repositories, rate limits and failures, a cache that is cleared, and nobody who edits.
CONSTANTS
  a = a
  b = b
  c = c
  d = d
  Runs = {"one"}
  Repos = {"repo", "fork"}
  Caching = {"one"}
  Concurrency = 1
  Labels = {a, b, c, d}
  MaxLabels = 3
  PageSize = 2
  Lists <- Fresh
  MaxLimits = 1
  MaxRestarts = 1
  Outages = TRUE
  MaxEdits = 0
  Clears = TRUE
SPECIFICATION FairSpec
INVARIANTS
  TypeOK
  QuietReadsAreRight
PROPERTIES
  ClearEmpties
  EveryReadEnds
\* The runs stop when they have read everything.
CHECK_DEADLOCK FALSE
