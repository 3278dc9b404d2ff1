\* A list that fills its page, and a label added behind it between two runs.
CONSTANTS
  a = a
  b = b
  c = c
  d = d
  Runs = {"one", "two"}
  Repos = {"repo"}
  Caching = {"one", "two"}
  Concurrency = 2
  Labels = {a, b, c, d}
  MaxLabels = 3
  PageSize = 2
  Lists <- Fresh
  MaxLimits = 0
  MaxRestarts = 0
  Outages = FALSE
  MaxEdits = 1
  Clears = FALSE
SPECIFICATION Spec
INVARIANTS
  CacheMissesNothing
\* The runs stop when they have read everything.
CHECK_DEADLOCK FALSE
