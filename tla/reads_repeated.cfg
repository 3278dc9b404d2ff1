\* A list of two pages, nobody who edits, and one rate limit to sit out.
CONSTANTS
  a = a
  b = b
  c = c
  d = d
  Runs = {"one"}
  Repos = {"repo", "fork"}
  Caching = {"one"}
  Concurrency = 2
  Labels = {a, b, c, d}
  MaxLabels = 3
  PageSize = 2
  Lists <- Fresh
  MaxLimits = 1
  MaxRestarts = 0
  Outages = FALSE
  MaxEdits = 0
  Clears = FALSE
SPECIFICATION Spec
INVARIANTS
  ListsEachLabelOnce
\* The run stops when it has read everything.
CHECK_DEADLOCK FALSE
