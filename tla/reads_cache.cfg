\* Two runs, one of them twice, over one cache, and people who edit labels.
CONSTANTS
  a = a
  b = b
  c = c
  d = d
  Runs = {"one", "two"}
  Repos = {"repo"}
  Caching = {"one", "two"}
  Concurrency = 2
  Labels = {a, b, c, d}
  MaxLabels = 3
  PageSize = 2
  Lists <- Fresh
  MaxLimits = 0
  MaxRestarts = 1
  Outages = FALSE
  MaxEdits = 2
  Clears = FALSE
SPECIFICATION Spec
INVARIANTS
  QuietReadsAreRight
  SinglePageMissesNothing
  EntriesAreHonest
\* The runs stop when they have read everything.
CHECK_DEADLOCK FALSE
