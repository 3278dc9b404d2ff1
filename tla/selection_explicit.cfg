\* An archived repository named with --repo.
CONSTANTS
  Repos <- FourRepos
  Position <- ByName
  Owner <- TwoOwners
  FirstFacts <- Mixed
  Selectors <- Config
  Resolved <- Flattened
  LabelGroups <- Labels
  Commands <- Explicit
  PerPage = 1
  Concurrency = 2
  MaxChanges = 0
  MaxLimits = 0
SPECIFICATION Spec
INVARIANTS
  ExplicitJudgedAsSeen
\* A run ends.
CHECK_DEADLOCK FALSE
