\* Four command lines, rate limits, owners that cannot be listed, and repositories that change.
CONSTANTS
  Repos <- FourRepos
  Position <- ByName
  Owner <- TwoOwners
  FirstFacts <- Mixed
  Selectors <- Config
  Resolved <- Flattened
  LabelGroups <- Labels
  Commands <- Listings
  PerPage = 1
  Concurrency = 2
  MaxChanges = 1
  MaxLimits = 1
SPECIFICATION FairSpec
INVARIANTS
  TypeOK
  EnumeratesExactly
  UncoveredIsLeftAlone
  JudgedAsSeen
PROPERTIES
  SelectionEnds
\* A run ends.
CHECK_DEADLOCK FALSE
