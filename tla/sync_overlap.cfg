\* An append run and a prune run at the same time, either of them stopped and started again.
CONSTANTS
  Repos = {"A"}
  Names <- MCNames
  Lower <- MCLower
  Rank <- MCRank
  Colors <- MCColors
  Descs = {"", "text"}
  NoDesc = ""
  None = None
  Keep = Keep
  Fresh = Fresh
  Desired <- DesiredOne
  Renames <- OldToBug
  Palette <- MCPalette
  Runs = {"p1", "p2"}
  Mode <- Mixed
  DryRun = {FALSE}
  RepoRank <- MCRepoRank
  Stores <- StoresAll
  Handiwork <- NoHands
  Rereads = {}
  MaxTries = 0
  MaxRestarts = 1
  MaxEdits = 0
  MaxOutages = 0
SPECIFICATION Spec
INVARIANTS
  OverlapConverges
PROPERTIES
  RemovesAfterRepair
  KeepsPromise
\* Runs end and are not started again for ever.
CHECK_DEADLOCK FALSE
