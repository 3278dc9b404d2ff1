\* A rename whose answer is lost is sent again.
CONSTANTS
  Repos = {"A"}
  Names <- MCNames
  Lower <- MCLower
  Rank <- MCRank
  Colors <- MCColors
  Descs = {"", "text"}
  NoDesc = ""
  None = None
  Keep = Keep
  Fresh = Fresh
  Desired <- DesiredOne
  Renames <- OldToBug
  Palette <- MCPalette
  Runs = {"p1"}
  Mode <- AllAppend
  DryRun = {FALSE}
  RepoRank <- MCRepoRank
  Stores <- StoresAll
  Handiwork <- NoHands
  Rereads = {}
  MaxTries = 1
  MaxRestarts = 0
  MaxEdits = 0
  MaxOutages = 0
SPECIFICATION Spec
INVARIANTS
  SkipsOnlyUnreachable
\* Runs end and are not started again for ever.
CHECK_DEADLOCK FALSE
