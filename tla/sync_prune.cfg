\* One prune run, removals chosen at the prompt, stopped and started again, answers lost, while people edit labels.
CONSTANTS
  Repos = {"A"}
  Names <- MCNames
  Lower <- MCLower
  Rank <- MCRank
  Colors <- MCColors
  Descs = {"", "text"}
  NoDesc = ""
  None = None
  Keep = Keep
  Fresh = Fresh
  Desired <- DesiredOne
  Renames <- OldToBug
  Palette <- MCPalette
  Runs = {"p1"}
  Mode <- AllPrune
  DryRun = {FALSE}
  RepoRank <- MCRepoRank
  Stores <- StoresAll
  Handiwork <- Hands
  Rereads <- PageTwice
  MaxTries = 1
  MaxRestarts = 1
  MaxEdits = 1
  MaxOutages = 0
SPECIFICATION Spec
INVARIANTS
  PruneIsExact
  Converged
PROPERTIES
  RemovesOnlyChosen
\* Runs end and are not started again for ever.
CHECK_DEADLOCK FALSE
