\* One append run over two repositories, dry or not, stopped anywhere and started again, answers lost, a repository unreachable for a time.
CONSTANTS
  Repos = {"A", "B"}
  Names <- MCNames
  Lower <- MCLower
  Rank <- MCRank
  Colors <- MCColors
  Descs = {"", "text"}
  NoDesc = ""
  None = None
  Keep = Keep
  Fresh = Fresh
  Desired <- DesiredTwo
  Renames <- OldToBug
  Palette <- MCPalette
  Runs = {"p1"}
  Mode <- AllAppend
  DryRun = {TRUE, FALSE}
  RepoRank <- MCRepoRank
  Stores <- StoresAlike
  Handiwork <- NoHands
  Rereads <- PageTwice
  MaxTries = 1
  MaxRestarts = 1
  MaxEdits = 0
  MaxOutages = 1
SPECIFICATION FairSpec
INVARIANTS
  TypeOK
  Converged
  RenameKeepsIdentity
  RecoloursApart
  SkipsOnlyRenames
  ExitIsTrue
PROPERTIES
  AppendKeepsLabels
  ClaimsClearColour
  EveryRunEnds
\* Runs end and are not started again for ever.
CHECK_DEADLOCK FALSE
