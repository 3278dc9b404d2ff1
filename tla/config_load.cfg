\* Files to load, and repositories to export.
CONSTANTS
  Repos = {"A"}
  Names <- MCNames
  Lower <- MCLower
  Rank <- MCRank
  Colors = {"red", "blue", "gray"}
  Descs = {"", "long"}
  NoDesc = ""
  None = None
  Keep = Keep
  Fresh = Fresh
  GroupNames <- MCGroupNames
  Ascending <- MCAscending
  Trim <- MCTrim
  UnfitNames = {"", "zap"}
  Blank = ""
  LongDescs = {"long"}
  Spellings <- MCSpellings
  Bare <- MCBare
  ExportGroup = "exported"
  Scaffold <- MCScaffold
  Settings <- MCSettings
  MaxWrites = 2
  Selecting = {"exported"}
  Palette = {"gray"}
SPECIFICATION FairSpec
INVARIANTS
  TypeOK
  FlattenedIsReachable
  AcceptedIsWellFormed
  FirstFaultIsReported
  WrittenLoadsClean
  ExportPlansNothing
PROPERTIES
  LoadEnds
\* Loading ends.
CHECK_DEADLOCK FALSE
