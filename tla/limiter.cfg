\* Two label readers at once, or one writer that is paced, and every answer
\* GitHub can give, the budget read at startup or not.
CONSTANTS
  Callers = {"r1", "r2", "w"}
  Writers = {"w"}
  Teams <- ReadersOrWriter
  Requests <- OneEachOrFour
  Rate = 2
  Gap = 2
  MaxWait = 2
  Threshold = 1
  Base = 1
  MaxBackoff = 2
  Primings = {TRUE, FALSE}
  MaxTries = 1
  Budget = 3
  Window = 2
  Kinds = {"ok", "error", "gateway", "secondary", "disguised"}
  RetryAfters = {0, 2}
SPECIFICATION FairSpec
INVARIANTS
  TypeOK
  AsleepWithinMaxWait
  DrawIsBounded
  PacedWrites
  RefusesOnlyPastCeiling
PROPERTIES
  EveryCallEnds
\* The run stops when its requests are done, or when it has failed.
CHECK_DEADLOCK FALSE
