SPECIFICATION Spec
CONSTANTS
  N = 4
  KeepModes <- BothModes
  Workers = 2
  Chunk = 3
  ErrorBreaker = 2
  NoneBreaker = 3
  FormatWindow = 4
  FormatMaxShare = 60
  MaxPasses = 3
  MaxCuts = 2
INVARIANT TypeOK OneRecordEach StoppedIsQuiet CompletedIsComplete OutageLeavesNoRecord NeverAskedAgain
PROPERTY RecordsAreKept
CHECK_DEADLOCK FALSE
