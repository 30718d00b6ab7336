SPECIFICATION ProgramsSpec
CONSTANTS
  Coords <- MCCoords
  MaxPoints = 4
  MallocFails = TRUE
  DeleteSingle = TRUE
  Letters = {"a", "b"}
  Space = " "
  NewLine = "nl"
  MaxText = 6
  PageSize = 3
  MaxBehind = 1
  MAX_HASH_SIZE = 2
  MaxInput = 4
  RIO_BUFSIZE = 2
  MaxLen = 3
  MaxFiles = 2
  MaxRuns = 3
  Sizes = {1, 2}
  MaxThreads = 4
INVARIANTS
  Sorted CountsMatch NothingLeft InOrder AsWritten LoadedMatchesDisk
  Contexts MaskRestored NoneLeftBehind
PROPERTIES ImplementsBag ImplementsScheduler
