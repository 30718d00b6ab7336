SPECIFICATION WebFairSpec
CONSTANTS
  Fds = {f1, f2, f3}
  ThreadArgs = {0, 2}
  RequestArgs = {2}
  MayFail = {2}
  SpuriousWakeups = FALSE
  Fatal = TRUE
  NrClients = 3
  Mixes <- MCMixes
  Times = 1
  Files = {"f", "g", "e", "m"}
  Kind <- MCKind
INVARIANTS OwnAnswer FullAnswer
PROPERTY Answered
CHECK_DEADLOCK FALSE
