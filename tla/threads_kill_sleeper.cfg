SPECIFICATION Spec
CONSTANTS
  MaxNodes = 3
  MaxThreads = 3
  Queues = {q1}
  Preemptive = FALSE
  Masks = FALSE
  Unmasked = {}
  YieldTo = {"any"}
  KillOf = {"sleep"}
  ExitBy = {"other"}
  DestroyOf = {}
CONSTRAINT BoundedQueues
INVARIANT KillOfSleeperIsSafe
