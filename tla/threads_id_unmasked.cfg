SPECIFICATION Spec
CONSTANTS
  MaxNodes = 3
  MaxThreads = 3
  Queues = {q1}
  Preemptive = TRUE
  Masks = TRUE
  Unmasked = {"id"}
  YieldTo = {"any"}
  KillOf = {}
  ExitBy = {"other"}
  DestroyOf = {}
CONSTRAINT BoundedQueues
INVARIANT ThreadIdReturnsTid
