SPECIFICATION Spec
CONSTANTS
  MaxNodes = 3
  MaxThreads = 3
  Queues = {q1}
  Preemptive = TRUE
  Masks = TRUE
  Unmasked = {"id", "create", "kill"}
  YieldTo = {"any", "ready", "sleep", "killed"}
  KillOf = {"ready", "sleep", "killed", "main"}
  ExitBy = {"main", "other"}
  DestroyOf = {"empty", "waiting"}
INVARIANTS TypeOK ContextFlag RunningAllocated MaskPreserved
CONSTRAINT BoundedQueues
