SPECIFICATION Spec
CONSTANTS
  MaxNodes = 4
  MaxThreads = 4
  Queues = {q1, q2}
  Preemptive = TRUE
  Masks = TRUE
  Unmasked = {}
  YieldTo = {"any", "ready"}
  KillOf = {"ready", "killed"}
  ExitBy = {"other"}
  DestroyOf = {"empty"}
INVARIANTS ThreadIdIsCaller QueuesHoldSleepers NoFault
PROPERTY ImplementsScheduler
