SPECIFICATION MonitorFairSpec
CONSTANTS
  MaxThreads = 3
  Queues = {l1, c1}
  Locks = {l1}
  CVs = {c1}
  Misuses = {}
  Preemptive = TRUE
  Masks = TRUE
  Unmasked = {}
  YieldTo = {"any"}
  KillOf = {"ready"}
  ExitBy = {"other"}
  DestroyOf = {"empty"}
INVARIANT AcquireFindsReady
PROPERTIES ImplementsMesa WantedLockTaken NotPassedOver NoStarvation
