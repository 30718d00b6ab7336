SPECIFICATION MonitorSpec
CONSTANTS
  MaxThreads = 3
  Queues = {l1, l2, c1, q1}
  Locks = {l1, l2}
  CVs = {c1}
  Misuses = {"relock", "die_holding"}
  Preemptive = TRUE
  Masks = TRUE
  Unmasked = {}
  YieldTo = {"any"}
  KillOf = {"ready"}
  ExitBy = {"other"}
  DestroyOf = {"empty"}
INVARIANTS MonitorTypeOK MutualExclusion HolderOwns WaitersHaveOwner WaitIsAtomic
