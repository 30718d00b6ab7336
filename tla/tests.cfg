SPECIFICATION TestFairSpec
CONSTANTS
  MaxThreads = 4
  Queues = {"q", "l", "cv0", "cv1", "cv2"}
  Locks = {"l"}
  CVs = {"cv0", "cv1", "cv2"}
  Misuses = {}
  Preemptive = TRUE
  Masks = TRUE
  Unmasked = {"create", "kill"}
  YieldTo = {"any"}
  KillOf = {"ready"}
  ExitBy = {"other"}
  DestroyOf = {"empty"}
  Tests = {"wakeup", "wakeup_all", "lock", "signal", "broadcast", "potato"}
  NTHREADS = 3
  LOOPS = 2
  Scrambling = {1}
  queue_tested = "q"
  testlock = "l"
  testcv_signal <- MCSignal
  testcv_broadcast = "cv0"
INVARIANTS AssertionsHold NoneTooFast
PROPERTY TestsEnd
