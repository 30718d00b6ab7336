SPECIFICATION Spec
CONSTANTS
  Fds = {f1, f2, f3, f4}
  ThreadArgs = {0, 1, 3}
  RequestArgs = {0, 1, 2}
  MayFail = {1, 2, 3}
  SpuriousWakeups = TRUE
  Fatal = TRUE
INVARIANTS TypeOK Accounted WorkerAwake ProducerWaitsOnFull
PROPERTY ImplementsQueue
