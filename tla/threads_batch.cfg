SPECIFICATION Spec
CONSTANTS
  N = 3
  Threads <- NThreads
  CpuOf <- Oversubscribed
  MaxThreads = 3
  MaxTasks = 3
  MaxCalls = 0
  Setups <- BatchSetups
INVARIANT NoWDAsleep
