SPECIFICATION Spec
CONSTANTS
  N = 2
  Threads <- NThreads
  CpuOf <- Oversubscribed
  MaxThreads = 2
  MaxTasks = 1
  MaxCalls = 1
  Setups <- MaskSetups
INVARIANT SomeoneAwake
