SPECIFICATION Programs
CONSTANTS
  N = 3
  Threads <- NThreads
  CpuOf <- Oversubscribed
  MaxThreads = 3
  MaxTasks = 4
  MaxCalls = 2
  Setups <- PassSetups
INVARIANTS TypeOK SomeoneAwake NoWDAsleep
PROPERTIES ProgramEnds
