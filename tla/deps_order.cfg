SPECIFICATION Programs
CONSTANTS
  Addr = {1, 2}
  MaxDepObjId = 7
  MaxTasks = 3
  TaskMenu <- TaskAccesses
  WaitMenu <- WaitAccesses
  TaskWaitAfter = {2}
  ValidForBatch = TRUE
  KeepWDDeps = {TRUE, FALSE}
INVARIANTS TypeOK PredecessorCountExact OpenGroupAlive BatchReleaseExact TasksInGraphExact QuiescentAtClear
PROPERTIES NoLateSuccessor ImplementsTaskOrder GraphDrains DispatchedOnce
