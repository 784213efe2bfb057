SPECIFICATION FairSpec
CONSTANTS
  Children = {c1, c2, c3, c4}
  UserLevelThreads = {TRUE, FALSE}
INVARIANTS TypeOK WaiterBlocked
PROPERTIES NoLateSignal WaitReturnsAtLast
