SPECIFICATION Spec
CONSTANTS
  Children = {c1, c2}
  UserLevelThreads = {TRUE, FALSE}
INVARIANT StructuresKept
