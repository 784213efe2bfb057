SPECIFICATION FairSpec
CONSTANTS
  Participants = {1, 2, 3, 4, 5}
  Episodes = 4
INVARIANTS TypeOK ReductionsAlone
PROPERTIES ImplementsBarrier EveryoneThrough
