SPECIFICATION FairSpec
CONSTANTS
  NumParticipants = 6
  Episodes = 4
INVARIANT TypeOK
PROPERTIES ImplementsBarrier EveryoneThrough
