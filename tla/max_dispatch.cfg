SPECIFICATION FairSpec
CONSTANTS
  Addr = {1, 2, 3}
  Main = m
  Workers = {w}
  Dfe = d
  Engines <- TwoEngines
  Programs <- Mixed
INVARIANTS TypeOK OwnsItsSlots NoSlotLeft InOnePlace DrainedAtStop
PROPERTIES ImplementsTaskOrder EndsUnlessStarved
