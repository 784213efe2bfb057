SPECIFICATION Spec
CONSTANTS
  Addr = {1}
  Main = m
  Workers = {}
  Dfe = d
  Engines <- TwoEngines
  Programs <- OneEach
INVARIANT CurrentWDAlive
