SPECIFICATION FairSlicerSpec
CONSTANTS
  N = 3
  Programs <- Everything
  Space <- Window
INVARIANTS TypeOK NoIterationTwice NoIterationLost SingleElected DescriptorOfMyLoop LastprivateAtBound
PROPERTIES LoopsEnd
