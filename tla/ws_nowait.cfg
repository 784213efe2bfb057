SPECIFICATION SlicerSpec
CONSTANTS
  N = 2
  Programs <- StaticNowait
  Space <- Window
INVARIANT NoIterationLost
