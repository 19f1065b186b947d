SPECIFICATION FairSpec
CONSTANTS
  NumLayers = 2
  NumPriority = 1
  NumLayerThreads = 1
INVARIANTS
  TypeOK
  SnapshotsAreStable
  ResultsAreComplete
  PictureLandsInItsBuffer
  Vdp1IsNotForgotten
PROPERTIES
  FramesEndUnlessWakesAreLost
