SPECIFICATION Spec
CONSTANTS
  ann = ann  bob = bob  cleo = cleo  none = none
  left = left  middle = middle  right = right
  NoFace = none
  Nowhere = nowhere
  FaceWeight = 1 BodyWeight = 1 MatchedThreshold = 2
  Tolerance = 2 Gap = 1 MinTime = 1
  FrameTimes = {1, 3}
  MaxFrames = 3
  Humans <- MCHumans
INVARIANTS PatchesApart MergedDistinct NoFaceLost
CHECK_DEADLOCK FALSE
