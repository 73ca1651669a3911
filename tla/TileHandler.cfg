SPECIFICATION Spec
CONSTANTS
  Frames <- FramesMC
  Sizes = {2, 3, 4}
  SignalCap = 2
  MaxFrames = 2
INVARIANTS
  CursorExact
  CrpExact
  LosslessWalk
  RecoverySound
  SignalsPoint
PROPERTIES
  WalkAdvances
