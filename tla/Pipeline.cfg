SPECIFICATION PipeFair
CONSTANTS
  kRingSize = 4
  SeqMod = 8
  jitter_depth = 2
  Packets = {6, 7, 8, 9, 10, 11, 12}
  Reorder = 1
  Outage = 2
  MaxBusy = 1
  MaxLost = 2
  MaxStarts = 1
  RestartWhileLent = FALSE
  Payload <- PayloadMC
  SlabCap = 3
  Geoms = {1}
  relatch_k = 2
  SodMod = 4
  MaxFrames = 8
INVARIANTS
  OwnersAgree
  ChainIsFrame
  NeverStarved
PROPERTIES
  FrameReleased
