CONSTANTS
  W = 4
  NBands = 3
  NPrec = 2
  Packets <- PacketsMC
  Fills = {0, 15}
  Sizes = {2, 3, 6}
  MaxFrames = 2
  MaxChunks = 3
  MaxLost = 1
  MaxPasses = 100
  MaxBits = 16
SPECIFICATION Spec
INVARIANTS
  RoundTrip
  ScupInside
  NoStaleBytes
  FlushSafe
