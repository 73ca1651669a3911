CONSTANTS
  MaxLevel = 2
  Streams <- StreamsMC
  BUFSIZE = 20
  Storage = {0, 1}
  MaxFrames = 3
  MaxStaged = 1
SPECIFICATION Spec
INVARIANTS
  ReadersAgree
  LatchedAsMeant
  ArenaOwned
  OneStream
  RestartExact
