CONSTANTS
  MaxLevel = 2
  Streams <- StreamsRelatch
  BUFSIZE = 20
  Storage = {0}
  MaxFrames = 2
  MaxStaged = 0
SPECIFICATION Spec
INVARIANTS
  FromScratch
