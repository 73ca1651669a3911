SPECIFICATION Spec
CONSTANTS
  kRingSize = 4
  SeqMod = 16
  jitter_depth = 3
  Packets = {13, 14, 15, 16, 17, 18}
  Reorder = 2
  Outage = 2
  MaxBusy = 1
  MaxLost = 6
  MaxStarts = 1
  RestartWhileLent = FALSE
INVARIANTS
  TypeOK
  SlabExclusive
  OwnershipExact
  JitterWindow
  DistanceExact
  Accounting
  PromptRelease
PROPERTIES
  ImplementsChannel
