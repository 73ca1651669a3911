SPECIFICATION FairSpec
CONSTANTS
  kRingSize = 2
  SeqMod = 16
  jitter_depth = 3
  Packets = {14, 15, 16, 17}
  Reorder = 2
  Outage = 2
  MaxBusy = 1
  MaxLost = 2
  MaxStarts = 2
  RestartWhileLent = FALSE
PROPERTIES
  ImplementsChannel
  QueuedIsProcessed
  StopReturns
