SPECIFICATION Spec
CONSTANTS
  Slabs = {s1, s2, s3, s4}
  NoSlab = NoSlab
  SlabCap = 3
  Pkts <- WholePkts
  Geoms = {1, 2, 3}
  relatch_k = 2
  SodMod = 4
  MaxFrames = 3
SYMMETRY SlabSymmetry
INVARIANTS
  EveryFrameEnds
  CacheFresh
PROPERTIES
  ImplementsDelivery
