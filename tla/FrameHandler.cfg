SPECIFICATION Spec
CONSTANTS
  Slabs = {s1, s2, s3, s4}
  NoSlab = NoSlab
  SlabCap = 3
  Pkts <- AllPkts
  Geoms = {1, 2, 3}
  relatch_k = 1
  SodMod = 4
  MaxFrames = 2
SYMMETRY SlabSymmetry
INVARIANTS
  SlabsAccounted
  ConsumerAgrees
  WalkOnLatched
  BodyStart
  ParkedInFlight
  StreakExact
  IntactMeansWhole
