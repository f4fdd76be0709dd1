SPECIFICATION FairSpec
CONSTANTS
  Bodies <- SmallBodies
  Cancellable = TRUE
INVARIANTS
  TypeOK
  ChunkingIrrelevant
  ResultIsWhole
  CancelStopsForwarding
PROPERTY ChatEnds
