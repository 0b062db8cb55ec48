CONSTANTS
  w1 = w1
  w2 = w2
  b1 = b1
  b2 = b2
  c1 = c1
  c2 = c2
  NoBatch = NoBatch
  NoWorker = NoWorker
  Workers = {w1, w2}
  Counters = {c1, c2}
  CounterOf <- MCCounterOfSplit
  Batches = {b1, b2}
  Quantity <- MCQuantityUneven
  ChunkSizes = {1, 2}
  ListBits = 3
  MaxEvents = 2
  Exclusive = TRUE
SPECIFICATION Spec
SYMMETRY Symmetry
INVARIANTS
  CursorCountsStamps
  RootCoversStamps
  OneEventPerTransition
PROPERTIES
  MintsAreAtomic
  FollowsLifecycle
