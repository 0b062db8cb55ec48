CONSTANTS
  w1 = w1
  w2 = w2
  b1 = b1
  b2 = b2
  c1 = c1
  c2 = c2
  NoBatch = NoBatch
  NoWorker = NoWorker
  Workers = {w1, w2}
  Counters = {c1}
  CounterOf <- MCCounterOf
  Batches = {b1}
  Quantity <- MCQuantity
  ChunkSizes = {1, 2}
  ListBits = 4
  MaxEvents = 2
  Exclusive = FALSE
SPECIFICATION Spec
INVARIANT NeverExceedsPaidQuantity
