\* Two workers, loops of two chunks, three loops published in all: a batch of
\* two systems that each call a nested loop, or loops one after another.
CONSTANTS
  Worker = {w1, w2}
  Caller = main
  MaxChunks = 2
  MaxGeneration = 3
SPECIFICATION FairSpec
INVARIANTS JobOutlivesGuests EveryChunkOnce
PROPERTIES EveryCallReturns CloseEnds
CHECK_DEADLOCK FALSE
