\* Two sources race for two cells over two ticks, in a queue that holds two
\* commands; three are accepted, so that one can be late and one can find the
\* queue full, and a stamp can be repeated.
CONSTANTS
  Peer <- MCPeer
  Cell <- MCCell
  Lookahead = 2
  MaxSources = 2
  MaxPending = 2
  MaxTick = 2
  MaxSequence = 1
  MaxAccepted = 3
SPECIFICATION Spec
INVARIANTS NothingLost ArrivalIndependent SequencesFresh
