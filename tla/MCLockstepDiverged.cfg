\* Two peers on a mesh whose worlds come apart because a command was altered in flight.
CONSTANTS
  Peer <- MCPair
  Cell <- MCCells
  InvalidCell <- MCInvalid
  Lookahead = 8
  MaxSources = 2
  MaxPending = 16
  MaxMessages = 16
  Latency = TRUE
  PollCap = 64
  CheckpointsKept = 3
  MaxPendingChecks = 2
  Interval = 2
  Topology = "Mesh"
  Policy = "End"
  Delay <- MCDelays
  Terms <- MCSameTerms
  Lengths <- MCFourTicks
  Workload <- MCContendSmall
  Faults <- MCCorrupt
  Frail <- MCPair
  MaxFaults = 1
SPECIFICATION Spec
INVARIANTS DivergenceStops
CHECK_DEADLOCK FALSE
