\* Two peers on a mesh, nothing fails: four ticks, delays 1 and 2, every prefix
\* of every pipe.
CONSTANTS
  Peer <- MCPair
  Cell <- MCCells
  InvalidCell <- MCNothing
  Lookahead = 8
  MaxSources = 2
  MaxPending = 16
  MaxMessages = 16
  Latency = TRUE
  PollCap = 64
  CheckpointsKept = 3
  MaxPendingChecks = 2
  Interval = 2
  Topology = "Mesh"
  Policy = "End"
  Delay <- MCDelays
  Terms <- MCSameTerms
  Lengths <- MCFourTicks
  Workload <- MCContend
  Faults <- MCNothing
  Frail <- MCNothing
  MaxFaults = 0
SPECIFICATION FairSpec
INVARIANTS Agreement BoundedLead NoFalseAlarm
PROPERTIES Completes
CHECK_DEADLOCK FALSE
