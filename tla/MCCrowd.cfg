\* Ten peers with the default input delay, hash check interval and limits.
CONSTANTS
  Peer <- MCTen
  Cell <- MCCells
  InvalidCell <- MCNothing
  Lookahead = 256
  MaxSources = 256
  MaxPending = 1000000
  MaxMessages = 256
  Latency = FALSE
  PollCap = 64
  CheckpointsKept = 64
  MaxPendingChecks = 8
  Interval = 16
  Topology = "Mesh"
  Policy = "End"
  Delay <- MCDefaultDelay
  Terms <- MCSameTerms
  Lengths <- MCThreeTicks
  Workload <- MCQuiet
  Faults <- MCNothing
  Frail <- MCNothing
  MaxFaults = 0
SPECIFICATION CrowdSpec
INVARIANTS OnlyStrangersAreExhausting
CHECK_DEADLOCK FALSE
