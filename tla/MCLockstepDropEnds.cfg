\* Three peers on a star that drop a lost peer: two ticks, delay 1, and one of
\* them dies or quits at any moment; whether the others finish.
CONSTANTS
  Peer <- MCTrio
  Cell <- MCCells
  InvalidCell <- MCNothing
  Lookahead = 8
  MaxSources = 3
  MaxPending = 16
  MaxMessages = 16
  Latency = FALSE
  PollCap = 64
  CheckpointsKept = 3
  MaxPendingChecks = 8
  Interval = 1
  Topology = "Star"
  Policy = "Drop"
  Delay <- MCDelayOne
  Terms <- MCSameTerms
  Lengths <- MCTwoTicks
  Workload <- MCContend
  Faults <- MCDepartures
  Frail <- MCTrio
  MaxFaults = 1
SPECIFICATION LoopFairSpec
PROPERTIES SurvivorsFinish
CHECK_DEADLOCK FALSE
