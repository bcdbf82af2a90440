\* Three peers on a star that drop a lost peer: two ticks, delays 1, 1 and 3, and
\* one of the connectors dies or quits at any moment.  A poll reads two messages of
\* a peer, so that a loss is often decided with turns still unread.
CONSTANTS
  Peer <- MCTrio
  Cell <- MCCells
  InvalidCell <- MCNothing
  Lookahead = 8
  MaxSources = 3
  MaxPending = 16
  MaxMessages = 16
  Latency = FALSE
  PollCap = 2
  CheckpointsKept = 3
  MaxPendingChecks = 8
  Interval = 1
  Topology = "Star"
  Policy = "Drop"
  Delay <- MCDelayLast
  Terms <- MCSameTerms
  Lengths <- MCTwoTicks
  Workload <- MCContend
  Faults <- MCDepartures
  Frail <- MCConnectors
  MaxFaults = 1
SPECIFICATION LoopSpec
INVARIANTS SurvivorsAgree RelayKeepsSession
CHECK_DEADLOCK FALSE
