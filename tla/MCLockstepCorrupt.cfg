\* Two peers on a mesh, told to make the same run or one a tick longer or shorter
\* than the other's; one command in flight is altered, at any moment.
CONSTANTS
  Peer <- MCPair
  Cell <- MCCells
  InvalidCell <- MCInvalid
  Lookahead = 8
  MaxSources = 2
  MaxPending = 16
  MaxMessages = 16
  Latency = TRUE
  PollCap = 64
  CheckpointsKept = 3
  MaxPendingChecks = 2
  Interval = 2
  Topology = "Mesh"
  Policy = "End"
  Delay <- MCDelays
  Terms <- MCSameTerms
  Lengths <- MCLikeOrUnlike
  Workload <- MCContendSmall
  Faults <- MCCorrupt
  Frail <- MCPair
  MaxFaults = 1
SPECIFICATION FairSpec
INVARIANTS FinishedIsAgreed FinishedIsOneRun
PROPERTIES Terminates
CHECK_DEADLOCK FALSE
