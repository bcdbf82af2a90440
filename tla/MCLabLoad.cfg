\* A run of three ticks over a save that may be of another world, of more rows
\* or damaged; two inputs, a painted cell and a load.
CONSTANTS
  Grid = 2
  Seed = 1
  Colour = {0, 1}
  LabPending = 4
  RecordLimit = 5
  CheckEvery = 1
  UnitsPerTick = 2
  MaxFrame = 4
  TicksPerFrame = 1
  Duration = {1, 4}
  MaxLabTick = 3
  MaxInputs = 2
  Missing = missing
SPECIFICATION LabSpec
PROPERTY FailedLoadChangesNothing
CHECK_DEADLOCK FALSE
