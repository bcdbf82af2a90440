\* Every part of the engine that is modelled beside the session and the pool.
CONSTANTS
  \* the editor
  Mandatory = {"transform"}
  Optional = {"animator"}
  Absent = absent
  Unset = unset
  Merging = {"transform", "animator"}
  Value = {0, 1}
  Choice = {1}
  Period = 2
  Start = 1
  EditCapacity = 2
  MaxDepth = 256
  MaxEntity = 3
  MaxRevision = 4
  \* the assets
  Asset = {1, 2}
  Finalised = {1}
  Cached = {1}
  AssetWorker = {w1, w2}
  StalledPumps = 1
  MaxWrites = 1
  MaxRuns = 2
  Nothing = nothing
  \* the quads
  Texture = {"a", "b"}
  BatchCapacity = 1
  Storage = {1, 2, 3, 4}
  InFlight = 2
  MaxQuads = 3
  \* the graphics device
  Kind = {"buffer", "texture", "sampler", "shader", "pipeline"}
  Generations = 4
  MaxReadbacks = 1
  MaxMade = 2
  NoObject = noobject
  Shut = shut
  \* the run of the lab
  Grid = 2
  Seed = 1
  Colour = {0, 1}
  LabPending = 4
  RecordLimit = 5
  CheckEvery = 1
  UnitsPerTick = 2
  MaxFrame = 4
  TicksPerFrame = 1
  Duration = {1, 4}
  MaxLabTick = 3
  MaxInputs = 2
  Missing = missing
  \* the mods
  ModPeer = {1, 2}
  ModDelay = 1
  ModBudget = 5
  MaxPages = 2
  MaxOrders = 1
  MaxCommands = 1
  MaxSaid = 1
  MaxQueued = 2
  ModPending = 4
  MaxModTick = 2
  MaxRuntimes = 2
  NoOne = noone
  NoMaximum = nomaximum
  \* the schedule
  Table = {t1, t2}
  Foreign = foreign
  MaxSystems = 3
  MaxTicks = 1
  Idle = idle
  \* the documents
  MaxItems = 2
  MaxText = 2
  MaxWords = 16
  Limit = 3
  MaxHarm = 1
  NoDocument = nodocument
  \* the window and the gamepads
  Key = {"key"}
  Slots = 1
  MaxPads = 2
  DeadZone = 1
  TextCapacity = 4
  MaxReports = 5
  NoPad = nopad
  \* the sound
  ClipAsset = {1}
  ClipFrames = {0, 3}
  MaxVoices = 2
  Target = 3
  QueueMax = 5
  BlockFrames = 2
  Passes = 2
  MaxRetired = 1
  MaxClips = 2
  MaxPlays = 2
  MaxUpdates = 2
  NoClip = noclip
  \* the picture of the lab
  Layout <- Grids
  Extent <- Extents
  CellUnit = 8
  Span = {8, 16}
  ColorCount = 3
  MaxGestures = 3
  NoPick = nopick
  NoTicket = noticket
SPECIFICATION Spec
INVARIANTS
  DrawnIsCurrent SurvivesSaving AssetsCoherent PaintsWhatWasAsked DriverObeyed
  PlaybackAgrees OfOneRun PeersAgreeOnMods RuntimeKept TicksAsDeclared
  WireAgrees InputIsTrue SoundsThrough
PROPERTIES
  ImplementsTimeline AssetsSettle PictureIsTrue
CHECK_DEADLOCK FALSE
