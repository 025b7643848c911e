CONSTANTS
  NumQueues = 2
  NumEntries = 2
  Wrap = 64
  Harvested <- MCHarvested
  NumMmioChips = 2
  Half = 128
  BarSize <- MCBarSize
  Widths <- MCWidths
  CfgAt = 40
  ArcAt = 55
  ChunkSize = 4
  Regions = {1, 2}
  WindowLimit = 15
  HostBase = 8
  TileKind <- MCTileKind
  NonTensix <- MCNonTensix
  Disabled <- MCDisabled
  TileSize = 16
  HostSize = 28
  InitBase <- MCInitBase
  Scenarios = {"remap", "straddle", "pins", "arc"}
  Programs <- MCPrograms
SPECIFICATION Spec
INVARIANTS
  TypeOK
  AccessClaimed
  AnswersOwn
PROPERTIES
  DmaWhole
  CoresKeepPinned
CHECK_DEADLOCK FALSE
