CONSTANTS
  Cores = {"e1", "e2", "r1", "r2"}
  Chips = {"host", "R1", "R2"}
  Chip <- ChipOf
  Link <- LinkOf
  HostCores = {"e1", "e2"}
  MmioChips = {"host"}
  Order <- Table
  Bcast <- BcastTable
  NoCore = "none"
  BufSize = 2
  Start = 3
  Chunks = 2
  Programs <- HostPrograms
SPECIFICATION MCSpec
INVARIANTS
  TypeOK
  PostHeard
PROPERTIES
  ServesCommands
  AllAnswered
CHECK_DEADLOCK FALSE
