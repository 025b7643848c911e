CONSTANTS
  NumHarts = 2
  Levels = 2
  VpnBits = 1
  DramBase = 1
  DramPages = 5
  Top = 255
  PmpN = 2
  DTLB_N = 2
  L2TLB_N = 2
  Delegations = {TRUE, FALSE}
  InitMem <- MCInitMem
  Programs <- MCPrograms
SPECIFICATION MCSpec
INVARIANTS
  TypeOK
  CachesFresh
PROPERTIES
  PmpExact
  ScExact
CHECK_DEADLOCK FALSE
