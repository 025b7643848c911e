CONSTANTS
  MaxHarts = 2
  FifoSize = 2
  QueueSize = 2
  IndexMod = 4
  Quanta = {3, 7}
  HartCounts = {1, 2}
  TicksPer = 4
  MaxInsns = 50
  Never = 1000000
  Injects <- MCInjects
  InjectAts = {14}
  Code <- CodeOf
SPECIFICATION MCSpec
INVARIANTS
  TypeOK
  NoneMissed
  DevicesServe
PROPERTIES
  TakenWhenDue
  TimeKept
  TrapsReturn
CHECK_DEADLOCK FALSE
