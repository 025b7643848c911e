CONSTANTS
  p0 = p0
  p1 = p1
  a = a
  b = b
  c = c
  d = d
  NoPipe = NoPipe
  Pipes = {p0, p1}
  OpIds = {a, b, c, d}
  FifoSize = 2
  ReplaySize = 1
  ZBits = 1
  MaxLoop = 2
  PushLimit <- Limit1
  BypassLimit = 1
  Pushed <- PairPushed
  Bypassed <- NoneBypassed
  LoopWrites <- NoLoopWrites
  OpWrites <- PairOpWrites
  InitMopCfg <- PairCfg
SPECIFICATION FairSpec
INVARIANTS
  FifoNeverFull
  MasksAgree
  BusyCoversWork
PROPERTIES
  PushesResume
  StreamSpec
