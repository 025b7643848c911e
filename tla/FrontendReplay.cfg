CONSTANTS
  p0 = p0
  p1 = p1
  a = a
  b = b
  c = c
  d = d
  NoPipe = NoPipe
  Pipes = {p0}
  OpIds = {a, b, c, d}
  FifoSize = 3
  ReplaySize = 2
  ZBits = 1
  MaxLoop = 2
  PushLimit <- Limit2
  BypassLimit = 1
  Pushed <- ReplayPushed
  Bypassed <- ReplayBypassed
  LoopWrites <- ReplayLoopWrites
  OpWrites <- NoWrites
  InitMopCfg <- ReplayCfg
SPECIFICATION Spec
PROPERTIES
  StreamSpec
