CONSTANTS
  Srcs = {"A", "B"}
  Pipes = {t0}
  Data = {zero, x}
  ZeroData = zero
  ClrDisabled = {}
SPECIFICATION Spec
PROPERTIES
  BanksAreQueue
