CONSTANTS
  t0 = t0
  t1 = t1
  Srcs = {"A", "B"}
  Pipes = {t0, t1}
  Data = {zero}
  ZeroData = zero
  ClrDisabled <- KeptByT1
  MaxEvents = 4
SPECIFICATION RaceSpec
INVARIANTS
  RaceCaught
