SPECIFICATION Spec
CONSTANTS
  Servers = {s1, s2}
  Versions = {258}
  Period = 2
  MaxCmds = 2
  MaxSteps = 1
  Step = 2
  MaxFails = 1
  Nil = Nil
INVARIANT UpgradeKept
CHECK_DEADLOCK FALSE
