SPECIFICATION FairSpec
CONSTANTS
  Servers = {s1, s2}
  Versions = {258}
  Period = 2
  MaxCmds = 2
  MaxSteps = 1
  Step = 2
  MaxFails = 1
  Nil = Nil
INVARIANTS RepliesInStep TimerKept
PROPERTIES Notified Answered
CHECK_DEADLOCK FALSE
