SPECIFICATION FairSpec
CONSTANTS
  MaxSent = 3
  MaxLen = 3
  Services = {1, 2}
  Mfis = {0, 4, 30}
  Gids = {{1}, {2}, {1, 2}}
  MfiDist = 32
  Threshold = 5
  MaxLink = 4
INVARIANTS LcasGiven RoundExact NonePassedOver NothingLeft
PROPERTIES StudyEnds
CHECK_DEADLOCK FALSE
