SPECIFICATION HostSpec
CONSTANTS
  Counts <- Around
  MaxLives = 3
  Callers = {g1}
  NameLists <- MCNameLists
  BootTimes = {1, 2}
  Volumes <- TwoVolumes
  MaxPaths = 2
  MaxGets = 2
CHECK_DEADLOCK FALSE
INVARIANT ReturnsUpTo65536
