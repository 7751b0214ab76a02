SPECIFICATION HostSpec
CONSTANTS
  Counts <- Around
  MaxLives = 3
  Callers = {g1, g2, g3}
  NameLists <- MCNameLists
  BootTimes = {1, 2}
  Volumes <- TwoVolumes
  MaxPaths = 2
  MaxGets = 2
CHECK_DEADLOCK FALSE
INVARIANTS MissesOnlyBeyondLargest
INVARIANTS FieldsOfThisCall
INVARIANTS OneBootTime CachesAreGuarded PrivilegesInOrder MountedVolumesListed
PROPERTIES WindowsCallsReturn
