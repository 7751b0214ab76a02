SPECIFICATION GettersSpec
CONSTANTS
  Comms <- CommandNames
  Users = {"me", "root"}
  Self = "me"
  MaxLives = 2
  Pages = 3
  SwapPages = 2
  Word = 16
  Kb = 2
  Bits = 13
  Sum64 <- MCSum64
  Full = 2
  V4 = 1
  Arguments <- MCArguments
  Environments <- MCEnvironments
  Lists <- MCLists
  Sizes <- MCSizes
  Usages <- MCUsages
  Seconds <- MCSeconds
  Messages <- MCMessages
CHECK_DEADLOCK FALSE
INVARIANTS GettersTypeOK RightFields SuccessIsOfThisCall MemoryAddsUp
INVARIANTS StringsSurvive ConversionsAgree PercentIsNear
PROPERTIES ErrorsAreRight
