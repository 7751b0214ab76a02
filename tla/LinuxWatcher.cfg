SPECIFICATION FairSpec
CHECK_DEADLOCK FALSE
CONSTANTS
  p1 = p1
  p2 = p2
  c1 = c1
  c2 = c2
  Procs = {p1, p2}
  Clients = {c1, c2}
  Reader = reader
  AnyPid = any
  Nobody = nobody
  WatchKeys = {p1, any}
  RemoveKeys = {p1, any}
  FlagSets = {{"FORK","EXEC","EXIT"}}
  Received = {"Fork","Exec","Exit","Sid","Uid","Error"}
  Datagrams <- ForkExecExit
INVARIANTS LateWatchesBounded
PROPERTIES ImplementsLifecycle CallsReturn
