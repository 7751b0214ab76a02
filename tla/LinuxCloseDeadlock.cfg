SPECIFICATION FairSpec
CHECK_DEADLOCK FALSE
CONSTANTS
  p1 = p1
  p2 = p2
  c1 = c1
  c2 = c2
  Procs = {p1, p2}
  Clients = {c1}
  Reader = reader
  AnyPid = any
  Nobody = nobody
  WatchKeys = {p1}
  RemoveKeys = {p1}
  FlagSets = {{"FORK","EXEC","EXIT"}}
  Received = {"Fork","Exec","Exit","Sid","Uid","Error"}
  Datagrams <- Forks
PROPERTIES CloseCompletes
