SPECIFICATION HostSpec
CHECK_DEADLOCK FALSE
CONSTANTS
  p1 = p1
  p2 = p2
  p3 = p3
  c1 = c1
  Procs = {p1, p2, p3}
  Self = p1
  Clients = {c1}
  Reader = reader
  AnyPid = any
  Nobody = nobody
  WatchKeys = {p1}
  RemoveKeys = {p1}
  FlagSets = {{"FORK","EXEC","EXIT"}, {"EXEC"}}
  Received = {"Fork","Exec","Exit","Sid","Uid","Error"}
  Datagrams <- NoDatagrams
  KernelEvents = {"FORK","EXEC","EXIT"}
  QueueLen = 1
  MaxLosses = 2
INVARIANT ExitClearsWatch
PROPERTIES OwedEventsAreSent LossIsReported
SYMMETRY Symmetry
