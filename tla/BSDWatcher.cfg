SPECIFICATION Spec
CHECK_DEADLOCK FALSE
CONSTANTS
  p1 = p1
  p2 = p2
  c1 = c1
  c2 = c2
  Procs = {p1}
  Clients = {c1, c2}
  Reader = reader
  AnyPid = any
  Nobody = nobody
  WatchKeys = {p1}
  RemoveKeys = {p1}
  EventsLen = 1
  FlagSets = {{"FORK","EXEC"},{"EXIT"}}
SYMMETRY Symmetry
INVARIANTS TypeOK KqueueFollowsTable
PROPERTIES ImplementsLifecycle
