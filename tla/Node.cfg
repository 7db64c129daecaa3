SPECIFICATION MCSpec
CONSTANTS
  None = None
  Services = 2
  Closers = {c1}
  Admins = {a1, a2}
  AdminPorts = {1, 2}
  Routes = {"inproc"}
  MaxAdmin = 2
  BootNodes = {b1, b2}
  ConnectionRetry = 2
  minFindPeerInterval = 5
  maxFindPeerInterval = 8
  Hosts = {"p", "q", "me"}
  Found <- MCFound
  Self = "me"
  Addressless = {"q"}
  MaxActions = 3
  MaxFinds = 2
INVARIANTS
  NodeConsistent
  
PROPERTIES
  StopsInReverse
  
CHECK_DEADLOCK FALSE
