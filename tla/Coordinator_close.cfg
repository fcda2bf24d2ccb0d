CONSTANTS
  c1 = c1
  c2 = c2
  p1 = p1
  p2 = p2
  Clients = {c1, c2}
  Pids = {p1, p2}
  PidOf <- OwnPid
  Silent = {}
  Acceptors = {a1}
  Removers = {}
  Closers = {k1}
  Holders = {}
  Nobody = Nobody
SPECIFICATION Spec
INVARIANT CloseClosesAll
CHECK_DEADLOCK FALSE
