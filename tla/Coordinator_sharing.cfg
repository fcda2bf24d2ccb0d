CONSTANTS
  c1 = c1
  c2 = c2
  p1 = p1
  p2 = p2
  Clients = {c1, c2}
  Pids = {p1, p2}
  PidOf <- AnyPid
  Silent = {c1}
  Acceptors = {a1}
  Removers = {r1}
  Closers = {k1}
  Holders = {r1}
  Nobody = Nobody
SPECIFICATION FairSpec
INVARIANTS IInv Owned ClosedOnce HolderKnown
PROPERTIES  AcceptReturns
CHECK_DEADLOCK FALSE
