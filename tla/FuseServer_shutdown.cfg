SPECIFICATION Spec
CONSTANTS
  Reqs = {r1, r2}
  Bufs = {b1, b2, b3}
  Junk = Junk
  Nobody = Nobody
  Unmounters = {k1}
  Waiters = {w1}
  Errors = {}
  ReuseFd = TRUE
  Kinds <- ShutdownKinds
  JunkKinds <- SomeJunk
SYMMETRY Symmetry
CHECK_DEADLOCK FALSE
INVARIANTS
   IInv ForeignOnlyAfterClose
PROPERTIES
  WaitDrains
