SPECIFICATION FairSpec
CONSTANTS
  Reqs = {r1, r2}
  Bufs = {b1, b2}
  Junk = Junk
  Nobody = Nobody
  Unmounters = {k1}
  Waiters = {}
  Errors = {}
  ReuseFd = FALSE
  Kinds <- FewKinds
  JunkKinds <- NoKinds

CHECK_DEADLOCK FALSE
PROPERTIES
  
  DetachedStops
