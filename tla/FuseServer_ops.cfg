SPECIFICATION Spec
CONSTANTS
  Reqs = {r1, r2}
  Bufs = {b1, b2, b3}
  Junk = Junk
  Nobody = Nobody
  Unmounters = {}
  Waiters = {}
  Errors = {"err", "eof"}
  ReuseFd = FALSE
  Kinds <- EveryKind
  JunkKinds <- NoKinds
SYMMETRY Symmetry
CHECK_DEADLOCK FALSE
INVARIANTS
  TypeOK
  ReplyIntegrity
  Exclusive
  NoStrayReply
PROPERTIES
  ImplementsService
