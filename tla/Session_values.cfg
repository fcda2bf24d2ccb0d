SPECIFICATION Spec
CONSTANTS
  Second = 10
  Two32 = 100
  Two64 = 10000
  Options <- MCOptions
  Offers <- MCOffers
  Durations <- MCDurations
  Errors <- MCErrors
INVARIANTS
  IInv
  Negotiated
  BufferSuffices
  ThresholdKept
  FaithfulReply
  TimeoutKept
  
CHECK_DEADLOCK FALSE
