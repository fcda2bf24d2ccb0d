SPECIFICATION Spec
CONSTANTS
  Second = 10
  Two32 = 100
  Two64 = 10000
  Options <- MCOptions
  Offers <- MCOffers
  Durations <- MCDurations
  Errors <- MCErrors
INVARIANT StatfsSucceeds
CHECK_DEADLOCK FALSE
