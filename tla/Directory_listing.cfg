CONSTANTS
  Stream <- Cookied
  Processes = 1
  Sizes = {328, 176}
  MaxLookups = 2
SPECIFICATION FairSpec
INVARIANTS IInv InOrder ReplyFits TypesAgree CountsMatch
 
CHECK_DEADLOCK FALSE
