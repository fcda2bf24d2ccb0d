CONSTANTS
  Mounters = {m1, m2}
  Cloners = {x1}
  MaxFd = 4
  MaxClones = 2
  MaxOther = 1
  Nobody = Nobody
SPECIFICATION FairSpec
INVARIANTS IInv NoLeak  
PROPERTIES ReturnsDevice MountReturns
CHECK_DEADLOCK FALSE
