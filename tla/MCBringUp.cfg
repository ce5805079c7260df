CONSTANTS
  Configs <- MCConfigs
  DriveCounts = {0, 2, 4}
  HeapBytes = {0, 5, 205}
  SemMax = 2
SPECIFICATION FairSpec
INVARIANT NoFault
INVARIANT WheelsAddressable
INVARIANT AllWheelsInitialised
PROPERTY EventuallyRuns
CHECK_DEADLOCK FALSE
