CONSTANTS
  Modulus = 10
  MaxDiff = 2
  CriticalDelta = 0
  Positions = {9, 0, 1}
  MaxStep = 1
  Corrupted = {3}
  MaxNoise = 1
  MaxHits = 1
SPECIFICATION FairSpec
INVARIANT PoseWhole
INVARIANT NoiseBounded
PROPERTY FilterRecovers
