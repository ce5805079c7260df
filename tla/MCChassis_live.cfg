CONSTANTS
  NumWheels = 2
  Speeds = {Still, Moving}
  Zero = Still
  SemMax = 1
  TxDepth = 1
  RxFifo = 2
  EintrVisible = FALSE
  Unreliable = TRUE
SPECIFICATION FairSpec
PROPERTY FinalSpeedDriven
PROPERTY OdoServed
