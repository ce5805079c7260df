CONSTANTS
  NumWheels = 2
  Speeds = {Still, Moving}
  Zero = Still
  SemMax = 1
  TxDepth = 2
  RxFifo = 6
  EintrVisible = TRUE
  Unreliable = FALSE
SPECIFICATION Spec
INVARIANT FullQueryResponse
