CONSTANTS
  NumWheels = 2
  Speeds = {Still, Moving}
  Zero = Still
  SemMax = 2
  TxDepth = 1
  RxFifo = 2
  EintrVisible = TRUE
  Unreliable = TRUE
SPECIFICATION Spec
INVARIANT NoLostWakeup
INVARIANT SpeedSettled
PROPERTY ImplementsRegister
