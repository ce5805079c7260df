CONSTANTS
  Garbage = {0, 1, 2}
  Reporters = {gyro, odometer, dio}
  Nobody = Nobody
  OwnerChecked = TRUE
SPECIFICATION MCSpec
INVARIANT Exclusive
INVARIANT CalibrationReady
INVARIANT ReportsGoOn
PROPERTY ClientServed
PROPERTY DecoderRuns
PROPERTY StaysSettled
PROPERTY ReportsSettle
