SPECIFICATION Spec
CONSTANTS
  MaxRun = 9
  CountWrap = 16
  Retries = TRUE
INVARIANT DoneMeansFinished
