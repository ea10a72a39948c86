SPECIFICATION Spec
CONSTANTS
  MaxRun = 9
  CountWrap = 16
  Retries = FALSE
INVARIANTS TypeOK DoneMeansFinished CountersOfLastRun
PROPERTIES SoftwareSeesDone
