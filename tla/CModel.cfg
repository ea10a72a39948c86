SPECIFICATION CModelSpec
CONSTANTS
  D = 2
  Slack = 1
  RealExp <- MCRealExp
  Args <- MCArgs
  Matrices <- MCMatrices
  Exact <- MCExact
INVARIANTS
  ResultIsUntiled
  StageSameAsKernel
  WithinLimits
  GoldenModelsAgree
CHECK_DEADLOCK FALSE
