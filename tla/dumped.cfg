SPECIFICATION Spec
CONSTANTS
  Jobs <- AllJobs
  Orders <- UniBigrams
  Patterns <- Expressions
  Letters <- Spelled
  Rates <- Falling
  WarmIter <- Warm
  One = 4
  Precision = 64
  Sparsity = 16
  LossUnit = 6
  MaxIter = 6
INVARIANT DumpedNGramsLoad
