SPECIFICATION RowSpec
CONSTANTS
  Thread <- MCThread
  NoThread = "none"
  Signature <- MCSignature
  NoSignature = NoSignature
  Hash <- MCHash
  Identity <- MCIdentity
  IntWidth = 8
  Sample <- MCSample
  Settings <- MCSettings
INVARIANTS Canonical RowsEvaluated CompiledMeansInterpreted 
\* A function that fails ends its query: the thread stops.
CHECK_DEADLOCK FALSE
