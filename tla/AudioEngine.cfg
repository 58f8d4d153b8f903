SPECIFICATION Spec
CONSTANTS
  Voice = {v1}
  StatusSize = 1
  RetryEvery = 2
  Trials <- EngineTrials
INVARIANTS EngineSafety
PROPERTIES PromiseKept StreamReturns
