CONSTANTS
  Interfaces = {i1, i2, i3}
  Closers = {}
SPECIFICATION MainFairSpec
INVARIANTS
  ExitStatusExplained
  IdleMeansHealthy
PROPERTY AnyFailureEndsProcess
\* The process ends, or serves for ever without an event.
CHECK_DEADLOCK FALSE
