CONSTANTS
  Interfaces = {i1}
  Closers = {}
SPECIFICATION FairSpec
PROPERTY ReturningClosesServer
CHECK_DEADLOCK FALSE
