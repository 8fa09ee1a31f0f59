CONSTANTS
  s1 = s1
  s2 = s2
  s3 = s3
  Threads <- MCThreads
  Sids = {x, y}
  Timeouts <- MCTimeouts
  Second = 3
  Half = 8
  MaxDelay = 1
SPECIFICATION Spec
SYMMETRY Symmetry
INVARIANTS
  TypeOK
  LostOnlyInARace
  GrantIsHonoured
 
\* Every goroutine calls Subscribe once.
CHECK_DEADLOCK FALSE
