CONSTANTS
  Interval = 100
  Second = 20
  Jitter = 2
  Slack = 4
SPECIFICATION FairSpec
INVARIANTS
  TypeOK
  NeverForgotten
PROPERTIES
  BeliefFades
  GoneIsForgotten
