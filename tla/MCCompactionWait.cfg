SPECIFICATION FairSpec
CONSTANTS
  Waiters = {main}
  Workers = {w1, w2}
  Nobody = Nobody
  LevelStyle = TRUE
  MaxCompactions = 3
INVARIANT TypeOK
PROPERTIES
  ReturnsAtRest
  WaitReturns
