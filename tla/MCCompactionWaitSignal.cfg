SPECIFICATION Spec
CONSTANTS
  Waiters = {main}
  Workers = {w1}
  Nobody = Nobody
  LevelStyle = TRUE
  MaxCompactions = 1
PROPERTY SignalsWhenDone
