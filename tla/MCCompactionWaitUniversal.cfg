SPECIFICATION Spec
CONSTANTS
  Waiters = {main}
  Workers = {w1, w2}
  Nobody = Nobody
  LevelStyle = FALSE
  MaxCompactions = 2
PROPERTY ReturnsAtRest
