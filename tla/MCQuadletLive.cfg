SPECIFICATION FairSpec
CONSTANTS
  N = 1
  b1 = b1
  b2 = b2
  k1 = k1
  k2 = k2
  Bodies = {b1, b2}
  Confs = {k1, k2}
  Attempts = 2
PROPERTIES
  RunEnds
  StepsDescend
