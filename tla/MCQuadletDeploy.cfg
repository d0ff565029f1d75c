SPECIFICATION Spec
CONSTANTS
  N = 2
  b1 = b1
  k1 = k1
  k2 = k2
  Bodies = {b1}
  Confs = {k1, k2}
  Attempts = 2
SYMMETRY Contents
INVARIANTS
  TypeOK
  ReloadBeforeRestart
  StaleOnlyIfLost
  SettledRunsDesired
  IdempotentRun
