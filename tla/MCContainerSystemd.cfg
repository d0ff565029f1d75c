SPECIFICATION Spec
CONSTANTS
  N = 2
  Units = {u1, u2}
  Upgraded = {1}
  Tries = 2
  NoUnit = NoUnit
  Stopped = Stopped
INVARIANTS
  TypeOK
  DriftOnlyIfOwed
  CleanRunDelivers
  CleanupResumes
PROPERTIES
  StepsDescend
