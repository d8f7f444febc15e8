SPECIFICATION LimiterSpec
CONSTANTS
  Callers = {t1, t2}
  WordSize = 8
  DftTokenMax = 1
  DftTokenPerSec = 1
  ConfigArgs = {0}
  MaxGrants = 4
SYMMETRY CallerSymmetry
INVARIANTS
  GrantsBacked
