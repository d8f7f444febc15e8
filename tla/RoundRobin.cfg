SPECIFICATION RRSpec
CONSTANTS
  Threads = {t1, t2}
  Targets <- MCTargets
  StartIndexes = {0, 9}
  MaxTargets = 3
  MaxPicks = 7
SYMMETRY ThreadSymmetry
INVARIANTS IndexSelectsTarget Balanced
