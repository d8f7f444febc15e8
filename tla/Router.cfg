SPECIFICATION RouterSpec
CONSTANTS
  Threads = {t1, t2}
  Routes <- MCRoutes
  Paths <- MCPaths
  Garbage = {0, 9}
  MaxRoutes = 3
SYMMETRY ThreadSymmetry
INVARIANTS RouterTypeOK PrefixTargetReal NoRouteLost TablesNormalized NoShadowedPrefix
PROPERTIES IndexStaysInRange
