SPECIFICATION GatewayFairSpec
CONSTANTS
  Callers = {c1, c2}
  WordSize = 4
  DftTokenMax = 1
  DftTokenPerSec = 1
  ConfigArgs = {0, 1}
  MaxGrants = 3
  NumThreads = 1
  HeaderCap = 1
  Banned = {}
  MaxAcceptErrs = 0
  FilesVanish = TRUE
PROPERTIES EveryConnectionCloses RefillGoesOn
