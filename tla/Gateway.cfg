SPECIFICATION GatewaySpec
CONSTANTS
  Callers = {c1, c2}
  WordSize = 4
  DftTokenMax = 1
  DftTokenPerSec = 1
  ConfigArgs = {0, 1}
  MaxGrants = 3
  NumThreads = 2
  HeaderCap = 2
  Banned = {c1, c2}
  MaxAcceptErrs = 1
  FilesVanish = TRUE
SYMMETRY ConnSymmetry
INVARIANTS GatewayTypeOK AlwaysListening AcceptLedger 
           TokenLedger BucketCap
PROPERTIES  ConnectionAdvances
