SPECIFICATION StoreFairSpec
CONSTANTS
  Threads = {t1, t2}
  Ips = {ip1, ip2}
  Addrs = {good, dumb, bad}
  Malformed = {bad}
  Silent = {dumb}
  MaxTargets = 2
INVARIANTS StoreTypeOK  BanTakesEffect
PROPERTIES LockComesFree TargetsChecked
