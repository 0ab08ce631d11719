CONSTANTS
  Addrs <- MCAddrs
  Class <- MCClass
  CfgAddr = "cfg"
  MaxAddrs = 2
  Entries <- MCEntries
  MaxCfg = 2
SPECIFICATION Spec
\* The facts of one VM are looked up once: the last state has no successor.
CHECK_DEADLOCK FALSE
INVARIANT
  ForceIpHonoured
