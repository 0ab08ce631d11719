\* One or two role entries suffice to reach the disagreement.
CONSTANTS
  VMs <- MCVMs
  Roles <- MCRoles
  MaxEntries = 2
  MaxDeps = 1
  RecLimit = 2
SPECIFICATION Spec
CHECK_DEADLOCK FALSE
INVARIANT
  MissingNamesDeclarer
