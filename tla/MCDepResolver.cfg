\* Three role entries with at most one dependency each: enough for a
\* two-node cycle, a self-dependency, a diamond's worth of shared
\* dependencies, an overwritten declaration, and a three-node chain that
\* exceeds a recursion limit of two frames.
CONSTANTS
  VMs <- MCVMs
  Roles <- MCRoles
  MaxEntries = 3
  MaxDeps = 1
  RecLimit = 2
SPECIFICATION Spec
\* The resolver is one call that returns: its final state has no successor.
CHECK_DEADLOCK FALSE
INVARIANTS
  TypeOK
  OrderRespectsDeps
PROPERTIES
  ImplementsContract
  Terminates
