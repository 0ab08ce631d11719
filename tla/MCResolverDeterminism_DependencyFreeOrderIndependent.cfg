\* Two role entries with up to two dependencies each: a list of two
\* distinct dependencies can be reordered, and two dependencies are enough
\* for a cycle, a missing node and a chain deeper than the recursion limit
\* to meet in one list.
CONSTANTS
  VMs <- MCVMs
  Roles <- MCRoles
  MaxEntries = 2
  MaxDeps = 2
  RecLimit = 2
SPECIFICATION Spec
\* Both runs answer once: the final state has no successor.
CHECK_DEADLOCK FALSE
INVARIANT
  DependencyFreeOrderIndependent
