\* Three VMs on two nodes, each qemu or lxc, template or not; every node
\* answer; the ticket accepted or refused; a version get_version parses
\* and one it does not.  Two VMs named "a" make the first-match rule
\* observable both within a node and across nodes.
CONSTANTS
  VmIds = {100, 101, 102}
  Names = {"a", "b"}
  VMName <- MCVMName
  NodeOrder <- MCNodeOrder
  Host = "a"
  Versions <- MCVersions
  Digits = {4, 7}
  MaxLen = 5
SPECIFICATION Spec
\* main_host returns or raises once: its last state has no successor.
CHECK_DEADLOCK FALSE
INVARIANTS
  TypeOK
  HostLookupSound
  LookupFailsOnlyBeforeHost
PROPERTIES
  Terminates
