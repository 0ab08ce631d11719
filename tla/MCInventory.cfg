CONSTANTS
  VmIds = {100, 101}
  Names = {"a", "b"}
  VMName <- MCVMName
  NodeOrder <- MCNodeOrder
  RangeId = "r1"
  OtherPools <- MCOtherPools
  NoteGroups <- MCNoteGroups
  OsIds <- MCOsIds
  VMKinds <- MCKinds
SPECIFICATION Spec
\* main_list returns or raises once: its last state has no successor.
CHECK_DEADLOCK FALSE
INVARIANTS
  TypeOK
  RangeCompleteness
  IsolatedWhenPoolFound
  NoDuplicateGroupHosts
  NotesGroupsHonoured
PROPERTIES
  Terminates
