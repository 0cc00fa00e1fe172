SPECIFICATION Spec
CONSTANTS
  Lives <- MCReadable
  Half = 1
  Changes = 2
  Root <- MCRoot
  Entries <- MCEntries
  Tables <- MCTables
  Mountable <- MCMountable
  Mounts = 0
PROPERTY ExitedIsNotCounted
CHECK_DEADLOCK FALSE
