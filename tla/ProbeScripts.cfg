SPECIFICATION Spec
CONSTANTS
  Lives <- MCLives
  Half = 2
  Changes = 2
  Root <- MCRoot
  Entries <- MCEntries
  Tables <- MCTables
  Mountable <- MCMountable
  Mounts = 2
INVARIANTS EveryProcessIsAccountedFor SuspectIsReported UnreadableIsPartial
PROPERTIES SampleIsLowHigh
CHECK_DEADLOCK FALSE
