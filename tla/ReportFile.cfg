SPECIFICATION Spec
CONSTANTS
  Runs <- MCRuns
  PidOf <- MCPidOf
  Attempts = 2
  Size = 2
  Old = Old
  a = a
  b = b
INVARIANTS DestIsWhole DestSurvivesPowerLoss OwnsItsTemp
PROPERTIES OnlySuccessReplaces EveryRunEnds
CHECK_DEADLOCK FALSE
