SPECIFICATION Spec
CONSTANTS
  ProbeIds <- MCProbeIds
  Severities <- MCSeverities
  Privileges <- MCPrivileges
  Runs <- MCRuns
INVARIANT UncollectedIsNoPass
CHECK_DEADLOCK FALSE
