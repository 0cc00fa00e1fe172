SPECIFICATION Spec
CONSTANTS
  ProbeIds <- MCProbeIds
  Severities <- MCSeverities
  Privileges <- MCPrivileges
  Runs <- MCRuns
INVARIANTS SectionsAreWhole NoSilentPass EvidenceIsQualified TruncationIsFatal StrictExitIsComplete
CHECK_DEADLOCK FALSE
