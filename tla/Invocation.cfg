SPECIFICATION Spec
CONSTANTS
  N = 3
  Concurrency = 2
  Label <- MCLabel
  Hosts <- MCHosts
  FailOns = {3, 5}
  SeverityOf <- MCSeverityOf
  Details <- MCDetails
  Builtins <- MCBuiltins
  Stored <- MCStored
  Limit <- MCLimit
  Signed <- MCSigned
  Manifests <- MCManifests
INVARIANTS OneReportEachInOrder PassIsEarned NothingIsHidden ExitMatchesDocument UnusableStartsNothing
PROPERTIES PackIsWhatWasSigned Terminates ImplementsFleetScan
CHECK_DEADLOCK FALSE
