SPECIFICATION Spec
CONSTANTS
  N = 6
  Concurrency = 2
  Hosts <- MCHosts
  Handler = {"ok", "BrokenPipe", "Other", "panic"}
  FailOns = {3, 4}
INVARIANTS TypeOK BoundedRunAhead StopBound OnePlaceEach JoinedCountsAll ExitIsHonest
PROPERTIES Terminates ImplementsFleetScan
CHECK_DEADLOCK FALSE
