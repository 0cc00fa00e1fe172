SPECIFICATION Spec
CONSTANTS
  Sessions = {s1, s2}
  PIDs = {p1, p2}
  Reachable = {s1, s2}
  Forking = {}
  Other = Other
INVARIANT InterruptLeavesNothing
CHECK_DEADLOCK FALSE
