SPECIFICATION Spec
CONSTANTS
  Sessions = {s1}
  PIDs = {p1, p2}
  Reachable = {}
  Forking = {}
  Other = Other
PROPERTY TimeoutTerminates
CHECK_DEADLOCK FALSE
