SPECIFICATION Spec
CONSTANTS
  Sessions = {s1, s2}
  PIDs = {p1, p2}
  Reachable = {s1, s2}
  Forking = {s1}
  Other = Other
INVARIANTS NothingOutlivesExecute KillsOnlyItsOwn RegistryHoldsCollectors ListedGroupsDieFirst
PROPERTIES EveryCallReturns
CHECK_DEADLOCK FALSE
