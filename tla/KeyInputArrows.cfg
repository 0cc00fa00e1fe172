SPECIFICATION Spec
CONSTANTS
  Keys = {"j", "Down", "Home", "PageDown"}
  MaxKeys = 2
INVARIANT KeysAreHandledAsPressed
CHECK_DEADLOCK FALSE
