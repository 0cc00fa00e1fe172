SPECIFICATION SessionSpec
CONSTANTS
  Reports <- MCReports
  Help <- MCHelp
  Sizes <- MCSizes
INVARIANTS SelectionIsShown ExitRestores ViewerIsRestored CleanupIsHonoured
PROPERTIES InterruptEnds
CHECK_DEADLOCK FALSE
