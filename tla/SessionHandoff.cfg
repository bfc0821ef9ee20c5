\* Every write fails at will, and Ctrl-C comes at any point of the helper.
SPECIFICATION FairSpec
CHECK_DEADLOCK FALSE
CONSTANTS
  Faults = {"json", "html", "recovery", "interrupt"}
  Viewer = TRUE
INVARIANTS
  IndexClaimsNothingEarly
PROPERTIES
  ProgressNeverGoesBack
  LastWordStays
  StageIsShown
