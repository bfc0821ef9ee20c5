\* A full disk and signals at any point of a soak of several map runs.
SPECIFICATION FairSpec
CHECK_DEADLOCK FALSE
CONSTANTS
  Target = 3
  MaxIteration = 2
  Interval = 1
  Faults = {"disk", "signal"}
INVARIANTS
  PassedIsEarned
PROPERTIES
  EvidenceOnlyGrows
  SoakEnds
