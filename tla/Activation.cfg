\* Three overlapping transactions on one set of slots, two candidates.
SPECIFICATION Spec
CONSTANTS
  t1 = t1
  t2 = t2
  t3 = t3
  Built = Built
  External = External
  NoSession = NoSession
  Transactions = {t1, t2, t3}
  Sessions = {Built, External}
  Contract <- MCContract
  WithContract = TRUE
INVARIANTS
  UndoneMeansRestored
  SlotsAreCoherent
  LeaseOutlivesPlugin
SYMMETRY Symmetry
CHECK_DEADLOCK FALSE
