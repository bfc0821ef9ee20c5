\* Three threads on one session, reentrant or serialized.
SPECIFICATION FairSpec
CONSTANTS
  t1 = t1
  t2 = t2
  t3 = t3
  NoCaller = no_caller
  Callers <- ThreeThreads
  Cooperative = TRUE
INVARIANTS
  ResetFollowsTheLastCall
  BarrierWillOpen
  SerializedProviderIsAlone
PROPERTIES
  ShutdownReturns
