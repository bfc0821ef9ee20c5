\* Two callers that wait for a drain, beside the timer and the destructor.
SPECIFICATION FairSpec
CONSTANTS
  c1 = c1
  c2 = c2
  Callers <- TwoCallers
INVARIANTS
  NoLostWakeup
  ReplyTellsTheTruth
PROPERTIES
  StopIsFinal
  FailureIsReported
  EveryCallReturns
  RequestedDrainStarts
  StopReturns
