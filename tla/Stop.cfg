\* Up to three stop requests to `lidarslam start`, four supervisors deep.
SPECIFICATION FairSpec
CHECK_DEADLOCK FALSE
CONSTANTS
  Chain <- StartChain
  Reached <- Terminal
  Requests = 3
  Ways <- AnyWay
  Stops <- AnyTime
INVARIANTS
  NothingSurvives
  
  ResultIsDurable
PROPERTIES
  StopCompletes
