\* Odometry and clouds, the PCD cache, saves in the loop, failing work.
SPECIFICATION Spec
CONSTANTS
  Executor = executor
  NoCloud = no_cloud
  NoEdge = no_edge
  DedupWindow = 1
  Stride = 1
  Proposal <- LoopOf
  MaxSubmaps = 4
  MaxSessions = 1
  UseOdomInput = TRUE
  UsePcdCache = TRUE
  SaveMapInLoop = TRUE
  MayThrow = TRUE
INVARIANTS
  SearchIsOwed
  CloudsBelongToPoses
PROPERTIES
  MapSaveCoversStaged
  BatchingIsUnobservable
