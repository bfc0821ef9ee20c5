SPECIFICATION Spec
CONSTANTS
  Executor = executor
  NoCloud = no_cloud
  NoEdge = no_edge
  DedupWindow = 1
  Stride = 1
  Proposal <- LoopOf
  MaxSubmaps = 3
  MaxSessions = 2
  UseOdomInput = FALSE
  UsePcdCache = FALSE
  SaveMapInLoop = FALSE
  MayThrow = FALSE
PROPERTIES
  MapSaveCoversStaged
