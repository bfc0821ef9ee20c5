\* Whole map arrays of one frontend run, with the PCD cache and failing work.
SPECIFICATION FairSpec
CONSTANTS
  Executor = executor
  NoCloud = no_cloud
  NoEdge = no_edge
  DedupWindow = 1
  Stride = 1
  Proposal <- LoopOf
  MaxSubmaps = 3
  MaxSessions = 1
  UseOdomInput = FALSE
  UsePcdCache = TRUE
  SaveMapInLoop = FALSE
  MayThrow = TRUE
PROPERTIES
  
  EverySubmapIsSearched
  MapSaveIsAnswered
  InterruptEndsTheNode
