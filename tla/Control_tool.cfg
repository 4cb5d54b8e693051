CONSTANTS
  Threads <- MCThreads
  Cpu = {1, 2}
  Sizes <- MCSizes
  CONFIG_BUFFER_SIZE = 8
  PageSize = 4
  FetchSize = 1
  MaxEvent = 2
  MaxTool = 2
SPECIFICATION Spec
INVARIANTS  FileIsSnapshot  
CHECK_DEADLOCK FALSE
