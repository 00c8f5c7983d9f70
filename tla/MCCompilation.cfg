CONSTANTS
  Sources <- MCSources
  Files <- MCFiles
  NStreams = 2
  Fds = {0, 1, 2, 3, 4, 5, 6, 7, 8}
  Capacity = 1
  BufSize = 2
  MaxBytes = 3
  NoFd = NoFd
  Closed = Closed
SPECIFICATION FairCompilation
CHECK_DEADLOCK FALSE
INVARIANTS
  BackEndsAgree
  
  DescriptorsAccounted
  OpenMeansExecuted
  Delivered
PROPERTIES
  ClosesItsOwn
  CallsReturn
