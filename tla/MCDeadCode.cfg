CONSTANTS
  Sources <- MCDeadCode
  Files <- MCFiles
  NStreams = 1
  Fds = {0, 1, 2, 3, 4, 5, 6, 7}
  Capacity = 1
  BufSize = 2
  MaxBytes = 1
  NoFd = NoFd
  Closed = Closed
SPECIFICATION Compilation
CHECK_DEADLOCK FALSE
INVARIANTS
  BackEndsAgree
