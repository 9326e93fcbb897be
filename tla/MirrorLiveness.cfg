SPECIFICATION FairSpec
CONSTANTS
  Fds = {fd1, fd2}
  NoFd = NoFd
  MaxMsgs = 3
PROPERTIES SilenceClears NoContentReaches FrameReaches
