SPECIFICATION HSpec
CONSTANTS
  Fds = {fd1, fd2}
  NoFd = NoFd
  MaxMsgs = 4
PROPERTY ImplementsSession
