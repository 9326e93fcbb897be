SPECIFICATION Spec
CONSTANTS
  Fds = {fd1, fd2}
  NoFd = NoFd
  MaxMsgs = 5
SYMMETRY Symmetry
INVARIANTS TypeOK FramesWrapBuffers ClosedImagesLeave NoImageOfOldSession NoContentClears StartedWhileMirroring
PROPERTY StopAfterSilence
