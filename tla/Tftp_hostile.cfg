\* Downloads that are given up and started again, server errors, and
\* another host that sends from one of the server's ports.
SPECIFICATION Spec
CONSTANTS
  Tids = {1024, 1025}
  StrayPorts = {1025}
  LastBlock = 2
  LastSize = 0
  BlockModulus = 8
  OackNumber = 6
  BufferSize = 512
  MaxFilenameLength = 4
  NamesShrink = FALSE
  ErrorCodes = {0}
  MayAbort = TRUE
  MaxDownloads = 2
  MaxLosses = 0
INVARIANT OneTransfer
CHECK_DEADLOCK FALSE
