\* A file whose last block is not empty, from a server that may start two
\* transfers; datagrams are lost.
SPECIFICATION LiveSpec
CONSTANTS
  Tids = {1024, 1025}
  StrayPorts = {}
  LastBlock = 3
  LastSize = 100
  BlockModulus = 8
  OackNumber = 6
  BufferSize = 512
  MaxFilenameLength = 4
  NamesShrink = FALSE
  ErrorCodes = {}
  MayAbort = FALSE
  MaxDownloads = 1
  MaxLosses = 2
INVARIANTS TypeOK OwnTransferLives FinishedTogether
PROPERTIES IsDownload DownloadEnds
CHECK_DEADLOCK FALSE
