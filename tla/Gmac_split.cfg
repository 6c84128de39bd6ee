\* Frames longer than a buffer: the receive ring stalls behind the first one.
CONSTANTS
  PacketCount = 6
  TxCount = 1
  RxCount = 3
  WholeFrames = 0
  MaxBuffers = 4
SPECIFICATION LiveSpec
PROPERTY StoredFrameIsTaken
\* The software may hang in `while (1);` and the GMAC may be disabled.
CHECK_DEADLOCK FALSE
