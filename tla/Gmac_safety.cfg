\* Two descriptors per ring and two spare packets; the fourth frame may be a long one.
CONSTANTS
  PacketCount = 6
  TxCount = 2
  RxCount = 2
  WholeFrames = 3
  MaxBuffers = 5
SPECIFICATION LiveSpec
INVARIANTS TypeOK PacketConservation DmaBuffersReserved
PROPERTIES TxRingIsFifo RxRingIsFifo EarlyFrameIsTaken
\* The software may hang in `while (1);` and the GMAC may be disabled.
CHECK_DEADLOCK FALSE
