\* One address to send to, with an ARP entry for it, one descriptor to transmit,
\* two to receive.
CONSTANTS
  PacketCount = 9
  TxCount = 1
  RxCount = 2
  WholeFrames = 0
  MaxBuffers = 4
  Hosts = {h1}
  Entries = {e1}
  FREE = FREE
  USED = USED
  NONE = NONE
  Everybody = Everybody
  MaxQueueSize = 2
  DhcpPort = 68
  TftpPort = 23456
  MaxPacketCount = 1
  HeaderLengths = {5, 6}
  HeaderSize = 144
  DatagramSizes = {"enough"}
SPECIFICATION StackLive
VIEW Shape
INVARIANTS StackTypeOK NothingLeaked NothingEvicted PoolSuffices HeaderRoom
PROPERTY TaskReturns
CHECK_DEADLOCK FALSE
