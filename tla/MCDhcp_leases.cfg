\* Two servers with different netmasks; an address may be lost to another
\* client, and a datagram by the network.  Time and the losses are bounded: the
\* system stops when they are used up.
SPECIFICATION LiveSpec
CONSTANTS
  ipA = ipA
  ipB = ipB
  s1 = s1
  s2 = s2
  NONE = NONE
  Ips = {ipA, ipB}
  Pool <- TwoServers
  NetmaskOf <- BothMasks
  LeaseSeconds = 4
  Milliseconds = 1
  WordModulus = 32
  NackHasLease = TRUE
  BroadcastReplies = TRUE
  MayRelease = TRUE
  MaxTaken = 1
  MaxLosses = 1
  MaxTicks = 5
  MaxOnWire = 3
INVARIANTS TypeOK ConfiguredAsGranted
PROPERTIES LeaseIsGivenUp AddressObtained
CHECK_DEADLOCK FALSE
