\* More addresses than entries: entries are evicted, and the lists decay.
SPECIFICATION Spec
CONSTANTS
  Entries = {e1, e2}
  FREE = FREE
  USED = USED
  NONE = NONE
  OurIp <- Us
  Ips <- ThreeHosts
  MaxQueueSize = 2
  RetryMaxCount = 1
  RetryInterval = 1
  ExpirationInterval = 1
  MaxSends = 4
INVARIANTS PacketsAccounted WalksStayInList
SYMMETRY EntrySymmetry
