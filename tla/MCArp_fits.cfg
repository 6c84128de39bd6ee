\* As many entries as addresses: nothing is ever evicted.
SPECIFICATION LiveSpec
CONSTANTS
  Entries = {e1, e2}
  FREE = FREE
  USED = USED
  NONE = NONE
  OurIp <- Us
  Ips <- TwoHosts
  MaxQueueSize = 2
  RetryMaxCount = 1
  RetryInterval = 1
  ExpirationInterval = 2
  MaxSends = 3
INVARIANTS TypeOK TableIntact QueuesMatch NoOvertaking SentToOwner
PROPERTY QueuedIsDecided
