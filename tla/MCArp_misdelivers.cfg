\* More addresses than entries: a packet for an evicted address is misdelivered.
SPECIFICATION Spec
CONSTANTS
  Entries = {e1, e2}
  FREE = FREE
  USED = USED
  NONE = NONE
  OurIp <- Us
  Ips <- ThreeHosts
  MaxQueueSize = 2
  RetryMaxCount = 1
  RetryInterval = 1
  ExpirationInterval = 2
  MaxSends = 5
INVARIANT SentToOwner
