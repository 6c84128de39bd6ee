\* Two ports, three connections: ports listened on twice, a table that runs out.
\* The program ends when udp_listen crashes: no deadlock check.
SPECIFICATION Spec
CONSTANTS
  ConnectionCount = 3
  Ports = {68, 69}
  MaxCounts = {1, 2}
  MaxDatagrams = 4
INVARIANTS TypeOK DatagramsAccounted
PROPERTY PortsAreMailboxes
CHECK_DEADLOCK FALSE
