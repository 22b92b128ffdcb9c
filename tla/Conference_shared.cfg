SPECIFICATION FairSpec
CONSTANTS
  alice = alice
  bob = bob
  carol = carol
  Endpoint <- Endpoints
  Port <- Ports
  PortOf <- SharedPort
  MaxPackets = 2
  MaxArrivals = 2
  MaxArriving = 2
INVARIANTS
  TypeOK
  NoSelfEcho
  InOrderOnce
PROPERTIES
  QueuesDrain
CHECK_DEADLOCK FALSE
