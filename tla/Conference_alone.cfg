SPECIFICATION Spec
CONSTANTS
  alice = alice
  bob = bob
  carol = carol
  Endpoint <- Endpoints
  Port <- Ports
  PortOf <- SharedPort
  MaxPackets = 1
  MaxArrivals = 1
  MaxArriving = 2
INVARIANTS
  AloneMeansOnePerson
CHECK_DEADLOCK FALSE
