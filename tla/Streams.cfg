\* An edge node and the nodes of the main domain come and go, two disturbances.
CONSTANTS
  NodeNames = {"n1"}
  Main = "main"
  Network = "net"
  Streams <- MCStreams
  MaxTries = 2
  MaxMoves = 3
  MaxMessages = 1
  MaxDisturbances = 2
SPECIFICATION FairSpec
INVARIANTS TypeOK KeptOnce
PROPERTIES DeleteClears StandardStreamsMade AggregatesFollow
CHECK_DEADLOCK FALSE
