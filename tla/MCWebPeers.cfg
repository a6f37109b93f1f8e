SPECIFICATION PeersFairSpec
CONSTANTS
  Peer = {"a", "b"}
  Says <- Kinds
INVARIANTS
  PeersTypeOK
  StoppedIsEmpty
  NothingForgotten
PROPERTIES
  PeersSettle
CHECK_DEADLOCK FALSE
