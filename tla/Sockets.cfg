\* One session among others on the segment, SSH connections, a number to spare.
SPECIFICATION FairSpec
CONSTANTS
  Sessions = {"s1"}
  Vlans <- EitherVlan
  Keys = {1, 21}
  Segment <- Neighbourhood
  Fds = {3, 4, 5}
  PayloadLens = {0, 1478}
  IPIDs = {31420, 65534}
  MaxSends <- TwoSends
INVARIANTS
  SocketsTypeOK
  OwnDescriptorsUntilClosed
  DescriptorsReturned
  TakesOwnDatagrams
  ChecksumValid
PROPERTY
  CloseEndsRead
