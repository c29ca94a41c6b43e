\* Two datagrams, cut or whole, and a window that is no multiple of the read deadline.
SPECIFICATION FairSpec
CONSTANTS
  Announcements <- MCAnnouncements
  Cuts = {8, 9, 10, 13, 16}
  IPs = {ip1, ip2}
  minPacketLen = 9
  maxPacketBuf = 14
  mndpMaxStringLen = 3
  Timeouts = {0, 3}
  Slice = 2
  QueueCap = 1
  MaxArrivals = 2
  Events = {"bindErr", "readErr", "cancel", "outErr"}
INVARIANTS
  MndpTypeOK
  LatestPerDevice
  EndsOnTime
  PrintsAllKnown
PROPERTY DiscoverReturns
