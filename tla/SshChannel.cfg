\* A prompted and a flagged password, every event, requests in any order.
SPECIFICATION FairSpec
CONSTANTS
  Packets <- TwoPackets
  Commands = {"mactelnet", "mactelnet -p", "query", "bad"}
  Sizes = {"s1"}
  WinchCap = 1
  BufSize = 7
  WriteLimit = 2
  MaxPassLen = 1
  MaxReqs = 2
  MaxOutput = 1
  Events = {"shutdown", "clientClose", "eof", "deviceEnd", "openFails", "linkFails"}
INVARIANTS
  SshTypeOK
  OneReader
  StreamIntact
  ReleasedBeforeClose
PROPERTIES
  NothingLeaks
  PromptEnds
