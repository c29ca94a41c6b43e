\* A paste longer than one datagram.
SPECIFICATION Spec
CONSTANTS
  Packets <- Paste
  Commands = {"mactelnet"}
  Sizes = {"s1"}
  WinchCap = 1
  BufSize = 4
  WriteLimit = 2
  MaxPassLen = 1
  MaxReqs = 1
  MaxOutput = 0
  Events = {}
CHECK_DEADLOCK FALSE
INVARIANT WritesFit
