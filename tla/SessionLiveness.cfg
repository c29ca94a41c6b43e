\* One caller of Resize and one of Close against a receive loop that fails; more
\* control records than controlCh holds.
SPECIFICATION FairSpec
CONSTANTS
  Mod = 1000
  Window = 100
  Writers = {w1}
  Closers = {c1}
  CpHeaderLen = 1
  MaxPayload = 1
  AckCap = 1
  CtlCap = 1
  AuthAttempts = 1
  DataAttempts = 1
  AuthLen = 3
  MaxCalls = 1
  MaxTicks = 0
  MaxOut = 50
  PeerStart = 500
  SaltLens = {17, 49}
  EndAuthRecs <- EndAuthMore
  Script <- ScriptWedge
  Events = {"readErr", "cancel", "peerEnd"}
INVARIANTS
  SocketClosedOnce
  
PROPERTIES
  RxRuns
  WriteReturns
  OpenReturns
  CloseReturns
  ShutdownCompletes
