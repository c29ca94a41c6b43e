\* More control records after END_AUTH than controlCh holds, and nobody calls Close.
SPECIFICATION FairSpec
CONSTANTS
  Mod = 1000
  Window = 100
  Writers = {}
  Closers = {}
  CpHeaderLen = 1
  MaxPayload = 2
  AckCap = 2
  CtlCap = 1
  AuthAttempts = 1
  DataAttempts = 2
  AuthLen = 3
  MaxCalls = 1
  MaxTicks = 0
  MaxOut = 50
  PeerStart = 500
  SaltLens = {16}
  EndAuthRecs <- EndAuthMore
  Script <- ScriptWedge
  Events = {}
CHECK_DEADLOCK FALSE
PROPERTY RxRunsUntilClosed
