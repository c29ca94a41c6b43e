\* Terminal data right behind END_AUTH.
SPECIFICATION Spec
CONSTANTS
  Mod = 1000
  Window = 100
  Writers = {}
  Closers = {}
  CpHeaderLen = 1
  MaxPayload = 2
  AckCap = 2
  CtlCap = 2
  AuthAttempts = 1
  DataAttempts = 2
  AuthLen = 3
  MaxCalls = 1
  MaxTicks = 0
  MaxOut = 50
  PeerStart = 500
  SaltLens = {16}
  EndAuthRecs <- EndAuthOnly
  Script <- ScriptTwo
  Events = {}
INVARIANT NothingLostAfterEndAuth
