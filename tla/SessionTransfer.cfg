\* Two concurrent callers of Write or Resize, a keepalive, two packets of terminal data; any send may fail.
SPECIFICATION Spec
CONSTANTS
  Mod = 1000
  Window = 100
  Writers = {w1, w2}
  Closers = {}
  CpHeaderLen = 1
  MaxPayload = 2
  AckCap = 2
  CtlCap = 2
  AuthAttempts = 1
  DataAttempts = 2
  AuthLen = 3
  MaxCalls = 1
  MaxTicks = 1
  MaxOut = 50
  PeerStart = 500
  SaltLens = {16}
  EndAuthRecs <- EndAuthOnly
  Script <- ScriptTwo
  Events = {"sendErr"}
SYMMETRY WriterSymmetry
INVARIANTS
  TypeOK
  ConfirmedDelivered
  PeerStreamInOrder
  DeliveredContiguous
  OpenedMeansAuthenticated
PROPERTY
  ImplementsStream
