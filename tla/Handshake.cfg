\* Three private scalars and two of the device, a wrong password, damaged packets; budgets below, at and above the ramp.
SPECIFICATION Spec
CONSTANTS
  p = 101
  a = 30
  b = 30
  gx = 10
  gy = 44
  n = 13
  w2m = 23
  m2w = 78
  Sha256 <- ToySha
  Md5 <- ToyMd5
  Budgets = {0, 1, 4500}
  Users <- SomeUsers
  Passwords <- SomePasswords
  Password <- Right
  Privs = {13, 21, 23}
  DevicePrivs = {5, 26}
  Salts <- SomeSalts
  Cols = 300
  Rows = 24
  JunkKeys <- SomeJunk
  Cuts = {0, 1, 3, 10}
  Room = 56
  md5SaltLen = 1
  ecsrpPubkeyLen = 2
INVARIANTS
  HandshakeTypeOK
  ScheduleSpendsBudget
  OpenBounded
  DeviceReadsWhatWasMeant
  CutPacketKeepsPrefix
  RightPasswordAccepted
