\* The default -auth-timeout of 10 s, and one key of everything.
SPECIFICATION Spec
CONSTANTS
  p = 101
  a = 30
  b = 30
  gx = 10
  gy = 44
  n = 13
  w2m = 23
  m2w = 78
  Sha256 <- ToySha
  Md5 <- ToyMd5
  Budgets = {10000}
  Users <- SomeUsers
  Passwords <- SomePasswords
  Password <- Right
  Privs = {21}
  DevicePrivs = {5}
  Salts <- SomeSalts
  Cols = 300
  Rows = 24
  JunkKeys <- SomeJunk
  Cuts = {0}
  Room = 56
  md5SaltLen = 1
  ecsrpPubkeyLen = 2
INVARIANT OpenWithinAuthPhase
