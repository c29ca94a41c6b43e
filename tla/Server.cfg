\* Crashes, failed writes, edits and signals at any point, two clients.
SPECIFICATION FairSpec
CONSTANTS
  Conns = {c1, c2}
  PubKeys = {k1}
  MaxBoots = 2
  MaxEdits = 2
  MaxHups = 2
  Events = {"crash", "term", "fsErr", "listenErr"}
  Missing = Missing
  Torn = Torn
CHECK_DEADLOCK FALSE
INVARIANTS
  HostKeyStable
  KeysCurrentWhenIdle
PROPERTIES
  ReloadTakesEffect
  StopsOnSignal
