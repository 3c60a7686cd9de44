SPECIFICATION FairSpec
CONSTANTS
  Serves = {s1, s2}
  Ops = {o1}
  Verbs = {}
  Grants = {g1, g2}
  NoOne = NoOne
  Garbled = Garbled
  NoGrant = NoGrant
  OpCommands = {"force", "stop"}
  VerbCommands = {}
  Faults = {"box"}
  P2pServes = {s2}
  WindingUpAttempts = 2
  MaxRoute = 2
PROPERTIES OthersUntouched SharesEnd
CHECK_DEADLOCK FALSE
