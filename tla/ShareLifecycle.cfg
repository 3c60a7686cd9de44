SPECIFICATION Spec
SYMMETRY Symmetry
CONSTANTS
  Serves = {s1, s2}
  Ops = {o1}
  Verbs = {v1}
  Grants = {g1, g2}
  NoOne = NoOne
  Garbled = Garbled
  NoGrant = NoGrant
  OpCommands = {"grant", "stop"}
  VerbCommands = {"apply", "rm"}
  Faults = {"kill", "box", "expire", "gate"}
  P2pServes = {}
  WindingUpAttempts = 2
  MaxRoute = 2
INVARIANTS ServingOwnsRecord NoShareUnderVerb
PROPERTY DoorSpec
CHECK_DEADLOCK FALSE
