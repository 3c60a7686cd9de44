SPECIFICATION Spec
SYMMETRY Symmetry
CONSTANTS
  Serves = {s1}
  Ops = {o1, o2, o3}
  Verbs = {}
  Grants = {g1, g2}
  NoOne = NoOne
  Garbled = Garbled
  NoGrant = NoGrant
  OpCommands = {"grant", "revoke", "stop", "force"}
  VerbCommands = {}
  Faults = {"timeout", "signal", "corrupt", "recycle"}
  P2pServes = {}
  WindingUpAttempts = 2
  MaxRoute = 1
INVARIANTS TypeOK StopSticks StoppedBeforeOpening AnswersHold
CHECK_DEADLOCK FALSE
