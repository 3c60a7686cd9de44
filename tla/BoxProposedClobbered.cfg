CONSTANTS
  Procs = {p1, p2}
  NoProc = NoProc
  Verbs = {"run", "propose"}
  StartStates = {"idle"}
  MaxOps = 2
  MaxCrashes = 0
SPECIFICATION Spec
PROPERTIES
  ProposedNotClobbered
CHECK_DEADLOCK FALSE
