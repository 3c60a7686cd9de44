SPECIFICATION FairSpec
CONSTANTS
  Agents = {c1}
  Operators = {c2}
  AgentVerbs = {"open", "snapshot", "act", "close"}
  OperatorVerbs = {"close", "rmforce", "boxrm", "take", "release"}
  Ids = {a, b}
  Watched = {a}
  Limited = {b}
  None = None
  Places = {"host", "box"}
  Faults = {"crash", "slow", "fail"}
  Mortal = {c2}
  MaxCrowd = 3
INVARIANTS TypeOK NoOrphans StopIsReal OneEnginePerBox
PROPERTIES ControlComesBack
CHECK_DEADLOCK FALSE
