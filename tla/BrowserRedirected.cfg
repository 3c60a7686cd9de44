SPECIFICATION Spec
SYMMETRY Symmetry
CONSTANTS
  Agents = {c1}
  Operators = {}
  AgentVerbs = {"open", "new", "snapshot", "act", "status"}
  OperatorVerbs = {}
  Ids = {a, b}
  Watched = {}
  Limited = {}
  None = None
  Places = {"box"}
  Faults = {"crash"}
  Mortal = {}
  MaxCrowd = 4
INVARIANTS VerbsReachTheirOwn
CHECK_DEADLOCK FALSE
