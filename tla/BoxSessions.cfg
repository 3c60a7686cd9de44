CONSTANTS
  Procs = {p1, p2, p3}
  NoProc = NoProc
  Verbs = {"run", "observe", "propose", "rebase", "apply", "abort", "gc", "rm", "rmForce", "share"}
  StartStates = {"idle", "proposed", "aborted"}
  MaxOps = 3
  MaxCrashes = 1
SYMMETRY Symmetry
SPECIFICATION Spec
INVARIANTS
  OneWriter
  ManifestOutlivesBox
  NeverStuck
PROPERTIES
  NoPruneUnderSession
  ShareFreezesBox
CHECK_DEADLOCK FALSE
