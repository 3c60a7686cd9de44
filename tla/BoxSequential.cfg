CONSTANTS
  Procs = {p1}
  NoProc = NoProc
  Verbs = {"create", "run", "shell", "observe", "propose", "rebase", "apply", "abort", "gc", "rm", "rmForce", "share"}
  StartStates = {"absent", "created", "idle", "proposed", "applied", "aborted"}
  MaxOps = 5
  MaxCrashes = 1
SPECIFICATION Spec
INVARIANTS
  TypeOK
  OnlyReviewedLands
  EvidenceExists
  SyncNeverRollsBack
PROPERTIES
  FollowsMachine
CHECK_DEADLOCK FALSE
