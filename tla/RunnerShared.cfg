SPECIFICATION Spec
SYMMETRY Symmetry
VIEW View
CONSTANTS
  Sessions = {s1, s2, s3}
  Boxes = {b1}
  Digests = {d1, d2}
  None = None
  Rpcs = {"create", "exec", "export", "destroy", "list", "gc"}
  Faults = {"hangup", "kill", "git"}
  Overlap = FALSE
  Ttl = 1
  HardTtl = 2
  CreatingTtl = 2
  MaxBoxes = 2
  MaxClock = 1
INVARIANTS TypeOK BoxComplete ExportAlone
PROPERTIES RegistrySpec
CHECK_DEADLOCK FALSE
