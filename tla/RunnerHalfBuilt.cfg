SPECIFICATION Spec
SYMMETRY Symmetry
CONSTANTS
  Sessions = {s1, s2, s3}
  Boxes = {b1}
  Digests = {d1}
  None = None
  Rpcs = {"create"}
  Faults = {"hangup"}
  Overlap = TRUE
  Ttl = 1
  HardTtl = 2
  CreatingTtl = 3
  MaxBoxes = 2
  MaxClock = 2
INVARIANTS BoxComplete

CHECK_DEADLOCK FALSE
