SPECIFICATION FairSpec
CONSTANTS
  c1 = c1
  c2 = c2
  s1 = s1
  s2 = s2
  Conns = {c1, c2}
  Streams = {s1, s2}
  ConnOf <- OnConns
  Ours = {g, h}
  Theirs = {x}
  NoGrant = NoGrant
  Transports = {"tunnel", "p2p"}
  MaxLive = 1
INVARIANTS TypeOK SettledIsWhole NoLateEntry OneTicket
PROPERTIES EndingIsTrue CutOff ShareEnds
CHECK_DEADLOCK FALSE
