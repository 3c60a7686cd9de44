SPECIFICATION FairSpec
CONSTANTS
  Viewers = {v1, v2}
  NoReading = NoReading
  Faults = {"join", "verb"}
  MaxRev = 3
  MaxQueue = 2
INVARIANTS TypeOK ReadingsHold NothingForgotten
PROPERTIES PacedDelivery PageIsShown
