CONSTANTS
  Calls = {c1, c2}
  Paths = {p1}
  Roots = {r1}
  NoRoot = NoRoot
  None = None
  Torn = Torn
  Opened = 1
  Closed = 2
  MaxTime = 3
  MaxSeeds = 2
  MaxJournal = 3
  Faults = {"disk", "network", "clock"}
SPECIFICATION FairSpec
PROPERTY OfferIsSettled
CHECK_DEADLOCK FALSE
