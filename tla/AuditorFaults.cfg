CONSTANTS
  Calls = {c1, c2}
  Paths = {p1, p2}
  Roots = {r1, r2}
  NoRoot = NoRoot
  None = None
  Torn = Torn
  Opened = 1
  Closed = 2
  MaxTime = 3
  MaxSeeds = 2
  MaxJournal = 2
  Faults = {"disk", "network", "crash", "clock"}
SPECIFICATION Spec
SYMMETRY Interchangeable
INVARIANTS AuditorInv ReleasedOnce ReleasedIsJournaled SignedPairHolds SeedsAreFresh
CHECK_DEADLOCK FALSE
