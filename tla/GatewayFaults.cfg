\* Three requests for two task ids, every fault: disk, committer, pod,
\* clients that hang up, a crash, and a wall clock that is set back.
CONSTANTS
  Requests = {r1, r2, r3}
  Tasks = {t1, t2}
  Opened = 0
  Closed = 1
  MaxTime = 1
  Faults = {"disk", "committer", "pod", "client", "crash", "clock"}
  Torn = Torn
  Lengths = {1, 2, 3, 4}
  MaxWord = 31
  Overflow = Overflow
  Policies <- MCPolicies
  Draws <- MCDraws
SYMMETRY Interchangeable
SPECIFICATION Spec
INVARIANTS
  GatewayInv
  TaskServedOnce
  SealedIsComplete
  JournalIsSigned
  RecordedBeforeRelease
  LeafIsBacked
  SealedIsTakenByTask
PROPERTY
  ImplementsLedger
CHECK_DEADLOCK FALSE
