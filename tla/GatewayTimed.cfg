\* Two tasks; a wall clock that advances from before the window to after it; the committer
\* and the pod may fail; no client hangs up and no process dies.  Bodies of 1, 2, 3 and 4
\* bytes, the last of which has more bits than a word can count.
CONSTANTS
  Requests = {r1, r2}
  Tasks = {t1, t2}
  Opened = 1
  Closed = 2
  MaxTime = 3
  Faults = {"committer", "pod"}
  Torn = Torn
  Lengths = {1, 2, 3, 4}
  MaxWord = 31
  Overflow = Overflow
  Policies <- MCPolicies
  Draws <- MCDraws
SPECIFICATION FairSpec
INVARIANTS
  SealedIsOrdered
  GatewayTimeInv
  SealedIsWellFormed
  SealedIsTakenByPod
PROPERTIES
  AdmittedTaskEnds
  EpochSettles
CHECK_DEADLOCK FALSE
