\* Two tasks, two attempts at a time, three failures.
CONSTANTS
  Tasks = {t1, t2}
  None = None
  Attempts = {a1, a2}
  Epoch = epoch
  Policy = policy
  Erasure = erasure
  AuditorKey = auditor
  GatewayKey = gateway
  MaxFaults = 3
SPECIFICATION FairSpec
INVARIANT ComponentInv
PROPERTIES PublishedOnce ComponentSettles
CHECK_DEADLOCK FALSE
