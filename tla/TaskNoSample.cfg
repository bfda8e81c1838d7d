\* One task, one attempt and nothing that fails.
CONSTANTS
  Tasks = {t1}
  None = None
  Attempts = {a1}
  Epoch = epoch
  Policy = policy
  Erasure = erasure
  AuditorKey = auditor
  GatewayKey = gateway
  MaxFaults = 0
SPECIFICATION FairSpec
PROPERTY EverySealedEpochSettles
CHECK_DEADLOCK FALSE
