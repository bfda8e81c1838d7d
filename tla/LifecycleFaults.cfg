CONSTANTS
  Operators = {o1, o2}
  MaxInstances = 3
  MaxTime = 1
  Faults = {"create", "destroy", "show", "boot", "slow", "stop", "kill"}
  None = None
SPECIFICATION Spec
SYMMETRY Interchangeable
INVARIANTS LifecycleInv CertificateIsOrdered CertificatesAdvance CertifiedHasRun DestructionOrdered
CHECK_DEADLOCK FALSE
