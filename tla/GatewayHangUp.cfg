\* The only fault is a client that hangs up; every handler that still runs is
\* scheduled, and the committer and the pod answer.
CONSTANTS
  Requests = {r1, r2}
  Tasks = {t1, t2}
  Opened = 0
  Closed = 1
  MaxTime = 1
  Faults = {"client"}
  Torn = Torn
SPECIFICATION FairSpec
PROPERTIES
  FailureAborts
CHECK_DEADLOCK FALSE
