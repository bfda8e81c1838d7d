\* Two runs with outputs and temporary paths of their own and one witness path.
CONSTANTS
  r1 = r1  r2 = r2  r3 = r3  r4 = r4
  o1 = o1  o2 = o2
  t1 = t1  t2 = t2  w1 = w1
  Runs = {r1, r2}
  Outputs = {o1, o2}
  Paths = {t1, t2, w1}
  OutputOf <- SharingRuns
  TemporaryOf <- OwnTemporaries
  WitnessOf <- SharedWitness
  None = None
SPECIFICATION Spec
PROPERTY WitnessesAreKept
CHECK_DEADLOCK FALSE
