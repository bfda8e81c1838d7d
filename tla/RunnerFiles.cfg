\* Four runs, two of them for each output; the outputs have the same temporary path.
CONSTANTS
  r1 = r1  r2 = r2  r3 = r3  r4 = r4
  o1 = o1  o2 = o2
  t1 = t1  t2 = t2  w1 = w1
  Runs = {r1, r2, r3, r4}
  Outputs = {o1, o2}
  Paths = {t1, w1}
  OutputOf <- MCOutputOf
  TemporaryOf <- OneTemporary
  WitnessOf <- OneWitness
  None = None
SPECIFICATION Spec
INVARIANTS RunnerInv EvidenceIsBacked
PROPERTY FilesAreKept
CHECK_DEADLOCK FALSE
