SPECIFICATION Spec
CONSTANTS
  Worker = {w1, w2}
  Deal = {d1, d2}
  LineItem = {l1}
  Token = {t1, t2, t3, t4}
  None = None
  Stages = {"create"}
  Faults = {"move"}
  MaxEdits = 3
  MaxReceives = 1
INVARIANT SingleWriter
CHECK_DEADLOCK FALSE
