SPECIFICATION Spec
CONSTANTS
  Worker = {w1, w2}
  Deal = {d1, d2}
  LineItem = {l1}
  Token = {t1, t2, t3, t4}
  None = None
  Stages = {"create"}
  Faults = {"move", "crash", "reply"}
  MaxEdits = 2
  MaxReceives = 2
SYMMETRY Symmetry
INVARIANT HolderOwnsRow
CHECK_DEADLOCK FALSE
