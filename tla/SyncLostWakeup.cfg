SPECIFICATION FairSpec
CONSTANTS
  Worker = {w1, w2}
  Deal = {d1}
  LineItem = {l1}
  Token = {t1, t2, t3}
  None = None
  Stages = {"create"}
  Faults = {}
  MaxEdits = 2
  MaxReceives = 1
PROPERTY Converges
CHECK_DEADLOCK FALSE
